---------------------------- MODULE MCLifecycle ----------------------------
(* Instances of Lifecycle for TLC. *)
EXTENDS Lifecycle

\* One request of each kind.
MCKinds ==
  [r \in Requests |-> CASE r = "chat" -> "v1" [] r = "stream" -> "stream" [] OTHER -> "v2"]
=============================================================================
