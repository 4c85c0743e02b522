---------------------------- MODULE MCRetryLoop ----------------------------
(* Instances of RetryLoop for TLC. *)
EXTENDS RetryLoop

\* An answer that comes at once, and one of two seconds.
MCLatencies == {0, 2000}
=============================================================================
