------------------------------ MODULE ForkJoin ------------------------------
(***************************************************************************)
(* What execution_node promises the rest of the graph: a planned list of   *)
(* sub-tasks is answered as if in one step.  Nothing of the outcome is     *)
(* visible while the tasks run; the join publishes one result per task,    *)
(* together with a flag that is raised exactly when one of them failed;    *)
(* and a published outcome never changes.                                  *)
(***************************************************************************)
EXTENDS Naturals

CONSTANTS Requests, MaxTasks

VARIABLES
  phase,    \* "open", "forked" or "joined"
  results,  \* one of "facts" and "apology" per task, once joined
  failed    \* the outcome's error flag

Results == UNION {[1..n -> {"facts", "apology"}] : n \in 0..MaxTasks}

NoResult == [i \in 1..0 |-> "facts"]

Init ==
  /\ phase = [r \in Requests |-> "open"]
  /\ results = [r \in Requests |-> NoResult]
  /\ failed = [r \in Requests |-> FALSE]

Fork(r) ==
  /\ phase[r] = "open"
  /\ phase' = [phase EXCEPT ![r] = "forked"]
  /\ UNCHANGED <<results, failed>>

Join(r) ==
  /\ phase[r] = "forked"
  /\ phase' = [phase EXCEPT ![r] = "joined"]
  /\ \E res \in Results :
       /\ results' = [results EXCEPT ![r] = res]
       /\ failed' = [failed EXCEPT ![r] = \E i \in DOMAIN res : res[i] = "apology"]

Next == \E r \in Requests : Fork(r) \/ Join(r)

Spec == Init /\ [][Next]_<<phase, results, failed>>
=============================================================================
