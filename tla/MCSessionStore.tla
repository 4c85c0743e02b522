--------------------------- MODULE MCSessionStore ---------------------------
(* Instances of SessionStore for TLC. *)
EXTENDS SessionStore, TLC

CONSTANTS t1, t2, t3

\* Turns of one client with a ULID.
MCOneClient == [t \in Turns |-> "ann"]
MCUlid == [c \in Clients |-> "01J"]

\* t1 and t2 belong to clients that send no session header, t3 sends a bad one.
MCThreeClients == [t \in Turns |-> IF t = t1 THEN "ann" ELSE IF t = t2 THEN "bob" ELSE "cyd"]
MCAnonymous == [c \in Clients |-> IF c = "cyd" THEN BadHeader ELSE NoHeader]

TurnSymmetry == Permutations(Turns)
=============================================================================
