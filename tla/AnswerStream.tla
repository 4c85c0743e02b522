---------------------------- MODULE AnswerStream ----------------------------
(***************************************************************************)
(* What a V1 stream promises, of its client and of the stores: lines reach *)
(* the client one by one; when there are no more, the text that is kept is *)
(* what they showed, whatever the client does meanwhile; and the client    *)
(* sees the end only when the stores have had that text.                   *)
(***************************************************************************)
EXTENDS Naturals, Sequences

CONSTANTS Requests, Lines

VARIABLES
  phase,  \* "idle", "open", "settled", "stored" or "ended"
  out,    \* the lines that reached the client
  kept    \* the numbers of those whose text is kept

\* The SSE reading of a stream: a line belongs to the event line that precedes it
\* with no empty line in between.
EventOf(lines, i) ==
  LET marks == {j \in 1..(i-1) : lines[j] \in {"hide", "event", "blank"}}
  IN IF marks = {} THEN "blank" ELSE lines[CHOOSE j \in marks : \A k \in marks : k =< j]

\* What a person is shown: text, but not that of a status or of metadata.
Shown(lines) ==
  {i \in DOMAIN lines : lines[i] = "token" /\ EventOf(lines, i) # "hide"}

Init ==
  /\ phase = [r \in Requests |-> "idle"]
  /\ out = [r \in Requests |-> <<>>]
  /\ kept = [r \in Requests |-> {}]

Pass(r, from, to) ==
  /\ phase[r] = from
  /\ phase' = [phase EXCEPT ![r] = to]

Open(r) == Pass(r, "idle", "open") /\ UNCHANGED <<out, kept>>

Emit(r) ==
  /\ phase[r] = "open"
  /\ \E line \in Lines : out' = [out EXCEPT ![r] = Append(@, line)]
  /\ UNCHANGED <<phase, kept>>

Settle(r) ==
  /\ Pass(r, "open", "settled")
  /\ kept' = [kept EXCEPT ![r] = Shown(out[r])]
  /\ UNCHANGED out

Store(r) == Pass(r, "settled", "stored") /\ UNCHANGED <<out, kept>>

End(r) == Pass(r, "stored", "ended") /\ UNCHANGED <<out, kept>>

Next == \E r \in Requests : Open(r) \/ Emit(r) \/ Settle(r) \/ Store(r) \/ End(r)

Spec == Init /\ [][Next]_<<phase, out, kept>>
=============================================================================
