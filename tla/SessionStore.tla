---------------------------- MODULE SessionStore ----------------------------
(***************************************************************************)
(* The conversation histories of the V1 API: one Redis list per session    *)
(* (SessionStore), read at the start of a turn and extended after it by a  *)
(* goroutine that calls SaveSession twice, for the user's line and for the *)
(* bot's.  Each call retries (executeWithRetry), and each attempt may be   *)
(* sent again by the Redis driver.  A pipeline whose attempt timed out may *)
(* still reach Redis later, or never.                                      *)
(*                                                                         *)
(* Abstracted: a line is its turn and its speaker; durations are left out, *)
(* so an attempt may time out at any moment after it was started.          *)
(***************************************************************************)
EXTENDS Integers, FiniteSets, SequencesExt

CONSTANTS
  Turns,        \* requests to /chat
  Clients,      \* who sends them
  ClientOf,     \* the client of a turn
  Header,       \* X-Pisces-Session-ID of a client: a ULID, NoHeader or BadHeader
  NoHeader,     \* no header: the session id is the empty string
  BadHeader,    \* not a ULID
  HistoryLimit, \* FeatureState.ContextHistoryLimit (20 in the code)
  MaxRetries,   \* RetryConfig.MaxRetries of the session store (2 in the code)
  DriverSends   \* times the driver may send one attempt (go-redis: 1 + 3)

ASSUME SessionAssumption ==
  /\ ClientOf \in [Turns -> Clients]
  /\ DOMAIN Header = Clients
  /\ HistoryLimit \in Nat \ {0}
  /\ MaxRetries \in Nat
  /\ DriverSends \in Nat \ {0}

VARIABLES
  list,     \* the Redis list of every key
  place,    \* where the turn's goroutines are
  history,  \* what GetSession returned to the turn
  op,       \* the SaveSession call in progress
  attempt,  \* its loop counter in executeWithRetry
  sends,    \* times the driver sent the current attempt
  wire,     \* sent copies of each line that Redis has not yet executed
  saved,    \* what became of each SaveSession call (its result is discarded)
  up        \* the gateway process runs

vars == <<list, place, history, op, attempt, sends, wire, saved, up>>

-----------------------------------------------------------------------------
(* Data *)

Speakers == {"User", "Bot"}

Line == [turn : Turns, who : Speakers]

\* ParseRequestMetadata and HandleChatV1: a header that is not a ULID turns the
\* session off; no header leaves the empty session id, which is a key like another.
NoSession(t) == Header[ClientOf[t]] = BadHeader

Key(t) == Header[ClientOf[t]]

Keys == {Header[c] : c \in Clients} \ {BadHeader}

Places == {"idle", "answering", "saving", "done"}

Outcomes == {"pending", "ok", "gave up", "wiped"}

\* LRANGE 0 (limit-1).
Window(k) == SubSeq(list[k], 1, IF Len(list[k]) < HistoryLimit THEN Len(list[k])
                                                               ELSE HistoryLimit)

-----------------------------------------------------------------------------
(* The turn *)

\* A turn that goes on without a history when it cannot read one.
BuggyGetSession(t) ==
  /\ up
  /\ place[t] = "idle"
  /\ place' = [place EXCEPT ![t] = "answering"]
  /\ \/ history' = IF NoSession(t) THEN history
                   ELSE [history EXCEPT ![t] = Window(Key(t))]
     \/ UNCHANGED history
  /\ UNCHANGED <<list, op, attempt, sends, wire, saved, up>>

\* ExecuteWithSession and ExecuteStreamWithSession up to the pipeline.  When all
\* attempts to read fail, the turn ends at once and saves nothing.
GetSession(t) ==
  /\ up
  /\ place[t] = "idle"
  /\ \/ /\ place' = [place EXCEPT ![t] = "answering"]
        /\ history' = IF NoSession(t) THEN history
                      ELSE [history EXCEPT ![t] = Window(Key(t))]
     \/ /\ ~NoSession(t)
        /\ place' = [place EXCEPT ![t] = "done"]
        /\ UNCHANGED history
  /\ UNCHANGED <<list, op, attempt, sends, wire, saved, up>>

\* The answer is there: the goroutine that saves the turn starts.  A blocking turn
\* saves whatever it answered; a stream may have nothing to save (no text, the bot
\* out of reach, or a question for which there is no bot).
Answered(t) ==
  /\ up
  /\ place[t] = "answering"
  /\ \E next \in {"saving", "done"} :
       /\ NoSession(t) => next = "done"
       /\ place' = [place EXCEPT ![t] = next]
  /\ UNCHANGED <<list, history, op, attempt, sends, wire, saved, up>>

-----------------------------------------------------------------------------
(* SaveSession under executeWithRetry *)

\* LPUSH.
BuggyStored(k, line) == list' = [list EXCEPT ![k] = <<line>> \o @]

\* RPUSH, and EXPIRE.
Stored(k, line) == list' = [list EXCEPT ![k] = Append(@, line)]

\* The two lines saved by two goroutines instead of one after the other.
ParallelSend(t) ==
  /\ up
  /\ place[t] = "saving"
  /\ sends[t] < DriverSends
  /\ sends' = [sends EXCEPT ![t] = @ + 1]
  /\ wire' = [wire EXCEPT ![t] = [w \in Speakers |-> wire[t][w] + 1]]
  /\ UNCHANGED <<list, place, history, op, attempt, saved, up>>

\* The pipeline of the current attempt leaves, for the first time or again.
Send(t) ==
  /\ up
  /\ place[t] = "saving"
  /\ sends[t] < DriverSends
  /\ sends' = [sends EXCEPT ![t] = @ + 1]
  /\ wire' = [wire EXCEPT ![t][op[t]] = @ + 1]
  /\ UNCHANGED <<list, place, history, op, attempt, saved, up>>

\* executeWithRetry that returns nil after its last attempt.
LenientReturn(t, outcome) ==
  /\ saved' = [saved EXCEPT ![t][op[t]] = "ok"]
  /\ attempt' = [attempt EXCEPT ![t] = 0]
  /\ sends' = [sends EXCEPT ![t] = 0]
  /\ op' = [op EXCEPT ![t] = "Bot"]
  /\ place' = [place EXCEPT ![t] = IF op[t] = "User" THEN "saving" ELSE "done"]

\* SaveSession returns: the goroutine goes on with the bot's line or ends.
Return(t, outcome) ==
  /\ saved' = [saved EXCEPT ![t][op[t]] = outcome]
  /\ attempt' = [attempt EXCEPT ![t] = 0]
  /\ sends' = [sends EXCEPT ![t] = 0]
  /\ op' = [op EXCEPT ![t] = "Bot"]
  /\ place' = [place EXCEPT ![t] = IF op[t] = "User" THEN "saving" ELSE "done"]

\* Redis executes a copy, and the reply reaches the attempt that waits for it.
Acknowledged(t) ==
  /\ up
  /\ place[t] = "saving"
  /\ sends[t] > 0
  /\ wire[t][op[t]] > 0
  /\ wire' = [wire EXCEPT ![t][op[t]] = @ - 1]
  /\ Stored(Key(t), [turn |-> t, who |-> op[t]])
  /\ Return(t, "ok")
  /\ UNCHANGED <<history, up>>

\* Redis executes a copy nobody waits for, or whose reply is lost.
Applied(t, w) ==
  /\ wire[t][w] > 0
  /\ wire' = [wire EXCEPT ![t][w] = @ - 1]
  /\ Stored(Key(t), [turn |-> t, who |-> w])
  /\ UNCHANGED <<place, history, op, attempt, sends, saved, up>>

\* A copy is lost with its connection.
Lost(t, w) ==
  /\ wire[t][w] > 0
  /\ wire' = [wire EXCEPT ![t][w] = @ - 1]
  /\ UNCHANGED <<list, place, history, op, attempt, sends, saved, up>>

\* executeWithRetry that counts its first attempt as a retry of none.
BuggyAttemptFails(t) ==
  /\ up
  /\ place[t] = "saving"
  /\ \/ /\ attempt[t] =< MaxRetries
        /\ attempt' = [attempt EXCEPT ![t] = @ + 1]
        /\ sends' = [sends EXCEPT ![t] = 0]
        /\ UNCHANGED <<place, op, saved>>
     \/ /\ attempt[t] > MaxRetries
        /\ Return(t, "gave up")
  /\ UNCHANGED <<list, history, wire, up>>

\* The attempt fails or its 100 ms are over; after the last one SaveSession gives up.
AttemptFails(t) ==
  /\ up
  /\ place[t] = "saving"
  /\ \/ /\ attempt[t] < MaxRetries
        /\ attempt' = [attempt EXCEPT ![t] = @ + 1]
        /\ sends' = [sends EXCEPT ![t] = 0]
        /\ UNCHANGED <<place, op, saved>>
     \/ /\ attempt[t] = MaxRetries
        /\ Return(t, "gave up")
  /\ UNCHANGED <<list, history, wire, up>>

-----------------------------------------------------------------------------
(* Around the turns *)

\* The key expires, or a flush deletes it.
Wiped(k) ==
  /\ list[k] # <<>>
  /\ list' = [list EXCEPT ![k] = <<>>]
  /\ saved' = [t \in Turns |-> [w \in Speakers |->
                 IF Key(t) = k /\ saved[t][w] = "ok" THEN "wiped" ELSE saved[t][w]]]
  /\ UNCHANGED <<place, history, op, attempt, sends, wire, up>>

\* The process ends.  The goroutines of the V1 API are not waited for.
Exit ==
  /\ up
  /\ up' = FALSE
  /\ UNCHANGED <<list, place, history, op, attempt, sends, wire, saved>>

Quiescent ==
  /\ ~up \/ \A t \in Turns : place[t] = "done"
  /\ UNCHANGED vars

-----------------------------------------------------------------------------
(* Specification *)

Init ==
  /\ list = [k \in Keys |-> <<>>]
  /\ place = [t \in Turns |-> "idle"]
  /\ history = [t \in Turns |-> <<>>]
  /\ op = [t \in Turns |-> "User"]
  /\ attempt = [t \in Turns |-> 0]
  /\ sends = [t \in Turns |-> 0]
  /\ wire = [t \in Turns |-> [w \in Speakers |-> 0]]
  /\ saved = [t \in Turns |-> [w \in Speakers |-> "pending"]]
  /\ up = TRUE

Saving(t) == Send(t) \/ Acknowledged(t) \/ AttemptFails(t)

Next ==
  \/ \E t \in Turns :
       \/ GetSession(t) \/ Answered(t) \/ Saving(t)
       \/ \E w \in Speakers : Applied(t, w) \/ Lost(t, w)
  \/ \E k \in Keys : Wiped(k)
  \/ Exit
  \/ Quiescent

Spec == Init /\ [][Next]_vars

-----------------------------------------------------------------------------
(* Properties *)

SendBound == (MaxRetries + 1) * DriverSends

TypeOK ==
  /\ list \in [Keys -> Seq(Line)]
  /\ place \in [Turns -> Places]
  /\ history \in [Turns -> Seq(Line)]
  /\ op \in [Turns -> Speakers]
  /\ attempt \in [Turns -> 0..MaxRetries]
  /\ sends \in [Turns -> 0..DriverSends]
  /\ wire \in [Turns -> [Speakers -> 0..SendBound]]
  /\ saved \in [Turns -> [Speakers -> Outcomes]]
  /\ up \in BOOLEAN

Positions(t, w) ==
  IF NoSession(t) THEN {} ELSE {i \in DOMAIN list[Key(t)] : list[Key(t)][i] = [turn |-> t, who |-> w]}

\* Where a turn found a line of another in the history it read.
LinesRead(t, u, w) == {i \in DOMAIN history[t] : history[t][i] = [turn |-> u, who |-> w]}

\* Retries of a pipeline that is not idempotent duplicate a line, but never beyond
\* the attempts of SaveSession times the sends of the driver.
CopiesBounded ==
  \A t \in Turns, w \in Speakers :
    Cardinality(Positions(t, w)) + wire[t][w] =< SendBound

\* A SaveSession that returned nil left its line in the list, for as long as the key
\* lives, whatever arrives late or twice.
AckedIsStored ==
  \A t \in Turns, w \in Speakers : saved[t][w] = "ok" => Positions(t, w) # {}

\* In a history no bot line of a turn comes before the user's line it answers, unless
\* saving the user's line was given up or the key has been wiped in between.
UserBeforeBot ==
  \A t \in Turns :
    saved[t]["User"] = "ok" =>
      \A j \in Positions(t, "Bot") : \E i \in Positions(t, "User") : i < j

\* The lines of overlapping turns mix in a list, but whatever a turn has read of it, an
\* answer comes with the question before it, unless saving that question was given up or
\* its key has been wiped: no window starts in the middle of somebody's turn.
AnswersReadWithQuestions ==
  \A t, u \in Turns :
    saved[u]["User"] = "ok" =>
      \A j \in LinesRead(t, u, "Bot") : \E i \in LinesRead(t, u, "User") : i < j

\* Turns that overlap may miss each other, and a turn that was answered but is not yet
\* saved may be missed by the next.  Nothing else is: a turn that goes on to its answer
\* has read every line whose saving was acknowledged before, unless it has read as many
\* lines as it asked for.
AckedIsRead ==
  [][\A t, u \in Turns, w \in Speakers :
       /\ place[t] = "idle"
       /\ place'[t] = "answering"
       /\ ~NoSession(t)
       /\ Key(u) = Key(t)
       /\ saved[u][w] = "ok"
       => LinesRead(t, u, w)' # {} \/ Len(history'[t]) = HistoryLimit]_vars

\* README.md:29-30: the history a query is rewritten with is the conversation so far:
\* what the next turn reads has the line saved last.
LatestLineInWindow ==
  \A k \in Keys : list[k] # <<>> => Contains(Window(k), Last(list[k]))

\* README.md:14,41: a conversation is tracked by its ULID: nobody's history has a
\* line of somebody else.
HistoryIsOwn ==
  \A t \in Turns : \A i \in DOMAIN history[t] : ClientOf[history[t][i].turn] = ClientOf[t]
=============================================================================
