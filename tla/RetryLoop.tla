------------------------------ MODULE RetryLoop ------------------------------
(***************************************************************************)
(* The two executeWithRetry loops, of cache/redis.go and gemini/gemini.go, *)
(* in the goroutines that call them and with the retry settings of main.   *)
(* A goroutine makes its calls one after the other under one context: the  *)
(* request's, which may be cancelled at any time; Background, which never  *)
(* ends; or the five seconds of saveToCacheAsync.  Goroutines do not meet, *)
(* so a behaviour is the life of one of them, of any kind.                 *)
(*                                                                         *)
(* Time is in milliseconds and jumps from one event to the next.           *)
(* Abstracted: a Redis command ends at once or as late as it can; a jitter *)
(* is the least or the greatest; what a call returns is how it went.       *)
(***************************************************************************)
EXTENDS Integers, Sequences, FiniteSetsExt

CONSTANTS
  Overrun,    \* how long a Redis command may outlast its context (go-redis applies
              \* its own read timeout, not the deadline it is given)
  Latencies,  \* how long an answer of Gemini may take; its client has no timeout
  Never       \* when a context ends that does not

ASSUME RetryAssumption ==
  /\ Overrun \in Nat
  /\ Latencies \subseteq Nat
  /\ Never \in Nat

VARIABLES
  kind,     \* what the goroutine is there for
  call,     \* the number of its current call
  attempt,  \* the counter of the loop
  place,    \* where the loop is
  now,      \* the time since the goroutine began
  due,      \* when the timer of the backoff fires
  over,     \* when the context ends
  result    \* what the last call returned

vars == <<kind, call, attempt, place, now, due, over, result>>

-----------------------------------------------------------------------------
(* Settings and callers *)

\* The RetryConfigs of main.
Config ==
  [session |-> [Timeout |-> 100, MaxRetries |-> 2, BaseDelay |-> 50],
   cache   |-> [Timeout |-> 50, MaxRetries |-> 0, BaseDelay |-> 0],
   gemini  |-> [Timeout |-> Never, MaxRetries |-> 3, BaseDelay |-> 2000]]

\* The calls of a goroutine: the saves of a blocking V1 turn and of its answer, those of
\* the pump, saveToCacheAsync, and single calls of a handler.
Work ==
  [save_turn     |-> <<"session", "session">>,
   pump          |-> <<"session", "session", "cache">>,
   save_answer   |-> <<"cache">>,
   save_to_cache |-> <<"gemini", "cache">>,
   read_history  |-> <<"session">>,
   look_up       |-> <<"cache">>,
   ask_gemini    |-> <<"gemini">>]

Kinds == DOMAIN Work

InRequest == {"read_history", "look_up", "ask_gemini"}

\* context.WithTimeout of saveToCacheAsync; the others have no deadline.
ContextEnd(k) == IF k = "save_to_cache" THEN 5000 ELSE Never

Service == Work[kind][call]

Settings == Config[Service]

Later(s, t) == IF s > t THEN s ELSE t

-----------------------------------------------------------------------------
(* The loop *)

\* saveToCacheAsync gives up at an error; the other goroutines do not look at it.
Return(r) ==
  /\ result' = r
  /\ IF call = Len(Work[kind]) \/ r = "panic" \/ (r # "ok" /\ kind = "save_to_cache")
     THEN place' = "ended" /\ UNCHANGED call
     ELSE place' = "calling" /\ call' = call + 1
  /\ attempt' = 0
  /\ UNCHANGED <<kind, due, over>>

\* The exponent is left out.
FlatDelay == Settings.BaseDelay

Delay == Settings.BaseDelay * 2^attempt

\* Int63n panics when a quarter of the delay is nothing.
Backoff(t) ==
  IF Delay = 0
  THEN Return("panic")
  ELSE /\ \E jitter \in {0, Delay \div 4} : due' = t + Delay + jitter
       /\ place' = "waiting"
       /\ UNCHANGED <<kind, call, attempt, over, result>>

\* Gemini's loop tries again after a 429 and Redis's after anything but redis.Nil.
Again(outcome) == outcome = IF Service = "gemini" THEN "limited" ELSE "error"

\* One retry too many, and the loop runs off its end.
BuggyOutcome(outcome, t) ==
  /\ now' = t
  /\ IF outcome = "ok" \/ ~Again(outcome) \/ attempt > Settings.MaxRetries
     THEN Return(outcome)
     ELSE Backoff(t)

Outcome(outcome, t) ==
  /\ now' = t
  /\ IF outcome = "ok" \/ ~Again(outcome) \/ attempt = Settings.MaxRetries
     THEN Return(outcome)
     ELSE Backoff(t)

\* operation(opCtx): the attempt has a timeout within the context.  It may be under way
\* when the context ends; after that nothing is sent.
Operation ==
  /\ place = "calling"
  /\ Service # "gemini"
  /\ \/ /\ now =< over
        /\ \E t \in {now, Min({now + Settings.Timeout, over}) + Overrun},
              outcome \in {"ok", "nil", "error"} : Outcome(outcome, t)
     \/ now >= over /\ Outcome("error", now)

\* An answer may have no text or vector, which is an error of GenerateText and EmbedText
\* and not of the loop.
Answers == {"ok", "empty"}

\* fn().
Answer ==
  /\ place = "calling"
  /\ Service = "gemini"
  /\ \E latency \in Latencies, outcome \in Answers \cup {"limited", "error"} :
       /\ now + latency < over
       /\ Outcome(outcome, now + latency)

\* A call that is not given the context goes on.
DeafCutOff ==
  /\ place = "calling"
  /\ Service = "gemini"
  /\ over # Never
  /\ UNCHANGED vars

\* The call of Gemini ends with its context.
CutOff ==
  /\ place = "calling"
  /\ Service = "gemini"
  /\ over # Never
  /\ Outcome("error", Later(now, over))

\* time.After(wait) fires before the context ends.
TimerFires ==
  /\ place = "waiting"
  /\ due =< over
  /\ now' = due
  /\ attempt' = attempt + 1
  /\ IF attempt < Settings.MaxRetries
     THEN place' = "calling" /\ UNCHANGED result
     ELSE place' = "ended" /\ result' = "exceeded"
  /\ UNCHANGED <<kind, call, due, over>>

\* time.Sleep in place of the select.
SleepingContextDone ==
  /\ place = "waiting"
  /\ over =< due
  /\ now' = due
  /\ Return("ctx")

ContextDone ==
  /\ place = "waiting"
  /\ over =< due
  /\ now' = Later(now, over)
  /\ Return("ctx")

\* The client hangs up, or the load balancer does: in an attempt or in a backoff.
HangUp ==
  /\ kind \in InRequest
  /\ place # "ended"
  /\ over = Never
  /\ over' \in IF place = "waiting" THEN {now, due} ELSE {now}
  /\ UNCHANGED <<kind, call, attempt, place, now, due, result>>

-----------------------------------------------------------------------------
(* Specification *)

Init ==
  /\ kind \in Kinds
  /\ call = 1
  /\ attempt = 0
  /\ place = "calling"
  /\ now = 0
  /\ due = 0
  /\ over = ContextEnd(kind)
  /\ result = "none"

Ended == place = "ended" /\ UNCHANGED vars

Next ==
  \/ Operation \/ Answer \/ CutOff \/ TimerFires \/ ContextDone \/ HangUp
  \/ Ended

Spec == Init /\ [][Next]_vars

\* Gemini need not answer; the load balancer ends a request after 120 s.
FairSpec ==
  Spec /\ WF_vars(Operation) /\ WF_vars(CutOff) /\ WF_vars(TimerFires)
       /\ WF_vars(ContextDone) /\ WF_vars(HangUp)

-----------------------------------------------------------------------------
(* Properties *)

TypeOK ==
  /\ kind \in Kinds
  /\ call \in 1..Len(Work[kind])
  /\ attempt \in 0..Settings.MaxRetries
  /\ place \in {"calling", "waiting", "ended"}
  /\ {now, due, over} \subseteq Nat
  /\ result \in {"none", "ok", "nil", "empty", "limited", "error", "ctx", "panic", "exceeded"}

\* A loop does not outlive its context by more than the Redis command it is in: a
\* backoff of up to 10 s ends at once (redis.go:62, gemini.go:165), and a background
\* write is over 5 s after it began (server.go:63), give or take that command.
EndsWithContext ==
  now =< over + IF Service = "gemini" THEN 0 ELSE Overrun

\* The longest a call can take.
Longest(service) ==
  LET c == Config[service] IN
    (c.MaxRetries + 1) * (c.Timeout + Overrun) + (c.BaseDelay * (2^c.MaxRetries - 1) * 5) \div 4

\* The longest the first n calls of a goroutine can take, which makes three at most.
LongestUpTo(n) ==
  LET part(i) == IF i =< n THEN Longest(Work[kind][i]) ELSE 0
  IN part(1) + part(2) + part(3)

\* The goroutines that save for V1 have no deadline (blocking.go:41 and 181,
\* streaming.go:190); the limits of the loops alone bound them, all their calls together,
\* and with them how long a stream stays open after its last line.
SavesAreBounded ==
  kind \in {"save_turn", "pump", "save_answer"} =>
    now =< LongestUpTo(call)

\* The five seconds of saveToCacheAsync (server.go:63) and the delays of the Gemini
\* client (main.go:70) add up so that a write that is rate limited twice is lost: the
\* second and the third of the three retries are never made.
LimitedTwiceIsLost ==
  kind = "save_to_cache" => attempt =< 1

\* No loop runs off its end, "max retries exceeded", and no delay is too short for the
\* jitter: a panic here would end the process (redis.go:57, redis.go:68, gemini.go:155).
NoDeadEnd ==
  result \notin {"panic", "exceeded"}

\* Every goroutine ends.
EveryLoopEnds ==
  <>(place = "ended")
=============================================================================
