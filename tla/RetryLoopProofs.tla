--------------------------- MODULE RetryLoopProofs ---------------------------
(***************************************************************************)
(* Theorems about RetryLoop, with the settings of main and any latencies   *)
(* of Redis and Gemini: its type invariant and its safety invariants.      *)
(***************************************************************************)
EXTENDS RetryLoop, TLAPS

-----------------------------------------------------------------------------
(* The inductive invariant *)

\* A Redis command may outlast the context, a call of Gemini may not.
Grace == IF Service = "gemini" THEN 0 ELSE Overrun

\* Who has which context.
ContextInv ==
  /\ kind \in {"save_turn", "pump", "save_answer"} => over = Never
  /\ kind = "save_to_cache" => over = 5000

\* A backoff is entered only with a retry left, and its timer lies ahead.
WaitInv ==
  place = "waiting" => attempt < Settings.MaxRetries /\ now =< due

\* The delays of the Gemini client in the background add up.
LimitInv ==
  kind = "save_to_cache" =>
    /\ attempt = 1 => now >= 2000
    /\ place = "waiting" => due >= IF attempt = 0 THEN 2000 ELSE 6000

\* The longest a attempts of a call and the backoffs after them take.
Spent(service, a) ==
  LET c == Config[service] IN
    a * (c.Timeout + Overrun) + (c.BaseDelay * (2^a - 1) * 5) \div 4

\* What a save has spent: its earlier calls in full, of the current one the attempts.
SaveInv ==
  kind \in {"save_turn", "pump", "save_answer"} =>
    /\ place = "calling" => now =< LongestUpTo(call - 1) + Spent(Service, attempt)
    /\ place = "waiting" => due =< LongestUpTo(call - 1) + Spent(Service, attempt + 1)

IInv ==
  /\ TypeOK /\ ContextInv /\ WaitInv /\ LimitInv /\ SaveInv
  /\ EndsWithContext /\ SavesAreBounded /\ LimitedTwiceIsLost /\ NoDeadEnd

-----------------------------------------------------------------------------
(* The settings and the callers, in figures *)

\* The settings main gives the two loops (main.go).
LEMMA Figures ==
  /\ Config["session"].Timeout = 100 /\ Config["session"].MaxRetries = 2
  /\ Config["session"].BaseDelay = 50
  /\ Config["cache"].Timeout = 50 /\ Config["cache"].MaxRetries = 0
  /\ Config["cache"].BaseDelay = 0
  /\ Config["gemini"].MaxRetries = 3 /\ Config["gemini"].BaseDelay = 2000
BY DEF Config

\* The goroutines that call a loop.
LEMMA KindsAre ==
  Kinds = {"save_turn", "pump", "save_answer", "save_to_cache", "read_history", "look_up",
           "ask_gemini"}
BY DEF Kinds, Work

\* Which calls a goroutine makes.
LEMMA Calls ==
  /\ Len(Work["save_turn"]) = 2
  /\ Work["save_turn"][1] = "session" /\ Work["save_turn"][2] = "session"
  /\ Len(Work["pump"]) = 3
  /\ Work["pump"][1] = "session" /\ Work["pump"][2] = "session" /\ Work["pump"][3] = "cache"
  /\ Len(Work["save_answer"]) = 1 /\ Work["save_answer"][1] = "cache"
  /\ Len(Work["save_to_cache"]) = 2
  /\ Work["save_to_cache"][1] = "gemini" /\ Work["save_to_cache"][2] = "cache"
  /\ Len(Work["read_history"]) = 1 /\ Work["read_history"][1] = "session"
  /\ Len(Work["look_up"]) = 1 /\ Work["look_up"][1] = "cache"
  /\ Len(Work["ask_gemini"]) = 1 /\ Work["ask_gemini"][1] = "gemini"
BY DEF Work

\* What is called is one of the three services.
LEMMA Services ==
  ASSUME TypeOK
  PROVE  /\ kind \in {"save_turn", "pump", "save_answer", "save_to_cache", "read_history",
                      "look_up", "ask_gemini"}
         /\ Len(Work[kind]) \in 1..3 /\ call \in 1..Len(Work[kind])
         /\ kind = "save_turn" => call \in 1..2 /\ Service = "session"
         /\ kind = "pump" => call \in 1..3 /\ Service = IF call = 3 THEN "cache" ELSE "session"
         /\ kind = "save_answer" => call = 1 /\ Service = "cache"
         /\ kind = "save_to_cache" =>
              call \in 1..2 /\ Service = IF call = 1 THEN "gemini" ELSE "cache"
         /\ kind = "read_history" => Service = "session"
         /\ kind = "look_up" => Service = "cache"
         /\ kind = "ask_gemini" => Service = "gemini"
         /\ Service \in {"session", "cache", "gemini"}
<1>1. kind \in Kinds /\ call \in 1..Len(Work[kind])  BY DEF TypeOK
<1>2. CASE kind = "save_turn"  BY <1>1, <1>2, Calls DEF Service
<1>3. CASE kind = "pump"  BY <1>1, <1>3, Calls DEF Service
<1>4. CASE kind = "save_to_cache"  BY <1>1, <1>4, Calls DEF Service
<1>5. CASE kind = "read_history"  BY <1>1, <1>5, Calls DEF Service
<1>6. CASE kind = "look_up"  BY <1>1, <1>6, Calls DEF Service
<1>7. CASE kind = "ask_gemini"  BY <1>1, <1>7, Calls DEF Service
<1>8. CASE kind = "save_answer"  BY <1>1, <1>8, Calls DEF Service
<1> QED  BY <1>1, <1>2, <1>3, <1>4, <1>5, <1>6, <1>7, <1>8, KindsAre

\* Two to the power of the attempts that are followed by a backoff.
LEMMA Powers == 2^0 = 1 /\ 2^1 = 2 /\ 2^2 = 4
OBVIOUS

\* No retry of a service has a backoff of nothing.
LEMMA Delays ==
  ASSUME TypeOK, attempt < Settings.MaxRetries
  PROVE  /\ attempt \in 0..2 /\ Delay \in Nat /\ Delay # 0
         /\ Service \in {"session", "gemini"}
         /\ Service = "session" =>
              /\ attempt = 0 => Delay = 50 /\ Delay \div 4 = 12
              /\ attempt = 1 => Delay = 100 /\ Delay \div 4 = 25
              /\ attempt \in 0..1
         /\ Service = "gemini" =>
              /\ attempt = 0 => Delay = 2000
              /\ attempt = 1 => Delay = 4000
<1>1. Service \in {"session", "cache", "gemini"} /\ attempt \in Nat
  BY Services DEF TypeOK
<1>2. CASE Service = "session"
  <2>1. attempt \in 0..1 /\ Settings.BaseDelay = 50
    BY <1>1, <1>2, Figures DEF Settings
  <2>2. CASE attempt = 0
    <3>1. Delay = 50  BY <2>1, <2>2, Powers DEF Delay
    <3> QED  BY <1>2, <2>2, <3>1
  <2>3. CASE attempt = 1
    <3>1. Delay = 100  BY <2>1, <2>3, Powers DEF Delay
    <3> QED  BY <1>2, <2>3, <3>1
  <2> QED  BY <2>1, <2>2, <2>3
<1>3. CASE Service = "gemini"
  <2>1. attempt \in 0..2 /\ Settings.BaseDelay = 2000
    BY <1>1, <1>3, Figures DEF Settings
  <2>2. CASE attempt = 0
    <3>1. Delay = 2000  BY <2>1, <2>2, Powers DEF Delay
    <3> QED  BY <1>3, <2>2, <3>1
  <2>3. CASE attempt = 1
    <3>1. Delay = 4000  BY <2>1, <2>3, Powers DEF Delay
    <3> QED  BY <1>3, <2>3, <3>1
  <2>4. CASE attempt = 2
    <3>1. Delay = 8000  BY <2>1, <2>4, Powers DEF Delay
    <3> QED  BY <1>3, <2>4, <3>1
  <2> QED  BY <2>1, <2>2, <2>3, <2>4
<1>4. Service # "cache"
  BY <1>1, Figures DEF Settings
<1> QED  BY <1>1, <1>2, <1>3, <1>4

\* The budgets of the saves.
LEMMA SpentFigures ==
  /\ Spent("session", 0) = 0
  /\ Spent("session", 1) = 162 + Overrun
  /\ Spent("session", 2) = 387 + 2 * Overrun
  /\ Spent("cache", 0) = 0
<1>o. Overrun \in Nat  BY RetryAssumption
<1>1. /\ (50 * (1 - 1) * 5) \div 4 = 0 /\ (50 * (2 - 1) * 5) \div 4 = 62
      /\ (50 * (4 - 1) * 5) \div 4 = 187 /\ (0 * (1 - 1) * 5) \div 4 = 0
  OBVIOUS
<1>2. Spent("session", 0) = 0 * (100 + Overrun) + 0  BY <1>1, Figures, Powers DEF Spent
<1>3. Spent("session", 1) = 1 * (100 + Overrun) + 62  BY <1>1, Figures, Powers DEF Spent
<1>4. Spent("session", 2) = 2 * (100 + Overrun) + 187  BY <1>1, Figures, Powers DEF Spent
<1>5. Spent("cache", 0) = 0 * (50 + Overrun) + 0  BY <1>1, Figures, Powers DEF Spent
<1> QED  BY <1>o, <1>2, <1>3, <1>4, <1>5

\* The longest a call of the two stores can take, in figures.
LEMMA LongestFigures ==
  Longest("session") = 487 + 3 * Overrun /\ Longest("cache") = 50 + Overrun
<1>o. Overrun \in Nat  BY RetryAssumption
<1>1. (50 * (4 - 1) * 5) \div 4 = 187 /\ (0 * (1 - 1) * 5) \div 4 = 0  OBVIOUS
<1>2. Longest("session") = (2 + 1) * (100 + Overrun) + 187
  BY <1>1, Figures, Powers DEF Longest
<1>3. Longest("cache") = (0 + 1) * (50 + Overrun) + 0
  BY <1>1, Figures, Powers DEF Longest
<1> QED  BY <1>o, <1>2, <1>3

\* One more call adds its longest.
LEMMA LongestNext ==
  ASSUME kind \in {"save_turn", "pump", "save_answer"}, NEW n \in 1..Len(Work[kind])
  PROVE  /\ LongestUpTo(n) = LongestUpTo(n - 1) + Longest(Work[kind][n])
         /\ LongestUpTo(n - 1) \in Nat
         /\ Work[kind][n] \in {"session", "cache"}
<1> DEFINE S == Longest("session")
           C == Longest("cache")
<1>1. S \in Nat /\ C \in Nat  BY LongestFigures, RetryAssumption
<1>2. CASE kind = "save_turn"
  <2>1. n \in 1..2  BY <1>2, Calls
  <2>2. Work[kind][1] = "session" /\ Work[kind][2] = "session"  BY <1>2, Calls
  <2>3. Longest(Work[kind][1]) = S /\ Longest(Work[kind][2]) = S  BY <2>2
  <2> HIDE DEF S, C
  <2>4. LongestUpTo(0) = 0 /\ LongestUpTo(1) = S /\ LongestUpTo(2) = S + S
    BY <1>1, <2>3 DEF LongestUpTo
  <2>5. CASE n = 1  BY <1>1, <2>2, <2>3, <2>4, <2>5
  <2>6. CASE n = 2  BY <1>1, <2>2, <2>3, <2>4, <2>6
  <2> QED  BY <2>1, <2>5, <2>6
<1>3. CASE kind = "pump"
  <2>1. n \in 1..3  BY <1>3, Calls
  <2>2. Work[kind][1] = "session" /\ Work[kind][2] = "session" /\ Work[kind][3] = "cache"
    BY <1>3, Calls
  <2>3. Longest(Work[kind][1]) = S /\ Longest(Work[kind][2]) = S /\ Longest(Work[kind][3]) = C
    BY <2>2
  <2> HIDE DEF S, C
  <2>4. /\ LongestUpTo(0) = 0 /\ LongestUpTo(1) = S
        /\ LongestUpTo(2) = S + S /\ LongestUpTo(3) = S + S + C
    BY <1>1, <2>3 DEF LongestUpTo
  <2>5. CASE n = 1  BY <1>1, <2>2, <2>3, <2>4, <2>5
  <2>6. CASE n = 2  BY <1>1, <2>2, <2>3, <2>4, <2>6
  <2>7. CASE n = 3  BY <1>1, <2>2, <2>3, <2>4, <2>7
  <2> QED  BY <2>1, <2>5, <2>6, <2>7
<1>4. CASE kind = "save_answer"
  <2>1. n = 1 /\ Work[kind][1] = "cache"  BY <1>4, Calls
  <2>2. Longest(Work[kind][1]) = C  BY <2>1
  <2> HIDE DEF S, C
  <2>3. LongestUpTo(0) = 0 /\ LongestUpTo(1) = C  BY <1>1, <2>2 DEF LongestUpTo
  <2> QED  BY <1>1, <2>1, <2>2, <2>3
<1> QED  BY <1>2, <1>3, <1>4

\* What is left of the current call of a save: L is what went before.
LEMMA SaveBudget ==
  ASSUME TypeOK, kind \in {"save_turn", "pump", "save_answer"}, NEW L, L = LongestUpTo(call - 1)
  PROVE  /\ L \in Nat /\ Service \in {"session", "cache"}
         /\ Service = "session" =>
              /\ LongestUpTo(call) = L + 487 + 3 * Overrun
              /\ attempt \in 0..2 /\ Settings.MaxRetries = 2 /\ Settings.Timeout = 100
         /\ Service = "cache" =>
              /\ LongestUpTo(call) = L + 50 + Overrun
              /\ attempt = 0 /\ Settings.MaxRetries = 0 /\ Settings.Timeout = 50
<1>1. /\ LongestUpTo(call) = L + Longest(Service) /\ L \in Nat
      /\ Service \in {"session", "cache"}
  BY LongestNext DEF TypeOK, Service
<1>2. attempt \in 0..Settings.MaxRetries  BY DEF TypeOK
<1>o. Overrun \in Nat  BY RetryAssumption
<1>3. CASE Service = "session"
  BY <1>o, <1>1, <1>2, <1>3, LongestFigures, Figures DEF Settings
<1>4. CASE Service = "cache"
  BY <1>o, <1>1, <1>2, <1>4, LongestFigures, Figures DEF Settings
<1> QED  BY <1>1, <1>3, <1>4

-----------------------------------------------------------------------------
(* The steps *)

\* Every loop has a number of retries.
LEMMA RetriesType == \A s \in {"session", "cache", "gemini"} : Config[s].MaxRetries \in Nat
BY Figures

\* Where a call may end: within its context and, for a save, within its budget.
LEMMA ReturnInv ==
  ASSUME IInv, NEW t \in Nat, now' = t,
         NEW r \in {"ok", "nil", "empty", "limited", "error", "ctx"}, Return(r),
         t =< over + Grace,
         kind \in {"save_turn", "pump", "save_answer"} => t =< LongestUpTo(call)
  PROVE  IInv'
<1>o. Overrun \in Nat  BY RetryAssumption
<1>t. TypeOK  BY DEF IInv
<1>1. /\ kind' = kind /\ due' = due /\ over' = over /\ attempt' = 0 /\ result' = r
      /\ \/ place' = "ended" /\ call' = call
         \/ call # Len(Work[kind]) /\ place' = "calling" /\ call' = call + 1
  BY DEF Return
<1>2. /\ Len(Work[kind]) \in 1..3 /\ call \in 1..Len(Work[kind]) /\ kind \in Kinds
  BY <1>t, Services DEF TypeOK
<1>3. call' \in 1..Len(Work[kind])  BY <1>1, <1>2
<1>4. Service' \in {"session", "cache", "gemini"}
  <2>1. \A k \in Kinds : \A c \in 1..Len(Work[k]) : Work[k][c] \in {"session", "cache", "gemini"}
    BY KindsAre, Calls
  <2> QED  BY <1>1, <1>2, <1>3, <2>1 DEF Service
<1>5. TypeOK'
  <2>1. Settings'.MaxRetries \in Nat  BY <1>4, RetriesType DEF Settings
  <2> QED  BY <1>1, <1>2, <1>3, <1>t, <2>1 DEF TypeOK
<1>6. ContextInv' /\ WaitInv' /\ LimitInv' /\ LimitedTwiceIsLost' /\ NoDeadEnd'
  BY <1>1 DEF IInv, ContextInv, WaitInv, LimitInv, LimitedTwiceIsLost, NoDeadEnd
<1>7. EndsWithContext'
  <2>1. CASE call' = call
    BY <1>1, <2>1 DEF EndsWithContext, Grace, Service
  <2>2. CASE call' = call + 1
    <3>1. Service' # "gemini"
      BY <1>1, <1>2, <1>3, <2>2, KindsAre, Calls DEF Service
    <3>2. over \in Nat  BY <1>t DEF TypeOK
    <3> QED  BY <1>1, <1>o, <3>1, <3>2 DEF EndsWithContext, Grace
  <2> QED  BY <1>1, <2>1, <2>2
<1>8. ASSUME kind \in {"save_turn", "pump", "save_answer"}
      PROVE  SaveInv' /\ SavesAreBounded'
  <2>1. LongestUpTo(call)' = LongestUpTo(call')  BY <1>1 DEF LongestUpTo
  <2>2. CASE call' = call
    BY <1>1, <1>2, <1>8, <2>1, <2>2 DEF SaveInv, SavesAreBounded
  <2>3. CASE call' = call + 1
    <3>1. /\ LongestUpTo(call') = LongestUpTo(call) + Longest(Service')
          /\ LongestUpTo(call) \in Nat /\ Service' \in {"session", "cache"}
      <4>1. call' \in 1..Len(Work[kind]) /\ call' - 1 = call /\ Service' = Work[kind][call']
        BY <1>1, <1>2, <1>3, <2>3 DEF Service
      <4> QED  BY <1>8, <4>1, LongestNext
    <3>2. Longest(Service') \in Nat  BY <1>o, <3>1, LongestFigures
    <3>3. now' =< LongestUpTo(call) /\ now' \in Nat  BY <1>8
    <3>4. LongestUpTo(call - 1)' = LongestUpTo(call)
      BY <1>1, <1>2, <2>3 DEF LongestUpTo
    <3>5. SaveInv'
      <4>1. Spent(Service', attempt') = 0  BY <1>1, <3>1, SpentFigures
      <4>2. place' = "calling"  BY <1>1, <1>2, <2>3
      <4> QED  BY <3>1, <3>3, <3>4, <4>1, <4>2 DEF SaveInv
    <3>6. now' =< LongestUpTo(call')  BY <3>1, <3>2, <3>3
    <3> QED  BY <2>1, <3>5, <3>6 DEF SavesAreBounded
  <2> QED  BY <1>1, <2>2, <2>3
<1>9. kind \notin {"save_turn", "pump", "save_answer"} => SaveInv' /\ SavesAreBounded'
  BY <1>1 DEF SaveInv, SavesAreBounded
<1> QED  BY <1>5, <1>6, <1>7, <1>8, <1>9 DEF IInv

\* A backoff starts where the attempt has ended.
LEMMA BackoffInv ==
  ASSUME IInv, place = "calling", NEW t \in Nat, now' = t, Backoff(t),
         attempt < Settings.MaxRetries, t >= now, t =< over + Grace,
         kind \in {"save_turn", "pump", "save_answer"} => t =< now + Settings.Timeout + Overrun
  PROVE  IInv'
<1>o. Overrun \in Nat  BY RetryAssumption
<1>t. TypeOK  BY DEF IInv
<1>d. /\ attempt \in 0..2 /\ Delay \in Nat /\ Delay # 0
      /\ Service \in {"session", "gemini"}
      /\ Service = "session" =>
           /\ attempt = 0 => Delay = 50 /\ Delay \div 4 = 12
           /\ attempt = 1 => Delay = 100 /\ Delay \div 4 = 25
           /\ attempt \in 0..1
      /\ Service = "gemini" =>
           /\ attempt = 0 => Delay = 2000
           /\ attempt = 1 => Delay = 4000
  BY <1>t, Delays
<1>1. PICK jitter \in {0, Delay \div 4} : due' = t + Delay + jitter
  BY <1>d DEF Backoff
<1>2. place' = "waiting" /\ UNCHANGED <<kind, call, attempt, over, result>>
  BY <1>d DEF Backoff
<1>3. jitter \in Nat  BY <1>d
<1>4. due' \in Nat /\ due' >= t + Delay  BY <1>1, <1>3, <1>d
<1>5. TypeOK'  BY <1>t, <1>2, <1>4 DEF TypeOK, Settings, Service
<1>6. ContextInv' /\ EndsWithContext' /\ LimitedTwiceIsLost' /\ NoDeadEnd'
  BY <1>2 DEF IInv, ContextInv, EndsWithContext, Grace, Service, LimitedTwiceIsLost, NoDeadEnd
<1>7. WaitInv'
  BY <1>2, <1>4, <1>d DEF WaitInv, Settings, Service
<1>8. LimitInv'
  <2> SUFFICES ASSUME kind = "save_to_cache"
               PROVE  /\ attempt = 1 => t >= 2000
                      /\ due' >= IF attempt = 0 THEN 2000 ELSE 6000
    BY <1>2 DEF LimitInv
  <2>1. Service = "gemini" /\ attempt \in 0..1
    BY <1>t, <1>d, Services DEF IInv, LimitedTwiceIsLost
  <2>2. attempt = 1 => now >= 2000  BY DEF IInv, LimitInv
  <2>3. now \in Nat  BY <1>t DEF TypeOK
  <2> QED  BY <1>4, <1>d, <2>1, <2>2, <2>3
<1>9. ASSUME kind \in {"save_turn", "pump", "save_answer"} PROVE SaveInv' /\ SavesAreBounded'
  <2>1. PICK L : L = LongestUpTo(call - 1)  OBVIOUS
  <2>2. /\ L \in Nat /\ Service = "session" /\ LongestUpTo(call) = L + 487 + 3 * Overrun
        /\ Settings.Timeout = 100
    BY <1>t, <1>9, <1>d, <2>1, SaveBudget
  <2>3. now =< L + Spent("session", attempt)  BY <1>9, <2>1, <2>2 DEF IInv, SaveInv
  <2>4. now \in Nat /\ t =< now + 100 + Overrun  BY <1>9, <1>t, <2>2 DEF TypeOK
  <2>5. CASE attempt = 0
    <3>1. t =< L + 100 + Overrun  BY <1>o, <2>2, <2>3, <2>4, <2>5, SpentFigures
    <3>2. jitter =< 12 /\ Delay = 50  BY <1>1, <1>d, <2>2, <2>5
    <3>3. due' =< L + Spent("session", attempt + 1)
      BY <1>1, <1>3, <1>o, <2>2, <2>5, <3>1, <3>2, SpentFigures
    <3>4. t =< LongestUpTo(call)  BY <1>o, <2>2, <3>1
    <3> QED  BY <1>2, <2>1, <2>2, <3>3, <3>4 DEF SaveInv, SavesAreBounded, LongestUpTo, Service
  <2>6. CASE attempt = 1
    <3>1. t =< L + 262 + 2 * Overrun  BY <1>o, <2>2, <2>3, <2>4, <2>6, SpentFigures
    <3>2. jitter =< 25 /\ Delay = 100  BY <1>1, <1>d, <2>2, <2>6
    <3>3. due' =< L + Spent("session", attempt + 1)
      BY <1>1, <1>3, <1>o, <2>2, <2>6, <3>1, <3>2, SpentFigures
    <3>4. t =< LongestUpTo(call)  BY <1>o, <2>2, <3>1
    <3> QED  BY <1>2, <2>1, <2>2, <3>3, <3>4 DEF SaveInv, SavesAreBounded, LongestUpTo, Service
  <2> QED  BY <1>d, <2>2, <2>5, <2>6
<1>10. kind \notin {"save_turn", "pump", "save_answer"} => SaveInv' /\ SavesAreBounded'
  BY <1>2 DEF SaveInv, SavesAreBounded
<1> QED  BY <1>5, <1>6, <1>7, <1>8, <1>9, <1>10 DEF IInv

\* The end of an attempt at time t keeps the inductive invariant.
LEMMA OutcomeInv ==
  ASSUME IInv, place = "calling", NEW t \in Nat,
         NEW outcome \in {"ok", "nil", "empty", "limited", "error"}, Outcome(outcome, t),
         t >= now, t =< over + Grace,
         kind \in {"save_turn", "pump", "save_answer"} => t =< now + Settings.Timeout + Overrun
  PROVE  IInv'
<1>o. Overrun \in Nat  BY RetryAssumption
<1>t. TypeOK  BY DEF IInv
<1>1. now' = t  BY DEF Outcome
<1>2. CASE Return(outcome)
  <2>1. ASSUME kind \in {"save_turn", "pump", "save_answer"} PROVE t =< LongestUpTo(call)
    <3>1. PICK L : L = LongestUpTo(call - 1)  OBVIOUS
    <3>2. now \in Nat /\ now =< L + Spent(Service, attempt)
      BY <1>t, <2>1, <3>1 DEF IInv, SaveInv, TypeOK
    <3>3. CASE Service = "session"
      <4>1. /\ L \in Nat /\ LongestUpTo(call) = L + 487 + 3 * Overrun
            /\ Settings.Timeout = 100 /\ attempt \in 0..2
        BY <1>t, <2>1, <3>1, <3>3, SaveBudget
      <4>2. Spent(Service, attempt) =< 387 + 2 * Overrun
        BY <1>o, <3>3, <4>1, SpentFigures
      <4>3. Spent(Service, attempt) \in Nat  BY <1>o, <3>3, <4>1, SpentFigures
      <4> QED  BY <1>o, <2>1, <3>2, <4>1, <4>2, <4>3
    <3>4. CASE Service = "cache"
      <4>1. /\ L \in Nat /\ LongestUpTo(call) = L + 50 + Overrun
            /\ Settings.Timeout = 50 /\ attempt = 0
        BY <1>t, <2>1, <3>1, <3>4, SaveBudget
      <4>2. Spent(Service, attempt) = 0  BY <3>4, <4>1, SpentFigures
      <4> QED  BY <1>o, <2>1, <3>2, <4>1, <4>2
    <3> QED  BY <1>t, <2>1, <3>1, <3>3, <3>4, SaveBudget
  <2> QED  BY <1>1, <1>2, <2>1, ReturnInv
<1>3. CASE Backoff(t) /\ attempt # Settings.MaxRetries
  <2>1. attempt < Settings.MaxRetries
    <3>1. attempt \in 0..Settings.MaxRetries  BY <1>t DEF TypeOK
    <3>2. Settings.MaxRetries \in Nat
      BY <1>t, Services, RetriesType DEF Settings
    <3> QED  BY <1>3, <3>1, <3>2
  <2> QED  BY <1>1, <1>3, <2>1, BackoffInv
<1> QED  BY <1>2, <1>3 DEF Outcome

\* The lesser of two times.
LEMMA MinOfTwo ==
  ASSUME NEW a \in Nat, NEW b \in Nat
  PROVE  Min({a, b}) \in Nat /\ Min({a, b}) =< a /\ Min({a, b}) =< b
         /\ (Min({a, b}) = a \/ Min({a, b}) = b)
<1>1. \E x \in {a, b} : \A y \in {a, b} : x =< y  OBVIOUS
<1>2. Min({a, b}) \in {a, b} /\ \A y \in {a, b} : Min({a, b}) =< y  BY <1>1 DEF Min
<1> QED  BY <1>2

\* Only Gemini's loop can be in a call of Gemini, and no save is.
LEMMA OperationInv == ASSUME IInv, Operation PROVE IInv'
<1>o. Overrun \in Nat  BY RetryAssumption
<1>t. TypeOK /\ EndsWithContext  BY DEF IInv
<1>1. place = "calling" /\ Service # "gemini" /\ now \in Nat /\ over \in Nat
  BY <1>t DEF Operation, TypeOK
<1>2. Grace = Overrun /\ now =< over + Overrun  BY <1>1, <1>t DEF Grace, EndsWithContext
<1>3. kind \in {"save_turn", "pump", "save_answer"} => Settings.Timeout \in Nat
  BY <1>t, SaveBudget
<1>4. Settings.Timeout \in Nat
  BY <1>1, <1>t, Services, Figures DEF Settings
<1>5. ASSUME now =< over, NEW t \in {now, Min({now + Settings.Timeout, over}) + Overrun},
             NEW outcome \in {"ok", "nil", "error"}, Outcome(outcome, t)
      PROVE  IInv'
  <2>1. t \in Nat /\ t >= now /\ t =< over + Overrun /\ t =< now + Settings.Timeout + Overrun
    <3> DEFINE m == Min({now + Settings.Timeout, over})
    <3>1. /\ m \in Nat /\ m =< now + Settings.Timeout /\ m =< over
          /\ m = now + Settings.Timeout \/ m = over
      BY <1>1, <1>4, MinOfTwo
    <3> HIDE DEF m
    <3>2. t = now \/ t = m + Overrun  BY DEF m
    <3> QED  BY <1>1, <1>4, <1>5, <1>o, <3>1, <3>2
  <2> QED  BY <1>1, <1>2, <1>5, <2>1, OutcomeInv
<1>6. ASSUME Outcome("error", now) PROVE IInv'
  <2>1. now =< now + Settings.Timeout + Overrun  BY <1>1, <1>4, <1>o
  <2> QED  BY <1>1, <1>2, <1>6, <2>1, OutcomeInv
<1> QED  BY <1>5, <1>6 DEF Operation

\* An answer ends the attempt in time.
LEMMA AnswerInv == ASSUME IInv, Answer PROVE IInv'
<1>t. TypeOK  BY DEF IInv
<1>1. place = "calling" /\ Service = "gemini" /\ now \in Nat /\ over \in Nat
  BY <1>t DEF Answer, TypeOK
<1>2. Grace = 0 /\ kind \notin {"save_turn", "pump", "save_answer"}
  BY <1>1, <1>t, Services DEF Grace
<1>3. PICK latency \in Latencies, outcome \in Answers \cup {"limited", "error"} :
        now + latency < over /\ Outcome(outcome, now + latency)
  BY DEF Answer
<1>4. latency \in Nat  BY RetryAssumption
<1>5. now + latency \in Nat /\ now + latency >= now /\ now + latency =< over + Grace
  BY <1>1, <1>2, <1>3, <1>4
<1>6. outcome \in {"ok", "nil", "empty", "limited", "error"}  BY <1>3 DEF Answers
<1> QED  BY <1>1, <1>2, <1>3, <1>5, <1>6, OutcomeInv

\* An attempt that is cut off ends no later than a Redis command may.
LEMMA CutOffInv == ASSUME IInv, CutOff PROVE IInv'
<1>t. TypeOK /\ EndsWithContext  BY DEF IInv
<1>1. place = "calling" /\ Service = "gemini" /\ now \in Nat /\ over \in Nat
  BY <1>t DEF CutOff, TypeOK
<1>2. Grace = 0 /\ kind \notin {"save_turn", "pump", "save_answer"} /\ now =< over
  BY <1>1, <1>t, Services DEF Grace, EndsWithContext
<1>3. Later(now, over) \in Nat /\ Later(now, over) >= now /\ Later(now, over) =< over + Grace
  BY <1>1, <1>2 DEF Later
<1>4. Outcome("error", Later(now, over))  BY DEF CutOff
<1> QED  BY <1>1, <1>2, <1>3, <1>4, OutcomeInv

\* The end of a backoff begins the next attempt.
LEMMA TimerFiresInv == ASSUME IInv, TimerFires PROVE IInv'
<1>o. Overrun \in Nat  BY RetryAssumption
<1>t. TypeOK  BY DEF IInv
<1>1. /\ place = "waiting" /\ due =< over /\ now' = due /\ attempt' = attempt + 1
      /\ UNCHANGED <<kind, call, due, over>>
  BY DEF TimerFires
<1>2. attempt < Settings.MaxRetries /\ now =< due  BY <1>1 DEF IInv, WaitInv
<1>3. place' = "calling" /\ UNCHANGED result  BY <1>2 DEF TimerFires
<1>n. now \in Nat /\ due \in Nat /\ over \in Nat /\ attempt \in Nat /\ Settings.MaxRetries \in Nat
  BY <1>t, Services, RetriesType DEF TypeOK, Settings
<1>4. TypeOK'  BY <1>t, <1>1, <1>2, <1>3, <1>n DEF TypeOK, Settings, Service
<1>5. ContextInv' /\ WaitInv' /\ NoDeadEnd'
  BY <1>1, <1>3 DEF IInv, ContextInv, WaitInv, NoDeadEnd
<1>6. EndsWithContext'  BY <1>1, <1>n, <1>o DEF EndsWithContext, Service
<1>7. LimitInv' /\ LimitedTwiceIsLost'
  <2> SUFFICES ASSUME kind = "save_to_cache"
               PROVE  attempt = 0 /\ due >= 2000
    BY <1>1, <1>3, <1>n DEF LimitInv, LimitedTwiceIsLost
  <2>1. over = 5000 /\ due >= IF attempt = 0 THEN 2000 ELSE 6000
    BY <1>1 DEF IInv, ContextInv, LimitInv
  <2> QED  BY <1>1, <1>n, <2>1
<1>8. ASSUME kind \in {"save_turn", "pump", "save_answer"} PROVE SaveInv' /\ SavesAreBounded'
  <2>1. PICK L : L = LongestUpTo(call - 1)  OBVIOUS
  <2>2. due =< L + Spent(Service, attempt + 1)  BY <1>1, <1>8, <2>1 DEF IInv, SaveInv
  <2>3. /\ L \in Nat /\ Service = "session" /\ LongestUpTo(call) = L + 487 + 3 * Overrun
        /\ attempt \in 0..1
    BY <1>2, <1>t, <1>8, <1>n, <2>1, SaveBudget
  <2>4. /\ Spent(Service, attempt + 1) \in Nat
        /\ Spent(Service, attempt + 1) =< 387 + 2 * Overrun
    <3>1. attempt + 1 = 1 \/ attempt + 1 = 2  BY <2>3
    <3> QED  BY <1>o, <2>3, <3>1, SpentFigures
  <2>5. due =< LongestUpTo(call)  BY <1>n, <1>o, <2>2, <2>3, <2>4
  <2>6. SaveInv'
    BY <1>1, <1>3, <2>1, <2>2 DEF SaveInv, LongestUpTo, Service
  <2>7. SavesAreBounded'  BY <1>1, <2>5 DEF SavesAreBounded, LongestUpTo
  <2> QED  BY <2>6, <2>7
<1>9. kind \notin {"save_turn", "pump", "save_answer"} => SaveInv' /\ SavesAreBounded'
  BY <1>1 DEF SaveInv, SavesAreBounded
<1> QED  BY <1>4, <1>5, <1>6, <1>7, <1>8, <1>9 DEF IInv

\* A context that ends during a backoff ends the loop.
LEMMA ContextDoneInv == ASSUME IInv, ContextDone PROVE IInv'
<1>o. Overrun \in Nat  BY RetryAssumption
<1>t. TypeOK /\ EndsWithContext  BY DEF IInv
<1>1. place = "waiting" /\ over =< due /\ now' = Later(now, over) /\ Return("ctx")
  BY DEF ContextDone
<1>2. attempt < Settings.MaxRetries /\ now =< due  BY <1>1 DEF IInv, WaitInv
<1>n. now \in Nat /\ due \in Nat /\ over \in Nat /\ attempt \in Nat /\ Settings.MaxRetries \in Nat
  BY <1>t, Services, RetriesType DEF TypeOK, Settings
<1>3. /\ Later(now, over) \in Nat /\ Later(now, over) =< due
      /\ Later(now, over) =< over + Grace
  BY <1>1, <1>2, <1>n, <1>o, <1>t DEF Later, EndsWithContext, Grace
<1>4. ASSUME kind \in {"save_turn", "pump", "save_answer"} PROVE Later(now, over) =< LongestUpTo(call)
  <2>1. PICK L : L = LongestUpTo(call - 1)  OBVIOUS
  <2>2. due =< L + Spent(Service, attempt + 1)  BY <1>1, <1>4, <2>1 DEF IInv, SaveInv
  <2>3. /\ L \in Nat /\ Service = "session" /\ LongestUpTo(call) = L + 487 + 3 * Overrun
        /\ attempt \in 0..1
    BY <1>2, <1>t, <1>4, <1>n, <2>1, SaveBudget
  <2>4. /\ Spent(Service, attempt + 1) \in Nat
        /\ Spent(Service, attempt + 1) =< 387 + 2 * Overrun
    <3>1. attempt + 1 = 1 \/ attempt + 1 = 2  BY <2>3
    <3> QED  BY <1>o, <2>3, <3>1, SpentFigures
  <2> QED  BY <1>3, <1>n, <1>o, <2>2, <2>3, <2>4
<1> QED  BY <1>1, <1>3, <1>4, ReturnInv

\* A hang-up brings the end of the context forward, and never before now.
LEMMA HangUpInv == ASSUME IInv, HangUp PROVE IInv'
<1>o. Overrun \in Nat  BY RetryAssumption
<1>t. TypeOK  BY DEF IInv
<1>1. /\ kind \in InRequest /\ over' \in IF place = "waiting" THEN {now, due} ELSE {now}
      /\ UNCHANGED <<kind, call, attempt, place, now, due, result>>
  BY DEF HangUp
<1>2. place = "waiting" => now =< due  BY DEF IInv, WaitInv
<1>n. now \in Nat /\ due \in Nat  BY <1>t DEF TypeOK
<1>3. over' \in Nat /\ now =< over'  BY <1>1, <1>2, <1>n
<1>4. TypeOK'  BY <1>t, <1>1, <1>3 DEF TypeOK, Settings, Service
<1>5. EndsWithContext'
  <2>1. PICK slack \in Nat : slack = (IF Work[kind'][call'] = "gemini" THEN 0 ELSE Overrun)
    BY <1>o
  <2>2. PICK o \in Nat : o = over'  BY <1>3
  <2>3. now =< o  BY <1>3, <2>2
  <2>4. now =< o + slack  BY <1>n, <2>3
  <2> QED  BY <1>1, <2>1, <2>2, <2>4 DEF EndsWithContext, Service
<1>6. WaitInv'  BY <1>1 DEF IInv, WaitInv, Settings, Service
<1>7. kind \notin {"save_turn", "pump", "save_answer", "save_to_cache"}  BY <1>1 DEF InRequest
<1> QED
  BY <1>1, <1>4, <1>5, <1>6, <1>7 DEF IInv, ContextInv, LimitInv, SaveInv, SavesAreBounded,
     LimitedTwiceIsLost, NoDeadEnd

-----------------------------------------------------------------------------
(* Theorems *)

\* The inductive invariant holds at first.
LEMMA InitIInv == Init => IInv
<1> SUFFICES ASSUME Init PROVE IInv  OBVIOUS
<1>o. Overrun \in Nat /\ Never \in Nat  BY RetryAssumption
<1>1. /\ kind \in Kinds /\ call = 1 /\ attempt = 0 /\ place = "calling" /\ now = 0 /\ due = 0
      /\ over = ContextEnd(kind) /\ result = "none"
  BY DEF Init
<1>2. over \in Nat  BY <1>1, <1>o DEF ContextEnd
<1>3. Len(Work[kind]) \in 1..3 /\ Service \in {"session", "cache", "gemini"}
  BY <1>1, KindsAre, Calls DEF Service
<1>4. TypeOK
  <2>1. Settings.MaxRetries \in Nat  BY <1>3, RetriesType DEF Settings
  <2> QED  BY <1>1, <1>2, <1>3, <2>1 DEF TypeOK
<1>5. ContextInv /\ WaitInv /\ LimitInv /\ LimitedTwiceIsLost /\ NoDeadEnd
  BY <1>1 DEF ContextInv, WaitInv, LimitInv, LimitedTwiceIsLost, NoDeadEnd, ContextEnd
<1>6. EndsWithContext  BY <1>1, <1>2, <1>o DEF EndsWithContext
<1>7. ASSUME kind \in {"save_turn", "pump", "save_answer"} PROVE SaveInv /\ SavesAreBounded
  <2>1. PICK L : L = LongestUpTo(call - 1)  OBVIOUS
  <2>2. /\ L \in Nat /\ LongestUpTo(call) \in Nat /\ Service \in {"session", "cache"}
    BY <1>4, <1>7, <1>o, <2>1, SaveBudget
  <2>3. Spent(Service, attempt) = 0  BY <1>1, <2>2, SpentFigures
  <2> QED  BY <1>1, <2>1, <2>2, <2>3 DEF SaveInv, SavesAreBounded
<1>8. kind \notin {"save_turn", "pump", "save_answer"} => SaveInv /\ SavesAreBounded
  BY DEF SaveInv, SavesAreBounded
<1> QED  BY <1>4, <1>5, <1>6, <1>7, <1>8 DEF IInv

\* Every step keeps the inductive invariant.
LEMMA StepIInv == IInv /\ [Next]_vars => IInv'
<1> SUFFICES ASSUME IInv, [Next]_vars PROVE IInv'  OBVIOUS
<1>1. CASE UNCHANGED vars
  BY <1>1 DEF vars, IInv, TypeOK, ContextInv, WaitInv, LimitInv, SaveInv, EndsWithContext,
     SavesAreBounded, LimitedTwiceIsLost, NoDeadEnd, LongestUpTo, Settings, Service
<1>2. CASE Ended
  BY <1>1, <1>2 DEF Ended
<1> QED
  BY <1>1, <1>2, OperationInv, AnswerInv, CutOffInv, TimerFiresInv, ContextDoneInv, HangUpInv
     DEF Next

\* The inductive invariant holds in every reachable state.
THEOREM Invariance == Spec => []IInv
BY InitIInv, StepIInv, PTL DEF Spec

\* Every variable keeps its type: no loop goes past its last retry.
THEOREM TypeCorrect == Spec => []TypeOK
<1>1. IInv => TypeOK  BY DEF IInv
<1> QED  BY <1>1, Invariance, PTL

\* A loop outlives its context by no more than a Redis command (redis.go:62,
\* gemini.go:165), however long such a command or an answer of Gemini takes.
THEOREM LoopsEndWithContext == Spec => []EndsWithContext
<1>1. IInv => EndsWithContext  BY DEF IInv
<1> QED  BY <1>1, Invariance, PTL

\* The limits of the loops bound the saves that have no deadline (blocking.go:41,
\* streaming.go:190), whatever Redis does.
THEOREM SavesEndInTime == Spec => []SavesAreBounded
<1>1. IInv => SavesAreBounded  BY DEF IInv
<1> QED  BY <1>1, Invariance, PTL

\* A write of saveToCacheAsync is retried at most once (server.go:63, main.go:70),
\* however fast Gemini answers.
THEOREM OneRetryInBackground == Spec => []LimitedTwiceIsLost
<1>1. IInv => LimitedTwiceIsLost  BY DEF IInv
<1> QED  BY <1>1, Invariance, PTL

\* No loop runs off its end and no backoff panics (redis.go:57, redis.go:68,
\* gemini.go:155).
THEOREM LoopsHaveAWayOut == Spec => []NoDeadEnd
<1>1. IInv => NoDeadEnd  BY DEF IInv
<1> QED  BY <1>1, Invariance, PTL
=============================================================================
