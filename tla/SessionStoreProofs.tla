------------------------- MODULE SessionStoreProofs -------------------------
(***************************************************************************)
(* Proofs about SessionStore, for any clients and turns, any limits of     *)
(* retries and of the driver, and windows of any size.                     *)
(***************************************************************************)
EXTENDS SessionStore, FiniteSetTheorems, SequenceTheorems, TLAPS

-----------------------------------------------------------------------------
(* The inductive invariant *)

\* How often the line of a speaker can have been sent so far: the bot's line not before
\* SaveSession has returned for the user's.
Budget(t, w) ==
  CASE place[t] \in {"idle", "answering"} -> 0
    [] place[t] = "saving" /\ op[t] = w -> attempt[t] * DriverSends + sends[t]
    [] place[t] = "saving" /\ op[t] = "User" /\ w = "Bot" -> 0
    [] OTHER -> SendBound

SentInv(t, w) ==
  Cardinality(Positions(t, w)) + wire[t][w] =< Budget(t, w)

\* A turn that has not saved has not begun its loop; one without a session never saves.
TurnInv(t) ==
  /\ place[t] \in {"idle", "answering"} => op[t] = "User" /\ attempt[t] = 0 /\ sends[t] = 0
  /\ NoSession(t) =>
       /\ place[t] # "saving"
       /\ \A w \in Speakers : wire[t][w] = 0 /\ saved[t][w] = "pending"

IInv ==
  /\ TypeOK
  /\ \A t \in Turns : TurnInv(t)
  /\ \A t \in Turns, w \in Speakers : SentInv(t, w)
  /\ AckedIsStored
  /\ UserBeforeBot

-----------------------------------------------------------------------------
(* Lemmas about the data *)

\* A line is found at places of its list, of which there are finitely many.
LEMMA PositionsFinite ==
  ASSUME TypeOK, NEW t \in Turns, NEW w \in Speakers
  PROVE  /\ IsFiniteSet(Positions(t, w))
         /\ Cardinality(Positions(t, w)) \in Nat
         /\ ~NoSession(t) =>
              /\ Key(t) \in Keys
              /\ Len(list[Key(t)]) \in Nat
              /\ Positions(t, w) \subseteq 1..Len(list[Key(t)])
<1>1. CASE NoSession(t)
  BY <1>1, FS_EmptySet DEF Positions
<1>2. CASE ~NoSession(t)
  <2>1. Key(t) \in Keys
    BY <1>2, SessionAssumption DEF NoSession, Key, Keys
  <2>2. Len(list[Key(t)]) \in Nat /\ DOMAIN list[Key(t)] = 1..Len(list[Key(t)])
    BY <2>1, LenProperties DEF TypeOK
  <2>3. Positions(t, w) \subseteq 1..Len(list[Key(t)])
    BY <1>2, <2>2 DEF Positions
  <2>4. IsFiniteSet(1..Len(list[Key(t)]))
    BY <2>2, FS_Interval
  <2>5. QED
    BY <2>1, <2>2, <2>3, <2>4, FS_Subset, FS_CardinalityType
<1>3. QED
  BY <1>1, <1>2

\* RPUSH puts a line behind all others and moves none.
LEMMA StoredPositions ==
  ASSUME TypeOK, NEW t \in Turns, NEW w \in Speakers, ~NoSession(t),
         Stored(Key(t), [turn |-> t, who |-> w])
  PROVE  /\ list' \in [Keys -> Seq(Line)]
         /\ Positions(t, w)' = Positions(t, w) \cup {Len(list[Key(t)]) + 1}
         /\ \A u \in Turns, v \in Speakers :
              <<u, v>> # <<t, w>> => Positions(u, v)' = Positions(u, v)
<1> DEFINE k == Key(t)
           line == [turn |-> t, who |-> w]
           n == Len(list[k]) + 1
<1>1. k \in Keys /\ list[k] \in Seq(Line) /\ line \in Line
  BY PositionsFinite DEF TypeOK, Line
<1>2. list' = [list EXCEPT ![k] = Append(list[k], line)]
  BY DEF Stored
<1> HIDE DEF k, line
<1>3. Append(list[k], line) \in Seq(Line)
  BY <1>1, AppendProperties
<1>4. list' \in [Keys -> Seq(Line)] /\ list'[k] = Append(list[k], line)
      /\ \A h \in Keys : h # k => list'[h] = list[h]
  BY <1>1, <1>2, <1>3 DEF TypeOK
<1>5. Len(list[k]) \in Nat /\ DOMAIN list[k] = 1..Len(list[k])
  BY <1>1, LenProperties
<1>6. Len(list'[k]) = n /\ DOMAIN list'[k] = 1..n
  BY <1>1, <1>3, <1>4, AppendProperties, LenProperties
<1>7. list'[k][n] = line /\ \A i \in DOMAIN list[k] : list'[k][i] = list[k][i]
  BY <1>1, <1>4, <1>5, AppendProperties
<1>8. DOMAIN list'[k] = DOMAIN list[k] \cup {n} /\ n \notin DOMAIN list[k]
  BY <1>5, <1>6
<1>9. Positions(t, w)' = Positions(t, w) \cup {n}
  BY <1>7, <1>8 DEF Positions, NoSession, k, line
<1>10. ASSUME NEW u \in Turns, NEW v \in Speakers, <<u, v>> # <<t, w>>
       PROVE  Positions(u, v)' = Positions(u, v)
  <2>1. CASE NoSession(u)
    BY <2>1 DEF Positions, NoSession
  <2>2. CASE ~NoSession(u) /\ Key(u) = k
    <3>1. [turn |-> u, who |-> v] # line
      BY <1>10 DEF line
    <3>2. QED
      BY <1>7, <1>8, <2>2, <3>1 DEF Positions, NoSession, Key
  <2>3. CASE ~NoSession(u) /\ Key(u) # k
    <3>1. Key(u) \in Keys
      BY <2>3, PositionsFinite
    <3>2. list'[Key(u)] = list[Key(u)]
      BY <1>4, <2>3, <3>1
    <3>3. QED
      BY <2>3, <3>2 DEF Positions, NoSession, Key
  <2>4. QED
    BY <2>1, <2>2, <2>3
<1>11. QED
  BY <1>4, <1>9, <1>10 DEF k

\* A list that is left alone keeps its positions.
LEMMA SamePositions ==
  ASSUME UNCHANGED list
  PROVE  \A t \in Turns, w \in Speakers : Positions(t, w)' = Positions(t, w)
BY DEF Positions, NoSession, Key

\* Two products are one: the solver does not distribute variables itself.
LEMMA Distribute ==
  ASSUME NEW x \in Nat, NEW y \in Nat, NEW z \in Nat
  PROVE  x * z \in Nat /\ (x + y) * z = x * z + y * z
OBVIOUS

\* The attempts of a call and the sends of the driver multiply.
LEMMA BudgetBounds ==
  ASSUME NEW a \in 0..MaxRetries, NEW s \in 0..DriverSends
  PROVE  /\ a * DriverSends + s \in 0..SendBound
         /\ a * DriverSends \in Nat
         /\ SendBound \in Nat
<1> DEFINE D == DriverSends
<1>1. D \in Nat /\ MaxRetries \in Nat
  BY SessionAssumption
<1>2. SendBound = MaxRetries * D + D /\ MaxRetries * D \in Nat
  BY <1>1, Distribute DEF SendBound
<1>3. a * D \in Nat /\ a * D =< MaxRetries * D
  <2>1. PICK m \in Nat : MaxRetries = a + m
    <3>1. MaxRetries - a \in Nat
      BY <1>1
    <3>2. MaxRetries = a + (MaxRetries - a)
      BY <1>1
    <3>3. QED
      BY <3>1, <3>2
  <2>2. MaxRetries * D = a * D + m * D /\ m * D \in Nat /\ a * D \in Nat
    BY <1>1, <2>1, Distribute
  <2>3. QED
    BY <2>2
<1>4. QED
  BY <1>1, <1>2, <1>3

\* The bound on the copies of a line is a number.
LEMMA SendBoundType == SendBound \in Nat
<1>1. 0 \in 0..MaxRetries /\ 0 \in 0..DriverSends
  BY SessionAssumption
<1>2. QED
  BY <1>1, BudgetBounds

\* A budget is a number within the bound.
LEMMA BudgetType ==
  ASSUME TypeOK, NEW t \in Turns, NEW w \in Speakers
  PROVE  Budget(t, w) \in 0..SendBound /\ SendBound \in Nat
<1>1. /\ attempt[t] * DriverSends + sends[t] \in 0..SendBound
      /\ SendBound \in Nat
  BY BudgetBounds DEF TypeOK
<1>2. QED
  BY <1>1 DEF Budget

-----------------------------------------------------------------------------
(* Steps that store nothing *)

\* What has been acknowledged stays stored, in its order, while the lists are left alone.
LEMMA SameLists ==
  ASSUME AckedIsStored, UserBeforeBot, UNCHANGED list,
         \A t \in Turns, w \in Speakers : saved'[t][w] = "ok" => saved[t][w] = "ok"
  PROVE  AckedIsStored' /\ UserBeforeBot'
BY SamePositions DEF AckedIsStored, UserBeforeBot, Speakers

\* Copies stay within budgets that do not shrink if there do not get more of them.
LEMMA SentFrame ==
  ASSUME IInv,
         \A t \in Turns, w \in Speakers :
           /\ Budget(t, w)' \in Nat /\ Budget(t, w)' >= Budget(t, w)
           /\ Cardinality(Positions(t, w))' + wire'[t][w] =< Cardinality(Positions(t, w)) + wire[t][w]
           /\ Cardinality(Positions(t, w))' + wire'[t][w] \in Int
  PROVE  \A t \in Turns, w \in Speakers : SentInv(t, w)'
<1> SUFFICES ASSUME NEW t \in Turns, NEW w \in Speakers PROVE SentInv(t, w)'
  OBVIOUS
<1>1. SentInv(t, w) /\ TypeOK
  BY DEF IInv
<1>2. Cardinality(Positions(t, w)) \in Nat /\ wire[t][w] \in Nat /\ Budget(t, w) \in Nat
  BY <1>1, PositionsFinite, BudgetType DEF TypeOK
<1>3. QED
  BY <1>1, <1>2 DEF SentInv

\* A budget depends on the place of its turn and of its loop only.
LEMMA SameBudget ==
  ASSUME NEW t \in Turns, place'[t] = place[t], op'[t] = op[t], attempt'[t] = attempt[t],
         sends'[t] = sends[t]
  PROVE  \A w \in Speakers : Budget(t, w)' = Budget(t, w)
BY DEF Budget, SendBound

\* SaveSession returns: the next call, or the end of the turn, has no smaller budget.
LEMMA ReturnStep ==
  ASSUME IInv, NEW t \in Turns, place[t] = "saving", NEW o \in Outcomes, Return(t, o)
  PROVE  /\ place' \in [Turns -> Places] /\ op' \in [Turns -> Speakers]
         /\ attempt' \in [Turns -> 0..MaxRetries] /\ sends' \in [Turns -> 0..DriverSends]
         /\ saved' \in [Turns -> [Speakers -> Outcomes]]
         /\ \A u \in Turns, w \in Speakers :
              Budget(u, w)' \in Nat /\ Budget(u, w)' >= Budget(u, w)
         /\ \A u \in Turns : u # t =>
              /\ place'[u] = place[u] /\ op'[u] = op[u]
              /\ attempt'[u] = attempt[u] /\ sends'[u] = sends[u] /\ saved'[u] = saved[u]
         /\ place'[t] \in {"saving", "done"}
         /\ \A w \in Speakers : saved'[t][w] = IF w = op[t] THEN o ELSE saved[t][w]
<1>t. TypeOK
  BY DEF IInv
<1>a. MaxRetries \in Nat /\ DriverSends \in Nat /\ 0 \in 0..MaxRetries /\ 0 \in 0..DriverSends
  BY SessionAssumption
<1>1. /\ place' \in [Turns -> Places] /\ op' \in [Turns -> Speakers]
      /\ attempt' \in [Turns -> 0..MaxRetries] /\ sends' \in [Turns -> 0..DriverSends]
  BY <1>t, <1>a DEF Return, TypeOK, Places, Speakers
<1>2. saved' \in [Turns -> [Speakers -> Outcomes]]
  BY <1>t DEF Return, TypeOK
<1>3. \A u \in Turns : u # t =>
        /\ place'[u] = place[u] /\ op'[u] = op[u]
        /\ attempt'[u] = attempt[u] /\ sends'[u] = sends[u] /\ saved'[u] = saved[u]
  BY <1>t DEF Return, TypeOK
<1>4. /\ place'[t] = IF op[t] = "User" THEN "saving" ELSE "done"
      /\ op'[t] = "Bot" /\ attempt'[t] = 0 /\ sends'[t] = 0
      /\ \A w \in Speakers : saved'[t][w] = IF w = op[t] THEN o ELSE saved[t][w]
  BY <1>t DEF Return, TypeOK
<1>5. ASSUME NEW u \in Turns, NEW w \in Speakers
      PROVE  Budget(u, w)' \in Nat /\ Budget(u, w)' >= Budget(u, w)
  <2>1. Budget(u, w) \in 0..SendBound /\ SendBound \in Nat /\ SendBound' = SendBound
    BY <1>t, BudgetType DEF SendBound
  <2>2. CASE u # t
    BY <1>3, <2>1, <2>2, SameBudget
  <2>3. CASE u = t /\ op[t] = "User" /\ w = "Bot"
    <3>1. Budget(t, w) = 0 /\ Budget(t, w)' = 0 * DriverSends + 0
      BY <1>4, <2>3 DEF Budget
    <3>2. QED
      BY <1>a, <2>3, <3>1
  <2>4. CASE u = t /\ (op[t] = "Bot" \/ w = "User")
    <3>1. Budget(t, w)' = SendBound
      BY <1>4, <2>1, <2>4 DEF Budget
    <3>2. QED
      BY <2>1, <2>4, <3>1
  <2>5. QED
    BY <1>t, <2>2, <2>3, <2>4 DEF Speakers, TypeOK
<1>6. QED
  BY <1>1, <1>2, <1>3, <1>4, <1>5

\* A turn reads its history, or is answered.
LEMMA TurnStep ==
  ASSUME IInv, NEW t \in Turns, GetSession(t) \/ Answered(t)
  PROVE  IInv'
<1>t. TypeOK /\ TurnInv(t)
  BY DEF IInv
<1>a. MaxRetries \in Nat /\ DriverSends \in Nat
  BY SessionAssumption
<1>1. UNCHANGED <<list, op, attempt, sends, wire, saved, up>>
  BY DEF GetSession, Answered
<1>2. /\ place' \in [Turns -> Places]
      /\ \A u \in Turns : u # t => place'[u] = place[u]
      /\ place[t] \in {"idle", "answering"}
      /\ place'[t] \in {"answering", "saving", "done"}
      /\ NoSession(t) => place'[t] # "saving"
  BY <1>t DEF GetSession, Answered, TypeOK, Places
<1>3. history' \in [Turns -> Seq(Line)]
  <2>1. CASE UNCHANGED history
    BY <1>t, <2>1 DEF TypeOK
  <2>2. CASE ~NoSession(t) /\ history' = [history EXCEPT ![t] = Window(Key(t))]
    <3>1. Key(t) \in Keys
      BY <1>t, <2>2, SessionAssumption DEF NoSession, Key, Keys
    <3>2. list[Key(t)] \in Seq(Line)
      BY <1>t, <3>1 DEF TypeOK
    <3>3. Window(Key(t)) \in Seq(Line)
      <4> DEFINE n == IF Len(list[Key(t)]) < HistoryLimit THEN Len(list[Key(t)]) ELSE HistoryLimit
      <4>1. n \in Nat /\ n =< Len(list[Key(t)])
        BY <3>2, LenProperties, SessionAssumption
      <4>2. \A i \in 1..n : list[Key(t)][i] \in Line
        BY <3>2, <4>1, ElementOfSeq, LenProperties
      <4>3. QED
        BY <4>1, <4>2, SubSeqProperties DEF Window
    <3>4. QED
      BY <1>t, <2>2, <3>3 DEF TypeOK
  <2>3. QED
    BY <2>1, <2>2 DEF GetSession, Answered
<1>4. TypeOK'
  BY <1>t, <1>1, <1>2, <1>3 DEF TypeOK
<1>5. ASSUME NEW u \in Turns PROVE TurnInv(u)'
  <2>1. TurnInv(u)
    BY DEF IInv
  <2>2. QED
    BY <1>1, <1>2, <2>1 DEF TurnInv, NoSession
<1>6. ASSUME NEW u \in Turns, NEW w \in Speakers
      PROVE  Budget(u, w)' \in Nat /\ Budget(u, w)' >= Budget(u, w)
  <2>1. Budget(u, w) \in 0..SendBound /\ SendBound \in Nat /\ SendBound' = SendBound
    BY <1>t, BudgetType DEF SendBound
  <2>2. CASE u # t
    BY <1>1, <1>2, <2>1, <2>2, SameBudget
  <2>3. CASE u = t
    <3>1. Budget(t, w) = 0
      BY <1>2 DEF Budget
    <3>2. op[t] = "User" /\ attempt[t] = 0 /\ sends[t] = 0
      BY <1>t, <1>2 DEF TurnInv
    <3>3. Budget(t, w)' \in {0, 0 * DriverSends + 0, SendBound}
      BY <1>1, <1>2, <2>1, <3>2 DEF Budget, Speakers
    <3>4. QED
      BY <1>a, <2>1, <2>3, <3>1, <3>3
  <2>4. QED
    BY <2>2, <2>3
<1>7. \A u \in Turns, w \in Speakers : SentInv(u, w)'
  <2>1. ASSUME NEW u \in Turns, NEW w \in Speakers
        PROVE  /\ Positions(u, w)' = Positions(u, w) /\ wire'[u][w] = wire[u][w]
               /\ Cardinality(Positions(u, w)) \in Nat /\ wire[u][w] \in Nat
    <3>1. Positions(u, w)' = Positions(u, w)
      BY <1>1, SamePositions
    <3>2. Cardinality(Positions(u, w)) \in Nat
      BY <1>t, PositionsFinite
    <3>3. wire'[u][w] = wire[u][w] /\ wire[u][w] \in Nat
      BY <1>t, <1>1 DEF TypeOK
    <3>4. QED
      BY <3>1, <3>2, <3>3
  <2>2. QED
    BY <1>6, <2>1, SentFrame
<1>8. AckedIsStored' /\ UserBeforeBot'
  BY <1>1, SameLists DEF IInv
<1>9. QED
  BY <1>4, <1>5, <1>7, <1>8 DEF IInv

\* A send is one of those the attempt may make.
LEMMA SendStep ==
  ASSUME IInv, NEW t \in Turns, Send(t)
  PROVE  IInv'
<1>t. TypeOK /\ TurnInv(t)
  BY DEF IInv
<1>a. MaxRetries \in Nat /\ DriverSends \in Nat
  BY SessionAssumption
<1>1. UNCHANGED <<list, place, history, op, attempt, saved, up>> /\ place[t] = "saving"
  BY DEF Send
<1>2. /\ sends' \in [Turns -> 0..DriverSends] /\ sends'[t] = sends[t] + 1
      /\ \A u \in Turns : u # t => sends'[u] = sends[u]
  BY <1>t, <1>a DEF Send, TypeOK
<1>3. \A u \in Turns, w \in Speakers :
        /\ wire[u][w] \in Nat
        /\ wire'[u][w] = IF u = t /\ w = op[t] THEN wire[t][w] + 1 ELSE wire[u][w]
  BY <1>t DEF Send, TypeOK
<1>4. ASSUME NEW u \in Turns, NEW w \in Speakers
      PROVE  /\ SentInv(u, w)'
             /\ wire'[u][w] \in 0..SendBound
  <2> DEFINE n == Cardinality(Positions(u, w))
  <2>1. n \in Nat /\ Positions(u, w)' = Positions(u, w)
    BY <1>t, <1>1, PositionsFinite, SamePositions
  <2>2. n + wire[u][w] =< Budget(u, w) /\ Budget(u, w) \in 0..SendBound /\ SendBound \in Nat
    BY <1>t, BudgetType DEF IInv, SentInv
  <2>3. CASE u = t /\ w = op[t]
    <3>1. /\ Budget(t, w) = attempt[t] * DriverSends + sends[t]
          /\ Budget(t, w)' = attempt[t] * DriverSends + sends'[t]
      BY <1>1, <2>3 DEF Budget
    <3>2. /\ attempt[t] * DriverSends \in Nat
          /\ attempt[t] * DriverSends + sends'[t] \in 0..SendBound
      BY <1>t, <1>2, BudgetBounds DEF TypeOK
    <3>3. sends[t] \in Nat
      BY <1>t, <1>a DEF TypeOK
    <3>4. QED
      BY <1>2, <1>3, <2>1, <2>2, <2>3, <3>1, <3>2, <3>3 DEF SentInv
  <2>4. CASE ~(u = t /\ w = op[t])
    <3>1. Budget(u, w)' = Budget(u, w)
      BY <1>1, <1>2, <2>4 DEF Budget, SendBound
    <3>2. QED
      BY <1>3, <2>1, <2>2, <2>4, <3>1 DEF SentInv
  <2>5. QED
    BY <2>3, <2>4
<1>5. TypeOK'
  <2>1. wire' \in [Turns -> [Speakers -> Int]]
    BY <1>t, <1>a DEF Send, TypeOK
  <2>2. wire' \in [Turns -> [Speakers -> 0..SendBound]]
    BY <1>4, <2>1
  <2>3. QED
    BY <1>t, <1>1, <1>2, <2>2 DEF TypeOK, SendBound
<1>6. ASSUME NEW u \in Turns PROVE TurnInv(u)'
  <2>1. TurnInv(u)
    BY DEF IInv
  <2>2. QED
    BY <1>1, <1>2, <1>3, <2>1 DEF TurnInv, NoSession
<1>7. AckedIsStored' /\ UserBeforeBot'
  BY <1>1, SameLists DEF IInv
<1>8. QED
  BY <1>4, <1>5, <1>6, <1>7 DEF IInv

\* An attempt fails: the next one has its own sends, or SaveSession returns.
LEMMA AttemptStep ==
  ASSUME IInv, NEW t \in Turns, AttemptFails(t)
  PROVE  IInv'
<1>t. TypeOK /\ TurnInv(t)
  BY DEF IInv
<1>a. MaxRetries \in Nat /\ DriverSends \in Nat
  BY SessionAssumption
<1>1. UNCHANGED <<list, history, wire, up>> /\ place[t] = "saving"
  BY DEF AttemptFails
<1>2. /\ place' \in [Turns -> Places] /\ op' \in [Turns -> Speakers]
      /\ attempt' \in [Turns -> 0..MaxRetries] /\ sends' \in [Turns -> 0..DriverSends]
      /\ saved' \in [Turns -> [Speakers -> Outcomes]]
      /\ \A u \in Turns, w \in Speakers : Budget(u, w)' \in Nat /\ Budget(u, w)' >= Budget(u, w)
      /\ \A u \in Turns : u # t =>
           /\ place'[u] = place[u] /\ op'[u] = op[u]
           /\ attempt'[u] = attempt[u] /\ sends'[u] = sends[u] /\ saved'[u] = saved[u]
      /\ place'[t] \in {"saving", "done"}
      /\ \A w \in Speakers : saved'[t][w] = "ok" => saved[t][w] = "ok"
  <2>1. CASE /\ attempt[t] < MaxRetries
             /\ attempt' = [attempt EXCEPT ![t] = @ + 1]
             /\ sends' = [sends EXCEPT ![t] = 0]
             /\ UNCHANGED <<place, op, saved>>
    <3>1. /\ attempt' \in [Turns -> 0..MaxRetries] /\ sends' \in [Turns -> 0..DriverSends]
          /\ attempt'[t] = attempt[t] + 1 /\ sends'[t] = 0
          /\ \A u \in Turns : u # t => attempt'[u] = attempt[u] /\ sends'[u] = sends[u]
      BY <1>t, <1>a, <2>1 DEF TypeOK
    <3>2. ASSUME NEW u \in Turns, NEW w \in Speakers
          PROVE  Budget(u, w)' \in Nat /\ Budget(u, w)' >= Budget(u, w)
      <4>1. Budget(u, w) \in 0..SendBound /\ SendBound \in Nat
        BY <1>t, BudgetType
      <4>2. CASE u = t /\ w = op[t]
        <5>1. /\ Budget(t, w) = attempt[t] * DriverSends + sends[t]
              /\ Budget(t, w)' = (attempt[t] + 1) * DriverSends + 0
          BY <1>1, <2>1, <3>1, <4>2 DEF Budget
        <5>2. attempt[t] \in Nat /\ 1 \in Nat /\ sends[t] \in 0..DriverSends
          BY <1>t, <1>a DEF TypeOK
        <5>3. /\ attempt[t] * DriverSends \in Nat
              /\ (attempt[t] + 1) * DriverSends = attempt[t] * DriverSends + 1 * DriverSends
          BY <1>a, <5>2, Distribute
        <5>4. QED
          BY <1>a, <4>2, <5>1, <5>2, <5>3
      <4>3. CASE ~(u = t /\ w = op[t])
        <5>1. Budget(u, w)' = Budget(u, w)
          BY <2>1, <3>1, <4>3 DEF Budget, SendBound
        <5>2. QED
          BY <4>1, <5>1
      <4>4. QED
        BY <4>2, <4>3
    <3>3. QED
      BY <1>t, <1>1, <2>1, <3>1, <3>2 DEF TypeOK
  <2>2. CASE Return(t, "gave up")
    <3>1. "gave up" \in Outcomes
      BY DEF Outcomes
    <3>2. /\ place' \in [Turns -> Places] /\ op' \in [Turns -> Speakers]
          /\ attempt' \in [Turns -> 0..MaxRetries] /\ sends' \in [Turns -> 0..DriverSends]
          /\ saved' \in [Turns -> [Speakers -> Outcomes]]
          /\ place'[t] \in {"saving", "done"}
      BY <1>1, <2>2, <3>1, ReturnStep
    <3>3. \A u \in Turns, w \in Speakers :
            Budget(u, w)' \in Nat /\ Budget(u, w)' >= Budget(u, w)
      BY <1>1, <2>2, <3>1, ReturnStep
    <3>4. \A u \in Turns : u # t =>
            /\ place'[u] = place[u] /\ op'[u] = op[u]
            /\ attempt'[u] = attempt[u] /\ sends'[u] = sends[u] /\ saved'[u] = saved[u]
      BY <1>1, <2>2, <3>1, ReturnStep
    <3>5. \A w \in Speakers : saved'[t][w] = IF w = op[t] THEN "gave up" ELSE saved[t][w]
      BY <1>1, <2>2, <3>1, ReturnStep
    <3>6. \A w \in Speakers : saved'[t][w] = "ok" => saved[t][w] = "ok"
      BY <3>5
    <3>7. QED
      BY <3>2, <3>3, <3>4, <3>6
  <2>3. QED
    BY <2>1, <2>2 DEF AttemptFails
<1>3. TypeOK'
  BY <1>t, <1>1, <1>2 DEF TypeOK
<1>4. ASSUME NEW u \in Turns PROVE TurnInv(u)'
  <2>1. TurnInv(u)
    BY DEF IInv
  <2>2. QED
    BY <1>t, <1>1, <1>2, <2>1 DEF TurnInv, NoSession
<1>5. \A u \in Turns, w \in Speakers : SentInv(u, w)'
  <2>1. ASSUME NEW u \in Turns, NEW w \in Speakers
        PROVE  /\ Positions(u, w)' = Positions(u, w) /\ wire'[u][w] = wire[u][w]
               /\ Cardinality(Positions(u, w)) \in Nat /\ wire[u][w] \in Nat
    <3>1. Positions(u, w)' = Positions(u, w)
      BY <1>1, SamePositions
    <3>2. Cardinality(Positions(u, w)) \in Nat
      BY <1>t, PositionsFinite
    <3>3. wire'[u][w] = wire[u][w] /\ wire[u][w] \in Nat
      BY <1>t, <1>1 DEF TypeOK
    <3>4. QED
      BY <3>1, <3>2, <3>3
  <2>2. QED
    BY <1>2, <2>1, SentFrame
<1>6. AckedIsStored' /\ UserBeforeBot'
  BY <1>1, <1>2, SameLists DEF IInv
<1>7. QED
  BY <1>3, <1>4, <1>5, <1>6 DEF IInv

\* A copy that is lost.
LEMMA LostStep ==
  ASSUME IInv, NEW t \in Turns, NEW w \in Speakers, Lost(t, w)
  PROVE  IInv'
<1>t. TypeOK
  BY DEF IInv
<1>1. UNCHANGED <<list, place, history, op, attempt, sends, saved, up>>
  BY DEF Lost
<1>2. /\ wire' \in [Turns -> [Speakers -> 0..SendBound]]
      /\ \A u \in Turns, v \in Speakers :
           wire[u][v] \in Nat /\ wire'[u][v] \in Nat /\ wire'[u][v] =< wire[u][v]
  <2>1. wire[t][w] \in 1..SendBound
    BY <1>t DEF Lost, TypeOK
  <2>2. wire[t][w] - 1 \in 0..SendBound
    BY <2>1, SendBoundType
  <2>3. wire' = [wire EXCEPT ![t] = [wire[t] EXCEPT ![w] = wire[t][w] - 1]]
    BY DEF Lost
  <2>4. wire' \in [Turns -> [Speakers -> 0..SendBound]]
    BY <1>t, <2>2, <2>3 DEF TypeOK
  <2>5. ASSUME NEW u \in Turns, NEW v \in Speakers
        PROVE  wire[u][v] \in Nat /\ wire'[u][v] \in Nat /\ wire'[u][v] =< wire[u][v]
    <3>1. wire[u][v] \in 0..SendBound /\ wire'[u][v] \in 0..SendBound
      BY <1>t, <2>4 DEF TypeOK
    <3>2. wire'[u][v] = IF u = t /\ v = w THEN wire[t][w] - 1 ELSE wire[u][v]
      BY <1>t, <2>3 DEF TypeOK
    <3>3. QED
      BY <2>1, <3>1, <3>2, SendBoundType
  <2>6. QED
    BY <2>4, <2>5
<1>3. TypeOK'
  BY <1>t, <1>1, <1>2 DEF TypeOK, SendBound
<1>4. ASSUME NEW u \in Turns PROVE TurnInv(u)'
  <2>1. TurnInv(u)
    BY DEF IInv
  <2>2. QED
    BY <1>1, <1>2, <2>1 DEF TurnInv, NoSession
<1>5. \A u \in Turns, v \in Speakers : SentInv(u, v)'
  <2>1. \A u \in Turns, v \in Speakers :
          /\ Positions(u, v)' = Positions(u, v)
          /\ Cardinality(Positions(u, v)) \in Nat
          /\ Budget(u, v) \in 0..SendBound /\ SendBound \in Nat
          /\ Budget(u, v)' = Budget(u, v)
    BY <1>t, <1>1, SamePositions, PositionsFinite, BudgetType, SameBudget
  <2>2. QED
    BY <1>2, <2>1, SentFrame
<1>6. AckedIsStored' /\ UserBeforeBot'
  BY <1>1, SameLists DEF IInv
<1>7. QED
  BY <1>3, <1>4, <1>5, <1>6 DEF IInv

-----------------------------------------------------------------------------
(* Steps that store *)

\* One copy leaves the wire and becomes one line: the sum stays.
LEMMA CopyStored ==
  ASSUME TypeOK, NEW t \in Turns, NEW w \in Speakers, ~NoSession(t), wire[t][w] > 0,
         wire' = [wire EXCEPT ![t][w] = @ - 1],
         Stored(Key(t), [turn |-> t, who |-> w])
  PROVE  /\ wire' \in [Turns -> [Speakers -> 0..SendBound]]
         /\ \A u \in Turns, v \in Speakers :
              /\ Cardinality(Positions(u, v))' + wire'[u][v] = Cardinality(Positions(u, v)) + wire[u][v]
              /\ Cardinality(Positions(u, v))' + wire'[u][v] \in Int
         /\ \A u \in Turns : u # t => wire'[u] = wire[u]
<1> DEFINE n == Len(list[Key(t)]) + 1
<1>1. wire[t][w] \in 1..SendBound /\ wire[t][w] - 1 \in 0..SendBound
  <2>1. wire[t][w] \in 0..SendBound
    BY DEF TypeOK
  <2>2. QED
    BY <2>1, SendBoundType
<1>2. /\ wire' \in [Turns -> [Speakers -> 0..SendBound]]
      /\ wire'[t][w] = wire[t][w] - 1
      /\ \A u \in Turns, v \in Speakers : <<u, v>> # <<t, w>> => wire'[u][v] = wire[u][v]
      /\ \A u \in Turns : u # t => wire'[u] = wire[u]
  BY <1>1 DEF TypeOK
<1>3. ASSUME NEW u \in Turns, NEW v \in Speakers
      PROVE  /\ Cardinality(Positions(u, v))' + wire'[u][v] = Cardinality(Positions(u, v)) + wire[u][v]
             /\ Cardinality(Positions(u, v))' + wire'[u][v] \in Int
  <2>1. Cardinality(Positions(u, v)) \in Nat /\ wire[u][v] \in 0..SendBound
        /\ IsFiniteSet(Positions(u, v))
    BY PositionsFinite DEF TypeOK
  <2>2. CASE <<u, v>> = <<t, w>>
    <3>1. Positions(t, w)' = Positions(t, w) \cup {n}
      BY StoredPositions
    <3>2. n \notin Positions(t, w)
      BY PositionsFinite
    <3>3. Cardinality(Positions(t, w)') = Cardinality(Positions(t, w)) + 1
      <4> HIDE DEF n
      <4>1. QED
        BY <2>1, <2>2, <3>1, <3>2, FS_AddElement
    <3>4. QED
      BY <1>1, <1>2, <2>1, <2>2, <3>3
  <2>3. CASE <<u, v>> # <<t, w>>
    <3>1. Positions(u, v)' = Positions(u, v) /\ wire'[u][v] = wire[u][v]
      BY <1>2, <2>3, StoredPositions
    <3>2. QED
      BY <2>1, <3>1
  <2>4. QED
    BY <2>2, <2>3
<1>4. QED
  BY <1>2, <1>3

\* A line that is stored comes after all others: it can break neither an acknowledgement
\* nor, unless it is a first user's line behind a bot's, the order.
LEMMA CopyInOrder ==
  ASSUME TypeOK, AckedIsStored, UserBeforeBot,
         NEW t \in Turns, NEW w \in Speakers, ~NoSession(t),
         Stored(Key(t), [turn |-> t, who |-> w]),
         \A u \in Turns, v \in Speakers :
           saved'[u][v] = "ok" => saved[u][v] = "ok" \/ (u = t /\ v = w),
         w = "User" /\ saved'[t]["User"] = "ok" =>
           saved[t]["User"] = "ok" \/ Positions(t, "Bot") = {}
  PROVE  AckedIsStored' /\ UserBeforeBot'
<1> DEFINE n == Len(list[Key(t)]) + 1
<1>1. /\ Positions(t, w)' = Positions(t, w) \cup {n}
      /\ \A u \in Turns, v \in Speakers : <<u, v>> # <<t, w>> => Positions(u, v)' = Positions(u, v)
  BY StoredPositions
<1>2. \A v \in Speakers : \A i \in Positions(t, v) : i < n /\ i \in Nat
  BY PositionsFinite
<1> HIDE DEF n
<1>3. \A u \in Turns, v \in Speakers : Positions(u, v) \subseteq Positions(u, v)'
  BY <1>1
<1>4. AckedIsStored'
  BY <1>1, <1>3 DEF AckedIsStored
<1>5. UserBeforeBot'
  <2> SUFFICES ASSUME NEW u \in Turns, saved'[u]["User"] = "ok", NEW j \in Positions(u, "Bot")'
               PROVE  \E i \in Positions(u, "User")' : i < j
    BY DEF UserBeforeBot
  <2>s. "User" \in Speakers /\ "Bot" \in Speakers
    BY DEF Speakers
  <2>1. CASE saved[u]["User"] = "ok" /\ j \in Positions(u, "Bot")
    <3>1. \E i \in Positions(u, "User") : i < j
      BY <2>1 DEF UserBeforeBot
    <3>2. QED
      BY <1>3, <2>s, <3>1
  <2>2. CASE saved[u]["User"] = "ok" /\ j \notin Positions(u, "Bot")
    <3>1. u = t /\ w = "Bot" /\ j = n
      BY <1>1, <2>2, <2>s
    <3>2. Positions(t, "User") # {}
      BY <2>2, <2>s, <3>1 DEF AckedIsStored
    <3>3. QED
      BY <1>2, <1>3, <2>s, <3>1, <3>2
  <2>3. CASE saved[u]["User"] # "ok"
    <3>1. u = t /\ w = "User"
      BY <2>3, <2>s
    <3>2. Positions(t, "Bot")' = {}
      BY <1>1, <2>3, <2>s, <3>1
    <3>3. QED
      BY <3>1, <3>2
  <2>4. QED
    BY <2>1, <2>2, <2>3
<1>6. QED
  BY <1>4, <1>5

\* A copy nobody waits for.
LEMMA AppliedStep ==
  ASSUME IInv, NEW t \in Turns, NEW w \in Speakers, Applied(t, w)
  PROVE  IInv'
<1>t. TypeOK /\ TurnInv(t)
  BY DEF IInv
<1>1. /\ wire[t][w] > 0 /\ wire' = [wire EXCEPT ![t][w] = @ - 1]
      /\ Stored(Key(t), [turn |-> t, who |-> w])
      /\ UNCHANGED <<place, history, op, attempt, sends, saved, up>>
  BY DEF Applied
<1>2. ~NoSession(t)
  BY <1>t, <1>1 DEF TurnInv
<1>3. /\ list' \in [Keys -> Seq(Line)]
      /\ wire' \in [Turns -> [Speakers -> 0..SendBound]]
      /\ \A u \in Turns : u # t => wire'[u] = wire[u]
  BY <1>t, <1>1, <1>2, CopyStored, StoredPositions
<1>4. TypeOK'
  BY <1>t, <1>1, <1>3 DEF TypeOK, SendBound
<1>5. ASSUME NEW u \in Turns PROVE TurnInv(u)'
  <2>1. TurnInv(u)
    BY DEF IInv
  <2>2. QED
    BY <1>1, <1>2, <1>3, <2>1 DEF TurnInv, NoSession
<1>6. \A u \in Turns, v \in Speakers : SentInv(u, v)'
  <2>1. \A u \in Turns, v \in Speakers :
          /\ Cardinality(Positions(u, v))' + wire'[u][v] = Cardinality(Positions(u, v)) + wire[u][v]
          /\ Cardinality(Positions(u, v))' + wire'[u][v] \in Int
    BY <1>t, <1>1, <1>2, CopyStored
  <2>2. \A u \in Turns, v \in Speakers : Budget(u, v) \in 0..SendBound /\ SendBound \in Nat
                                         /\ Budget(u, v)' = Budget(u, v)
    BY <1>t, <1>1, BudgetType, SameBudget
  <2>3. QED
    BY <2>1, <2>2, SentFrame
<1>7. AckedIsStored' /\ UserBeforeBot'
  BY <1>t, <1>1, <1>2, CopyInOrder DEF IInv
<1>8. QED
  BY <1>4, <1>5, <1>6, <1>7 DEF IInv

\* The reply that SaveSession waits for: the user's line is stored before the bot's was
\* ever sent.
LEMMA AckStep ==
  ASSUME IInv, NEW t \in Turns, Acknowledged(t)
  PROVE  IInv'
<1> DEFINE w == op[t]
<1>t. TypeOK /\ TurnInv(t) /\ w \in Speakers
  BY DEF IInv, TypeOK
<1>1. /\ wire[t][w] > 0 /\ wire' = [wire EXCEPT ![t][w] = @ - 1]
      /\ Stored(Key(t), [turn |-> t, who |-> w])
      /\ place[t] = "saving" /\ Return(t, "ok")
      /\ UNCHANGED <<history, up>>
  BY DEF Acknowledged
<1>2. ~NoSession(t)
  BY <1>t, <1>1 DEF TurnInv
<1>3. /\ list' \in [Keys -> Seq(Line)]
      /\ wire' \in [Turns -> [Speakers -> 0..SendBound]]
      /\ \A u \in Turns : u # t => wire'[u] = wire[u]
  BY <1>t, <1>1, <1>2, CopyStored, StoredPositions
<1>4. "ok" \in Outcomes
  BY DEF Outcomes
<1>5. /\ place' \in [Turns -> Places] /\ op' \in [Turns -> Speakers]
      /\ attempt' \in [Turns -> 0..MaxRetries] /\ sends' \in [Turns -> 0..DriverSends]
      /\ saved' \in [Turns -> [Speakers -> Outcomes]]
      /\ \A u \in Turns, v \in Speakers : Budget(u, v)' \in Nat /\ Budget(u, v)' >= Budget(u, v)
      /\ \A u \in Turns : u # t =>
           /\ place'[u] = place[u] /\ op'[u] = op[u]
           /\ attempt'[u] = attempt[u] /\ sends'[u] = sends[u] /\ saved'[u] = saved[u]
      /\ place'[t] \in {"saving", "done"}
      /\ \A v \in Speakers : saved'[t][v] = IF v = op[t] THEN "ok" ELSE saved[t][v]
  BY <1>1, <1>4, ReturnStep
<1>6. TypeOK'
  BY <1>t, <1>1, <1>3, <1>5 DEF TypeOK, SendBound
<1>7. ASSUME NEW u \in Turns PROVE TurnInv(u)'
  <2>1. TurnInv(u)
    BY DEF IInv
  <2>2. QED
    BY <1>2, <1>3, <1>5, <2>1 DEF TurnInv, NoSession
<1>8. \A u \in Turns, v \in Speakers : SentInv(u, v)'
  <2>1. \A u \in Turns, v \in Speakers :
          /\ Cardinality(Positions(u, v))' + wire'[u][v] = Cardinality(Positions(u, v)) + wire[u][v]
          /\ Cardinality(Positions(u, v))' + wire'[u][v] \in Int
    BY <1>t, <1>1, <1>2, CopyStored
  <2>2. QED
    BY <1>5, <2>1, SentFrame
<1>9. AckedIsStored' /\ UserBeforeBot'
  <2>1. w = "User" => Positions(t, "Bot") = {}
    <3> SUFFICES ASSUME w = "User" PROVE Positions(t, "Bot") = {}
      OBVIOUS
    <3>s. "Bot" \in Speakers
      BY DEF Speakers
    <3>1. Budget(t, "Bot") = 0
      BY <1>1 DEF Budget
    <3>2. SentInv(t, "Bot") /\ wire[t]["Bot"] \in 0..SendBound
      BY <1>t, <3>s DEF IInv, TypeOK
    <3>3. Cardinality(Positions(t, "Bot")) \in Nat /\ IsFiniteSet(Positions(t, "Bot"))
      BY <1>t, <3>s, PositionsFinite
    <3>4. Cardinality(Positions(t, "Bot")) = 0
      BY <3>1, <3>2, <3>3 DEF SentInv
    <3>5. QED
      BY <3>3, <3>4, FS_EmptySet
  <2>2. \A u \in Turns, v \in Speakers :
          saved'[u][v] = "ok" => saved[u][v] = "ok" \/ (u = t /\ v = w)
    BY <1>5
  <2> HIDE DEF w
  <2>3. QED
    BY <1>t, <1>1, <1>2, <2>1, <2>2, CopyInOrder DEF IInv
<1>10. QED
  BY <1>6, <1>7, <1>8, <1>9 DEF IInv

\* A key is wiped, with what had been acknowledged there.
LEMMA WipeStep ==
  ASSUME IInv, NEW k \in Keys, Wiped(k)
  PROVE  IInv'
<1>t. TypeOK
  BY DEF IInv
<1>1. /\ list' = [list EXCEPT ![k] = <<>>]
      /\ UNCHANGED <<place, history, op, attempt, sends, wire, up>>
  BY DEF Wiped
<1>2. \A u \in Turns, v \in Speakers :
        saved'[u][v] = IF Key(u) = k /\ saved[u][v] = "ok" THEN "wiped" ELSE saved[u][v]
  BY DEF Wiped
<1>3. saved' \in [Turns -> [Speakers -> Outcomes]]
  BY <1>t DEF Wiped, TypeOK, Outcomes
<1>4. list' \in [Keys -> Seq(Line)] /\ list'[k] = <<>>
      /\ \A h \in Keys : h # k => list'[h] = list[h]
  <2>1. <<>> \in Seq(Line)
    BY EmptySeq
  <2>2. QED
    BY <1>t, <1>1, <2>1 DEF TypeOK
<1>5. TypeOK'
  BY <1>t, <1>1, <1>3, <1>4 DEF TypeOK, SendBound
<1>6. ASSUME NEW u \in Turns PROVE TurnInv(u)'
  <2>1. TurnInv(u)
    BY DEF IInv
  <2>2. QED
    BY <1>1, <1>2, <2>1 DEF TurnInv, NoSession
<1>7. ASSUME NEW u \in Turns, NEW v \in Speakers
      PROVE  Positions(u, v)' = IF Key(u) = k THEN {} ELSE Positions(u, v)
  <2>1. CASE NoSession(u)
    BY <2>1 DEF Positions, NoSession
  <2>2. CASE ~NoSession(u) /\ Key(u) = k
    <3>1. DOMAIN list'[k] = {}
      BY <1>4
    <3>2. QED
      BY <2>2, <3>1 DEF Positions, NoSession, Key
  <2>3. CASE ~NoSession(u) /\ Key(u) # k
    <3>1. list'[Key(u)] = list[Key(u)]
      BY <1>t, <1>4, <2>3, PositionsFinite
    <3>2. QED
      BY <2>3, <3>1 DEF Positions, NoSession, Key
  <2>4. QED
    BY <2>1, <2>2, <2>3
<1>8. \A u \in Turns, v \in Speakers : SentInv(u, v)'
  <2>1. ASSUME NEW u \in Turns, NEW v \in Speakers
        PROVE  /\ Cardinality(Positions(u, v))' + wire'[u][v] =< Cardinality(Positions(u, v)) + wire[u][v]
               /\ Cardinality(Positions(u, v))' + wire'[u][v] \in Int
    <3>1. Cardinality(Positions(u, v)) \in Nat /\ wire[u][v] \in 0..SendBound /\ wire'[u][v] = wire[u][v]
      BY <1>t, <1>1, PositionsFinite DEF TypeOK
    <3>2. Cardinality(Positions(u, v))' \in {0, Cardinality(Positions(u, v))}
      BY <1>7, FS_EmptySet
    <3>3. QED
      BY <3>1, <3>2
  <2>2. \A u \in Turns, v \in Speakers : Budget(u, v) \in 0..SendBound /\ SendBound \in Nat
                                         /\ Budget(u, v)' = Budget(u, v)
    BY <1>t, <1>1, BudgetType, SameBudget
  <2>3. QED
    BY <2>1, <2>2, SentFrame
<1>9. AckedIsStored' /\ UserBeforeBot'
  BY <1>2, <1>7 DEF IInv, AckedIsStored, UserBeforeBot, Speakers
<1>10. QED
  BY <1>5, <1>6, <1>8, <1>9 DEF IInv

-----------------------------------------------------------------------------
(* The theorems *)

\* Nothing has been sent: the invariant holds.
LEMMA InitIInv == Init => IInv
<1> SUFFICES ASSUME Init PROVE IInv
  OBVIOUS
<1>a. MaxRetries \in Nat /\ DriverSends \in Nat
  BY SessionAssumption
<1>1. SendBound \in Nat
  BY SendBoundType
<1>2. TypeOK
  BY <1>a, <1>1, EmptySeq DEF Init, TypeOK, Places, Speakers, Outcomes
<1>3. \A t \in Turns, w \in Speakers : Positions(t, w) = {}
  <2> SUFFICES ASSUME NEW t \in Turns, NEW w \in Speakers, ~NoSession(t) PROVE Positions(t, w) = {}
    BY DEF Positions
  <2>1. Key(t) \in Keys
    BY <1>2, PositionsFinite
  <2>2. DOMAIN list[Key(t)] = {}
    BY <2>1 DEF Init
  <2>3. QED
    BY <2>2 DEF Positions
<1>4. \A t \in Turns : TurnInv(t)
  BY DEF Init, TurnInv
<1>5. \A t \in Turns, w \in Speakers : SentInv(t, w)
  <2> SUFFICES ASSUME NEW t \in Turns, NEW w \in Speakers PROVE SentInv(t, w)
    OBVIOUS
  <2>1. Budget(t, w) = 0 /\ wire[t][w] = 0
    BY DEF Init, Budget
  <2>2. Cardinality(Positions(t, w)) = 0
    BY <1>3, FS_EmptySet
  <2>3. QED
    BY <2>1, <2>2 DEF SentInv
<1>6. AckedIsStored /\ UserBeforeBot
  BY <1>3 DEF Init, AckedIsStored, UserBeforeBot, Speakers
<1>7. QED
  BY <1>2, <1>4, <1>5, <1>6 DEF IInv

\* A step that changes no turn and no list.
LEMMA OtherStep ==
  ASSUME IInv, UNCHANGED <<list, place, history, op, attempt, sends, wire, saved>>, up' \in BOOLEAN
  PROVE  IInv'
<1>1. TypeOK'
  BY DEF IInv, TypeOK, SendBound
<1>2. \A t \in Turns, w \in Speakers : Positions(t, w)' = Positions(t, w) /\ Budget(t, w)' = Budget(t, w)
  BY SamePositions, SameBudget
<1>3. \A t \in Turns, w \in Speakers : SentInv(t, w)'
  BY <1>2 DEF IInv, SentInv
<1>4. \A t \in Turns : TurnInv(t)'
  BY DEF IInv, TurnInv, NoSession
<1>5. AckedIsStored' /\ UserBeforeBot'
  BY SameLists DEF IInv
<1>6. QED
  BY <1>1, <1>3, <1>4, <1>5 DEF IInv

\* One step keeps the invariant.
LEMMA StepIInv == IInv /\ [Next]_vars => IInv'
<1> SUFFICES ASSUME IInv, [Next]_vars PROVE IInv'
  OBVIOUS
<1>1. CASE Exit \/ Quiescent \/ UNCHANGED vars
  BY <1>1, OtherStep DEF Exit, Quiescent, vars, IInv, TypeOK
<1>2. QED
  BY <1>1, TurnStep, SendStep, AckStep, AttemptStep, AppliedStep, LostStep, WipeStep
     DEF Next, Saving

\* IInv holds in every reachable state.
THEOREM Invariance == Spec => []IInv
BY InitIInv, StepIInv, PTL DEF Spec

\* Lists, loops and counters keep their types.
THEOREM TypeCorrect == Spec => []TypeOK
<1>1. IInv => TypeOK
  BY DEF IInv
<1>2. QED
  BY Invariance, <1>1, PTL

\* However attempts, sends and late copies of any turns interleave, a line is never in
\* its history more often than it was sent (redis.go:44, sessionstore.go:53).
THEOREM CopiesAreBounded == Spec => []CopiesBounded
<1>1. IInv => CopiesBounded
  <2> SUFFICES ASSUME IInv, NEW t \in Turns, NEW w \in Speakers
               PROVE  Cardinality(Positions(t, w)) + wire[t][w] =< SendBound
    BY DEF CopiesBounded
  <2>1. TypeOK /\ SentInv(t, w)
    BY DEF IInv
  <2>2. Budget(t, w) \in 0..SendBound /\ SendBound \in Nat
    BY <2>1, BudgetType
  <2>3. Cardinality(Positions(t, w)) \in Nat /\ wire[t][w] \in 0..SendBound
    BY <2>1, PositionsFinite DEF TypeOK
  <2>4. QED
    BY <2>1, <2>2, <2>3 DEF SentInv
<1>2. QED
  BY Invariance, <1>1, PTL

\* A line whose SaveSession returned nil is in its list until the key is wiped.
THEOREM NothingAckedIsLost == Spec => []AckedIsStored
<1>1. IInv => AckedIsStored
  BY DEF IInv
<1>2. QED
  BY Invariance, <1>1, PTL

\* A history never shows an answer before the question that was saved for it.
THEOREM QuestionBeforeAnswer == Spec => []UserBeforeBot
<1>1. IInv => UserBeforeBot
  BY DEF IInv
<1>2. QED
  BY Invariance, <1>1, PTL

-----------------------------------------------------------------------------
(* What a turn can read *)

\* Lines are in the list of their own session only.
KeyInv ==
  \A k \in Keys : \A i \in DOMAIN list[k] :
    ~NoSession(list[k][i].turn) /\ Key(list[k][i].turn) = k

\* SaveSession has returned for the user's line.
UserOver(u) == saved[u]["User"] # "pending"

\* The goroutine has gone on to the bot's line just when the call for the user's line is
\* over, and that is so wherever there is a trace of a bot's line.
BotInv(u) ==
  /\ op[u] = "Bot" <=> UserOver(u)
  /\ wire[u]["Bot"] > 0 => UserOver(u)
  /\ Positions(u, "Bot") # {} => UserOver(u)
  /\ \A t \in Turns : LinesRead(t, u, "Bot") # {} => UserOver(u)

\* The invariant of what has been read, on top of IInv.
ReadInv ==
  /\ KeyInv
  /\ \A u \in Turns : BotInv(u)
  /\ AnswersReadWithQuestions

\* The first lines of a list.
LEMMA WindowOf ==
  ASSUME NEW l \in Seq(Line), NEW n \in 0..Len(l)
  PROVE  /\ SubSeq(l, 1, n) \in Seq(Line) /\ Len(SubSeq(l, 1, n)) = n
         /\ \A i \in 1..n : SubSeq(l, 1, n)[i] = l[i]
<1>1. Len(l) \in Nat /\ \A i \in 1..n : l[i] \in Line
  BY ElementOfSeq, LenProperties
<1>2. n \in Int /\ 1 \in Int /\ n - 1 + 1 = n /\ (1 =< n \/ n = 0)
  BY <1>1
<1>3. /\ SubSeq(l, 1, n) \in Seq(Line)
      /\ Len(SubSeq(l, 1, n)) = IF 1 =< n THEN n - 1 + 1 ELSE 0
      /\ \A i \in 1..(n - 1 + 1) : SubSeq(l, 1, n)[i] = l[1 + i - 1]
  BY <1>1, <1>2, SubSeqProperties
<1>4. Len(SubSeq(l, 1, n)) = n
  BY <1>2, <1>3
<1>5. ASSUME NEW i \in 1..n PROVE SubSeq(l, 1, n)[i] = l[i]
  <2>1. i \in 1..(n - 1 + 1) /\ 1 + i - 1 = i
    BY <1>2
  <2>2. QED
    BY <1>3, <2>1
<1>6. QED
  BY <1>3, <1>4, <1>5

\* The window of a list is as long as the list or as the limit, and has its first lines.
LEMMA WindowLines ==
  ASSUME TypeOK, NEW k \in Keys
  PROVE  /\ Window(k) \in Seq(Line)
         /\ Len(Window(k)) \in Nat
         /\ DOMAIN Window(k) = 1..Len(Window(k))
         /\ DOMAIN Window(k) \subseteq DOMAIN list[k]
         /\ \A i \in DOMAIN Window(k) : Window(k)[i] = list[k][i]
         /\ \A i \in DOMAIN list[k] : i \in DOMAIN Window(k) \/ Len(Window(k)) = HistoryLimit
<1> DEFINE l == list[k]
           n == IF Len(l) < HistoryLimit THEN Len(l) ELSE HistoryLimit
<1>1. l \in Seq(Line) /\ Len(l) \in Nat /\ DOMAIN l = 1..Len(l) /\ HistoryLimit \in Nat
  BY LenProperties, SessionAssumption DEF TypeOK
<1>2. Window(k) = SubSeq(l, 1, n)
  BY DEF Window
<1> HIDE DEF l
<1>3. n \in 0..Len(l) /\ (n = Len(l) \/ n = HistoryLimit)
  BY <1>1
<1> HIDE DEF n
<1>4. /\ Window(k) \in Seq(Line) /\ Len(Window(k)) = n
      /\ \A i \in 1..n : Window(k)[i] = l[i]
  BY <1>1, <1>2, <1>3, WindowOf
<1>5. DOMAIN Window(k) = 1..n
  BY <1>4, LenProperties
<1>6. 1..n \subseteq 1..Len(l) /\ n \in Nat
  <2>1. Len(l) \in Nat /\ n \in 0..Len(l)
    BY <1>1, <1>3
  <2>2. QED
    BY <2>1
<1>7. QED
  BY <1>1, <1>3, <1>4, <1>5, <1>6 DEF l

\* The lines of a turn in a window are those at the same places of its own list.
LEMMA WindowPositions ==
  ASSUME TypeOK, KeyInv, NEW t \in Turns, ~NoSession(t), NEW u \in Turns, NEW w \in Speakers,
         NEW i \in DOMAIN Window(Key(t)), Window(Key(t))[i] = [turn |-> u, who |-> w]
  PROVE  /\ ~NoSession(u) /\ Key(u) = Key(t)
         /\ i \in Positions(u, w) /\ i \in Nat
<1>1. Key(t) \in Keys
  BY PositionsFinite
<1>2. i \in DOMAIN list[Key(t)] /\ list[Key(t)][i] = [turn |-> u, who |-> w] /\ i \in Nat
  BY <1>1, WindowLines
<1>3. ~NoSession(u) /\ Key(u) = Key(t)
  BY <1>1, <1>2 DEF KeyInv
<1>4. QED
  BY <1>2, <1>3 DEF Positions

\* What a turn reads at the moment it reads it: answers come with their questions.
LEMMA ReadAnswered ==
  ASSUME TypeOK, KeyInv, UserBeforeBot, NEW t \in Turns, ~NoSession(t), NEW u \in Turns,
         saved[u]["User"] = "ok",
         NEW j \in DOMAIN Window(Key(t)), Window(Key(t))[j] = [turn |-> u, who |-> "Bot"]
  PROVE  \E i \in DOMAIN Window(Key(t)) :
           i < j /\ Window(Key(t))[i] = [turn |-> u, who |-> "User"]
<1>s. "User" \in Speakers /\ "Bot" \in Speakers
  BY DEF Speakers
<1>1. Key(t) \in Keys
  BY <1>s, PositionsFinite
<1>2. ~NoSession(u) /\ Key(u) = Key(t) /\ j \in Positions(u, "Bot") /\ j \in Nat
  BY <1>s, WindowPositions
<1>3. PICK i \in Positions(u, "User") : i < j
  BY <1>2 DEF UserBeforeBot
<1>4. i \in DOMAIN list[Key(t)] /\ list[Key(t)][i] = [turn |-> u, who |-> "User"] /\ i \in Nat /\ i > 0
  <2>1. i \in DOMAIN list[Key(t)] /\ list[Key(t)][i] = [turn |-> u, who |-> "User"]
    BY <1>2 DEF Positions
  <2>2. i \in 1..Len(list[Key(u)]) /\ Len(list[Key(u)]) \in Nat
    BY <1>2, <1>s, PositionsFinite
  <2>3. QED
    BY <2>1, <2>2
<1>5. i \in DOMAIN Window(Key(t))
  <2>1. DOMAIN Window(Key(t)) = 1..Len(Window(Key(t))) /\ Len(Window(Key(t))) \in Nat
    BY <1>1, WindowLines
  <2>2. QED
    BY <1>2, <1>3, <1>4, <2>1
<1>6. Window(Key(t))[i] = list[Key(t)][i]
  BY <1>1, <1>5, WindowLines
<1>7. QED
  BY <1>3, <1>4, <1>5, <1>6

-----------------------------------------------------------------------------
(* How one step changes what ReadInv speaks of *)

\* A copy leaves the wire as a line, a key is wiped, or the lists are left alone.
LEMMA ListStep ==
  ASSUME IInv, Next
  PROVE  \/ list' = list
         \/ \E k \in Keys : list' = [list EXCEPT ![k] = <<>>]
         \/ \E t \in Turns, w \in Speakers :
              ~NoSession(t) /\ wire[t][w] > 0 /\ Stored(Key(t), [turn |-> t, who |-> w])
<1>1. ASSUME NEW t \in Turns, NEW w \in Speakers, wire[t][w] > 0 PROVE ~NoSession(t)
  BY <1>1 DEF IInv, TurnInv
<1>2. ASSUME NEW t \in Turns, Acknowledged(t)
      PROVE  op[t] \in Speakers /\ wire[t][op[t]] > 0 /\ Stored(Key(t), [turn |-> t, who |-> op[t]])
  BY <1>2 DEF Acknowledged, IInv, TypeOK
<1>3. ASSUME NEW t \in Turns, NEW w \in Speakers, Applied(t, w)
      PROVE  wire[t][w] > 0 /\ Stored(Key(t), [turn |-> t, who |-> w])
  BY <1>3 DEF Applied
<1>4. \/ \E t \in Turns : Acknowledged(t) \/ \E w \in Speakers : Applied(t, w)
      \/ \E k \in Keys : list' = [list EXCEPT ![k] = <<>>]
      \/ list' = list
  BY DEF Next, Saving, GetSession, Answered, Send, AttemptFails, Lost, Exit, Quiescent, vars, Wiped
<1>5. QED
  BY <1>1, <1>2, <1>3, <1>4

\* A history is what one turn reads, once; the others keep theirs.
LEMMA HistoryStep ==
  ASSUME Next
  PROVE  \/ history' = history
         \/ \E t \in Turns :
              /\ ~NoSession(t)
              /\ history' = [history EXCEPT ![t] = Window(Key(t))]
              /\ UNCHANGED <<list, saved, wire, op>>
              /\ place' = [place EXCEPT ![t] = "answering"]
BY DEF Next, Saving, GetSession, Answered, Send, Acknowledged, AttemptFails, Applied, Lost,
       Wiped, Exit, Quiescent, vars, Return

\* SaveSession returns to one turn and leaves the others alone.
LEMMA ReturnOver ==
  ASSUME TypeOK, NEW t \in Turns, NEW o \in {"ok", "gave up"}, Return(t, o), NEW u \in Turns,
         op[u] = "Bot" <=> UserOver(u)
  PROVE  /\ UserOver(u) => UserOver(u)'
         /\ saved'[u]["User"] = "ok" => saved[u]["User"] = "ok" \/ ~UserOver(u)
         /\ op'[u] = "Bot" <=> UserOver(u)'
<1>1. /\ saved' = [saved EXCEPT ![t][op[t]] = o]
      /\ op' = [op EXCEPT ![t] = "Bot"]
  BY DEF Return
<1>2. /\ saved[t] \in [Speakers -> Outcomes] /\ op[t] \in Speakers
      /\ saved \in [Turns -> [Speakers -> Outcomes]] /\ op \in [Turns -> Speakers]
      /\ "User" \in Speakers
  BY DEF TypeOK, Speakers
<1>3. CASE u # t
  <2>1. saved'[u] = saved[u] /\ op'[u] = op[u]
    BY <1>1, <1>2, <1>3
  <2>2. QED
    BY <2>1 DEF UserOver
<1>4. CASE u = t /\ op[t] = "User"
  <2>1. saved'[t]["User"] = o /\ op'[t] = "Bot"
    BY <1>1, <1>2, <1>4
  <2>2. QED
    BY <1>4, <2>1 DEF UserOver
<1>5. CASE u = t /\ op[t] = "Bot"
  <2>1. saved'[t]["User"] = saved[t]["User"] /\ op'[t] = "Bot"
    BY <1>1, <1>2, <1>5
  <2>2. QED
    BY <1>5, <2>1 DEF UserOver
<1>6. QED
  BY <1>2, <1>3, <1>4, <1>5 DEF Speakers

\* A copy goes on the wire only from a turn that saves that line, and copies that go from
\* it make no new ones.
LEMMA WireStep ==
  ASSUME TypeOK, Next, NEW u \in Turns, wire'[u]["Bot"] > 0
  PROVE  wire[u]["Bot"] > 0 \/ op[u] = "Bot"
<1>t. /\ wire \in [Turns -> [Speakers -> 0..SendBound]] /\ op \in [Turns -> Speakers]
      /\ "Bot" \in Speakers /\ SendBound \in Nat
      /\ wire[u]["Bot"] \in Nat
  BY SendBoundType DEF TypeOK, Speakers
<1>1. CASE wire' = wire
  BY <1>1
<1>2. ASSUME NEW t \in Turns, Send(t)
      PROVE  wire'[u]["Bot"] = wire[u]["Bot"] \/ op[u] = "Bot"
  BY <1>t, <1>2 DEF Send
<1>3. ASSUME NEW t \in Turns, NEW w \in Speakers, wire[t][w] > 0,
             wire' = [wire EXCEPT ![t][w] = @ - 1]
      PROVE  wire'[u]["Bot"] = wire[u]["Bot"] \/ wire[u]["Bot"] > 0
  BY <1>t, <1>3
<1>4. \/ wire' = wire
      \/ \E t \in Turns : Send(t)
      \/ \E t \in Turns, w \in Speakers : wire[t][w] > 0 /\ wire' = [wire EXCEPT ![t][w] = @ - 1]
  BY <1>t DEF Next, Saving, GetSession, Answered, Acknowledged, AttemptFails, Applied, Lost,
              Wiped, Exit, Quiescent, vars, Return
<1>5. QED
  BY <1>1, <1>2, <1>3, <1>4

\* A call that is over stays over, and only one that was not can be acknowledged.
LEMMA SavedStep ==
  ASSUME TypeOK, Next, NEW u \in Turns, op[u] = "Bot" <=> UserOver(u)
  PROVE  /\ UserOver(u) => UserOver(u)'
         /\ saved'[u]["User"] = "ok" => saved[u]["User"] = "ok" \/ ~UserOver(u)
         /\ op'[u] = "Bot" <=> UserOver(u)'
<1>1. CASE UNCHANGED <<saved, op>>
  BY <1>1 DEF UserOver
<1>2. ASSUME NEW t \in Turns, NEW o \in {"ok", "gave up"}, Return(t, o)
      PROVE  /\ UserOver(u) => UserOver(u)'
             /\ saved'[u]["User"] = "ok" => saved[u]["User"] = "ok" \/ ~UserOver(u)
             /\ op'[u] = "Bot" <=> UserOver(u)'
  BY <1>2, ReturnOver
<1>3. ASSUME NEW k \in Keys, Wiped(k)
      PROVE  /\ UserOver(u) => UserOver(u)'
             /\ saved'[u]["User"] = "ok" => saved[u]["User"] = "ok" \/ ~UserOver(u)
             /\ op'[u] = "Bot" <=> UserOver(u)'
  <2>1. saved'[u]["User"] = (IF Key(u) = k /\ saved[u]["User"] = "ok" THEN "wiped"
                                                                     ELSE saved[u]["User"])
    BY <1>3 DEF Wiped, Speakers
  <2>2. QED
    BY <1>3, <2>1 DEF Wiped, UserOver
<1>4. \/ UNCHANGED <<saved, op>>
      \/ \E t \in Turns, o \in {"ok", "gave up"} : Return(t, o)
      \/ \E k \in Keys : Wiped(k)
  BY DEF Next, Saving, GetSession, Answered, Send, Acknowledged, AttemptFails, Applied, Lost,
         Exit, Quiescent, vars
<1>5. QED
  BY <1>1, <1>2, <1>3, <1>4

\* A list takes lines of its own session only.
LEMMA KeyStep ==
  ASSUME IInv, KeyInv, Next
  PROVE  KeyInv'
<1>t. TypeOK
  BY DEF IInv
<1>1. CASE list' = list
  BY <1>1 DEF KeyInv, NoSession, Key
<1>2. ASSUME NEW h \in Keys, list' = [list EXCEPT ![h] = <<>>]
      PROVE  KeyInv'
  <2>1. \A k \in Keys : list'[k] = (IF k = h THEN <<>> ELSE list[k])
    BY <1>t, <1>2 DEF TypeOK
  <2>2. QED
    BY <2>1 DEF KeyInv, NoSession, Key
<1>3. ASSUME NEW t \in Turns, NEW w \in Speakers, ~NoSession(t),
             Stored(Key(t), [turn |-> t, who |-> w])
      PROVE  KeyInv'
  <2> DEFINE line == [turn |-> t, who |-> w]
  <2>1. Key(t) \in Keys /\ line \in Line
    BY <1>t, <1>3, PositionsFinite DEF Line
  <2>2. \A k \in Keys : list'[k] = (IF k = Key(t) THEN Append(list[k], line) ELSE list[k])
    BY <1>t, <1>3 DEF Stored, TypeOK
  <2>3. line.turn = t
    OBVIOUS
  <2> HIDE DEF line
  <2>4. SUFFICES ASSUME NEW k \in Keys, NEW i \in DOMAIN list'[k]
                 PROVE  ~NoSession(list'[k][i].turn) /\ Key(list'[k][i].turn) = k
    BY DEF KeyInv, NoSession, Key
  <2>5. CASE k # Key(t)
    BY <2>2, <2>5 DEF KeyInv
  <2>6. CASE k = Key(t)
    <3>1. list[k] \in Seq(Line) /\ Len(list[k]) \in Nat /\ DOMAIN list[k] = 1..Len(list[k])
      BY <1>t, LenProperties DEF TypeOK
    <3>2. /\ Append(list[k], line) \in Seq(Line)
          /\ Len(Append(list[k], line)) = Len(list[k]) + 1
          /\ Append(list[k], line)[Len(list[k]) + 1] = line
          /\ \A n \in 1..Len(list[k]) : Append(list[k], line)[n] = list[k][n]
      BY <2>1, <3>1, AppendProperties
    <3>3. i \in 1..(Len(list[k]) + 1)
      BY <2>2, <2>6, <3>2, LenProperties
    <3>4. CASE i = Len(list[k]) + 1
      BY <1>3, <2>2, <2>3, <2>6, <3>2, <3>4
    <3>5. CASE i \in 1..Len(list[k])
      <4>1. list'[k][i] = list[k][i]
        BY <2>2, <2>6, <3>2, <3>5
      <4>2. ~NoSession(list[k][i].turn) /\ Key(list[k][i].turn) = k
        BY <3>1, <3>5 DEF KeyInv
      <4>3. QED
        BY <4>1, <4>2
    <3>6. QED
      BY <3>1, <3>3, <3>4, <3>5
  <2>7. QED
    BY <2>5, <2>6
<1>4. QED
  BY <1>1, <1>2, <1>3, ListStep

\* A bot's line appears in a list only off the wire.
LEMMA PositionStep ==
  ASSUME IInv, Next, NEW u \in Turns, Positions(u, "Bot")' # {}
  PROVE  Positions(u, "Bot") # {} \/ wire[u]["Bot"] > 0
<1>t. TypeOK /\ "Bot" \in Speakers
  BY DEF IInv, Speakers
<1>1. CASE list' = list
  BY <1>1 DEF Positions, NoSession, Key
<1>2. ASSUME NEW h \in Keys, list' = [list EXCEPT ![h] = <<>>]
      PROVE  Positions(u, "Bot") # {}
  <2>1. ~NoSession(u)
    BY DEF Positions, NoSession
  <2>2. Key(u) \in Keys
    BY <1>t, <2>1, PositionsFinite
  <2>3. list'[Key(u)] = (IF Key(u) = h THEN <<>> ELSE list[Key(u)])
    BY <1>t, <1>2, <2>2 DEF TypeOK
  <2>4. QED
    BY <2>1, <2>3 DEF Positions, NoSession, Key
<1>3. ASSUME NEW t \in Turns, NEW w \in Speakers, ~NoSession(t), wire[t][w] > 0,
             Stored(Key(t), [turn |-> t, who |-> w])
      PROVE  Positions(u, "Bot") # {} \/ wire[u]["Bot"] > 0
  <2>1. <<u, "Bot">> # <<t, w>> => Positions(u, "Bot")' = Positions(u, "Bot")
    BY <1>t, <1>3, StoredPositions
  <2>2. QED
    BY <1>3, <2>1
<1>4. QED
  BY <1>1, <1>2, <1>3, ListStep

\* A step keeps what is known of the bots' lines.
LEMMA BotStep ==
  ASSUME IInv, ReadInv, Next, NEW u \in Turns
  PROVE  BotInv(u)'
<1>t. TypeOK /\ KeyInv /\ BotInv(u) /\ "Bot" \in Speakers
  BY DEF IInv, ReadInv, Speakers
<1>1. (UserOver(u) => UserOver(u)') /\ (op'[u] = "Bot" <=> UserOver(u)')
  BY <1>t, SavedStep DEF BotInv
<1>2. wire'[u]["Bot"] > 0 => UserOver(u)
  BY <1>t, WireStep DEF BotInv
<1>3. Positions(u, "Bot")' # {} => UserOver(u)
  BY <1>t, PositionStep DEF BotInv
<1>4. ASSUME NEW t \in Turns, LinesRead(t, u, "Bot")' # {} PROVE UserOver(u)
  <2>1. CASE history'[t] = history[t]
    <3>1. LinesRead(t, u, "Bot") # {}
      BY <1>4, <2>1 DEF LinesRead
    <3>2. QED
      BY <1>t, <3>1 DEF BotInv
  <2>2. CASE ~NoSession(t) /\ history'[t] = Window(Key(t))
    <3>1. PICK i \in DOMAIN Window(Key(t)) : Window(Key(t))[i] = [turn |-> u, who |-> "Bot"]
      BY <1>4, <2>2 DEF LinesRead
    <3>2. i \in Positions(u, "Bot")
      BY <1>t, <2>2, <3>1, WindowPositions
    <3>3. QED
      BY <1>t, <3>2 DEF BotInv
  <2>3. QED
    BY <1>t, <2>1, <2>2, HistoryStep DEF TypeOK
<1>5. QED
  BY <1>1, <1>2, <1>3, <1>4 DEF BotInv

\* A step keeps answers behind their questions in all that has been read.
LEMMA AnsweredStep ==
  ASSUME IInv, ReadInv, Next
  PROVE  AnswersReadWithQuestions'
<1>t. TypeOK /\ KeyInv /\ UserBeforeBot /\ AnswersReadWithQuestions
  BY DEF IInv, ReadInv
<1> SUFFICES ASSUME NEW t \in Turns, NEW u \in Turns, saved'[u]["User"] = "ok",
                    NEW j \in LinesRead(t, u, "Bot")'
             PROVE  \E i \in LinesRead(t, u, "User")' : i < j
  BY DEF AnswersReadWithQuestions
<1>1. saved[u]["User"] = "ok" \/ ~UserOver(u)
  <2>1. BotInv(u)
    BY DEF ReadInv
  <2>2. QED
    BY <1>t, <2>1, SavedStep DEF BotInv
<1>2. CASE history'[t] = history[t]
  <2>1. /\ LinesRead(t, u, "Bot")' = LinesRead(t, u, "Bot")
        /\ LinesRead(t, u, "User")' = LinesRead(t, u, "User")
    BY <1>2 DEF LinesRead
  <2>2. UserOver(u)
    BY <2>1 DEF ReadInv, BotInv
  <2>3. QED
    BY <1>t, <1>1, <2>1, <2>2 DEF AnswersReadWithQuestions
<1>3. CASE ~NoSession(t) /\ history'[t] = Window(Key(t)) /\ saved' = saved
  <2>1. j \in DOMAIN Window(Key(t)) /\ Window(Key(t))[j] = [turn |-> u, who |-> "Bot"]
    BY <1>3 DEF LinesRead
  <2>2. PICK i \in DOMAIN Window(Key(t)) :
          i < j /\ Window(Key(t))[i] = [turn |-> u, who |-> "User"]
    BY <1>t, <1>3, <2>1, ReadAnswered
  <2>3. QED
    BY <1>3, <2>2 DEF LinesRead
<1>4. QED
  BY <1>t, <1>2, <1>3, HistoryStep DEF TypeOK

\* Nothing has been read or saved: ReadInv holds.
LEMMA InitReadInv == Init => ReadInv
<1> SUFFICES ASSUME Init PROVE ReadInv
  OBVIOUS
<1>1. \A k \in Keys : DOMAIN list[k] = {}
  BY DEF Init
<1>2. \A t \in Turns, u \in Turns, w \in Speakers : LinesRead(t, u, w) = {}
  BY DEF Init, LinesRead
<1>3. \A u \in Turns : Positions(u, "Bot") = {}
  BY <1>1, InitIInv, PositionsFinite DEF IInv, Positions, Speakers
<1>4. \A u \in Turns : op[u] = "User" /\ ~UserOver(u) /\ wire[u]["Bot"] = 0
  BY DEF Init, UserOver, Speakers
<1>5. QED
  BY <1>1, <1>2, <1>3, <1>4 DEF ReadInv, KeyInv, BotInv, AnswersReadWithQuestions, Speakers

\* What has been read stays in step with what has been saved, on top of IInv.
THEOREM ReadInvariance == Spec => []ReadInv
<1>1. IInv /\ ReadInv /\ [Next]_vars => ReadInv'
  <2> SUFFICES ASSUME IInv, ReadInv, [Next]_vars PROVE ReadInv'
    OBVIOUS
  <2>1. CASE Next
    BY <2>1, KeyStep, BotStep, AnsweredStep DEF ReadInv
  <2>2. CASE UNCHANGED vars
    BY <2>2 DEF vars, ReadInv, KeyInv, BotInv, AnswersReadWithQuestions, UserOver, Positions,
                LinesRead, NoSession, Key
  <2>3. QED
    BY <2>1, <2>2
<1>2. QED
  BY Invariance, InitReadInv, <1>1, PTL DEF Spec

\* However turns overlap and their lines mix, a history that was read shows no answer
\* without the question before it, if saving that question was acknowledged
\* (blocking.go:26 and 40-44).
THEOREM AnswersComeWithQuestions == Spec => []AnswersReadWithQuestions
<1>1. ReadInv => AnswersReadWithQuestions
  BY DEF ReadInv
<1>2. QED
  BY ReadInvariance, <1>1, PTL

\* Only GetSession takes a turn to its answer.
LEMMA ReadStep ==
  ASSUME TypeOK, Next, NEW t \in Turns, place[t] = "idle", place'[t] = "answering",
         ~NoSession(t)
  PROVE  history'[t] = Window(Key(t))
<1>t. place \in [Turns -> Places] /\ history \in [Turns -> Seq(Line)]
  BY DEF TypeOK
<1>1. ASSUME NEW u \in Turns, GetSession(u) PROVE history'[t] = Window(Key(t))
  <2>1. u = t
    BY <1>t, <1>1 DEF GetSession
  <2>2. place' # [place EXCEPT ![t] = "done"]
    BY <1>t
  <2>3. QED
    BY <1>t, <1>1, <2>1, <2>2 DEF GetSession
<1>2. ASSUME NEW u \in Turns, Answered(u) PROVE FALSE
  BY <1>t, <1>2 DEF Answered
<1>3. ASSUME NEW u \in Turns, NEW o \in {"ok", "gave up"}, Return(u, o) PROVE FALSE
  BY <1>t, <1>3 DEF Return
<1>4. CASE place' = place
  BY <1>4
<1>5. \/ \E u \in Turns : GetSession(u) \/ Answered(u)
      \/ \E u \in Turns, o \in {"ok", "gave up"} : Return(u, o)
      \/ place' = place
  BY DEF Next, Saving, Send, Acknowledged, AttemptFails, Applied, Lost, Wiped, Exit, Quiescent,
         vars
<1>6. QED
  BY <1>1, <1>2, <1>3, <1>4, <1>5

\* A turn that goes on to its answer has read all that was acknowledged before it read, or
\* as many lines as it asked for: only turns whose saves are still under way are missed
\* (blocking.go:26 and 40-44, sessionstore.go:34).
THEOREM OnlyOverlapIsMissed == Spec => AckedIsRead
<1>1. ASSUME IInv, Next, NEW t \in Turns, NEW u \in Turns, NEW w \in Speakers,
             place[t] = "idle", place'[t] = "answering", ~NoSession(t), Key(u) = Key(t),
             saved[u][w] = "ok"
      PROVE  LinesRead(t, u, w)' # {} \/ Len(history'[t]) = HistoryLimit
  <2>t. TypeOK /\ AckedIsStored
    BY <1>1 DEF IInv
  <2>1. history'[t] = Window(Key(t))
    BY <1>1, <2>t, ReadStep
  <2>2. Key(t) \in Keys /\ ~NoSession(u)
    BY <1>1, <2>t, PositionsFinite DEF NoSession, Key
  <2>3. PICK i \in DOMAIN list[Key(t)] : list[Key(t)][i] = [turn |-> u, who |-> w]
    BY <1>1, <2>t, <2>2 DEF AckedIsStored, Positions
  <2>4. i \in DOMAIN Window(Key(t)) \/ Len(Window(Key(t))) = HistoryLimit
    BY <2>t, <2>2, <2>3, WindowLines
  <2>5. i \in DOMAIN Window(Key(t)) => Window(Key(t))[i] = [turn |-> u, who |-> w]
    BY <2>t, <2>2, <2>3, WindowLines
  <2>6. QED
    BY <2>1, <2>4, <2>5 DEF LinesRead
<1>2. IInv /\ [Next]_vars =>
        [\A t, u \in Turns, w \in Speakers :
           /\ place[t] = "idle"
           /\ place'[t] = "answering"
           /\ ~NoSession(t)
           /\ Key(u) = Key(t)
           /\ saved[u][w] = "ok"
           => LinesRead(t, u, w)' # {} \/ Len(history'[t]) = HistoryLimit]_vars
  BY <1>1
<1>3. QED
  BY Invariance, <1>2, PTL DEF Spec, AckedIsRead
=============================================================================
