------------------------- MODULE PregelEngineProofs -------------------------
(***************************************************************************)
(* Proofs about PregelEngine, for any number of requests, sub-tasks,       *)
(* queries and heartbeats.                                                 *)
(***************************************************************************)
EXTENDS PregelEngine, FiniteSetTheorems, TLAPS

-----------------------------------------------------------------------------
(* The inductive invariant *)

\* Where a request is in the graph, told by LoopCount and by its answer.
PlaceInv(r) ==
  /\ curr[r] = "idle" => state[r].LoopCount = 0
  /\ curr[r] = "rewrite_node" => state[r].LoopCount = 0
  /\ curr[r] = "cache_node" => state[r].LoopCount = 1
  /\ curr[r] = "planner_node" => state[r].LoopCount = 2
  /\ curr[r] = "execution_node" => state[r].LoopCount = 3
  /\ curr[r] \in {"fan_in", "synthesizer_node"} => state[r].LoopCount = 4
  /\ curr[r] \in {"END", "replying"} => state[r].FinalAnswer # "empty"

\* The WaitGroup counts the goroutines that have not exited, and none runs
\* outside execution_node.
BarrierInv(r) ==
  /\ curr[r] = "fan_in" => wg[r] = Cardinality(Live(r))
  /\ curr[r] # "fan_in" => Live(r) = {}

\* A fresh plan has no answer.  From the fork on, every task has its own goroutine,
\* and exactly the goroutines past their last critical section left an answer.
SlotInv(r) ==
  /\ state[r].LoopCount = 3 => \A i \in DOMAIN tasks[r] : tasks[r][i] = "empty"
  /\ state[r].LoopCount >= 4 =>
       \A i \in Slots :
         /\ worker[r][i] = "idle" <=> i \notin DOMAIN tasks[r]
         /\ i \in DOMAIN tasks[r] =>
              (worker[r][i] \in {"stored", "exited"} <=> tasks[r][i] # "empty")

\* The error flag is up exactly when a worker raised it, which every apology needs.
FlagInv(r) ==
  /\ state[r].LoopCount < 4 => ~state[r].HasError
  /\ (\E i \in DOMAIN tasks[r] : tasks[r][i] = "apology") => state[r].HasError
  /\ \A i \in Slots : worker[r][i] = "flagged" => state[r].HasError
  /\ state[r].HasError =>
       \/ \E i \in Slots : worker[r][i] = "flagged"
       \/ \E i \in DOMAIN tasks[r] : tasks[r][i] = "apology"

\* A partial answer belongs to a flagged request, and only cacheable answers are
\* on their way to the cache.
AnswerInv(r) ==
  /\ state[r].FinalAnswer = "partial" => state[r].HasError
  /\ bg[r] \in {"embedding", "writing"} =>
       /\ ShouldCache(state[r])
       /\ curr[r] \in {"replying", "done"}

RequestInv(r) ==
  PlaceInv(r) /\ BarrierInv(r) /\ SlotInv(r) /\ FlagInv(r) /\ AnswerInv(r)

IInv ==
  /\ TypeOK
  /\ \A r \in Requests : RequestInv(r)
  /\ NoPartialAnswerCached

-----------------------------------------------------------------------------
(* Lemmas about the data *)

\* A lookup returns an answer of the cache or the empty one.
LEMMA LookupAnswers ==
  ASSUME TypeOK, NEW r \in Requests, NEW res \in LookupResults(r)
  PROVE  /\ res.answer \in Answers
         /\ NoPartialAnswerCached => res.answer # "partial"
<1> DEFINE Hits == MatchesAboveThreshold(entries, state[r].Query,
                                         state[r].Flags.SimilarityThreshold)
<1>a. \/ res = Miss
      \/ res \in PhantomHits(entries)
      \/ \E e \in Hits : res = [hit |-> TRUE, answer |-> e.answer]
  BY DEF LookupResults, GetCache
<1>b. Hits \subseteq entries
  BY DEF MatchesAboveThreshold, Nearest
<1>c. res \in PhantomHits(entries) => res = [hit |-> TRUE, answer |-> "empty"]
  BY DEF PhantomHits
<1> HIDE DEF Hits
<1>1. \/ res.answer = "empty"
      \/ \E e \in entries : res.answer = e.answer
  <2>1. CASE res = Miss
    BY <2>1 DEF Miss
  <2>2. CASE res \in PhantomHits(entries)
    <3>1. [hit |-> TRUE, answer |-> "empty"].answer = "empty"
      OBVIOUS
    <3>2. QED
      BY <1>c, <2>2, <3>1, Zenon
  <2>3. CASE \E e \in Hits : res = [hit |-> TRUE, answer |-> e.answer]
    <3>1. PICK e \in Hits : res = [hit |-> TRUE, answer |-> e.answer]
      BY <2>3
    <3>2. [hit |-> TRUE, answer |-> e.answer].answer = e.answer
      OBVIOUS
    <3>3. QED
      BY <1>b, <3>1, <3>2, Zenon
  <2>4. QED
    BY <1>a, <2>1, <2>2, <2>3
<1>2. \A e \in entries : e.answer \in Answers
  BY DEF TypeOK, Entry
<1>3. QED
  BY <1>1, <1>2 DEF Answers, NoPartialAnswerCached

\* A list of tasks is a function on an initial segment of the slots.
LEMMA TaskListDomain ==
  ASSUME NEW ts \in TaskLists
  PROVE  /\ DOMAIN ts \subseteq Slots
         /\ DOMAIN ts \in {1..n : n \in 0..MaxTasks}
         /\ \A i \in DOMAIN ts : ts[i] \in TaskAnswers
         /\ \A i \in DOMAIN ts, a \in TaskAnswers : [ts EXCEPT ![i] = a] \in TaskLists
<1>1. PICK n \in 0..MaxTasks : ts \in [1..n -> TaskAnswers]
  BY DEF TaskLists
<1>2. \A i \in DOMAIN ts, a \in TaskAnswers : [ts EXCEPT ![i] = a] \in [1..n -> TaskAnswers]
  BY <1>1
<1>3. QED
  BY <1>1, <1>2, EngineAssumption DEF TaskLists, Slots

\* A plan is a list of tasks.
LEMMA PlanIsTaskList ==
  ASSUME NEW ts \in Plans \cup {FallbackPlan, NoTasks}
  PROVE  /\ ts \in TaskLists
         /\ \A i \in DOMAIN ts : ts[i] = "empty"
<1>a. NoTasks \in [1..0 -> {"empty"}] /\ FallbackPlan \in [1..1 -> {"empty"}]
  BY DEF NoTasks, FallbackPlan
<1>b. 0 \in 0..MaxTasks /\ 1 \in 0..MaxTasks
  BY EngineAssumption
<1>1. PICK n \in 0..MaxTasks : ts \in [1..n -> {"empty"}]
  BY <1>a, <1>b DEF Plans
<1>2. ts \in [1..n -> TaskAnswers]
  BY <1>1 DEF TaskAnswers
<1>3. QED
  BY <1>1, <1>2 DEF TaskLists

\* Finitely many goroutines are live, at most one per slot.
LEMMA LiveFinite ==
  ASSUME NEW S \in SUBSET Slots
  PROVE  IsFiniteSet(S) /\ Cardinality(S) \in 0..MaxTasks
<1>1. IsFiniteSet(Slots) /\ Cardinality(Slots) = MaxTasks
  BY FS_Interval, EngineAssumption DEF Slots
<1>2. QED
  BY <1>1, FS_Subset, FS_CardinalityType, EngineAssumption

-----------------------------------------------------------------------------
(* Type correctness *)

\* Nothing has started: the invariant holds.
LEMMA InitIInv == Init => IInv
<1> SUFFICES ASSUME Init PROVE IInv
  OBVIOUS
<1> USE EngineAssumption, QueriesAssumption
<1>1. InitialState(NoQuery, DefaultFlags, FALSE) \in AgentState
  BY DEF InitialState, DefaultFlags, AgentState, FeatureState, Threshold, Answers, Syntheses
<1>2. NoTasks \in TaskLists /\ DOMAIN NoTasks = {}
  BY PlanIsTaskList DEF NoTasks
<1>3. TypeOK
  <2>1. state \in [Requests -> AgentState] /\ tasks \in [Requests -> TaskLists]
    BY <1>1, <1>2 DEF Init
  <2>2. worker \in [Requests -> [Slots -> WorkerPlaces]]
    BY DEF Init, WorkerPlaces
  <2>3. curr \in [Requests -> Places] /\ bg \in [Requests -> BgPlaces]
    BY DEF Init, Places, BgPlaces
  <2>4. wg \in [Requests -> 0..MaxTasks] /\ beats \in [Requests -> 0..MaxBeats]
    BY DEF Init
  <2>5. gone \in [Requests -> BOOLEAN] /\ entries \subseteq Entry
    BY DEF Init
  <2>6. QED
    BY <2>1, <2>2, <2>3, <2>4, <2>5 DEF TypeOK
<1>4. ASSUME NEW r \in Requests PROVE RequestInv(r)
  <2>1. PlaceInv(r)
    BY DEF Init, PlaceInv, InitialState
  <2>2. BarrierInv(r)
    BY DEF Init, BarrierInv, Live
  <2>3. SlotInv(r)
    BY DEF Init, SlotInv, InitialState
  <2>4. FlagInv(r)
    BY <1>2 DEF Init, FlagInv, InitialState
  <2>5. AnswerInv(r)
    BY DEF Init, AnswerInv, InitialState
  <2>6. QED
    BY <2>1, <2>2, <2>3, <2>4, <2>5 DEF RequestInv
<1>5. NoPartialAnswerCached
  BY DEF Init, NoPartialAnswerCached
<1>6. QED
  BY <1>3, <1>4, <1>5 DEF IInv

\* A goroutine that runs has a task of its own, and the WaitGroup counts it.
LEMMA LiveTask ==
  ASSUME IInv, NEW r \in Requests, NEW i \in Slots, worker[r][i] \notin {"idle", "exited"}
  PROVE  /\ curr[r] = "fan_in"
         /\ state[r].LoopCount = 4
         /\ i \in DOMAIN tasks[r]
         /\ wg[r] = Cardinality(Live(r))
         /\ wg[r] >= 1
<1>1. i \in Live(r)
  BY DEF Live
<1>2. curr[r] = "fan_in" /\ wg[r] = Cardinality(Live(r))
  BY <1>1 DEF IInv, RequestInv, BarrierInv
<1>3. state[r].LoopCount = 4
  BY <1>2 DEF IInv, RequestInv, PlaceInv
<1>4. i \in DOMAIN tasks[r]
  BY <1>3 DEF IInv, RequestInv, SlotInv
<1>5. IsFiniteSet(Live(r)) /\ Cardinality(Live(r)) \in Nat
  <2>1. Live(r) \in SUBSET Slots
    BY DEF Live
  <2>2. QED
    BY <2>1, LiveFinite, EngineAssumption
<1>6. Cardinality(Live(r)) # 0
  BY <1>1, <1>5, FS_EmptySet
<1>7. QED
  BY <1>2, <1>3, <1>4, <1>5, <1>6

\* One step keeps every variable in its type; that no counter of a WaitGroup goes
\* below zero needs the barrier invariant.
LEMMA TypeStep == IInv /\ [Next]_vars => TypeOK'
<1> SUFFICES ASSUME IInv, [Next]_vars PROVE TypeOK'
  OBVIOUS
<1> USE EngineAssumption, QueriesAssumption
<1>t. TypeOK
  BY DEF IInv
<1>s. state \in [Requests -> AgentState]
  BY <1>t DEF TypeOK
<1>p. \A r \in Requests : PlaceInv(r)
  BY DEF IInv, RequestInv
<1>1. ASSUME NEW r \in Requests, HandleChatV2(r) PROVE TypeOK'
  <2>1. \A q \in Queries, f \in FeatureStates, h \in BOOLEAN : InitialState(q, f, h) \in AgentState
    BY DEF InitialState, AgentState, Answers, Syntheses
  <2>2. CASE UNCHANGED state
    BY <1>1, <1>t, <2>2, <1>s DEF HandleChatV2, TypeOK, Places, Nodes
  <2>3. CASE \E st \in AgentState : state' = [state EXCEPT ![r] = st]
    <3>1. state' \in [Requests -> AgentState]
      BY <1>s, <2>3
    <3>2. curr' \in [Requests -> Places]
      BY <1>1, <1>t DEF HandleChatV2, TypeOK, Places, Nodes
    <3>3. QED
      BY <1>1, <1>t, <3>1, <3>2 DEF HandleChatV2, TypeOK
  <2>4. QED
    BY <1>1, <2>1, <2>2, <2>3 DEF HandleChatV2
<1>2. ASSUME NEW r \in Requests, Disconnect(r) PROVE TypeOK'
  BY <1>2, <1>t DEF Disconnect, TypeOK
<1>3. ASSUME NEW r \in Requests, ResolveContext(r) PROVE TypeOK'
  <2>0. Resolve(state[r], gone[r]) \subseteq Queries
    BY <1>t DEF Resolve, TypeOK, AgentState
  <2>1. PICK q \in Queries :
          state' = [state EXCEPT ![r].Query = q, ![r].LoopCount = @ + 1]
    BY <1>3, <2>0 DEF ResolveContext
  <2>2. state[r].LoopCount \in 0..4
    BY <1>3, <1>p DEF ResolveContext, PlaceInv
  <2>3. state' \in [Requests -> AgentState]
    BY <2>1, <2>2, <1>t DEF TypeOK, AgentState
  <2>4. QED
    BY <1>3, <1>t, <2>3 DEF ResolveContext, TypeOK, Places, Nodes
<1>4. ASSUME NEW r \in Requests, CheckCache(r) PROVE TypeOK'
  <2>1. \A res \in LookupResults(r) : res.answer \in Answers
    BY <1>t, LookupAnswers
  <2>2. state[r].LoopCount \in 0..4
    BY <1>4, <1>p DEF CheckCache, PlaceInv
  <2>3. state' \in [Requests -> AgentState]
    BY SMTT(30), <1>4, <1>s, <2>1, <2>2 DEF CheckCache, AgentState
  <2>4. QED
    BY <1>4, <1>t, <2>3 DEF CheckCache, TypeOK, Places, Nodes
<1>5. ASSUME NEW r \in Requests, Plan(r) PROVE TypeOK'
  <2>1. \A p \in Plans \cup {FallbackPlan} : p \in TaskLists
    BY PlanIsTaskList
  <2>2. state[r].LoopCount \in 0..4
    BY <1>5, <1>p DEF Plan, PlaceInv
  <2>3. state' \in [Requests -> AgentState]
    BY <1>5, <1>s, <2>2 DEF Plan, AgentState
  <2>4. QED
    BY <1>5, <1>t, <2>1, <2>3 DEF Plan, PlansUnder, TypeOK, Places, Nodes
<1>6. ASSUME NEW r \in Requests, ExecuteWorkers(r) PROVE TypeOK'
  <2>1. Cardinality(DOMAIN tasks[r]) \in 0..MaxTasks
    BY <1>t, TaskListDomain, LiveFinite DEF TypeOK
  <2>2. state[r].LoopCount \in 0..4
    BY <1>6, <1>p DEF ExecuteWorkers, PlaceInv
  <2>3. state' \in [Requests -> AgentState]
    BY <1>6, <1>s, <2>2 DEF ExecuteWorkers, AgentState
  <2>4. QED
    BY <1>6, <1>t, <2>1, <2>3 DEF ExecuteWorkers, TypeOK, Places, Nodes, WorkerPlaces
<1>7. ASSUME NEW r \in Requests, Heartbeat(r) PROVE TypeOK'
  BY <1>7, <1>t DEF Heartbeat, TypeOK
<1>8. ASSUME NEW r \in Requests, FanIn(r) PROVE TypeOK'
  BY <1>8, <1>t DEF FanIn, TypeOK, Places, Nodes
<1>9. ASSUME NEW r \in Requests, SynthesizerNode(r) PROVE TypeOK'
  BY <1>9, <1>t, <1>p
     DEF SynthesizerNode, SynthesisOf, TypeOK, Places, AgentState, PlaceInv, Answers, Syntheses
<1>10. ASSUME NEW r \in Requests, SaveToCacheAsync(r) PROVE TypeOK'
  BY <1>10, <1>t DEF SaveToCacheAsync, TypeOK, Places, BgPlaces
<1>11. ASSUME NEW r \in Requests, Reply(r) PROVE TypeOK'
  BY <1>11, <1>t DEF Reply, TypeOK, Places
<1>12. ASSUME NEW r \in Requests, BgEmbed(r) PROVE TypeOK'
  BY <1>12, <1>t DEF BgEmbed, TypeOK, BgPlaces
<1>13. ASSUME NEW r \in Requests, BgSetCache(r) PROVE TypeOK'
  <2>1. [query |-> state[r].Query, answer |-> state[r].FinalAnswer] \in Entry
    BY <1>t DEF TypeOK, AgentState, Entry
  <2>2. QED
    BY <1>13, <1>t, <2>1 DEF BgSetCache, TypeOK, BgPlaces
<1>14. ASSUME NEW r \in Requests, NEW i \in Slots, WorkerReturns(r, i) PROVE TypeOK'
  BY <1>14, <1>t DEF WorkerReturns, TypeOK, WorkerPlaces
<1>15. ASSUME NEW r \in Requests, NEW i \in Slots, FlagError(r, i) PROVE TypeOK'
  <2>1. state' = [state EXCEPT ![r] = [state[r] EXCEPT !.HasError = TRUE]]
    BY <1>15 DEF FlagError
  <2>2. \A st \in AgentState : [st EXCEPT !.HasError = TRUE] \in AgentState
    BY Zenon DEF AgentState
  <2>3. state' \in [Requests -> AgentState]
    BY <1>s, <2>1, <2>2
  <2>4. QED
    BY <1>15, <1>t, <2>3 DEF FlagError, TypeOK, WorkerPlaces
<1>16. ASSUME NEW r \in Requests, NEW i \in Slots, StoreAnswer(r, i) PROVE TypeOK'
  <2>1. i \in DOMAIN tasks[r]
    BY <1>16, LiveTask DEF StoreAnswer
  <2>2. QED
    BY <1>16, <1>t, <2>1, TaskListDomain DEF StoreAnswer, TypeOK, WorkerPlaces, TaskAnswers
<1>17. ASSUME NEW r \in Requests, NEW i \in Slots, WorkerDone(r, i) PROVE TypeOK'
  <2>1. wg[r] >= 1
    BY <1>17, LiveTask DEF WorkerDone
  <2>2. QED
    BY <1>17, <1>t, <2>1 DEF WorkerDone, TypeOK, WorkerPlaces
<1>18. ASSUME NEW q \in Queries, NEW a \in {"empty", "v1"}, PipelineV1Stores(q, a) PROVE TypeOK'
  BY <1>18, <1>t DEF PipelineV1Stores, TypeOK, Entry, Answers
<1>19. ASSUME NEW e \in entries, EntryRemoved(e) PROVE TypeOK'
  BY <1>19, <1>t DEF EntryRemoved, TypeOK
<1>20. CASE UNCHANGED vars
  BY <1>20, <1>t DEF vars, TypeOK
<1>21. QED
  BY <1>1, <1>2, <1>3, <1>4, <1>5, <1>6, <1>7, <1>8, <1>9, <1>10, <1>11, <1>12, <1>13,
     <1>14, <1>15, <1>16, <1>17, <1>18, <1>19, <1>20
     DEF Next, GraphStep, Worker, Background, Quiescent

-----------------------------------------------------------------------------
(* The parts of the invariant, one by one.  A step of another request leaves all
   of a request's variables alone. *)

\* The cache node touches neither the error flag nor the tasks.
LEMMA CacheNodeFrame ==
  ASSUME TypeOK, NEW r \in Requests, CheckCache(r), PlaceInv(r)
  PROVE  /\ state[r].LoopCount = 1 /\ state'[r].LoopCount = 2
         /\ state'[r].HasError = state[r].HasError
         /\ \A p \in Requests : p # r => state'[p] = state[p]
         /\ UNCHANGED <<tasks, worker>>
<1>t. state \in [Requests -> AgentState]
  BY DEF TypeOK
<1>1. state[r].LoopCount = 1
  BY DEF CheckCache, PlaceInv
<1>2. PICK res \in LookupResults(r) :
        \/ state' = [state EXCEPT ![r].FinalAnswer = res.answer,
                                  ![r].IsCacheHit = TRUE,
                                  ![r].LoopCount = @ + 1]
        \/ state' = [state EXCEPT ![r].LoopCount = @ + 1]
  BY DEF CheckCache
<1>3. CASE state' = [state EXCEPT ![r].LoopCount = @ + 1]
  BY <1>t, <1>1, <1>3 DEF AgentState, CheckCache
<1>4. CASE state' = [state EXCEPT ![r].FinalAnswer = res.answer,
                                  ![r].IsCacheHit = TRUE,
                                  ![r].LoopCount = @ + 1]
  <2>1. state'[r].LoopCount = 2 /\ state'[r].HasError = state[r].HasError
    BY <1>t, <1>1, <1>4 DEF AgentState
  <2>2. \A p \in Requests : p # r => state'[p] = state[p]
    BY <1>t, <1>4
  <2>3. QED
    BY <1>1, <2>1, <2>2 DEF CheckCache
<1>5. QED
  BY <1>2, <1>3, <1>4

\* LoopCount tells the node, and a request that left the graph has an answer.
LEMMA PlaceStep ==
  ASSUME IInv, [Next]_vars, NEW p \in Requests
  PROVE  PlaceInv(p)'
<1> USE DEF PlaceInv
<1>t. /\ curr \in [Requests -> Places]
      /\ state \in [Requests -> AgentState]
      /\ PlaceInv(p)
  BY DEF IInv, TypeOK, RequestInv
<1>1. ASSUME NEW r \in Requests, HandleChatV2(r) PROVE PlaceInv(p)'
  BY <1>1, <1>t DEF HandleChatV2, InitialState
<1>2. ASSUME NEW r \in Requests, ResolveContext(r) PROVE PlaceInv(p)'
  BY <1>2, <1>t DEF ResolveContext, AgentState
<1>3. ASSUME NEW r \in Requests, CheckCache(r) PROVE PlaceInv(p)'
  BY <1>3, <1>t DEF CheckCache, UsableHit, AgentState
<1>4. ASSUME NEW r \in Requests, Plan(r) PROVE PlaceInv(p)'
  BY <1>4, <1>t DEF Plan, AgentState
<1>5. ASSUME NEW r \in Requests, ExecuteWorkers(r) PROVE PlaceInv(p)'
  BY <1>5, <1>t DEF ExecuteWorkers, AgentState
<1>6. ASSUME NEW r \in Requests, FanIn(r) PROVE PlaceInv(p)'
  BY <1>6, <1>t DEF FanIn
<1>7. ASSUME NEW r \in Requests, SynthesizerNode(r) PROVE PlaceInv(p)'
  BY <1>7, <1>t DEF SynthesizerNode, SynthesisOf, AgentState
<1>8. ASSUME NEW r \in Requests, SaveToCacheAsync(r) PROVE PlaceInv(p)'
  BY <1>8, <1>t DEF SaveToCacheAsync
<1>9. ASSUME NEW r \in Requests, Reply(r) PROVE PlaceInv(p)'
  BY <1>9, <1>t DEF Reply
<1>10. ASSUME NEW r \in Requests, NEW i \in Slots, FlagError(r, i) PROVE PlaceInv(p)'
  BY <1>10, <1>t DEF FlagError, AgentState
<1>11. CASE UNCHANGED <<curr, state>>
  BY <1>11, <1>t
<1>12. QED
  BY <1>1, <1>2, <1>3, <1>4, <1>5, <1>6, <1>7, <1>8, <1>9, <1>10, <1>11
     DEF Next, GraphStep, Worker, Background, Quiescent, vars, Disconnect, Heartbeat,
         BgEmbed, BgSetCache, WorkerReturns, StoreAnswer, WorkerDone, PipelineV1Stores,
         EntryRemoved

\* Every Add of the WaitGroup has its goroutine, and every Done ends one.
LEMMA BarrierStep ==
  ASSUME IInv, [Next]_vars, NEW p \in Requests
  PROVE  BarrierInv(p)'
<1> USE EngineAssumption
<1>t. /\ curr \in [Requests -> Places]
      /\ worker \in [Requests -> [Slots -> WorkerPlaces]]
      /\ wg \in [Requests -> 0..MaxTasks]
      /\ BarrierInv(p)
  BY DEF IInv, TypeOK, RequestInv
<1>1. ASSUME NEW r \in Requests, ExecuteWorkers(r) PROVE BarrierInv(p)'
  <2>1. CASE p = r
    <3>1. DOMAIN tasks[r] \subseteq Slots
      BY TaskListDomain DEF IInv, TypeOK
    <3>2. Live(r)' = DOMAIN tasks[r]
      BY <1>1, <1>t, <3>1 DEF ExecuteWorkers, Live
    <3>3. wg'[r] = Cardinality(DOMAIN tasks[r]) /\ curr'[r] = "fan_in"
      BY <1>1, <1>t DEF ExecuteWorkers
    <3>4. QED
      BY <2>1, <3>2, <3>3 DEF BarrierInv
  <2>2. CASE p # r
    <3>1. curr'[p] = curr[p] /\ wg'[p] = wg[p] /\ worker'[p] = worker[p]
      BY <1>1, <1>t, <2>2 DEF ExecuteWorkers
    <3>2. QED
      BY <1>t, <3>1 DEF BarrierInv, Live
  <2>3. QED
    BY <2>1, <2>2
<1>2. ASSUME NEW r \in Requests, NEW i \in Slots, WorkerDone(r, i) PROVE BarrierInv(p)'
  <2>1. CASE p = r
    <3>1. Live(r)' = Live(r) \ {i} /\ i \in Live(r)
      BY <1>2, <1>t DEF WorkerDone, Live
    <3>2. wg[r] = Cardinality(Live(r)) /\ curr[r] = "fan_in"
      BY <1>2, LiveTask DEF WorkerDone
    <3>3. IsFiniteSet(Live(r))
      <4>1. Live(r) \in SUBSET Slots
        BY DEF Live
      <4>2. QED
        BY <4>1, LiveFinite
    <3>4. Cardinality(Live(r)') = Cardinality(Live(r)) - 1
      BY <3>1, <3>3, FS_RemoveElement
    <3>5. wg'[r] = wg[r] - 1 /\ curr'[r] = "fan_in"
      BY <1>2, <1>t, <3>2 DEF WorkerDone
    <3>6. QED
      BY <2>1, <3>2, <3>4, <3>5 DEF BarrierInv
  <2>2. CASE p # r
    <3>1. curr'[p] = curr[p] /\ wg'[p] = wg[p] /\ worker'[p] = worker[p]
      BY <1>2, <1>t, <2>2 DEF WorkerDone
    <3>2. QED
      BY <1>t, <3>1 DEF BarrierInv, Live
  <2>3. QED
    BY <2>1, <2>2
<1>3. ASSUME NEW r \in Requests, FanIn(r) PROVE BarrierInv(p)'
  <2>1. Live(r) = {}
    <3>1. IsFiniteSet(Live(r))
      <4>1. Live(r) \in SUBSET Slots
        BY DEF Live
      <4>2. QED
        BY <4>1, LiveFinite
    <3>2. Cardinality(Live(r)) = 0
      BY <1>3 DEF FanIn, IInv, RequestInv, BarrierInv
    <3>3. QED
      BY <3>1, <3>2, FS_EmptySet
  <2>2. UNCHANGED worker /\ UNCHANGED wg /\ curr'[r] = "synthesizer_node"
        /\ (p # r => curr'[p] = curr[p])
    BY <1>3, <1>t DEF FanIn
  <2>3. QED
    BY <1>t, <2>1, <2>2 DEF BarrierInv, Live
<1>4. ASSUME NEW r \in Requests, NEW i \in Slots,
             WorkerReturns(r, i) \/ FlagError(r, i) \/ StoreAnswer(r, i)
      PROVE  BarrierInv(p)'
  <2>1. Live(p)' = Live(p)
    BY <1>4, <1>t DEF WorkerReturns, FlagError, StoreAnswer, Live
  <2>2. UNCHANGED <<curr, wg>>
    BY <1>4 DEF WorkerReturns, FlagError, StoreAnswer
  <2>3. QED
    BY <1>t, <2>1, <2>2 DEF BarrierInv
<1>5. ASSUME UNCHANGED <<worker, wg>>, curr'[p] = "fan_in" <=> curr[p] = "fan_in"
      PROVE  BarrierInv(p)'
  BY <1>5, <1>t DEF BarrierInv, Live
<1>6. ASSUME NEW r \in Requests,
             \/ HandleChatV2(r) \/ ResolveContext(r) \/ CheckCache(r) \/ Plan(r)
             \/ SynthesizerNode(r) \/ SaveToCacheAsync(r) \/ Reply(r)
      PROVE  BarrierInv(p)'
  BY <1>5, <1>6, <1>t DEF HandleChatV2, ResolveContext, CheckCache, Plan, SynthesizerNode,
                          SaveToCacheAsync, Reply
<1>7. CASE UNCHANGED <<worker, wg, curr>>
  BY <1>5, <1>7
<1>8. QED
  BY <1>1, <1>2, <1>3, <1>4, <1>6, <1>7
     DEF Next, GraphStep, Worker, Background, Quiescent, vars, Disconnect, Heartbeat,
         BgEmbed, BgSetCache, PipelineV1Stores, EntryRemoved

\* A slot is filled by the goroutine of its own index, once, on its way out.
LEMMA SlotStep ==
  ASSUME IInv, [Next]_vars, NEW p \in Requests
  PROVE  SlotInv(p)'
<1> USE DEF SlotInv
<1>t. /\ state \in [Requests -> AgentState]
      /\ tasks \in [Requests -> TaskLists]
      /\ worker \in [Requests -> [Slots -> WorkerPlaces]]
      /\ SlotInv(p)
  BY DEF IInv, TypeOK, RequestInv
<1>p. \A r \in Requests : PlaceInv(r)
  BY DEF IInv, RequestInv
<1>d. \A r \in Requests : DOMAIN tasks[r] \subseteq Slots
  BY <1>t, TaskListDomain
<1>1. ASSUME NEW r \in Requests, HandleChatV2(r) PROVE SlotInv(p)'
  BY <1>1, <1>t DEF HandleChatV2, InitialState
<1>2. ASSUME NEW r \in Requests, ResolveContext(r) PROVE SlotInv(p)'
  BY <1>2, <1>t, <1>p DEF ResolveContext, PlaceInv, AgentState
<1>3. ASSUME NEW r \in Requests, CheckCache(r) PROVE SlotInv(p)'
  <2>1. /\ state'[r].LoopCount = 2 /\ UNCHANGED <<tasks, worker>>
        /\ p # r => state'[p] = state[p]
    BY <1>3, <1>p, CacheNodeFrame DEF IInv
  <2>2. QED
    BY <1>t, <2>1
<1>4. ASSUME NEW r \in Requests, Plan(r) PROVE SlotInv(p)'
  <2>1. \A i \in DOMAIN tasks'[r] : tasks'[r][i] = "empty"
    BY <1>4, <1>t, PlanIsTaskList DEF Plan, PlansUnder
  <2>2. state'[r].LoopCount = 3
    BY <1>4, <1>t, <1>p DEF Plan, PlaceInv, AgentState
  <2>3. p # r => state'[p] = state[p] /\ tasks'[p] = tasks[p]
    BY <1>4, <1>t DEF Plan
  <2>4. UNCHANGED worker
    BY <1>4 DEF Plan
  <2>5. QED
    BY <1>t, <2>1, <2>2, <2>3, <2>4
<1>5. ASSUME NEW r \in Requests, ExecuteWorkers(r) PROVE SlotInv(p)'
  <2>1. \A i \in DOMAIN tasks[r] : tasks[r][i] = "empty"
    BY <1>5, <1>p DEF ExecuteWorkers, PlaceInv, IInv, RequestInv
  <2>2. \A i \in Slots : worker'[r][i] = IF i \in DOMAIN tasks[r] THEN "calling" ELSE "idle"
    BY <1>5, <1>t DEF ExecuteWorkers
  <2>3. p # r => state'[p] = state[p] /\ worker'[p] = worker[p]
    BY <1>5, <1>t DEF ExecuteWorkers
  <2>4. UNCHANGED tasks /\ state'[r].LoopCount = 4
    BY <1>5, <1>t, <1>p DEF ExecuteWorkers, PlaceInv, AgentState
  <2>5. QED
    BY <1>t, <2>1, <2>2, <2>3, <2>4
<1>6. ASSUME NEW r \in Requests, SynthesizerNode(r) PROVE SlotInv(p)'
  <2>1. state[r].LoopCount = 4 /\ state'[r].LoopCount = 5
    BY <1>6, <1>t, <1>p DEF SynthesizerNode, PlaceInv, AgentState
  <2>2. (p # r => state'[p] = state[p]) /\ UNCHANGED <<tasks, worker>>
    BY <1>6, <1>t DEF SynthesizerNode
  <2>3. QED
    BY <1>t, <2>1, <2>2
<1>7. ASSUME NEW r \in Requests, NEW i \in Slots, WorkerReturns(r, i) PROVE SlotInv(p)'
  BY <1>7, <1>t DEF WorkerReturns
<1>8. ASSUME NEW r \in Requests, NEW i \in Slots, FlagError(r, i) PROVE SlotInv(p)'
  <2>1. state'[p].LoopCount = state[p].LoopCount
    BY <1>8, <1>t DEF FlagError, AgentState
  <2>2. UNCHANGED tasks
    BY <1>8 DEF FlagError
  <2>3. worker'[p] = IF p = r THEN [worker[p] EXCEPT ![i] = "flagged"] ELSE worker[p]
    BY <1>8, <1>t DEF FlagError
  <2>4. worker[r][i] = "failed"
    BY <1>8 DEF FlagError
  <2>5. QED
    BY <1>t, <2>1, <2>2, <2>3, <2>4
<1>9. ASSUME NEW r \in Requests, NEW i \in Slots, StoreAnswer(r, i) PROVE SlotInv(p)'
  <2>1. i \in DOMAIN tasks[r] /\ state[r].LoopCount = 4
    BY <1>9, LiveTask DEF StoreAnswer
  <2>2. DOMAIN tasks'[p] = DOMAIN tasks[p]
    BY <1>9, <1>t DEF StoreAnswer
  <2>3. \A j \in Slots : worker'[p][j] = IF p = r /\ j = i THEN "stored" ELSE worker[p][j]
    BY <1>9, <1>t DEF StoreAnswer
  <2>4. \A j \in DOMAIN tasks[p] : <<p, j>> # <<r, i>> => tasks'[p][j] = tasks[p][j]
    BY <1>9, <1>t DEF StoreAnswer
  <2>5. tasks'[r][i] # "empty"
    BY <1>9, <1>t, <2>1 DEF StoreAnswer
  <2>6. UNCHANGED state
    BY <1>9 DEF StoreAnswer
  <2>7. QED
    BY <1>t, <2>1, <2>2, <2>3, <2>4, <2>5, <2>6
<1>10. ASSUME NEW r \in Requests, NEW i \in Slots, WorkerDone(r, i) PROVE SlotInv(p)'
  BY <1>10, <1>t DEF WorkerDone
<1>11. CASE UNCHANGED <<state, tasks, worker>>
  BY <1>11, <1>t
<1>12. QED
  BY <1>1, <1>2, <1>3, <1>4, <1>5, <1>6, <1>7, <1>8, <1>9, <1>10, <1>11
     DEF Next, GraphStep, Worker, Background, Quiescent, vars, Disconnect, Heartbeat, FanIn,
         SaveToCacheAsync, Reply, BgEmbed, BgSetCache, PipelineV1Stores, EntryRemoved

\* A failed goroutine raises the flag in one critical section and leaves its apology
\* in a later one; nothing else raises or lowers either.
LEMMA FlagStep ==
  ASSUME IInv, [Next]_vars, NEW p \in Requests
  PROVE  FlagInv(p)'
<1> USE DEF FlagInv
<1>t. /\ state \in [Requests -> AgentState]
      /\ tasks \in [Requests -> TaskLists]
      /\ worker \in [Requests -> [Slots -> WorkerPlaces]]
      /\ FlagInv(p)
  BY DEF IInv, TypeOK, RequestInv
<1>p. \A r \in Requests : PlaceInv(r) /\ SlotInv(r) /\ BarrierInv(r)
  BY DEF IInv, RequestInv
<1>n. ASSUME NEW i \in Slots, curr[p] # "fan_in" PROVE worker[p][i] # "flagged"
  BY <1>n, <1>p DEF BarrierInv, Live
<1>1. ASSUME NEW r \in Requests, HandleChatV2(r) PROVE FlagInv(p)'
  <2>1. state[r].LoopCount = 0
    BY <1>1, <1>p DEF HandleChatV2, PlaceInv
  <2>2. state'[r] = state[r] \/ (state'[r].LoopCount = 0 /\ ~state'[r].HasError)
    BY <1>1, <1>t DEF HandleChatV2, InitialState
  <2>3. (p # r => state'[p] = state[p]) /\ UNCHANGED <<tasks, worker>>
    BY <1>1, <1>t DEF HandleChatV2
  <2>4. ~state[r].HasError
    BY <2>1 DEF IInv, RequestInv
  <2>5. QED
    BY <1>t, <2>1, <2>2, <2>3, <2>4
<1>2. ASSUME NEW r \in Requests,
             ResolveContext(r) \/ CheckCache(r) \/ SynthesizerNode(r)
      PROVE  FlagInv(p)'
  <2>1. state'[p].HasError = state[p].HasError /\ state[p].LoopCount =< state'[p].LoopCount
    <3>1. CASE ResolveContext(r)
      BY <3>1, <1>t DEF ResolveContext, AgentState
    <3>2. CASE CheckCache(r)
      BY <3>2, <1>t, <1>p, CacheNodeFrame DEF IInv, AgentState
    <3>3. CASE SynthesizerNode(r)
      <4>1. PICK a : state' = [state EXCEPT ![r] = [state[r] EXCEPT
                        !.FinalAnswer = a, !.LoopCount = state[r].LoopCount + 1]]
        BY <3>3 DEF SynthesizerNode
      <4>2. state[p].LoopCount \in Nat
        BY <1>t DEF AgentState
      <4>3. CASE p = r
        BY <1>t, <4>1, <4>2, <4>3 DEF AgentState
      <4>4. CASE p # r
        BY <1>t, <4>1, <4>2, <4>4
      <4>5. QED
        BY <4>3, <4>4
    <3>4. QED
      BY <1>2, <3>1, <3>2, <3>3
  <2>2. state[p].LoopCount \in Int /\ state'[p].LoopCount \in Int
    <3>1. state' \in [Requests -> AgentState]
      BY TypeStep DEF TypeOK
    <3>2. \A st \in AgentState : st.LoopCount \in Int
      BY DEF AgentState
    <3>3. state[p] \in AgentState /\ state'[p] \in AgentState
      BY <1>t, <3>1
    <3>4. QED
      BY <3>2, <3>3
  <2>3. UNCHANGED <<tasks, worker>>
    BY <1>2 DEF ResolveContext, CheckCache, SynthesizerNode
  <2>4. QED
    BY <1>t, <2>1, <2>2, <2>3
<1>3. ASSUME NEW r \in Requests, Plan(r) PROVE FlagInv(p)'
  <2>1. \A i \in DOMAIN tasks'[r] : tasks'[r][i] = "empty"
    BY <1>3, <1>t, PlanIsTaskList DEF Plan, PlansUnder
  <2>2. state'[r].HasError = state[r].HasError /\ state[r].LoopCount = 2 /\ curr[r] # "fan_in"
    BY <1>3, <1>t, <1>p DEF Plan, PlaceInv, AgentState
  <2>3. p # r => state'[p] = state[p] /\ tasks'[p] = tasks[p]
    BY <1>3, <1>t DEF Plan
  <2>4. UNCHANGED worker
    BY <1>3 DEF Plan
  <2>5. QED
    BY <1>t, <1>n, <2>1, <2>2, <2>3, <2>4
<1>4. ASSUME NEW r \in Requests, ExecuteWorkers(r) PROVE FlagInv(p)'
  <2>1. /\ state[r].LoopCount = 3 /\ curr[r] # "fan_in"
        /\ state'[r].HasError = state[r].HasError
    BY <1>4, <1>t, <1>p DEF ExecuteWorkers, PlaceInv, AgentState
  <2>2. \A i \in Slots : worker'[r][i] # "flagged"
    BY <1>4, <1>t DEF ExecuteWorkers
  <2>3. (p # r => state'[p] = state[p] /\ worker'[p] = worker[p]) /\ UNCHANGED tasks
    BY <1>4, <1>t DEF ExecuteWorkers
  <2>4. QED
    BY <1>t, <2>1, <2>2, <2>3
<1>5. ASSUME NEW r \in Requests, NEW i \in Slots, WorkerReturns(r, i) \/ WorkerDone(r, i)
      PROVE  FlagInv(p)'
  <2>1. \A j \in Slots : worker'[p][j] = "flagged" <=> worker[p][j] = "flagged"
    BY <1>5, <1>t DEF WorkerReturns, WorkerDone
  <2>2. UNCHANGED <<state, tasks>>
    BY <1>5 DEF WorkerReturns, WorkerDone
  <2>3. QED
    BY <1>t, <2>1, <2>2
<1>6. ASSUME NEW r \in Requests, NEW i \in Slots, FlagError(r, i) PROVE FlagInv(p)'
  <2>1. state[r].LoopCount = 4 /\ state'[r].LoopCount = 4 /\ state'[r].HasError
    <3>1. state[r].LoopCount = 4
      BY <1>6, LiveTask DEF FlagError
    <3>2. state' = [state EXCEPT ![r].HasError = TRUE]
      BY <1>6 DEF FlagError
    <3>3. QED
      BY <1>t, <3>1, <3>2 DEF AgentState
  <2>2. worker'[r][i] = "flagged"
    BY <1>6, <1>t DEF FlagError
  <2>3. (p # r => state'[p] = state[p] /\ worker'[p] = worker[p]) /\ UNCHANGED tasks
    BY <1>6, <1>t DEF FlagError
  <2>4. QED
    BY <1>t, <2>1, <2>2, <2>3
<1>7. ASSUME NEW r \in Requests, NEW i \in Slots, StoreAnswer(r, i) PROVE FlagInv(p)'
  <2>1. i \in DOMAIN tasks[r] /\ tasks[r][i] = "empty"
    BY <1>7, <1>p, LiveTask DEF StoreAnswer, SlotInv
  <2>2. DOMAIN tasks'[p] = DOMAIN tasks[p] /\ UNCHANGED state
    BY <1>7, <1>t DEF StoreAnswer
  <2>3. \A j \in Slots : worker'[p][j] = IF p = r /\ j = i THEN "stored" ELSE worker[p][j]
    BY <1>7, <1>t DEF StoreAnswer
  <2>4. \A j \in DOMAIN tasks[p] : <<p, j>> # <<r, i>> => tasks'[p][j] = tasks[p][j]
    BY <1>7, <1>t DEF StoreAnswer
  <2>5. tasks'[r][i] = IF worker[r][i] = "answered" THEN "facts" ELSE "apology"
    BY <1>7, <1>t, <2>1 DEF StoreAnswer
  <2>6. worker[r][i] \in {"answered", "flagged"}
    BY <1>7 DEF StoreAnswer
  <2>7. QED
    BY <1>t, <2>1, <2>2, <2>3, <2>4, <2>5, <2>6
<1>8. CASE UNCHANGED <<state, tasks, worker>>
  BY <1>8, <1>t
<1>9. QED
  BY <1>1, <1>2, <1>3, <1>4, <1>5, <1>6, <1>7, <1>8
     DEF Next, GraphStep, Worker, Background, Quiescent, vars, Disconnect, Heartbeat, FanIn,
         SaveToCacheAsync, Reply, BgEmbed, BgSetCache, PipelineV1Stores, EntryRemoved

\* An answer made of an apology carries the flag, and only a cacheable answer is on
\* its way to the cache.
LEMMA AnswerStep ==
  ASSUME IInv, [Next]_vars, NEW p \in Requests
  PROVE  AnswerInv(p)'
<1> USE DEF AnswerInv
<1>t. /\ curr \in [Requests -> Places]
      /\ state \in [Requests -> AgentState]
      /\ bg \in [Requests -> BgPlaces]
      /\ AnswerInv(p)
  BY DEF IInv, TypeOK, RequestInv
<1>f. ASSUME state'[p] = state[p], curr'[p] = curr[p], bg'[p] = bg[p] PROVE AnswerInv(p)'
  BY <1>f, <1>t DEF ShouldCache
<1>g. ASSUME NEW r \in Requests, curr[r] \notin {"replying", "done"}, UNCHANGED bg,
             p # r => curr'[p] = curr[p] /\ state'[p] = state[p],
             state'[r].FinalAnswer = "partial" => state'[r].HasError
      PROVE  AnswerInv(p)'
  <2>1. CASE p = r
    BY <1>g, <1>t, <2>1
  <2>2. CASE p # r
    BY <1>f, <1>g, <2>2
  <2>3. QED
    BY <2>1, <2>2
<1>1. ASSUME NEW r \in Requests, HandleChatV2(r) PROVE AnswerInv(p)'
  <2>1. state'[r] = state[r] \/ state'[r].FinalAnswer = "empty"
    BY <1>1, <1>t DEF HandleChatV2, InitialState
  <2>2. p # r => curr'[p] = curr[p] /\ state'[p] = state[p]
    BY <1>1, <1>t DEF HandleChatV2
  <2>3. UNCHANGED bg /\ curr[r] = "idle"
    BY <1>1 DEF HandleChatV2
  <2>4. state[r].FinalAnswer = "partial" => state[r].HasError
    BY DEF IInv, RequestInv
  <2>5. QED
    BY <1>g, <2>1, <2>2, <2>3, <2>4
<1>2. ASSUME NEW r \in Requests, ResolveContext(r) \/ Plan(r) \/ ExecuteWorkers(r)
      PROVE  AnswerInv(p)'
  <2>1. /\ state'[r].FinalAnswer = state[r].FinalAnswer
        /\ state'[r].HasError = state[r].HasError
        /\ p # r => curr'[p] = curr[p] /\ state'[p] = state[p]
    <3>1. CASE ResolveContext(r)
      BY <3>1, <1>t DEF ResolveContext, AgentState
    <3>2. CASE Plan(r)
      BY <3>2, <1>t DEF Plan, AgentState
    <3>3. CASE ExecuteWorkers(r)
      BY <3>3, <1>t DEF ExecuteWorkers, AgentState
    <3>4. QED
      BY <1>2, <3>1, <3>2, <3>3
  <2>2. UNCHANGED bg /\ curr[r] \notin {"replying", "done"}
    BY <1>2 DEF ResolveContext, Plan, ExecuteWorkers
  <2>3. state[r].FinalAnswer = "partial" => state[r].HasError
    BY DEF IInv, RequestInv
  <2>4. QED
    BY <1>g, <2>1, <2>2, <2>3
<1>3. ASSUME NEW r \in Requests, CheckCache(r) PROVE AnswerInv(p)'
  <2>1. TypeOK /\ NoPartialAnswerCached /\ PlaceInv(r) /\ AnswerInv(r)
    BY DEF IInv, RequestInv
  <2>2. \A res \in LookupResults(r) : res.answer # "partial"
    BY <2>1, LookupAnswers
  <2>3. /\ state'[r].HasError = state[r].HasError
        /\ p # r => state'[p] = state[p]
    BY <1>3, <2>1, CacheNodeFrame
  <2>4. state'[r].FinalAnswer = "partial" => state[r].FinalAnswer = "partial"
    <3>1. PICK res \in LookupResults(r) :
            \/ state' = [state EXCEPT ![r].FinalAnswer = res.answer,
                                      ![r].IsCacheHit = TRUE,
                                      ![r].LoopCount = @ + 1]
            \/ state' = [state EXCEPT ![r].LoopCount = @ + 1]
      BY <1>3 DEF CheckCache
    <3>2. CASE state' = [state EXCEPT ![r].LoopCount = @ + 1]
      BY <1>t, <3>2 DEF AgentState
    <3>3. CASE state' = [state EXCEPT ![r].FinalAnswer = res.answer,
                                      ![r].IsCacheHit = TRUE,
                                      ![r].LoopCount = @ + 1]
      BY <1>t, <2>2, <3>3 DEF AgentState
    <3>4. QED
      BY <3>1, <3>2, <3>3
  <2>5. /\ UNCHANGED bg /\ curr[r] \notin {"replying", "done"}
        /\ p # r => curr'[p] = curr[p]
    BY <1>3, <1>t DEF CheckCache
  <2>6. QED
    BY <1>g, <2>1, <2>3, <2>4, <2>5
<1>4. ASSUME NEW r \in Requests, SynthesizerNode(r) PROVE AnswerInv(p)'
  <2>1. state'[r].FinalAnswer \in {SynthesisOf(tasks[r]), "unformatted"}
    BY <1>4, <1>t DEF SynthesizerNode, AgentState
  <2>2. state'[r].HasError = state[r].HasError
    BY <1>4, <1>t DEF SynthesizerNode, AgentState
  <2>3. SynthesisOf(tasks[r]) = "partial" => state[r].HasError
    BY DEF SynthesisOf, IInv, RequestInv, FlagInv
  <2>4. /\ UNCHANGED bg /\ curr[r] \notin {"replying", "done"}
        /\ p # r => curr'[p] = curr[p] /\ state'[p] = state[p]
    BY <1>4, <1>t DEF SynthesizerNode
  <2>5. QED
    BY <1>g, <2>1, <2>2, <2>3, <2>4
<1>5. ASSUME NEW r \in Requests, NEW i \in Slots, FlagError(r, i) PROVE AnswerInv(p)'
  <2>1. state' = [state EXCEPT ![r].HasError = TRUE] /\ UNCHANGED <<curr, bg>>
    BY <1>5 DEF FlagError
  <2>2. state'[r].HasError /\ (p # r => state'[p] = state[p])
    BY <1>t, <2>1 DEF AgentState
  <2>3. curr[r] = "fan_in"
    BY <1>5, LiveTask DEF FlagError
  <2>4. QED
    BY <1>g, <2>1, <2>2, <2>3
<1>6. ASSUME NEW r \in Requests, SaveToCacheAsync(r) PROVE AnswerInv(p)'
  BY <1>6, <1>t DEF SaveToCacheAsync, ShouldCache
<1>7. ASSUME NEW r \in Requests, Reply(r) PROVE AnswerInv(p)'
  BY <1>7, <1>t DEF Reply, ShouldCache
<1>8. ASSUME NEW r \in Requests, BgEmbed(r) \/ BgSetCache(r) PROVE AnswerInv(p)'
  BY <1>8, <1>t DEF BgEmbed, BgSetCache, ShouldCache
<1>9. ASSUME NEW r \in Requests, FanIn(r) PROVE AnswerInv(p)'
  <2>1. /\ UNCHANGED <<state, bg>> /\ curr[r] = "fan_in"
        /\ p # r => curr'[p] = curr[p]
    BY <1>9, <1>t DEF FanIn
  <2>2. state[r].FinalAnswer = "partial" => state[r].HasError
    BY DEF IInv, RequestInv
  <2>3. QED
    BY <1>g, <2>1, <2>2
<1>10. CASE UNCHANGED <<curr, state, bg>>
  BY <1>10, <1>f
<1>11. QED
  BY <1>1, <1>2, <1>3, <1>4, <1>5, <1>6, <1>7, <1>8, <1>9, <1>10
     DEF Next, GraphStep, Worker, Background, Quiescent, vars, Disconnect, Heartbeat,
         WorkerReturns, StoreAnswer, WorkerDone, PipelineV1Stores, EntryRemoved

\* Once no goroutine of a forked request is left, every task has its answer, and the
\* flag is up exactly if one of them is an apology.
LEMMA AllStored ==
  ASSUME IInv, NEW r \in Requests, state[r].LoopCount >= 4, Live(r) = {}
  PROVE  /\ \A i \in DOMAIN tasks[r] : tasks[r][i] # "empty"
         /\ state[r].HasError <=> \E i \in DOMAIN tasks[r] : tasks[r][i] = "apology"
<1>1. \A i \in DOMAIN tasks[r] : i \in Slots
  BY TaskListDomain DEF IInv, TypeOK
<1>2. \A i \in Slots : worker[r][i] \in {"idle", "exited"}
  BY DEF Live
<1>3. SlotInv(r) /\ FlagInv(r)
  BY DEF IInv, RequestInv
<1>4. \A i \in DOMAIN tasks[r] : worker[r][i] = "exited"
  BY <1>1, <1>2, <1>3 DEF SlotInv
<1>5. QED
  BY <1>1, <1>2, <1>3, <1>4 DEF SlotInv, FlagInv

\* What is written was cacheable when the handler decided, and still is.
LEMMA CacheStep == IInv /\ [Next]_vars => NoPartialAnswerCached'
<1> SUFFICES ASSUME IInv, [Next]_vars PROVE NoPartialAnswerCached'
  OBVIOUS
<1> USE DEF NoPartialAnswerCached
<1>t. NoPartialAnswerCached
  BY DEF IInv
<1>1. ASSUME NEW r \in Requests, BgSetCache(r) PROVE NoPartialAnswerCached'
  <2>1. state[r].FinalAnswer # "partial"
    BY <1>1 DEF BgSetCache, IInv, RequestInv, AnswerInv, ShouldCache
  <2>2. QED
    BY <1>1, <1>t, <2>1 DEF BgSetCache
<1>2. ASSUME NEW q \in Queries, NEW a \in {"empty", "v1"}, PipelineV1Stores(q, a)
      PROVE  NoPartialAnswerCached'
  BY <1>2, <1>t DEF PipelineV1Stores
<1>3. ASSUME NEW e \in entries, EntryRemoved(e) PROVE NoPartialAnswerCached'
  BY <1>3, <1>t DEF EntryRemoved
<1>4. CASE UNCHANGED entries
  BY <1>4, <1>t
<1>5. ASSUME NEW r \in Requests,
             HandleChatV2(r) \/ Disconnect(r) \/ GraphStep(r) \/ Heartbeat(r) \/ BgEmbed(r)
      PROVE  UNCHANGED entries
  BY <1>5
     DEF GraphStep, HandleChatV2, Disconnect, Heartbeat, ResolveContext, CheckCache, Plan,
         ExecuteWorkers, FanIn, SynthesizerNode, SaveToCacheAsync, Reply, BgEmbed
<1>6. ASSUME NEW r \in Requests, NEW i \in Slots, Worker(r, i) PROVE UNCHANGED entries
  BY <1>6 DEF Worker, WorkerReturns, FlagError, StoreAnswer, WorkerDone
<1>7. (Quiescent \/ UNCHANGED vars) => UNCHANGED entries
  BY DEF Quiescent, vars
<1>8. QED
  BY <1>1, <1>2, <1>3, <1>4, <1>5, <1>6, <1>7 DEF Next, Background

-----------------------------------------------------------------------------
(* Theorems *)

\* The inductive invariant holds in every reachable state of the engine.
THEOREM Invariance == Spec => []IInv
<1>1. IInv /\ [Next]_vars => IInv'
  <2> SUFFICES ASSUME IInv, [Next]_vars PROVE IInv'
    OBVIOUS
  <2>1. ASSUME NEW p \in Requests PROVE RequestInv(p)'
    BY <2>1, PlaceStep, BarrierStep, SlotStep, FlagStep, AnswerStep DEF RequestInv
  <2>2. QED
    BY <2>1, TypeStep, CacheStep DEF IInv
<1>2. QED
  BY <1>1, InitIInv, PTL DEF Spec

\* Every variable of the engine keeps its type; in particular no WaitGroup counter of
\* ExecuteWorkers goes below zero.
THEOREM TypeCorrect == Spec => []TypeOK
<1>1. IInv => TypeOK
  BY DEF IInv
<1>2. QED
  BY <1>1, Invariance, PTL

\* ExecuteWorkers returns only when every sub-task has its answer and no goroutine of
\* the request is left.
THEOREM FanInIsBarrier == Spec => []FanInComplete
<1>1. IInv => FanInComplete
  <2> SUFFICES ASSUME IInv, NEW r \in Requests, curr[r] = "synthesizer_node"
               PROVE  /\ \A i \in DOMAIN tasks[r] : tasks[r][i] # "empty"
                      /\ Live(r) = {}
    BY DEF FanInComplete
  <2>1. state[r].LoopCount >= 4 /\ Live(r) = {}
    BY DEF IInv, RequestInv, PlaceInv, BarrierInv
  <2>2. QED
    BY <2>1, AllStored
<1>2. QED
  BY <1>1, Invariance, PTL

\* No answer assembled from a failed sub-task is ever in the semantic cache.
THEOREM NoPartialCached == Spec => []NoPartialAnswerCached
<1>1. IInv => NoPartialAnswerCached
  BY DEF IInv
<1>2. QED
  BY <1>1, Invariance, PTL

\* Every request that ran the graph replies with a text.
THEOREM RepliesHaveAnswers == Spec => []EveryReplyHasAnswer
<1>1. IInv => EveryReplyHasAnswer
  BY DEF IInv, RequestInv, PlaceInv, EveryReplyHasAnswer
<1>2. QED
  BY <1>1, Invariance, PTL

-----------------------------------------------------------------------------
(* Refinement *)

\* A step that leaves a request's place in the fork and its published outcome alone.
Stutters(r) ==
  /\ ForkPhase(r)' = ForkPhase(r)
  /\ Joined(r) => tasks'[r] = tasks[r] /\ state'[r].HasError = state[r].HasError

\* The abstract variables the mapping gives are what ForkJoin's Init says.
LEMMA ForkJoinInit == Init => FJ!Init
<1> SUFFICES ASSUME Init PROVE FJ!Init
  OBVIOUS
<1>1. \A r \in Requests : state[r].LoopCount = 0
  BY DEF Init, InitialState
<1>2. \A r \in Requests : ForkPhase(r) = "open" /\ ~Joined(r)
  BY <1>1 DEF ForkPhase, Joined
<1>3. QED
  BY <1>2 DEF FJ!Init, FJ!NoResult

\* Steps of the engine that are not a fork or a join leave the mapped variables alone.
LEMMA OtherStepsStutter ==
  ASSUME IInv, [Next]_vars, NEW p \in Requests,
         ~ExecuteWorkers(p), ~FanIn(p)
  PROVE  Stutters(p)
<1> USE DEF Stutters, ForkPhase, Joined
<1>t. /\ curr \in [Requests -> Places]
      /\ state \in [Requests -> AgentState]
      /\ tasks \in [Requests -> TaskLists]
  BY DEF IInv, TypeOK
<1>p. \A r \in Requests : PlaceInv(r)
  BY DEF IInv, RequestInv
<1>f. ASSUME state'[p] = state[p], curr'[p] = curr[p], tasks'[p] = tasks[p]
      PROVE  Stutters(p)
  BY <1>f
<1>1. ASSUME NEW r \in Requests, HandleChatV2(r) PROVE Stutters(p)
  BY <1>1, <1>t, <1>p DEF HandleChatV2, InitialState, PlaceInv
<1>2. ASSUME NEW r \in Requests, ResolveContext(r) PROVE Stutters(p)
  BY <1>2, <1>t, <1>p DEF ResolveContext, PlaceInv, AgentState
<1>3. ASSUME NEW r \in Requests, CheckCache(r) PROVE Stutters(p)
  <2>1. /\ state[r].LoopCount = 1 /\ state'[r].LoopCount = 2
        /\ p # r => state'[p] = state[p]
        /\ UNCHANGED tasks
    BY <1>3, <1>p, CacheNodeFrame DEF IInv
  <2>2. p # r => curr'[p] = curr[p]
    BY <1>3, <1>t DEF CheckCache
  <2>3. QED
    BY <2>1, <2>2
<1>4. ASSUME NEW r \in Requests, Plan(r) PROVE Stutters(p)
  <2>1. /\ state[r].LoopCount = 2 /\ state'[r].LoopCount = 3
        /\ p # r => state'[p] = state[p] /\ tasks'[p] = tasks[p] /\ curr'[p] = curr[p]
    BY <1>4, <1>t, <1>p DEF Plan, PlaceInv, AgentState
  <2>2. QED
    BY <2>1
<1>5. ASSUME NEW r \in Requests, ExecuteWorkers(r) \/ FanIn(r) PROVE Stutters(p)
  BY <1>5, <1>f, <1>t DEF ExecuteWorkers, FanIn
<1>6. ASSUME NEW r \in Requests, SynthesizerNode(r) PROVE Stutters(p)
  <2>1. /\ state[r].LoopCount = 4 /\ curr[r] # "fan_in"
        /\ state'[r].LoopCount = 5 /\ curr'[r] # "fan_in"
        /\ state'[r].HasError = state[r].HasError
    BY <1>6, <1>t, <1>p DEF SynthesizerNode, PlaceInv, AgentState
  <2>2. (p # r => state'[p] = state[p] /\ curr'[p] = curr[p]) /\ UNCHANGED tasks
    BY <1>6, <1>t DEF SynthesizerNode
  <2>3. QED
    BY <2>1, <2>2
<1>7. ASSUME NEW r \in Requests, SaveToCacheAsync(r) \/ Reply(r) PROVE Stutters(p)
  BY <1>7, <1>t DEF SaveToCacheAsync, Reply
<1>8. ASSUME NEW r \in Requests, NEW i \in Slots, FlagError(r, i) PROVE Stutters(p)
  <2>1. state[r].LoopCount = 4 /\ curr[r] = "fan_in"
    BY <1>8, LiveTask DEF FlagError
  <2>2. state' = [state EXCEPT ![r].HasError = TRUE] /\ UNCHANGED <<curr, tasks>>
    BY <1>8 DEF FlagError
  <2>3. state'[r].LoopCount = 4 /\ (p # r => state'[p] = state[p])
    BY <1>t, <2>1, <2>2 DEF AgentState
  <2>4. QED
    BY <2>1, <2>2, <2>3
<1>9. ASSUME NEW r \in Requests, NEW i \in Slots, StoreAnswer(r, i) PROVE Stutters(p)
  <2>1. state[r].LoopCount = 4 /\ curr[r] = "fan_in"
    BY <1>9, LiveTask DEF StoreAnswer
  <2>2. UNCHANGED <<state, curr>> /\ (p # r => tasks'[p] = tasks[p])
    BY <1>9, <1>t DEF StoreAnswer
  <2>3. QED
    BY <2>1, <2>2
<1>10. CASE UNCHANGED <<curr, state, tasks>>
  BY <1>10, <1>f
<1>11. QED
  BY <1>1, <1>2, <1>3, <1>4, <1>5, <1>6, <1>7, <1>8, <1>9, <1>10
     DEF Next, GraphStep, Worker, Background, Quiescent, vars, Disconnect, Heartbeat,
         WorkerReturns, WorkerDone, BgEmbed, BgSetCache, PipelineV1Stores, EntryRemoved

\* The mapped variables are records of what Stutters speaks about.
LEMMA MappedUnchanged ==
  ASSUME \A p \in Requests : Stutters(p)
  PROVE  /\ \A p \in Requests : Joined(p)' = Joined(p)
         /\ UNCHANGED <<[r \in Requests |-> ForkPhase(r)],
                        [r \in Requests |-> IF Joined(r) THEN tasks[r]
                                                         ELSE [i \in 1..0 |-> "facts"]],
                        [r \in Requests |-> Joined(r) /\ state[r].HasError]>>
<1>1. \A p \in Requests : Joined(p)' = Joined(p)
  BY DEF Stutters, Joined
<1>2. QED
  BY <1>1 DEF Stutters

\* ExecuteWorkers is the fork.
LEMMA ForkStep ==
  ASSUME IInv, [Next]_vars, NEW r \in Requests, ExecuteWorkers(r)
  PROVE  FJ!Fork(r)
<1>t. /\ curr \in [Requests -> Places]
      /\ state \in [Requests -> AgentState]
      /\ PlaceInv(r)
  BY DEF IInv, TypeOK, RequestInv
<1>1. \A p \in Requests : p # r => ~ExecuteWorkers(p) /\ ~FanIn(p)
  BY <1>t DEF ExecuteWorkers, FanIn
<1>2. \A p \in Requests : p # r => Stutters(p)
  BY <1>1, OtherStepsStutter
<1>3. ForkPhase(r) = "open" /\ ForkPhase(r)' = "forked"
  BY <1>t DEF ExecuteWorkers, PlaceInv, AgentState, ForkPhase
<1>4. ~Joined(r) /\ ~Joined(r)' /\ \A p \in Requests : p # r => Joined(p)' = Joined(p)
  BY <1>2, <1>3 DEF Stutters, Joined
<1>5. QED
  BY <1>2, <1>3, <1>4 DEF FJ!Fork, Stutters

\* FanIn is the join, and publishes the answers of all tasks.
LEMMA JoinStep ==
  ASSUME IInv, [Next]_vars, NEW r \in Requests, FanIn(r)
  PROVE  FJ!Join(r)
<1>t. /\ curr \in [Requests -> Places]
      /\ tasks \in [Requests -> TaskLists]
      /\ PlaceInv(r)
  BY DEF IInv, TypeOK, RequestInv
<1>1. \A p \in Requests : p # r => ~ExecuteWorkers(p) /\ ~FanIn(p)
  BY <1>t DEF ExecuteWorkers, FanIn
<1>2. \A p \in Requests : p # r => Stutters(p)
  BY <1>1, OtherStepsStutter
<1>3. ForkPhase(r) = "forked" /\ ForkPhase(r)' = "joined"
  BY <1>t DEF FanIn, PlaceInv, ForkPhase
<1>4. ~Joined(r) /\ Joined(r)' /\ \A p \in Requests : p # r => Joined(p)' = Joined(p)
  BY <1>2, <1>3 DEF Stutters, Joined
<1>5. UNCHANGED <<tasks, state>>
  BY DEF FanIn
<1>6. state[r].LoopCount >= 4 /\ Live(r) = {}
  <2>1. BarrierInv(r)' /\ curr'[r] = "synthesizer_node"
    BY <1>t, BarrierStep DEF FanIn
  <2>2. Live(r)' = Live(r)
    BY DEF FanIn, Live
  <2>3. QED
    BY <1>t, <2>1, <2>2 DEF FanIn, PlaceInv, BarrierInv
<1>7. /\ \A i \in DOMAIN tasks[r] : tasks[r][i] # "empty"
      /\ state[r].HasError <=> \E i \in DOMAIN tasks[r] : tasks[r][i] = "apology"
  BY <1>6, AllStored
<1>8. tasks[r] \in FJ!Results
  <2>1. PICK n \in 0..MaxTasks : tasks[r] \in [1..n -> TaskAnswers]
    BY <1>t DEF TaskLists
  <2>2. tasks[r] \in [1..n -> {"facts", "apology"}]
    BY <1>7, <2>1 DEF TaskAnswers
  <2>3. QED
    BY <2>1, <2>2 DEF FJ!Results
<1>9. [p \in Requests |-> IF Joined(p) THEN tasks[p] ELSE [i \in 1..0 |-> "facts"]]'
        = [[p \in Requests |-> IF Joined(p) THEN tasks[p] ELSE [i \in 1..0 |-> "facts"]]
             EXCEPT ![r] = tasks[r]]
  BY <1>4, <1>5
<1>10. [p \in Requests |-> Joined(p) /\ state[p].HasError]'
        = [[p \in Requests |-> Joined(p) /\ state[p].HasError]
             EXCEPT ![r] = \E i \in DOMAIN tasks[r] : tasks[r][i] = "apology"]
  BY <1>4, <1>5, <1>7
<1>11. [p \in Requests |-> ForkPhase(p)]'
        = [[p \in Requests |-> ForkPhase(p)] EXCEPT ![r] = "joined"]
  BY <1>2, <1>3 DEF Stutters
<1>12. QED
  BY <1>3, <1>8, <1>9, <1>10, <1>11 DEF FJ!Join

\* The workers, their mutex and the WaitGroup of ExecuteWorkers implement an atomic
\* fork and join of all sub-tasks, for every number of requests and sub-tasks.
THEOREM Refinement == Spec => ImplementsForkJoin
<1>1. IInv /\ [Next]_vars
        => [FJ!Next]_<<[r \in Requests |-> ForkPhase(r)],
                       [r \in Requests |-> IF Joined(r) THEN tasks[r]
                                                        ELSE [i \in 1..0 |-> "facts"]],
                       [r \in Requests |-> Joined(r) /\ state[r].HasError]>>
  <2> SUFFICES ASSUME IInv, [Next]_vars
               PROVE  [FJ!Next]_<<[r \in Requests |-> ForkPhase(r)],
                       [r \in Requests |-> IF Joined(r) THEN tasks[r]
                                                        ELSE [i \in 1..0 |-> "facts"]],
                       [r \in Requests |-> Joined(r) /\ state[r].HasError]>>
    OBVIOUS
  <2>1. CASE \E r \in Requests : ExecuteWorkers(r)
    BY <2>1, ForkStep DEF FJ!Next
  <2>2. CASE \E r \in Requests : FanIn(r)
    BY <2>2, JoinStep DEF FJ!Next
  <2>3. CASE \A r \in Requests : ~ExecuteWorkers(r) /\ ~FanIn(r)
    BY <2>3, OtherStepsStutter, MappedUnchanged
  <2>4. QED
    BY <2>1, <2>2, <2>3
<1>2. QED
  BY <1>1, Invariance, ForkJoinInit, PTL DEF Spec, ImplementsForkJoin, FJ!Spec
=============================================================================
