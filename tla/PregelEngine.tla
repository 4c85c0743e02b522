---------------------------- MODULE PregelEngine ----------------------------
(***************************************************************************)
(* The V2 engine: HandleChatV2 drives one AgentState per request through   *)
(* the graph compiled in cmd/server/main.go                                *)
(*                                                                         *)
(*   rewrite_node -> cache_node -> planner_node -> execution_node          *)
(*                -> synthesizer_node -> END      (cache_node may jump END)*)
(*                                                                         *)
(* execution_node runs one goroutine per sub-task and joins them with a    *)
(* WaitGroup.  After the graph, saveToCacheAsync may start a goroutine     *)
(* that outlives the request.  All requests share the semantic cache, and  *)
(* the V1 pipeline writes to the same cache.                               *)
(*                                                                         *)
(* Abstracted: an answer is one of the few texts the properties tell       *)
(* apart; the conversation history is whether there is one; a similarity   *)
(* is a table entry (CacheLookup); status lines, JSON and SSE rendering    *)
(* are left out.                                                           *)
(***************************************************************************)
EXTENDS CacheLookup, FiniteSets

CONSTANTS
  Requests,       \* requests to /v2/chat
  FeatureStates,  \* header combinations the clients use
  MaxTasks,       \* bound: sub-tasks the planner may emit
  MaxBeats        \* bound: heartbeats modelled while the workers run

VARIABLES
  curr,      \* Graph.Run's curr, and the handler's place before and after Run
  state,     \* pregel.AgentState of each request, without its Tasks
  tasks,     \* AgentState.Tasks
  worker,    \* place of each worker goroutine
  wg,        \* counter of the WaitGroup in ExecuteWorkers
  beats,     \* ticker heartbeats sent while fanning in (secondsWaiting / 4)
  gone,      \* the request context is cancelled: the client hung up
  bg,        \* place of the goroutine saveToCacheAsync starts
  entries    \* documents in the Redis semantic cache

vars == <<curr, state, tasks, worker, wg, beats, gone, bg, entries>>

-----------------------------------------------------------------------------
(* Data *)

Slots == 1..MaxTasks

\* SubTask.Answer.  "facts": what a worker returned; "apology": the text stored
\* for a failed one.  A task's query and domain are left out: a domain selects the
\* worker (an unknown one falls back to generic), and either can fail or answer.
TaskAnswers == {"empty", "facts", "apology"}

TaskLists == UNION {[1..n -> TaskAnswers] : n \in 0..MaxTasks}

\* Plans the planner can produce.  JSON "[]" and "null" give the empty one.  An
\* "Answer" in the planner's JSON is overwritten by the worker before it is read.
Plans == UNION {[1..n -> {"empty"}] : n \in 0..MaxTasks}

\* "grounded": synthesised from tasks that all have facts; "partial": from at
\* least one apology; "ungrounded": from no task; "unformatted": the text
\* returned when the synthesizer LLM fails; "v1": an answer stored by the V1
\* pipeline, which also stores "empty" for a bot reply without a known key.
Syntheses == {"grounded", "partial", "ungrounded"}
Answers == Syntheses \cup {"empty", "unformatted", "v1"}

AgentState ==
  [Query : Queries, History : BOOLEAN, Flags : FeatureState, FinalAnswer : Answers,
   IsCacheHit : BOOLEAN, HasError : BOOLEAN, LoopCount : 0..5]

Entry == [query : Queries, answer : Answers]

ASSUME EngineAssumption ==
  /\ FeatureStates \subseteq FeatureState
  /\ FeatureStates # {}
  /\ MaxTasks \in Nat \ {0}
  /\ MaxBeats \in Nat

NoTasks == [i \in 1..0 |-> "empty"]

Nodes == {"rewrite_node", "cache_node", "planner_node", "execution_node", "fan_in",
          "synthesizer_node"}
Places == Nodes \cup {"idle", "END", "replying", "done"}

WorkerPlaces == {"idle", "calling", "answered", "failed", "flagged", "stored", "exited"}

BgPlaces == {"none", "embedding", "writing", "done"}

\* Goroutines ExecuteWorkers still waits for.
Live(r) == {i \in Slots : worker[r][i] \notin {"idle", "exited"}}

-----------------------------------------------------------------------------
(* The handler before the graph *)

\* ParseRequestMetadata when no flag header is sent.
DefaultFlags == [SkipCache |-> FALSE, NoSession |-> FALSE, SimilarityThreshold |-> 90]

InitialState(q, f, h) ==
  [Query |-> q, History |-> h, Flags |-> f, FinalAnswer |-> "empty",
   IsCacheHit |-> FALSE, HasError |-> FALSE, LoopCount |-> 0]

\* HandleChatV2 up to Graph.Run.  A malformed body ends in a 400.  History is
\* read unless NoSession is set or no session id is given; a Redis error or an
\* invalid id leaves it empty.
HandleChatV2(r) ==
  /\ curr[r] = "idle"
  /\ \/ /\ curr' = [curr EXCEPT ![r] = "done"]
        /\ UNCHANGED state
     \/ /\ curr' = [curr EXCEPT ![r] = "rewrite_node"]
        /\ \E q \in Queries, f \in FeatureStates, h \in BOOLEAN :
             /\ h => ~f.NoSession
             /\ state' = [state EXCEPT ![r] = InitialState(q, f, h)]
  /\ UNCHANGED <<tasks, worker, wg, beats, gone, bg, entries>>

\* The client hangs up, or the load balancer cuts the request off: net/http
\* cancels the request context every node and worker was given.
Disconnect(r) ==
  /\ curr[r] \in Nodes \cup {"END", "replying"}
  /\ ~gone[r]
  /\ gone' = [gone EXCEPT ![r] = TRUE]
  /\ UNCHANGED <<curr, state, tasks, worker, wg, beats, bg, entries>>

-----------------------------------------------------------------------------
(* The nodes.  A remote call made under a cancelled context fails. *)

\* Texts Rewriter.Resolve can leave in the state: the query itself without a
\* history or on failure, and otherwise whatever the LLM wrote, trimmed (a reply of
\* blanks becomes the empty text).
Resolve(st, cancelled) ==
  IF st.Flags.NoSession \/ ~st.History \/ cancelled THEN {st.Query} ELSE Queries

ResolveContext(r) ==
  /\ curr[r] = "rewrite_node"
  /\ \E q \in Resolve(state[r], gone[r]) :
       state' = [state EXCEPT ![r].Query = q, ![r].LoopCount = @ + 1]
  /\ curr' = [curr EXCEPT ![r] = "cache_node"]
  /\ UNCHANGED <<tasks, worker, wg, beats, gone, bg, entries>>

\* CheckCache without its test of the cached text.
BuggyUsableHit(res) == res.hit

\* CheckCache short-circuits only on a hit that carries a text.
UsableHit(res) == res.hit /\ res.answer # "empty"

LookupResults(r) ==
  IF state[r].Flags.SkipCache \/ gone[r]
    THEN {Miss}
    ELSE GetCache(entries, state[r].Query, state[r].Flags.SimilarityThreshold)

CheckCache(r) ==
  /\ curr[r] = "cache_node"
  /\ \E res \in LookupResults(r) :
       \/ /\ UsableHit(res)
          /\ state' = [state EXCEPT ![r].FinalAnswer = res.answer,
                                    ![r].IsCacheHit = TRUE,
                                    ![r].LoopCount = @ + 1]
          /\ curr' = [curr EXCEPT ![r] = "END"]
       \/ /\ ~UsableHit(res)
          /\ state' = [state EXCEPT ![r].LoopCount = @ + 1]
          /\ curr' = [curr EXCEPT ![r] = "planner_node"]
  /\ UNCHANGED <<tasks, worker, wg, beats, gone, bg, entries>>

\* What Plan stores when the LLM fails or its reply is not a JSON array of tasks.
FallbackPlan == [i \in 1..1 |-> "empty"]

PlansUnder(cancelled) == IF cancelled THEN {FallbackPlan} ELSE Plans

Plan(r) ==
  /\ curr[r] = "planner_node"
  /\ \E p \in PlansUnder(gone[r]) :
       tasks' = [tasks EXCEPT ![r] = p]
  /\ state' = [state EXCEPT ![r].LoopCount = @ + 1]
  /\ curr' = [curr EXCEPT ![r] = "execution_node"]
  /\ UNCHANGED <<worker, wg, beats, gone, bg, entries>>

-----------------------------------------------------------------------------
(* execution_node: fan-out, the workers, fan-in *)

\* wg.Add(1) is missing.
BuggyExecuteWorkers(r) ==
  /\ curr[r] = "execution_node"
  /\ worker' = [worker EXCEPT ![r] =
                  [i \in Slots |-> IF i \in DOMAIN tasks[r] THEN "calling" ELSE "idle"]]
  /\ state' = [state EXCEPT ![r].LoopCount = @ + 1]
  /\ curr' = [curr EXCEPT ![r] = "fan_in"]
  /\ UNCHANGED <<tasks, wg, beats, gone, bg, entries>>

ExecuteWorkers(r) ==
  /\ curr[r] = "execution_node"
  /\ worker' = [worker EXCEPT ![r] =
                  [i \in Slots |-> IF i \in DOMAIN tasks[r] THEN "calling" ELSE "idle"]]
  /\ wg' = [wg EXCEPT ![r] = Cardinality(DOMAIN tasks[r])]
  /\ state' = [state EXCEPT ![r].LoopCount = @ + 1]
  /\ curr' = [curr EXCEPT ![r] = "fan_in"]
  /\ UNCHANGED <<tasks, beats, gone, bg, entries>>

\* A worker that does not pass the request context on to its call.
BuggyWorkerReturns(r, i) ==
  /\ worker[r][i] = "calling"
  /\ ~gone[r]
  /\ \E outcome \in {"answered", "failed"} :
       worker' = [worker EXCEPT ![r][i] = outcome]
  /\ UNCHANGED <<curr, state, tasks, wg, beats, gone, bg, entries>>

\* The call returns: a text, unless the context is cancelled, or an error (bot
\* down, a non-200 status, a reply without "answer" or "response", LLM failure).
WorkerReturns(r, i) ==
  /\ worker[r][i] = "calling"
  /\ \E outcome \in {"answered", "failed"} :
       /\ gone[r] => outcome = "failed"
       /\ worker' = [worker EXCEPT ![r][i] = outcome]
  /\ UNCHANGED <<curr, state, tasks, wg, beats, gone, bg, entries>>

\* The worker forgets the flag.
BuggyFlagError(r, i) ==
  /\ worker[r][i] = "failed"
  /\ worker' = [worker EXCEPT ![r][i] = "flagged"]
  /\ UNCHANGED <<curr, state, tasks, wg, beats, gone, bg, entries>>

\* First critical section of a failed worker: raise HasError.
FlagError(r, i) ==
  /\ worker[r][i] = "failed"
  /\ worker' = [worker EXCEPT ![r][i] = "flagged"]
  /\ state' = [state EXCEPT ![r].HasError = TRUE]
  /\ UNCHANGED <<curr, tasks, wg, beats, gone, bg, entries>>

\* Last critical section of every worker: store the answer in its own slot.
StoreAnswer(r, i) ==
  /\ worker[r][i] \in {"answered", "flagged"}
  /\ tasks' = [tasks EXCEPT ![r][i] =
                 IF worker[r][i] = "answered" THEN "facts" ELSE "apology"]
  /\ worker' = [worker EXCEPT ![r][i] = "stored"]
  /\ UNCHANGED <<curr, state, wg, beats, gone, bg, entries>>

\* wg.Done() is called before the answer is stored.
BuggyWorkerDone(r, i) ==
  /\ worker[r][i] \in {"answered", "flagged", "stored"}
  /\ wg' = [wg EXCEPT ![r] = @ - 1]
  /\ worker' = [worker EXCEPT ![r][i] = "exited"]
  /\ UNCHANGED <<curr, state, tasks, beats, gone, bg, entries>>

\* The deferred wg.Done().
WorkerDone(r, i) ==
  /\ worker[r][i] = "stored"
  /\ wg' = [wg EXCEPT ![r] = @ - 1]
  /\ worker' = [worker EXCEPT ![r][i] = "exited"]
  /\ UNCHANGED <<curr, state, tasks, beats, gone, bg, entries>>

\* The ticker fires while the join is pending: a heartbeat goes to the stream.
Heartbeat(r) ==
  /\ curr[r] = "fan_in"
  /\ beats[r] < MaxBeats
  /\ beats' = [beats EXCEPT ![r] = @ + 1]
  /\ UNCHANGED <<curr, state, tasks, worker, wg, gone, bg, entries>>

\* wg.Wait() returned and the select took the done channel.
FanIn(r) ==
  /\ curr[r] = "fan_in"
  /\ wg[r] = 0
  /\ curr' = [curr EXCEPT ![r] = "synthesizer_node"]
  /\ UNCHANGED <<state, tasks, worker, wg, beats, gone, bg, entries>>

-----------------------------------------------------------------------------
(* synthesizer_node, and the handler after the graph *)

SynthesisOf(ts) ==
  IF \E i \in DOMAIN ts : ts[i] = "apology" THEN "partial"
  ELSE IF DOMAIN ts = {} THEN "ungrounded" ELSE "grounded"

\* GenerateText never returns an empty text without an error.
SynthesizerNode(r) ==
  /\ curr[r] = "synthesizer_node"
  /\ \E a \in {SynthesisOf(tasks[r]), "unformatted"} :
       /\ gone[r] => a = "unformatted"
       /\ state' = [state EXCEPT ![r].FinalAnswer = a, ![r].LoopCount = @ + 1]
  /\ curr' = [curr EXCEPT ![r] = "END"]
  /\ UNCHANGED <<tasks, worker, wg, beats, gone, bg, entries>>

\* saveToCacheAsync does not look at HasError.
BuggyShouldCache(st) ==
  ~ (st.Flags.SkipCache \/ st.IsCacheHit \/ st.Query = NoQuery \/ st.FinalAnswer = "empty")

ShouldCache(st) ==
  ~ (\/ st.Flags.SkipCache \/ st.IsCacheHit \/ st.HasError
     \/ st.Query = NoQuery \/ st.FinalAnswer = "empty")

\* Run returned nil: saveToCacheAsync, then the reply starts.  The goroutine gets
\* the query and the answer by value and does not use the request context.
SaveToCacheAsync(r) ==
  /\ curr[r] = "END"
  /\ bg' = [bg EXCEPT ![r] = IF ShouldCache(state[r]) THEN "embedding" ELSE "none"]
  /\ curr' = [curr EXCEPT ![r] = "replying"]
  /\ UNCHANGED <<state, tasks, worker, wg, beats, gone, entries>>

\* The JSON body or the synthetic SSE stream has been written.
Reply(r) ==
  /\ curr[r] = "replying"
  /\ curr' = [curr EXCEPT ![r] = "done"]
  /\ UNCHANGED <<state, tasks, worker, wg, beats, gone, bg, entries>>

BgEmbed(r) ==
  /\ bg[r] = "embedding"
  /\ \E next \in {"writing", "done"} : bg' = [bg EXCEPT ![r] = next]
  /\ UNCHANGED <<curr, state, tasks, worker, wg, beats, gone, entries>>

\* SetCache: a fresh key per call.  On an error the write may still have landed.
BgSetCache(r) ==
  /\ bg[r] = "writing"
  /\ bg' = [bg EXCEPT ![r] = "done"]
  /\ \/ entries' = entries \cup {[query |-> state[r].Query, answer |-> state[r].FinalAnswer]}
     \/ UNCHANGED entries
  /\ UNCHANGED <<curr, state, tasks, worker, wg, beats, gone>>

-----------------------------------------------------------------------------
(* The shared cache around the engine *)

\* The V1 pipeline stores an answer, possibly the empty one.
PipelineV1Stores(q, a) ==
  /\ entries' = entries \cup {[query |-> q, answer |-> a]}
  /\ UNCHANGED <<curr, state, tasks, worker, wg, beats, gone, bg>>

\* A document reaches its TTL, or DELETE /cache removes it.
EntryRemoved(e) ==
  /\ entries' = entries \ {e}
  /\ UNCHANGED <<curr, state, tasks, worker, wg, beats, gone, bg>>

\* Every request is answered and nothing runs in the background.
Quiescent ==
  /\ \A r \in Requests : curr[r] = "done" /\ bg[r] \in {"none", "done"}
  /\ UNCHANGED vars

-----------------------------------------------------------------------------
(* Specification *)

Init ==
  /\ curr = [r \in Requests |-> "idle"]
  /\ state = [r \in Requests |-> InitialState(NoQuery, DefaultFlags, FALSE)]
  /\ tasks = [r \in Requests |-> NoTasks]
  /\ worker = [r \in Requests |-> [i \in Slots |-> "idle"]]
  /\ wg = [r \in Requests |-> 0]
  /\ beats = [r \in Requests |-> 0]
  /\ gone = [r \in Requests |-> FALSE]
  /\ bg = [r \in Requests |-> "none"]
  /\ entries = {}

Worker(r, i) ==
  \/ WorkerReturns(r, i) \/ FlagError(r, i) \/ StoreAnswer(r, i) \/ WorkerDone(r, i)

GraphStep(r) ==
  \/ ResolveContext(r) \/ CheckCache(r) \/ Plan(r) \/ ExecuteWorkers(r)
  \/ FanIn(r) \/ SynthesizerNode(r) \/ SaveToCacheAsync(r) \/ Reply(r)

Background(r) == BgEmbed(r) \/ BgSetCache(r)

Next ==
  \/ \E r \in Requests :
       \/ HandleChatV2(r) \/ Disconnect(r) \/ GraphStep(r) \/ Heartbeat(r) \/ Background(r)
       \/ \E i \in Slots : Worker(r, i)
  \/ \E q \in Queries, a \in {"empty", "v1"} : PipelineV1Stores(q, a)
  \/ \E e \in entries : EntryRemoved(e)
  \/ Quiescent

Spec == Init /\ [][Next]_vars

\* Only what the code bounds is fair.  Neither the Gemini client nor the server
\* has a timeout, so a remote call need not return by itself; the load balancer
\* (gateway-infra.yaml, timeoutSec: 120) ends a request that takes too long, and
\* from then on every call made for it fails.  The background goroutine runs
\* under its own 5 s context.
Fairness ==
  \A r \in Requests :
    /\ WF_vars(Disconnect(r))
    /\ WF_vars(gone[r] /\ GraphStep(r))
    /\ \A i \in Slots : WF_vars(gone[r] /\ Worker(r, i))
    /\ WF_vars(Background(r))

FairSpec == Spec /\ Fairness

-----------------------------------------------------------------------------
(* Properties *)

TypeOK ==
  /\ curr \in [Requests -> Places]
  /\ state \in [Requests -> AgentState]
  /\ tasks \in [Requests -> TaskLists]
  /\ worker \in [Requests -> [Slots -> WorkerPlaces]]
  /\ wg \in [Requests -> 0..MaxTasks]
  /\ beats \in [Requests -> 0..MaxBeats]
  /\ gone \in [Requests -> BOOLEAN]
  /\ bg \in [Requests -> BgPlaces]
  /\ entries \subseteq Entry

\* The join is a barrier: once ExecuteWorkers returned, every sub-task has the
\* answer of its own worker and no worker of the request is still running
\* (worker.go: the deferred Done runs after the answer is stored).
FanInComplete ==
  \A r \in Requests :
    curr[r] = "synthesizer_node" =>
      /\ \A i \in DOMAIN tasks[r] : tasks[r][i] # "empty"
      /\ Live(r) = {}

\* No answer assembled from a failed sub-task reaches the semantic cache, however
\* the workers, the join, a hang-up and the background write interleave
\* (worker.go raises HasError, saveToCacheAsync tests it).
NoPartialAnswerCached ==
  \A e \in entries : e.answer # "partial"

\* A request whose graph ran never replies with an empty text: not when the cache
\* holds an empty answer stored by V1, nor when a lookup counts a document that
\* is gone (cache.go tests the cached answer, gemini.go rejects empty texts).
EveryReplyHasAnswer ==
  \A r \in Requests :
    curr[r] \in {"END", "replying"} => state[r].FinalAnswer # "empty"

\* Every request that enters the graph is answered, and its background write
\* settles: although the join has no case for a cancelled context, every worker
\* it waits for has one.
EveryRequestSettles ==
  \A r \in Requests :
    curr[r] \in Nodes ~> (curr[r] = "done" /\ bg[r] \in {"none", "done"})

\* What the log line of saveToCacheAsync says it writes ("synthesized answer",
\* server.go:75): an answer the synthesizer produced.
OnlySynthesizedAnswersCached ==
  \A e \in entries : e.answer \in Syntheses \cup {"empty", "v1"}

\* The refinement mapping to ForkJoin.  execution_node is the fourth node, so
\* LoopCount tells whether the request has forked.
ForkPhase(r) ==
  IF state[r].LoopCount < 4 THEN "open"
  ELSE IF curr[r] = "fan_in" THEN "forked" ELSE "joined"

Joined(r) == ForkPhase(r) = "joined"

FJ == INSTANCE ForkJoin WITH
  phase <- [r \in Requests |-> ForkPhase(r)],
  results <- [r \in Requests |->
                IF Joined(r) THEN tasks[r]
                             ELSE [i \in 1..0 |-> "facts"]],
  failed <- [r \in Requests |-> Joined(r) /\ state[r].HasError]

\* The workers, their mutex and the WaitGroup implement an atomic fork/join: the
\* error flag is raised exactly when some answer is an apology, and neither flag
\* nor answers change after the join.
ImplementsForkJoin == FJ!Spec
=============================================================================
