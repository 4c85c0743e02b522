# Formal models of the Pisces API gateway

TLA+ models of `pisces-gateway`, the TLC runs that check them, and proofs that
TLAPS checks. Paths are relative to the repository (`src/`); `internal/` is left
out where a file name is enough.

## The system

| Component | State | Operations | Talks to |
|---|---|---|---|
| V2 engine: `pregel/`, `workers/`, `api/handlers_v2.go` | one `AgentState` per request; `WaitGroup` and mutex of `ExecuteWorkers` | `Graph.Run` over rewrite, cache, planner, execution, synthesizer node | Gemini, Frasier bot, semantic cache, session store (reads) |
| Background cache write: `api/server.go` | `BgWG`, one goroutine per write | `saveToCacheAsync` | Gemini (embedding), semantic cache, `main` (drain) |
| V1 pipeline: `pipeline/blocking.go`, `pipeline/streaming.go`, `api/handlers_v1.go` | per request; save goroutines; the stream pump and its pipe | `Execute`, `ExecuteWithSession`, `ExecuteStreamWithSession` | Gemini, Frasier bot, semantic cache, session store |
| OpenAI adapter: `api/handlers_openai.go` | none | completion, stream translation | V1 pipeline or Frasier bot |
| Semantic cache: `cache/querycache.go`, `api/cache.go` | Redis documents `cache:v1:*`, index `idx:cache` | `InitializeIndex`, `GetCache`, `SetCache`, `FlushCache` | Redis, shared by both replicas |
| Session store: `cache/sessionstore.go`, `cache/redis.go` | Redis lists `session:v1:*` | `GetSession`, `SaveSession` under `executeWithRetry` | Redis |
| Process: `cmd/server/main.go` | boot sequence, `http.Server`, `BgWG` | boot, serve, crash, shutdown, drain | Kubernetes |
| Request metadata: `config/config.go` | none | header parsing | handlers |
| Clients: `gemini/`, `proxy/`, `rewrite/`, `intent/` | none | LLM and bot calls with fallbacks | Gemini, Frasier bot |

Requests run concurrently in one process, two processes share one Redis. What is
hard about them, and what makes each part correct:

* **V2 engine.** Worker goroutines write `Tasks` and `HasError` of one state while
  the handler pumps heartbeats and the client may hang up. Correct: the join is a
  barrier; an answer with a failed part is never cached; no reply is empty;
  every request ends although the join ignores `ctx.Done()`.
* **Session store.** `RPUSH` is not idempotent, the caller gives up after 100 ms
  while the pipeline may still arrive, and the two lines of a turn are two calls.
  Correct: bounded copies, no acknowledged line lost, question before answer.
* **Process.** Three deadlines (shutdown, drain, Kubernetes) and three ways in
  which a handler leaves writes behind. Correct: a bounded loss and no
  concurrent `Add` and `Wait`.
* **Semantic cache.** `FlushCache` is a sequence of calls whose failures are
  ignored, on data other pods write. Correct: the index outlives every flush that
  did not fail.
* **V1 pipeline.** Save goroutines nobody waits for, and a pump and a handler that
  meet in a pipe. Correct: what is stored is what was streamed, and no error; the
  stream ends, and only after the writes.
* **OpenAI adapter.** A translation line by line whose only state is the event line
  read last, on a reader with a limit. Correct: every token and no metadata arrives,
  and the client is told `[DONE]` only when nothing is missing.
* **Retry loops.** Two loops with different ideas of a transient error, under three
  kinds of context, one of which never ends. Correct: nothing outlives its context,
  and what has none is bounded by the limits of the loops alone.

## Modules

| Module | Models | Runs |
|---|---|---|
| `RequestMetadata` | `ParseRequestMetadata` as a function from the headers to the flags | through `CacheLookup`, `PipelineV1` |
| `CacheLookup` | `GetCache` as a function from the stored documents to the possible results | through `PregelEngine` |
| `ForkJoin` | what `execution_node` promises: an atomic fork/join (abstract) | through `PregelEngine` |
| `PregelEngine` | the V2 handler, the five nodes, the workers, the background write, the shared cache | `engine_*` |
| `SessionStore` | turns of the V1 API around `GetSession`/`SaveSession`, the retry loop and Redis | `session_*` |
| `AnswerStream` | what a V1 stream promises its client and the stores (abstract) | through `PipelineV1` |
| `PipelineV1` | the V1 handlers, `Execute` and its siblings, the stream pump and its pipe | `pipeline_*` |
| `OpenAIStream` | `handleOpenAIStream`, beside the requests of `PipelineV1` | `pipeline_*` |
| `RetryLoop` | the two `executeWithRetry`, with a clock, in the goroutines that call them | `retry_loops` |
| `Lifecycle` | `main`, the requests in flight and their writes | `lifecycle_*` |
| `QueryCache` | documents and their TTLs, index, `SetCache`, boot and `DELETE /cache` | `cache_*` |
| `...Proofs` | the theorems about `PregelEngine`, `SessionStore`, `PipelineV1`, `OpenAIStream`, `RetryLoop`, `Lifecycle`, `QueryCache`, a module for each | |

`MC*` modules give constants their values. Definitions named `Buggy...` or with an
adjective of that sort (`LenientReturn`, `ImpatientDrainEnds`) are deliberate
mutations of the definition that follows them: each property is broken by one of
them, which shows that it can fail.

### PregelEngine

`curr` is `Graph.Run`'s `curr` extended by the handler's places before and after
the graph; `state` and `tasks` are the `AgentState`; `worker[r][i]` is the program
counter of goroutine `i`: the call, the critical section that raises `HasError`
(`worker.go:41-43`), the one that stores the answer (`48-50`), and the deferred
`Done`. `gone` is the cancelled request context: calls made under it fail.
`bg` is the goroutine of `saveToCacheAsync`, which runs on after the reply.
Answers are classes: `grounded`, `partial` (a sub-task failed), `ungrounded` (no
sub-task), `unformatted` (the synthesizer failed), `v1` and `empty`. A remote call
may fail at any time. The cache also changes under V1 writes, expiry and flushes.

### SessionStore

A turn reads its history (`GetSession`, first `HistoryLimit` lines), is answered,
and saves two lines in order. `op`, `attempt` and `sends` are the loop of
`executeWithRetry` and the driver's re-sends; `wire` counts the copies Redis may
still execute after the caller stopped waiting. `Exit` ends the process between any
two steps. Several turns of one session share its list.

Turns that overlap do not see each other, and as a turn is saved after its reply, a client
that asks again at once can be answered without its last turn. `AckedIsRead` says that
nothing else is missed within the limit, `AnswersReadWithQuestions` that the lines two such
turns mix are still read as questions followed by their answers. The second holds because
the window begins with the list: reading the last lines instead, which would end
the divergence of `session_window`, can cut a turn in two.

### PipelineV1

`place` is where the handler is: the steps of `Execute` in their order, then either
`replying` or the loop over the pipe (`handlers_v1.go:67-79`). `pump` is the goroutine
of `streaming.go:146-203`, `pipe` the unbuffered pipe between the two: a line the pump
writes stays in it, and the pump stands still, until the handler takes it. `delivered`
are the lines taken, `builder` the numbers of those whose text was collected, `event`
is `lastEventType`. A line is what the pump's tests make of it; `tail` is text after
the last line break, which is forwarded but not parsed. The bot's stream ends, or
breaks at any point (`cut`); the pump does the same in both cases. `bg` are the
goroutines a reply leaves behind. The lines of code of the blocking and the streaming
path that do the same (session, rewrite, embedding, lookup, intent) are one action
each; `SessionStore` has the details of the saves. A request on `/v1/chat/completions`
that does not stream takes the blocking path without a session; its history comes
from its body. The flags of a request are what `RequestMetadata` makes of its headers.

`AnswerStream` is the abstract stream: lines are emitted, then the text that is kept is
settled as what those lines showed, then it is stored, then the stream ends. The
mapping takes the phase from `pump`, `bg` and `place`, the lines from `delivered` and
the text from `builder`. So the pump's bookkeeping, the pipe, the goroutine that reads
it and the deferred `Close` together give what a client and the cache can rely on.

### OpenAIStream

The module extends `PipelineV1`: a request that has not been handled yet can also be a
stream on `/v1/chat/completions`, and then goes through `connecting` and `translating`
to `done`; cut-off and end are those of any request. A line is what the loop's tests
make of it, or too long for `bufio.Scanner`. `chunks` are the numbers of the lines sent
on, `marks` counts `[DONE]`. The translation forgets an event at its data line and not
at the empty line after it, so `TokensTranslated` is about streams in the framing the
bot uses (event line, one data line, empty line); in others metadata of two data lines
leaks as text. A status event's data is sent on as text in any framing.

### Lifecycle

`stage` follows `main`: boot (any call but `InitializeIndex` may end the process),
listening, serving, `srv.Shutdown` (stopping), draining, flushing traces, exited. `wg` is
`BgWG`. A request is of one of three kinds, by what holds its write: V2 counts
it, a V1 goroutine is counted by nobody, the pump of a V1 stream finishes it
before the handler sees the end of the pipe. `Tick` advances the timers; `main`
takes an expired timer before the next tick. Left out: a listener that crashes after the
signal has been taken and before `srv.Shutdown` (`main.go:181` and `198`).

### QueryCache

`flush[f]` is the place of a `DELETE /cache` in `FlushCache`. Every command can be
executed and acknowledged, fail, or fail and be executed later (`late`). `failed`
remembers commands of which an attempt failed; calls under a cancelled request context
are among those that fail. A document is the `SetCache` call that stored it; `HSET` and
`EXPIRE` are two commands of a pipeline and two steps, between which other commands are
executed and the connection can break, so that a document may not be `mortal`. The lists
of the sessions, which the second script of a flush deletes, are in `SessionStore`.

### RetryLoop

A behaviour is the life of one goroutine: the saves of a V1 turn or of its answer, those of
the pump, `saveToCacheAsync`, or a single call of a handler. `call`, `attempt` and `place` are the
program counter, `now` is the time since it began in milliseconds; time jumps to the
end of the attempt or of the backoff. `over` is when the context ends: never, after
5 s, or when the request is cut off, during an attempt or a backoff. The numbers are
those of `main`. That a Redis command may outlast its context by `Overrun` is the
driver's doing: go-redis applies its read timeout of 3 s and not the context's deadline
unless it is told to. Together with `Lifecycle`: the drain waits 5 s, as long as a V2
write may take, so a write that begins with the drain and meets a slow Redis is lost.

## Runs

| Run | Bounds | Shows |
|---|---|---|
| `engine_fanout` | 1 request with either of 2 sets of flags, 0-3 sub-tasks, 1 heartbeat, hang-up at any time; 2 queries of similarity 10, V1 writes, expiry | `TypeOK`; `FanInComplete`; `NoPartialAnswerCached`; `EveryReplyHasAnswer`; `ImplementsForkJoin` (refinement); `EveryRequestSettles` (liveness) |
| `engine_hangup` | 1 request | finding: the synthesizer's failure text is cached |
| `session_turns` | 2 turns of one session, 1 retry, window of 3 lines | `TypeOK`, `CopiesBounded`, `AckedIsStored`, `UserBeforeBot`, `AnswersReadWithQuestions`, `AckedIsRead` |
| `session_window` | 2 turns, window of 3 lines | finding: the newest lines are outside the window |
| `session_anonymous` | 2 clients without a header, 1 with a bad one | finding: they share a history |
| `pipeline_requests` | 1 request of any kind, streams of up to 3 lines (OpenAI: 4), 2 queries, 3 clients' headers; V2 stores one answer at a time | `TypeOK`, `StoredWasStreamed`, `EndAfterStore`, `NoErrorCached`; `OpenAITypeOK`, `TokensTranslated`, `DoneMeansWhole`; `ImplementsStream` (refinement); `EveryRequestEnds` (liveness) |
| `pipeline_truncated` | the same, streaming only | finding: a cut stream is cached as an answer |
| `lifecycle_shutdown` | one request of each kind; 5 boot steps; shutdown 2, drain 2, grace 5 ticks | `TypeOK`, `CleanShutdownLoses`, `CounterExact`, `NoAddDuringWait`, `KilledOnlyAfterDrain`, `SignalLeadsThroughDrain` (liveness) |
| `lifecycle_drained` | one V1 request | finding: the drain does not wait for V1 writes |
| `cache_flushes` | 2 flushes, 1 pod, 1 write | `TypeOK`, `IndexLostOnlyByFailure`, `SurvivorsNeedFailure`, `ImmortalNeedsFailure` |
| `cache_schema` | 1 flush | finding: a flush can lose the index and log that it is preserved |
| `retry_loops` | one goroutine of each kind, the numbers of `main`, Gemini answers at once or after 2 s | `TypeOK`, `EndsWithContext`, `SavesAreBounded`, `LimitedTwiceIsLost`, `NoDeadEnd`, `EveryLoopEnds` (liveness) |

Why the bounds are enough. Three sub-tasks are the fewest for which one can fail,
one answer and one still run at a time; the proofs cover any number, and any number
of requests, of which the run sees the others through what they store. In
`session_turns` one retry is enough for a late copy of an attempt the caller gave
up to race the next one and the other turn, and for a window that repeated lines can
fill; what one turn reads there are the other's lines, at any moment of its save. A third
turn that reads the mixed lines of two others is left to the proofs, with retries (TLC
finds nothing without them, but the instance is as large again). `session_window` has the four lines
that make a window of three too short, as 21 lines do for 20. Three lines
are an event, its end and a token, the shortest stream in which a stale event type
could drop text; four add the token after a metadata event, which the OpenAI translation
could lose. Requests of `PipelineV1` meet only in the cache, where another one's
answer looks like that of V2. `RetryLoop` needs no bound but for the latencies of Gemini
and the ends of the jitter: goroutines do not meet. The ticks of
`Lifecycle` keep the order of the code's deadlines (shutdown + drain < grace) and
let each expire before and after everything else. Two flushes let one drop the
index between the drop and the creation of the other.

### Fairness

* `PregelEngine`: nothing but what the code bounds. The Gemini client and the
  server have no timeout, so a call need not return; the load balancer ends a
  request after 120 s (`gateway-infra.yaml:25`), which cancels its context. Fair are
  the hang-up, the steps of a request after it, and the background write (own 5 s
  context, `server.go:63`).
* `Lifecycle`: time, and the three steps of the shutdown. No handler and no write
  needs to end (the bot client waits 65 s, `proxy/client.go`, the Gemini client for
  ever).
* `PipelineV1`: as the engine. Fair are the hang-up, what waits for a remote party
  after it, and the steps that wait for nothing or, like the Redis writes, have
  timeouts of their own. Neither the pump nor the handler's loop looks at the
  context: the stream ends because reading the bot's body fails under it; the same
  holds for `OpenAIStream`.
* `RetryLoop`: timers, Redis commands (the driver has a timeout) and what follows the end
  of a context; not an answer of Gemini.
* The other specifications have safety properties only.

## Proofs

Every invariant and every action property of the runs that pass is a theorem, and so are
the two refinements. Each proof module extends its model and is laid out alike: the parts
of the inductive invariant, lemmas about the data, one lemma per action, `Invariance`
(`Spec => []IInv`), and the theorems that follow from it. TLC checked each `IInv` on the
run of its module before it was proved. The constants are arbitrary within the named
assumptions of the models.

| Module | Theorems (property) |
|---|---|
| `PregelEngineProofs` | `TypeCorrect`, `FanInIsBarrier` (`FanInComplete`), `NoPartialCached` (`NoPartialAnswerCached`), `RepliesHaveAnswers` (`EveryReplyHasAnswer`), `Refinement` (`ImplementsForkJoin`) |
| `SessionStoreProofs` | `TypeCorrect`, `CopiesAreBounded` (`CopiesBounded`), `NothingAckedIsLost` (`AckedIsStored`), `QuestionBeforeAnswer` (`UserBeforeBot`), `AnswersComeWithQuestions` (`AnswersReadWithQuestions`), `OnlyOverlapIsMissed` (`AckedIsRead`) |
| `PipelineV1Proofs` | `TypeCorrect`, `ErrorsStayOut` (`NoErrorCached`), `EndComesLast` (`EndAfterStore`), `StoresWhatWasStreamed` (`StoredWasStreamed`), `StreamRefinement` (`ImplementsStream`) |
| `OpenAIStreamProofs` | `OpenAITypeCorrect`, `DoneAfterEverything` (`DoneMeansWhole`), `EveryTokenOnce` (`TokensTranslated`); what `PipelineV1Proofs` shows holds under `ApiSpec` too: `PipelineBesideOpenAI`, `StreamRefinementBesideOpenAI` |
| `LifecycleProofs` | `TypeCorrect`, `CounterIsExact` (`CounterExact`), `CleanShutdownLosesLittle` (`CleanShutdownLoses`), `AddBeforeWait` (`NoAddDuringWait`), `BudgetsFitInGracePeriod` (`KilledOnlyAfterDrain`) |
| `QueryCacheProofs` | `TypeCorrect`, `IndexSurvives` (`IndexLostOnlyByFailure`), `FlushRemovesAll` (`SurvivorsNeedFailure`), `DocumentsAreMortal` (`ImmortalNeedsFailure`) |
| `RetryLoopProofs` | `TypeCorrect`, `LoopsEndWithContext` (`EndsWithContext`), `SavesEndInTime` (`SavesAreBounded`), `OneRetryInBackground` (`LimitedTwiceIsLost`), `LoopsHaveAWayOut` (`NoDeadEnd`) |

**PregelEngine**, for every set of requests, number of sub-tasks, table of similarities
and set of flags (`QueriesAssumption`, `EngineAssumption`). `IInv` adds, for each request:
`PlaceInv` (`LoopCount` tells at which node the graph is, and past the graph the answer is
not empty), `BarrierInv` (during the join the `WaitGroup` counts the goroutines that have
not exited, and outside it none runs), `SlotInv` (exactly the goroutines past their last
critical section have left an answer), `FlagInv` (`HasError` is up if and only if a worker
raised it) and `AnswerInv` (a `partial` answer belongs to a flagged request, and what is
on its way to the cache passed `ShouldCache`). The barrier follows from the counter: at
zero no goroutine is live (`LiveFinite`), hence every slot is stored (`AllStored`). For
the refinement, `ExecuteWorkers` is the fork, `FanIn` the join, and every other step
leaves the mapped variables alone (`OtherStepsStutter`).

**SessionStore**, for any turns, clients, headers, retries, re-sends and windows
(`SessionAssumption`). The copies of a line, in the list and on the wire, never exceed
what has been sent, and `Budget` says how often that can be: nothing before the save of
the line begins, `attempt * DriverSends + sends` during it, `SendBound` after it
(`BudgetBounds`). `SentInv` with `TurnInv` gives `CopiesBounded`, and `UserBeforeBot` is
inductive with them: the bot's line has a budget only once the user's line has been
acknowledged or given up, so that a late copy of the bot's line comes after a question
that is already there. `ReadInv` extends this to what was read at any time: a bot's line in
a history, in a list or on the wire means that the call for the user's line is over
(`BotInv`), so that its outcome can no longer turn into an acknowledgement of a question
the reader has missed; and a list has lines of its own session only (`KeyInv`).

**PipelineV1**, for any requests, headers, lengths of a stream and sizes of the cache
(`PipelineAssumption`). `PlaceInv` relates the handler to the pump and to the goroutines
it leaves behind, `PipeInv` says what can be in the pipe, `AnswerInv` what is on its way to
the cache. `ParseInv` is the heart of it: `event` and `builder` are the SSE reading of the
lines the pump has *parsed*, which is one line behind what was delivered while the handler
has taken a line and `Write` has not returned. The reading is defined by the last event
line before a line, so the lemmas are about that (`LastMark`, `EventOfNext`,
`EventOfAppend`, `ShownAppend`); they rest on the greatest member of a bounded set
(`Greatest`), which comes from the well-foundedness of the natural numbers without
induction over the stream. The refinement follows from the same invariant: a taken line
is emitted, the end of the body settles (`BodyEnds`, `BodyBreaks`, or `TailWritten`), the
last write, or the decision that there is none, stores, and the handler's last step ends
the stream.

**OpenAIStream**, for any length of what is heard in addition (`HeardAssumption`).
`FrameInv`: while the bot keeps to its framing, the event type remembered across data and
blank lines says the same as the line before, and the chunks sent are the tokens heard;
`EndInv`: the mark and a line that is too long both end the translation. The steps of the
pipeline leave its variables alone, so `IInv` carries over.

**Lifecycle**, for any finite set of requests of any kinds, any boot steps, and any
budgets whose sum is below the grace period (`LifecycleAssumption`; `main` has 10 s
and 5 s, Kubernetes gives 30 s by default). `TimeInv` relates the time since the signal to the
stage; `ShutdownInv` says that after a clean `srv.Shutdown` nothing can start, `DrainInv`
that the counted writes that run then are as old as the drain. With the counter exact, a
drain that saw zero left nothing, and one that expired left only writes that had all of it.

**QueryCache**, for any pods, flushes and writes, without assumptions. `DocInv` follows the
life of a document through `HSET`, `EXPIRE` and their late copies, `BeforeInv` and
`WipedInv` what a flush has passed, and `IndexLostOnlyByFailure` is inductive: it accounts for a missing index by a
flush that is about to create it.

**RetryLoop**, with the settings of `main`, for any latencies of Gemini, any overrun of a
Redis command and any meaning of `Never` (`RetryAssumption`). `WaitInv`: a backoff is
entered only with a retry left; `SaveInv`: a save has spent its earlier calls in full and of
the current one the attempts and backoffs so far (`Spent`); `LimitInv`: in the background
the delays of the Gemini client add up to 6 s, beyond the 5 s of the context.

What the proofs changed in the models: `AnswerStream`'s phase was mapped by a `CASE` whose
guards overlapped, so that TLA+ left open which branch a finished request without a stream
takes (TLC takes the first); it is a chain of conditions now. `SavesAreBounded` added up
the calls with a fold, which the provers cannot unroll; `LongestUpTo` adds the at most
three of them. `NoDeadEnd` followed from the type invariant of `RetryLoop`, which left the
bad results out; now it has to be shown.

Only model-checked: the liveness properties `EveryRequestSettles`, `EveryRequestEnds`,
`SignalLeadsThroughDrain` and `EveryLoopEnds` (TLAPS 1.4.5 has no support for `ENABLED`, on
which fairness rests), and the six runs that show a divergence.

## Divergences

Checked by a run (details in `PROJECT.json`): the cached failure text
(`synthesize.go:34`), the cached beginning of a broken stream (`streaming.go:158`), the
oldest-lines window (`sessionstore.go:34`), the shared
anonymous session (`config.go:56`), the undrained V1 writes (`main.go:202`), the
lost index (`querycache.go:201`).

Seen while modelling, a single step each, so no run is spent on them:
`FlushCache` always returns nil, so the 500 branch of `cache.go:19-23` is dead and
"Redis cache completely wiped" is also the reply when nothing was; it deletes
`session:v1:*` too, which `README.md:51` does not say. `X-Pisces-Flag-NoSession`
does not keep a request off Redis (`README.md:43`): the semantic cache is still read
and written. The threshold is `>=`, not ">90%" (`README.md:32`). `GET /v1/models`
(`README.md:50`) has no route. A stream that is out of domain updates neither cache
nor history (`streaming.go:208`, `README.md:35`). OpenAI streams bypass the pipeline
(`README.md:9`) and read the bot through a `Scanner`, whose 64 KB limit `README.md:34`
says was lifted for `/chat`: a longer metadata line ends the stream without `[DONE]`
(`DoneMeansWhole` allows that; it forbids a `[DONE]` after lines that were lost). A hit
replayed on a V1 stream is one `data:` line whatever line breaks it has
(`streaming.go:102`; V2 replaces them). Of the three retries `main` gives the Gemini
client, a V2 background write can make one (`LimitedTwiceIsLost`).

## Not modelled

Tracing, health and route tables, prompts and JSON trimming, JSON and SSE rendering
(no state, or text no property is about); unused packages (`normalize`, `gemma`,
`embeddings`); the shell clients; Helm and deploy scripts, except for the replicas,
the grace period and the load balancer's timeout, which appear as constants and fairness.
The go-redis driver, Redis, RediSearch, `net/http` and Kubernetes are modelled from
how the code uses them and marked external in `PROJECT.json`.

## Plan

1. *Done*: `PregelEngine` with `ForkJoin`, `SessionStore`, `Lifecycle`, `QueryCache`,
   `PipelineV1` with `AnswerStream`, `OpenAIStream`, `RequestMetadata`, `RetryLoop`.
2. *Done*: proofs of the safety properties of all of them and of the refinements.
3. Proofs about the pure parts: what `GetCache` returns for any set of documents
   (`CacheLookup`), and what `AnswerStream` and `ForkJoin` promise by themselves.

## Running

    tlc -config MCPregelEngine_fanout.cfg MCPregelEngine.tla
    tlapm PregelEngineProofs.tla        # and the other ...Proofs modules
