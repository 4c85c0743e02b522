----------------------------- MODULE PipelineV1 -----------------------------
(***************************************************************************)
(* The V1 pipeline: /chat with and without "stream", and the blocking      *)
(* /v1/chat/completions, which runs the same Execute without a session.    *)
(* The steps are session, rewrite, embedding, lookup, intent, bot.  A      *)
(* blocking answer leaves goroutines behind that store it.  A streamed one *)
(* is pumped line by line: a goroutine reads the bot's stream, writes each *)
(* line into an unbuffered pipe, from which the handler forwards it, and   *)
(* collects the text; after the last line it stores the text and only then *)
(* closes the pipe.                                                        *)
(*                                                                         *)
(* Abstracted: an answer is one of the texts the properties tell apart; a  *)
(* line is what the pump's tests make of it; what SaveSession does is      *)
(* module SessionStore.                                                    *)
(***************************************************************************)
EXTENDS CacheLookup, FiniteSets, SequencesExt

CONSTANTS
  Requests,
  ModesOf,        \* how the client of a request may call
  Headers,        \* the headers the clients send
  MaxLines,       \* bound: lines of a bot stream
  MaxEntries      \* bound: V2 stores an answer only in a smaller cache

Modes == {"json", "openai", "stream"}

ASSUME PipelineAssumption ==
  /\ ModesOf \in [Requests -> SUBSET Modes]
  /\ Headers \subseteq Header
  /\ MaxLines \in Nat
  /\ MaxEntries \in Nat

VARIABLES
  place,      \* where the handler of a request is
  req,        \* what it knows of the request
  answer,     \* the answer of Execute
  bg,         \* background writes that have not ended
  gone,       \* the request context is cancelled
  pump,       \* where the pump is
  pipe,       \* the line in the pipe
  delivered,  \* the lines the handler has taken out of it
  event,      \* lastEventType: "none", or what lines it makes of the next data
  builder,    \* answerBuilder: the numbers of the lines it is made of
  cut,        \* the bot's stream broke before its end
  entries     \* documents in the Redis semantic cache

vars == <<place, req, answer, bg, gone, pump, pipe, delivered, event, builder, cut, entries>>

pumpVars == <<pump, pipe, delivered, event, builder, cut>>

-----------------------------------------------------------------------------
(* Data *)

\* "facts": the bot's text; "empty": a bot reply without a known key; "cut": a text
\* whose stream broke; "fallback": the text for a question of no known domain;
\* "apology": the bot is out of reach; "session error": the history could not be
\* read; "v2": an answer the V2 engine stored.
Texts == {"facts", "empty", "cut", "fallback", "apology", "session error", "v2"}

\* What the pump makes of a line: an event line of type status or metadata, one of
\* another type, a data line with text, a data line it leaves out ([DONE], JSON) or
\* another line, an empty line; and text after the last line break.
Lines == {"hide", "event", "token", "aside", "blank"}

NoLine == "no line"

Entry == [query : Queries, answer : Texts]

Request ==
  [mode : Modes, query : Queries, flags : FeatureState, history : BOOLEAN, vector : BOOLEAN]

NoRequest ==
  [mode |-> "json", query |-> NoQuery,
   flags |-> [SkipCache |-> FALSE, NoSession |-> TRUE, SimilarityThreshold |-> 90],
   history |-> FALSE, vector |-> FALSE]

Places == {"idle", "session", "rewrite", "embed", "lookup", "intent", "bot", "replying",
           "pumping", "forwarding", "connecting", "translating", "done"}

PumpPlaces == {"none", "reading", "writing", "ending", "session", "cache", "closing", "closed"}

Streams(r) == req[r].mode = "stream"

Goto(r, p) == place' = [place EXCEPT ![r] = p]

-----------------------------------------------------------------------------
(* Up to the bot *)

\* The OpenAI route never has a session.
FlagsOf(mode, header) ==
  [ChatFlags(header) EXCEPT !.NoSession = @ \/ mode = "openai"]

\* HandleChatV1 and handleOpenAICompletions.  A malformed body ends in a 400; the
\* OpenAI route takes the history from the body.
Handle(r) ==
  /\ place[r] = "idle"
  /\ \/ Goto(r, "done") /\ UNCHANGED req
     \/ \E m \in ModesOf[r], q \in Queries, header \in Headers, h \in BOOLEAN :
          /\ h => m = "openai"
          /\ LET flags == FlagsOf(m, header) IN
             /\ req' = [req EXCEPT ![r] = [mode |-> m, query |-> q, flags |-> flags,
                                           history |-> h, vector |-> FALSE]]
             /\ Goto(r, IF flags.NoSession THEN "rewrite" ELSE "session")
  /\ UNCHANGED <<answer, bg, gone, pumpVars, entries>>

\* net/http cancels the context: the client hung up, or the load balancer did.
HangUp(r) ==
  /\ place[r] \notin {"idle", "done"}
  /\ ~gone[r]
  /\ gone' = [gone EXCEPT ![r] = TRUE]
  /\ UNCHANGED <<place, req, answer, bg, pumpVars, entries>>

\* A history that cannot be read ends the request; nothing is saved.
GetSession(r) ==
  /\ place[r] = "session"
  /\ \/ /\ ~gone[r]
        /\ \E h \in BOOLEAN : req' = [req EXCEPT ![r].history = h]
        /\ Goto(r, "rewrite")
        /\ UNCHANGED answer
     \/ /\ answer' = [answer EXCEPT ![r] = "session error"]
        /\ Goto(r, IF Streams(r) THEN "done" ELSE "replying")
        /\ UNCHANGED req
  /\ UNCHANGED <<bg, gone, pumpVars, entries>>

\* Rewriter.Resolve falls back to the query it was given.
Resolve(r) ==
  /\ place[r] = "rewrite"
  /\ \E q \in IF req[r].history /\ ~gone[r] THEN Queries ELSE {req[r].query} :
       req' = [req EXCEPT ![r].query = q]
  /\ Goto(r, "embed")
  /\ UNCHANGED <<answer, bg, gone, pumpVars, entries>>

EmbedText(r) ==
  /\ place[r] = "embed"
  /\ \E v \in BOOLEAN :
       /\ v => ~req[r].flags.SkipCache /\ ~gone[r]
       /\ req' = [req EXCEPT ![r].vector = v]
       /\ Goto(r, IF v THEN "lookup" ELSE "intent")
  /\ UNCHANGED <<answer, bg, gone, pumpVars, entries>>

\* The goroutines that store an answer: ExecuteWithSession and a hit of
\* ExecuteStreamWithSession save the turn, Execute stores the answer.
SessionWrites(r) == IF req[r].flags.NoSession THEN {} ELSE {"session"}

CacheWrites(r) == IF req[r].vector THEN {"cache"} ELSE {}

Answer(r, text, writes) ==
  /\ answer' = [answer EXCEPT ![r] = text]
  /\ bg' = [bg EXCEPT ![r] = writes]
  /\ Goto(r, "replying")

\* A hit is replied as it is, and not stored again.
LookupResults(r) ==
  IF gone[r] THEN {Miss}
  ELSE GetCache(entries, req[r].query, req[r].flags.SimilarityThreshold)

Lookup(r) ==
  /\ place[r] = "lookup"
  /\ \E res \in LookupResults(r) :
       \/ res.hit /\ Answer(r, res.answer, SessionWrites(r))
       \/ ~res.hit /\ Goto(r, "intent") /\ UNCHANGED <<answer, bg>>
  /\ UNCHANGED <<req, gone, pumpVars, entries>>

\* Determine: on an error "frasier".  Any other domain has no bot; the text that
\* says so is stored by a blocking request and not by a streaming one.
Determine(r) ==
  /\ place[r] = "intent"
  /\ \/ Goto(r, "bot") /\ UNCHANGED <<answer, bg>>
     \/ /\ ~gone[r]
        /\ Answer(r, "fallback", IF Streams(r) THEN {}
                                 ELSE SessionWrites(r) \cup CacheWrites(r))
  /\ UNCHANGED <<req, gone, pumpVars, entries>>

-----------------------------------------------------------------------------
(* The bot, blocking *)

\* An error that is stored like an answer.
BuggyForwardChat(r) ==
  /\ place[r] = "bot"
  /\ ~Streams(r)
  /\ \E text \in {"facts", "empty", "apology"} :
       Answer(r, text, SessionWrites(r) \cup CacheWrites(r))
  /\ UNCHANGED <<req, gone, pumpVars, entries>>

\* The goroutine that stores the answer is started before there is one.
HastyForwardChat(r) ==
  /\ place[r] = "bot"
  /\ ~Streams(r)
  /\ bg' = [bg EXCEPT ![r] = SessionWrites(r) \cup CacheWrites(r)]
  /\ UNCHANGED <<place, req, answer, gone, pumpVars, entries>>

\* The error text of Execute is saved in the session, but not in the cache.
ForwardChat(r) ==
  /\ place[r] = "bot"
  /\ ~Streams(r)
  /\ \/ /\ ~gone[r]
        /\ \E text \in {"facts", "empty"} :
             Answer(r, text, SessionWrites(r) \cup CacheWrites(r))
     \/ Answer(r, "apology", SessionWrites(r))
  /\ UNCHANGED <<req, gone, pumpVars, entries>>

\* The body of a blocking request, the text of an answer that needs no bot, or the
\* text a stream ends with.
Reply(r) ==
  /\ place[r] = "replying"
  /\ Goto(r, "done")
  /\ UNCHANGED <<req, answer, bg, gone, pumpVars, entries>>

SaveSession(r) ==
  /\ "session" \in bg[r]
  /\ bg' = [bg EXCEPT ![r] = @ \ {"session"}]
  /\ UNCHANGED <<place, req, answer, gone, pumpVars, entries>>

\* An error of SetCache is discarded; the write may have landed.
SetCache(r, text) ==
  \/ entries' = entries \cup {[query |-> req[r].query, answer |-> text]}
  \/ UNCHANGED entries

StoreAnswer(r) ==
  /\ "cache" \in bg[r]
  /\ SetCache(r, answer[r])
  /\ bg' = [bg EXCEPT ![r] = @ \ {"cache"}]
  /\ UNCHANGED <<place, req, answer, gone, pumpVars>>

-----------------------------------------------------------------------------
(* The bot, streaming: the pump *)

\* No answer when the stream cannot be opened.
ForwardChatStream(r) ==
  /\ place[r] = "bot"
  /\ Streams(r)
  /\ \/ /\ ~gone[r]
        /\ pump' = [pump EXCEPT ![r] = "reading"]
        /\ Goto(r, "pumping")
     \/ Goto(r, "done") /\ UNCHANGED pump
  /\ UNCHANGED <<req, answer, bg, gone, pipe, delivered, event, builder, cut, entries>>

\* A line has arrived (from then on, lines that are buffered can be read even if
\* the context is cancelled); pw.Write blocks.
ReadString(r) ==
  /\ pump[r] = "reading"
  /\ Len(delivered[r]) < MaxLines
  /\ \E line \in Lines : pipe' = [pipe EXCEPT ![r] = line]
  /\ pump' = [pump EXCEPT ![r] = "writing"]
  /\ UNCHANGED <<place, req, answer, bg, gone, delivered, event, builder, cut, entries>>

\* The line has been taken.
Written(r) == pipe[r] = NoLine

\* The event type survives the end of its event.
BuggyParse(r) ==
  /\ pump[r] = "writing"
  /\ Written(r)
  /\ LET line == Last(delivered[r]) IN
     /\ event' = [event EXCEPT ![r] = IF line \in {"hide", "event"} THEN line ELSE @]
     /\ builder' = [builder EXCEPT ![r] =
                      IF line = "token" /\ event[r] # "hide" THEN Append(@, Len(delivered[r])) ELSE @]
  /\ pump' = [pump EXCEPT ![r] = "reading"]
  /\ UNCHANGED <<place, req, answer, bg, gone, pipe, delivered, cut, entries>>

Parse(r) ==
  /\ pump[r] = "writing"
  /\ Written(r)
  /\ LET line == Last(delivered[r]) IN
     /\ event' = [event EXCEPT ![r] = CASE line \in {"hide", "event"} -> line
                                        [] line = "blank" -> "none"
                                        [] OTHER -> @]
     /\ builder' = [builder EXCEPT ![r] =
                      IF line = "token" /\ event[r] # "hide" THEN Append(@, Len(delivered[r])) ELSE @]
  /\ pump' = [pump EXCEPT ![r] = "reading"]
  /\ UNCHANGED <<place, req, answer, bg, gone, pipe, delivered, cut, entries>>

\* A stream that is not read under the request context.
BuggyBodyBreaks(r) ==
  /\ pump[r] = "reading"
  /\ ~gone[r]
  /\ pump' = [pump EXCEPT ![r] = "session"]
  /\ cut' = [cut EXCEPT ![r] = TRUE]
  /\ UNCHANGED <<place, req, answer, bg, gone, pipe, delivered, event, builder, entries>>

\* The bot, the network or the cancelled context breaks the stream: the loop ends as
\* it does at the end of the stream.
BodyBreaks(r) ==
  /\ pump[r] = "reading"
  /\ pump' = [pump EXCEPT ![r] = "session"]
  /\ cut' = [cut EXCEPT ![r] = TRUE]
  /\ UNCHANGED <<place, req, answer, bg, gone, pipe, delivered, event, builder, entries>>

\* io.EOF, which may have been buffered before the context was cancelled; text after
\* the last line break is written but not parsed.
BodyEnds(r) ==
  /\ pump[r] = "reading"
  /\ \/ pump' = [pump EXCEPT ![r] = "session"] /\ UNCHANGED pipe
     \/ /\ pump' = [pump EXCEPT ![r] = "ending"]
        /\ pipe' = [pipe EXCEPT ![r] = "tail"]
  /\ UNCHANGED <<place, req, answer, bg, gone, delivered, event, builder, cut, entries>>

TailWritten(r) ==
  /\ pump[r] = "ending"
  /\ Written(r)
  /\ pump' = [pump EXCEPT ![r] = "session"]
  /\ UNCHANGED <<place, req, answer, bg, gone, pipe, delivered, event, builder, cut, entries>>

\* The pipe is closed before the text is stored.
EarlyPumpSaves(r) ==
  /\ pump[r] = "session"
  /\ pump' = [pump EXCEPT ![r] = "closed"]
  /\ bg' = [bg EXCEPT ![r] = IF builder[r] = <<>> THEN {} ELSE SessionWrites(r)]
  /\ UNCHANGED <<place, req, answer, gone, pipe, delivered, event, builder, cut, entries>>

\* SaveSession, twice, when there is a text and a session.
PumpSaves(r) ==
  /\ pump[r] = "session"
  /\ pump' = [pump EXCEPT ![r] = IF builder[r] = <<>> THEN "closing" ELSE "cache"]
  /\ UNCHANGED <<place, req, answer, bg, gone, pipe, delivered, event, builder, cut, entries>>

PumpStores(r) ==
  /\ pump[r] = "cache"
  /\ IF req[r].vector THEN SetCache(r, IF cut[r] THEN "cut" ELSE "facts")
                      ELSE UNCHANGED entries
  /\ pump' = [pump EXCEPT ![r] = "closing"]
  /\ UNCHANGED <<place, req, answer, bg, gone, pipe, delivered, event, builder, cut>>

\* The deferred pw.Close() and streamBody.Close().
PumpCloses(r) ==
  /\ pump[r] = "closing"
  /\ pump' = [pump EXCEPT ![r] = "closed"]
  /\ UNCHANGED <<place, req, answer, bg, gone, pipe, delivered, event, builder, cut, entries>>

-----------------------------------------------------------------------------
(* The handler's end of the pipe *)

\* A text without a line break stays in the reader until the pipe ends.
Take(r) ==
  /\ place[r] = "pumping"
  /\ pipe[r] # NoLine
  /\ delivered' = [delivered EXCEPT ![r] = Append(@, pipe[r])]
  /\ pipe' = [pipe EXCEPT ![r] = NoLine]
  /\ Goto(r, IF pipe[r] = "tail" THEN "pumping" ELSE "forwarding")
  /\ UNCHANGED <<req, answer, bg, gone, pump, event, builder, cut, entries>>

\* Fprint and Flush; their errors are ignored, so a client that is gone does not end
\* the loop.
Forward(r) ==
  /\ place[r] = "forwarding"
  /\ Goto(r, "pumping")
  /\ UNCHANGED <<req, answer, bg, gone, pumpVars, entries>>

EndOfStream(r) ==
  /\ place[r] = "pumping"
  /\ pump[r] = "closed"
  /\ Goto(r, IF "tail" \in ToSet(delivered[r]) THEN "replying" ELSE "done")
  /\ UNCHANGED <<req, answer, bg, gone, pumpVars, entries>>

-----------------------------------------------------------------------------
(* The shared cache *)

V2Stores(q) ==
  /\ Cardinality(entries) < MaxEntries
  /\ entries' = entries \cup {[query |-> q, answer |-> "v2"]}
  /\ UNCHANGED <<place, req, answer, bg, gone, pumpVars>>

EntryRemoved(e) ==
  /\ entries' = entries \ {e}
  /\ UNCHANGED <<place, req, answer, bg, gone, pumpVars>>

-----------------------------------------------------------------------------
(* Specification *)

Init ==
  /\ place = [r \in Requests |-> "idle"]
  /\ req = [r \in Requests |-> NoRequest]
  /\ answer = [r \in Requests |-> "none"]
  /\ bg = [r \in Requests |-> {}]
  /\ gone = [r \in Requests |-> FALSE]
  /\ pump = [r \in Requests |-> "none"]
  /\ pipe = [r \in Requests |-> NoLine]
  /\ delivered = [r \in Requests |-> <<>>]
  /\ event = [r \in Requests |-> "none"]
  /\ builder = [r \in Requests |-> <<>>]
  /\ cut = [r \in Requests |-> FALSE]
  /\ entries = {}

\* Steps that wait for a remote party.
Remote(r) ==
  \/ GetSession(r) \/ Resolve(r) \/ EmbedText(r) \/ Lookup(r) \/ Determine(r)
  \/ ForwardChat(r) \/ ForwardChatStream(r) \/ Reply(r) \/ Forward(r)

\* Steps that do not, or that have a timeout of their own.
Local(r) ==
  \/ SaveSession(r) \/ StoreAnswer(r)
  \/ Parse(r) \/ TailWritten(r) \/ PumpSaves(r) \/ PumpStores(r) \/ PumpCloses(r)
  \/ Take(r) \/ EndOfStream(r)

Next ==
  \/ \E r \in Requests :
       \/ Handle(r) \/ HangUp(r) \/ Remote(r) \/ Local(r)
       \/ ReadString(r) \/ BodyBreaks(r) \/ BodyEnds(r)
  \/ \E q \in Queries : V2Stores(q)
  \/ \E e \in entries : EntryRemoved(e)

Spec == Init /\ [][Next]_vars

\* A remote party need not answer before the request is cut off (the load balancer:
\* 120 s); after that its call fails.
Fairness ==
  \A r \in Requests :
    /\ WF_vars(HangUp(r))
    /\ WF_vars(gone[r] /\ Remote(r))
    /\ WF_vars(gone[r] /\ BodyBreaks(r))
    /\ WF_vars(Parse(r) \/ TailWritten(r) \/ PumpSaves(r) \/ PumpStores(r) \/ PumpCloses(r))
    /\ WF_vars(Take(r) \/ EndOfStream(r))
    /\ WF_vars(SaveSession(r))
    /\ WF_vars(StoreAnswer(r))

-----------------------------------------------------------------------------
(* Properties *)

TypeOK ==
  /\ place \in [Requests -> Places]
  /\ req \in [Requests -> Request]
  /\ answer \in [Requests -> Texts \cup {"none"}]
  /\ bg \in [Requests -> SUBSET {"session", "cache"}]
  /\ gone \in [Requests -> BOOLEAN]
  /\ pump \in [Requests -> PumpPlaces]
  /\ pipe \in [Requests -> Lines \cup {NoLine, "tail"}]
  /\ \A r \in Requests : delivered[r] \in Seq(Lines \cup {"tail"})
  /\ event \in [Requests -> {"none", "hide", "event"}]
  /\ \A r \in Requests : builder[r] \in Seq(1..MaxLines)
  /\ cut \in [Requests -> BOOLEAN]
  /\ entries \subseteq Entry

\* The refinement mapping to AnswerStream.
StreamPhase(r) ==
  IF pump[r] = "none" THEN "idle"
  ELSE IF pump[r] \in {"reading", "writing", "ending"} THEN "open"
  ELSE IF place[r] = "done" THEN "ended"
  ELSE IF pump[r] \in {"closing", "closed"} /\ bg[r] = {} THEN "stored"
  ELSE "settled"

AS == INSTANCE AnswerStream WITH
  Lines <- Lines \cup {"tail"},
  phase <- [r \in Requests |-> StreamPhase(r)],
  out <- delivered,
  kept <- [r \in Requests |->
             IF StreamPhase(r) \in {"idle", "open"} THEN {} ELSE ToSet(builder[r])]

\* The pump, its pipe and the handler that reads it implement the stream of
\* AnswerStream: the text is settled by what the client was given, and nothing is
\* given after that; the stores come next, and the end of the stream last.
ImplementsStream == AS!Spec

\* When the pump stores a text (streaming.go:188), it is made of exactly the lines of
\* text the handler was given for the client, in their order: nothing is stored that
\* was not streamed, and status and metadata never get into it.
StoredWasStreamed ==
  \A r \in Requests :
    pump[r] \in {"session", "cache", "closing", "closed"} =>
      /\ ToSet(builder[r]) = AS!Shown(delivered[r])
      /\ \A i, j \in DOMAIN builder[r] : i < j => builder[r][i] < builder[r][j]

\* A streaming handler does not end before the pump has stored the text, whatever
\* the client does: the end of the pipe comes last (streaming.go:148; the shutdown in
\* module Lifecycle relies on it).
EndAfterStore ==
  \A r \in Requests :
    place[r] = "done" /\ Streams(r) /\ pump[r] # "none" => pump[r] = "closed" /\ bg[r] = {}

\* No error text of the pipeline reaches the cache, although the session gets it
\* (blocking.go:140 returns before the write of line 179).
NoErrorCached ==
  \A e \in entries : e.answer \notin {"apology", "session error"}

\* Every request ends, and so does everything it started, although neither the pump
\* (streaming.go:156) nor the handler's loop (handlers_v1.go:68) looks at the context.
EveryRequestEnds ==
  \A r \in Requests :
    place[r] # "idle" ~> (place[r] = "done" /\ bg[r] = {} /\ pump[r] \in {"none", "closed"})

\* "Uses Redis as a vector database to cache responses" that are returned in place of
\* the bot's (README.md:10): a text whose stream broke is not a response.
OnlyWholeAnswersCached ==
  \A e \in entries : e.answer # "cut"
=============================================================================
