---------------------------- MODULE OpenAIStream ----------------------------
(***************************************************************************)
(* handleOpenAIStream (internal/api/handlers_openai.go): a streamed        *)
(* /v1/chat/completions goes past the pipeline to the bot; its lines are   *)
(* translated into chunks one at a time.  Such requests run beside those   *)
(* of PipelineV1, with the same life cycle.                                *)
(*                                                                         *)
(* Abstracted: a line is what the translation's tests make of it; a line   *)
(* of 64 KB is more than bufio.Scanner takes.  A piece of a line before    *)
(* the end or the break of the stream is a line to the Scanner.            *)
(***************************************************************************)
EXTENDS PipelineV1

CONSTANT MaxHeard  \* bound: lines read from the bot

ASSUME HeardAssumption == MaxHeard \in Nat

VARIABLES
  heard,      \* the lines of the bot's stream that the Scanner has read
  lastEvent,  \* the type of the event line read last, or "none"
  chunks,     \* the numbers of the lines that were sent on as chunks
  marks       \* how often data: [DONE] was sent

openaiVars == <<heard, lastEvent, chunks, marks>>

apiVars == <<vars, openaiVars>>

BotLines == {"metadata", "event", "data", "[DONE]", "blank", "long"}

NextNumber(r) == Len(heard[r]) + 1

-----------------------------------------------------------------------------
(* The handler *)

\* The body asks for a stream; history and headers are not looked at.
HandleOpenAIStream(r) ==
  /\ place[r] = "idle"
  /\ Goto(r, "connecting")
  /\ UNCHANGED <<req, answer, bg, gone, pumpVars, entries, openaiVars>>

\* A 502 when the stream cannot be opened.
Connect(r) ==
  /\ place[r] = "connecting"
  /\ \/ ~gone[r] /\ Goto(r, "translating")
     \/ Goto(r, "done")
  /\ UNCHANGED <<req, answer, bg, gone, pumpVars, entries, openaiVars>>

\* Data of a metadata event is left out without the end of the event.
StickyMetadata(r, line) ==
  /\ line \in {"data", "[DONE]"}
  /\ lastEvent[r] = "metadata"
  /\ UNCHANGED <<place, lastEvent, chunks, marks>>

Metadata(r, line) ==
  /\ line \in {"data", "[DONE]"}
  /\ lastEvent[r] = "metadata"
  /\ lastEvent' = [lastEvent EXCEPT ![r] = "none"]
  /\ UNCHANGED <<place, chunks, marks>>

Event(r, line) ==
  /\ line \in {"metadata", "event"}
  /\ lastEvent' = [lastEvent EXCEPT ![r] = line]
  /\ UNCHANGED <<place, chunks, marks>>

\* Whatever its event, other than metadata.
Chunk(r, line) ==
  /\ line = "data"
  /\ lastEvent[r] # "metadata"
  /\ chunks' = [chunks EXCEPT ![r] = @ \cup {NextNumber(r)}]
  /\ lastEvent' = [lastEvent EXCEPT ![r] = "none"]
  /\ UNCHANGED <<place, marks>>

\* A break that leaves something else than the loop.
DoneGoesOn(r, line) ==
  /\ line = "[DONE]"
  /\ lastEvent[r] # "metadata"
  /\ marks' = [marks EXCEPT ![r] = @ + 1]
  /\ UNCHANGED <<place, lastEvent, chunks>>

Done(r, line) ==
  /\ line = "[DONE]"
  /\ lastEvent[r] # "metadata"
  /\ marks' = [marks EXCEPT ![r] = @ + 1]
  /\ Goto(r, "done")
  /\ UNCHANGED <<lastEvent, chunks>>

\* A reader without the limit that leaves such a line out.
SkippedTooLong(r, line) ==
  /\ line = "long"
  /\ UNCHANGED <<place, lastEvent, chunks, marks>>

\* bufio.ErrTooLong ends the loop.
TooLong(r, line) ==
  /\ line = "long"
  /\ Goto(r, "done")
  /\ UNCHANGED <<lastEvent, chunks, marks>>

Ignored(r, line) ==
  /\ line = "blank"
  /\ UNCHANGED <<place, lastEvent, chunks, marks>>

\* One turn of the loop.  Lines that have arrived are read even if the context is
\* cancelled, and errors of the writes to the client are ignored.
Scan(r) ==
  /\ place[r] = "translating"
  /\ Len(heard[r]) < MaxHeard
  /\ \E line \in BotLines :
       /\ heard' = [heard EXCEPT ![r] = Append(@, line)]
       /\ \/ Event(r, line) \/ Metadata(r, line) \/ Chunk(r, line)
          \/ Done(r, line) \/ TooLong(r, line) \/ Ignored(r, line)
  /\ UNCHANGED <<req, answer, bg, gone, pumpVars, entries>>

\* The bot's stream ends or breaks.
ScanEnds(r) ==
  /\ place[r] = "translating"
  /\ Goto(r, "done")
  /\ UNCHANGED <<req, answer, bg, gone, pumpVars, entries, openaiVars>>

-----------------------------------------------------------------------------
(* Specification *)

ApiInit ==
  /\ Init
  /\ heard = [r \in Requests |-> <<>>]
  /\ lastEvent = [r \in Requests |-> "none"]
  /\ chunks = [r \in Requests |-> {}]
  /\ marks = [r \in Requests |-> 0]

OpenAIStep(r) == HandleOpenAIStream(r) \/ Connect(r) \/ Scan(r) \/ ScanEnds(r)

ApiNext ==
  \/ Next /\ UNCHANGED openaiVars
  \/ \E r \in Requests : OpenAIStep(r)

ApiSpec == ApiInit /\ [][ApiNext]_apiVars

\* As in PipelineV1: what waits for the bot fails once the request is cut off.
ApiFairSpec ==
  /\ ApiSpec
  /\ Fairness
  /\ \A r \in Requests :
       WF_apiVars(gone[r] /\ Connect(r)) /\ WF_apiVars(gone[r] /\ ScanEnds(r))

-----------------------------------------------------------------------------
(* Properties *)

OpenAITypeOK ==
  /\ \A r \in Requests : heard[r] \in Seq(BotLines) /\ chunks[r] \subseteq 1..MaxHeard
  /\ lastEvent \in [Requests -> {"none", "metadata", "event"}]
  /\ marks \in [Requests -> 0..1]

\* The bot's framing: an event line, one line of data, an empty line.
WellFramed(lines) ==
  \A i \in 1..(Len(lines) - 1) :
    /\ lines[i] \in {"metadata", "event"} => lines[i+1] = "data"
    /\ lines[i] = "data" => lines[i+1] = "blank"

Tokens(lines) ==
  {i \in DOMAIN lines : lines[i] = "data" /\ (i = 1 \/ lines[i-1] # "metadata")}

\* As long as the bot keeps to its framing, a client gets every token and no metadata,
\* although the translation forgets an event at its data and not at its end
\* (handlers_openai.go:132, handlers_openai.go:161).
TokensTranslated ==
  \A r \in Requests : WellFramed(heard[r]) => chunks[r] = Tokens(heard[r])

\* A client that is told [DONE] has had everything: the translation never goes on past
\* a line it could not read (handlers_openai.go:120), and never makes up the mark.
DoneMeansWhole ==
  \A r \in Requests :
    marks[r] > 0 => Last(heard[r]) = "[DONE]" /\ "long" \notin ToSet(heard[r])
=============================================================================
