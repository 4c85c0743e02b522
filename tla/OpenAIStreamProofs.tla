------------------------- MODULE OpenAIStreamProofs -------------------------
(***************************************************************************)
(* Theorems about OpenAIStream: what a translated stream gives its client, *)
(* and that the theorems of PipelineV1Proofs hold beside such streams.     *)
(***************************************************************************)
EXTENDS OpenAIStream, PipelineV1Proofs

-----------------------------------------------------------------------------
(* The inductive invariant *)

HeardInv ==
  /\ heard \in [Requests -> Seq(BotLines)]
  /\ lastEvent \in [Requests -> {"none", "metadata", "event"}]
  /\ chunks \in [Requests -> SUBSET (1..MaxHeard)]
  /\ marks \in [Requests -> 0..1]

\* Both ends of the translation, the mark and a line that is too long, end it.
EndInv(r) ==
  /\ place[r] # "done" => marks[r] = 0 /\ "long" \notin ToSet(heard[r])
  /\ marks[r] > 0 => Last(heard[r]) = "[DONE]" /\ "long" \notin ToSet(heard[r])

\* While the bot keeps to its framing, the event type that is remembered across data
\* and blank lines says the same as the line before.
FrameInv(r) ==
  WellFramed(heard[r]) =>
    /\ lastEvent[r] = "metadata" <=>
         heard[r] # <<>> /\ heard[r][Len(heard[r])] = "metadata"
    /\ chunks[r] = Tokens(heard[r])

OpenAIInv == HeardInv /\ \A r \in Requests : EndInv(r) /\ FrameInv(r)

ApiIInv == IInv /\ OpenAIInv

-----------------------------------------------------------------------------
(* The framing of a longer stream *)

\* What Append does to the lines of a stream, in the words of 1..Len.
LEMMA AppendHeard ==
  ASSUME NEW h \in Seq(BotLines), NEW x \in BotLines, NEW more, more = Append(h, x)
  PROVE  /\ more \in Seq(BotLines) /\ Len(h) \in Nat /\ Len(more) = Len(h) + 1
         /\ DOMAIN h = 1..Len(h) /\ DOMAIN more = 1..(Len(h) + 1)
         /\ \A i \in 1..Len(h) : more[i] = h[i]
         /\ more[Len(h) + 1] = x /\ more # <<>> /\ Last(more) = x
         /\ ToSet(more) = ToSet(h) \cup {x}
<1>1. /\ more \in Seq(BotLines) /\ Len(h) \in Nat /\ Len(more) = Len(h) + 1
      /\ DOMAIN h = 1..Len(h) /\ DOMAIN more = 1..(Len(h) + 1)
      /\ \A i \in 1..Len(h) : more[i] = h[i]
      /\ more[Len(h) + 1] = x /\ more # <<>>
  BY AppendProperties, LenProperties
<1>2. Last(more) = x  BY <1>1 DEF Last
<1>3. ToSet(h) = {h[i] : i \in 1..Len(h)}  BY <1>1 DEF ToSet
<1>4. ToSet(more) = {more[i] : i \in 1..(Len(h) + 1)}  BY <1>1 DEF ToSet
<1>5. \A y : y \in ToSet(more) <=> y \in ToSet(h) \/ y = x
  BY <1>1, <1>3, <1>4
<1>6. ToSet(more) = ToSet(h) \cup {x}  BY <1>5
<1> QED  BY <1>1, <1>2, <1>6

\* The beginning of a well-framed stream is one; its last line says what may follow.
LEMMA FramedBefore ==
  ASSUME NEW h \in Seq(BotLines), NEW x \in BotLines, WellFramed(Append(h, x))
  PROVE  /\ WellFramed(h)
         /\ h # <<>> => /\ h[Len(h)] \in {"metadata", "event"} => x = "data"
                        /\ h[Len(h)] = "data" => x = "blank"
<1> DEFINE more == Append(h, x)
<1>1. /\ Len(h) \in Nat /\ Len(more) = Len(h) + 1
      /\ \A i \in 1..Len(h) : more[i] = h[i]
      /\ more[Len(h) + 1] = x
  BY AppendHeard
<1>2. h # <<>> => Len(h) \in 1..Len(h)  BY <1>1, EmptySeq
<1> HIDE DEF more
<1>3. \A i \in 1..Len(h) :
        /\ more[i] \in {"metadata", "event"} => more[i+1] = "data"
        /\ more[i] = "data" => more[i+1] = "blank"
  <2>1. WellFramed(more)  BY DEF more
  <2>2. Len(more) - 1 = Len(h)  BY <1>1
  <2> QED  BY <2>1, <2>2 DEF WellFramed
<1>4. ASSUME NEW i \in 1..(Len(h) - 1)
      PROVE  i \in 1..Len(h) /\ more[i] = h[i] /\ more[i+1] = h[i+1]
  BY <1>1
<1>5. WellFramed(h)  BY <1>3, <1>4 DEF WellFramed
<1> QED  BY <1>1, <1>2, <1>3, <1>5

\* A line adds a token when it is data that follows no metadata.
LEMMA TokensAppend ==
  ASSUME NEW h \in Seq(BotLines), NEW x \in BotLines
  PROVE  Tokens(Append(h, x)) =
           Tokens(h) \cup IF x = "data" /\ (h = <<>> \/ h[Len(h)] # "metadata")
                          THEN {Len(h) + 1} ELSE {}
<1> DEFINE more == Append(h, x)
<1>1. /\ Len(h) \in Nat /\ DOMAIN h = 1..Len(h) /\ DOMAIN more = 1..(Len(h) + 1)
      /\ \A i \in 1..Len(h) : more[i] = h[i]
      /\ more[Len(h) + 1] = x
  BY AppendHeard
<1>2. h = <<>> <=> Len(h) = 0  BY EmptySeq
<1> HIDE DEF more
<1>3. \A i \in 1..Len(h) : i # 1 => more[i-1] = h[i-1]  BY <1>1
<1>4. Len(h) + 1 # 1 => more[Len(h) + 1 - 1] = h[Len(h)]  BY <1>1
<1>5. \A i : i \in Tokens(more) <=>
        \/ i \in Tokens(h)
        \/ i = Len(h) + 1 /\ x = "data" /\ (Len(h) + 1 = 1 \/ h[Len(h)] # "metadata")
  <2>1. \A i : i \in Tokens(more) <=>
          i \in 1..(Len(h) + 1) /\ more[i] = "data" /\ (i = 1 \/ more[i-1] # "metadata")
    BY <1>1 DEF Tokens
  <2>2. \A i : i \in Tokens(h) <=>
          i \in 1..Len(h) /\ h[i] = "data" /\ (i = 1 \/ h[i-1] # "metadata")
    BY <1>1 DEF Tokens
  <2>3. \A i \in 1..Len(h) : i \in Tokens(more) <=> i \in Tokens(h)
    BY <1>1, <1>3, <2>1, <2>2
  <2>4. Len(h) + 1 \in Tokens(more) <=>
          x = "data" /\ (Len(h) + 1 = 1 \/ h[Len(h)] # "metadata")
    BY <1>1, <1>4, <2>1
  <2>5. \A i : i \in 1..(Len(h) + 1) <=> i \in 1..Len(h) \/ i = Len(h) + 1
    BY <1>1
  <2>6. Len(h) + 1 \notin Tokens(h)  BY <1>1, <2>2
  <2> QED  BY <2>1, <2>2, <2>3, <2>4, <2>5, <2>6
<1>6. Len(h) + 1 = 1 <=> h = <<>>  BY <1>1, <1>2
<1> QED  BY <1>5, <1>6 DEF more

-----------------------------------------------------------------------------
(* The steps *)

\* A request that has ended does not go on: the pipeline leaves "done" alone.
LEMMA DoneIsFinal ==
  ASSUME IInv, Next, NEW s \in Requests, place[s] = "done"
  PROVE  place'[s] = "done"
<1>t. place \in [Requests -> Places]  BY DEF IInv, TypeOK
<1>1. ASSUME NEW r \in Requests, Remote(r) PROVE place'[s] = "done"
  <2>1. place[r] # "done" /\ \E p : place' = [place EXCEPT ![r] = p]
    BY <1>1, Present DEF Remote, GetSession, Resolve, EmbedText, Lookup, Determine, ForwardChat,
       ForwardChatStream, Reply, Forward, Goto, Answer
  <2> QED  BY <1>t, <2>1
<1>2. ASSUME NEW r \in Requests, Local(r) PROVE place'[s] = "done"
  <2>1. CASE Take(r) \/ EndOfStream(r)
    <3>1. place[r] # "done" /\ \E p : place' = [place EXCEPT ![r] = p]
      BY <2>1 DEF Take, EndOfStream, Goto
    <3> QED  BY <1>t, <3>1
  <2>2. CASE ~(Take(r) \/ EndOfStream(r))
    BY <1>2, <2>2 DEF Local, SaveSession, StoreAnswer, Parse, TailWritten, PumpSaves, PumpStores,
       PumpCloses
  <2> QED  BY <2>1, <2>2
<1>3. ASSUME NEW r \in Requests, Handle(r) PROVE place'[s] = "done"
  <2>1. place[r] # "done" /\ \E p : place' = [place EXCEPT ![r] = p]
    BY <1>3 DEF Handle, Goto
  <2> QED  BY <1>t, <2>1
<1>4. ASSUME NEW r \in Requests, HangUp(r) \/ ReadString(r) \/ BodyBreaks(r) \/ BodyEnds(r)
      PROVE  place'[s] = "done"
  BY <1>4 DEF HangUp, ReadString, BodyBreaks, BodyEnds
<1>5. ASSUME NEW q \in Queries, V2Stores(q) PROVE place'[s] = "done"
  BY <1>5 DEF V2Stores
<1>6. ASSUME NEW e \in entries, EntryRemoved(e) PROVE place'[s] = "done"
  BY <1>6 DEF EntryRemoved
<1> QED  BY <1>1, <1>2, <1>3, <1>4, <1>5, <1>6 DEF Next

\* A step of the pipeline leaves what has been heard alone.
LEMMA PipelineStep ==
  ASSUME ApiIInv, [Next]_vars, UNCHANGED openaiVars
  PROVE  OpenAIInv'
<1>1. HeardInv'  BY DEF ApiIInv, OpenAIInv, HeardInv, openaiVars
<1>2. ASSUME NEW r \in Requests PROVE EndInv(r)' /\ FrameInv(r)'
  <2>1. place'[r] # "done" => place[r] # "done"
    BY DoneIsFinal DEF ApiIInv, vars
  <2>2. EndInv(r) /\ FrameInv(r)  BY DEF ApiIInv, OpenAIInv
  <2>3. EndInv(r)'  BY <2>1, <2>2 DEF EndInv, openaiVars
  <2>4. FrameInv(r)'  BY <2>2 DEF FrameInv, openaiVars
  <2> QED  BY <2>3, <2>4
<1> QED  BY <1>1, <1>2 DEF OpenAIInv

\* To the pipeline, a step of a translated stream is one that goes somewhere else.
LEMMA OpenAIStepInv ==
  ASSUME IInv, NEW r \in Requests, OpenAIStep(r)
  PROVE  /\ StepInv(r) /\ Sees(r)
         /\ place[r] # "done" /\ \E p \in Places : Goto(r, p)
<1>1. UNCHANGED <<req, answer, bg, gone, pumpVars, entries>>
  BY DEF OpenAIStep, HandleOpenAIStream, Connect, Scan, ScanEnds
<1>2. place[r] \in {"idle", "connecting", "translating"}
  BY DEF OpenAIStep, HandleOpenAIStream, Connect, Scan, ScanEnds
<1>3. bg[r] = {} /\ pump[r] = "none"  BY <1>2, EarlyInv
<1>4. PICK p \in {"connecting", "translating", "done"} : Goto(r, p)
  <2>1. CASE HandleOpenAIStream(r)  BY <2>1 DEF HandleOpenAIStream
  <2>2. CASE Connect(r)  BY <2>2 DEF Connect
  <2>3. CASE ScanEnds(r)  BY <2>3 DEF ScanEnds
  <2>4. CASE Scan(r)
    <3>1. place[r] = "translating" /\ (UNCHANGED place \/ Goto(r, "done"))
      BY <2>4 DEF Scan, Event, Metadata, Chunk, Done, TooLong, Ignored
    <3>2. place = [place EXCEPT ![r] = place[r]]  BY Present
    <3> QED  BY <3>1, <3>2 DEF Goto
  <2> QED  BY <2>1, <2>2, <2>3, <2>4 DEF OpenAIStep
<1>5. StepInv(r)  BY <1>1, <1>3, <1>4, GotoStep DEF Places
<1>6. Sees(r)  BY <1>1, <1>3, IdleStutters DEF Sees
<1> QED  BY <1>2, <1>4, <1>5, <1>6 DEF Places

\* A line that has been heard, translated and counted.
LEMMA ScanInv ==
  ASSUME ApiIInv, NEW r \in Requests, Scan(r)
  PROVE  OpenAIInv'
<1> DEFINE h == heard[r]
           n == Len(h) + 1
<1>h. HeardInv /\ EndInv(r) /\ FrameInv(r) /\ place \in [Requests -> Places]
  BY DEF ApiIInv, OpenAIInv, IInv, TypeOK
<1>1. PICK line \in BotLines :
        /\ heard' = [heard EXCEPT ![r] = Append(h, line)]
        /\ \/ Event(r, line) \/ Metadata(r, line) \/ Chunk(r, line)
           \/ Done(r, line) \/ TooLong(r, line) \/ Ignored(r, line)
  BY DEF Scan
<1>2. h \in Seq(BotLines) /\ Len(h) \in Nat /\ n \in 1..MaxHeard
  <2>1. h \in Seq(BotLines)  BY <1>h DEF HeardInv
  <2>2. Len(h) \in Nat /\ Len(h) < MaxHeard  BY <2>1, LenProperties DEF Scan
  <2> QED  BY <2>1, <2>2, HeardAssumption
<1>3. /\ place[r] = "translating" /\ marks[r] = 0 /\ "long" \notin ToSet(h)
  BY <1>h DEF Scan, EndInv
<1> DEFINE more == Append(h, line)
<1>4. /\ heard'[r] = more /\ more \in Seq(BotLines) /\ heard' \in [Requests -> Seq(BotLines)]
      /\ more # <<>> /\ more[Len(more)] = line /\ Last(more) = line
      /\ ToSet(more) = ToSet(h) \cup {line}
  <2>1. /\ more \in Seq(BotLines) /\ Len(h) \in Nat /\ Len(more) = Len(h) + 1
        /\ more[Len(h) + 1] = line /\ more # <<>> /\ Last(more) = line
        /\ ToSet(more) = ToSet(h) \cup {line}
    <3>1. h \in Seq(BotLines) /\ line \in BotLines /\ more = Append(h, line)  BY <1>2
    <3> HIDE DEF more, h
    <3> QED  BY <3>1, AppendHeard
  <2> HIDE DEF more
  <2>2. heard' = [heard EXCEPT ![r] = more]  BY <1>1 DEF more
  <2>3. heard'[r] = more /\ heard' \in [Requests -> Seq(BotLines)]
    BY <1>h, <2>1, <2>2 DEF HeardInv
  <2> QED  BY <2>1, <2>3
<1>5. NextNumber(r) = n  BY DEF NextNumber
<1>6. WellFramed(more) =>
        /\ WellFramed(h)
        /\ h # <<>> => /\ h[Len(h)] \in {"metadata", "event"} => line = "data"
                       /\ h[Len(h)] = "data" => line = "blank"
  BY <1>2, FramedBefore
<1>7. Tokens(more) = Tokens(h) \cup IF line = "data" /\ (h = <<>> \/ h[Len(h)] # "metadata")
                                    THEN {n} ELSE {}
  BY <1>2, TokensAppend
<1>8. WellFramed(h) => /\ lastEvent[r] = "metadata" <=> h # <<>> /\ h[Len(h)] = "metadata"
                       /\ chunks[r] = Tokens(h)
  BY <1>h DEF FrameInv
<1>t. /\ lastEvent \in [Requests -> {"none", "metadata", "event"}]
      /\ chunks \in [Requests -> SUBSET (1..MaxHeard)]
      /\ marks \in [Requests -> 0..1]
  BY <1>h DEF HeardInv
<1> HIDE DEF h, n, more
<1>9. /\ lastEvent' \in [Requests -> {"none", "metadata", "event"}]
      /\ chunks' \in [Requests -> SUBSET (1..MaxHeard)]
      /\ marks' \in [Requests -> 0..1]
      /\ \A s \in Requests \ {r} : /\ lastEvent'[s] = lastEvent[s] /\ chunks'[s] = chunks[s]
                                    /\ marks'[s] = marks[s] /\ heard'[s] = heard[s]
                                    /\ place'[s] = place[s]
  <2>1. CASE Event(r, line)  BY <1>1, <1>t, <1>h, <2>1 DEF Event, HeardInv
  <2>2. CASE Metadata(r, line)  BY <1>1, <1>t, <1>h, <2>2 DEF Metadata, HeardInv
  <2>3. CASE Chunk(r, line)  BY <1>1, <1>2, <1>5, <1>t, <1>h, <2>3 DEF Chunk, HeardInv
  <2>4. CASE Done(r, line)  BY <1>1, <1>3, <1>t, <1>h, <2>4 DEF Done, Goto, HeardInv
  <2>5. CASE TooLong(r, line)  BY <1>1, <1>t, <1>h, <2>5 DEF TooLong, Goto, HeardInv
  <2>6. CASE Ignored(r, line)  BY <1>1, <1>t, <1>h, <2>6 DEF Ignored, HeardInv
  <2> QED  BY <1>1, <2>1, <2>2, <2>3, <2>4, <2>5, <2>6
<1>10. HeardInv'  BY <1>4, <1>9 DEF HeardInv
<1>11. EndInv(r)'
  <2>1. marks'[r] = 0 \/ (line = "[DONE]" /\ place'[r] = "done")
    <3>1. CASE Done(r, line)  BY <1>h, <3>1 DEF Done, Goto
    <3>2. CASE ~Done(r, line)
      <4>1. marks' = marks
        BY <1>1, <3>2 DEF Event, Metadata, Chunk, TooLong, Ignored
      <4>2. marks'[r] = 0  BY <1>3, <4>1
      <4> QED  BY <4>2
    <3> QED  BY <3>1, <3>2
  <2>2. line = "long" => place'[r] = "done" /\ marks'[r] = 0
    <3> SUFFICES ASSUME line = "long" PROVE place'[r] = "done" /\ marks'[r] = 0
      OBVIOUS
    <3>1. TooLong(r, line)
      BY <1>1 DEF Event, Metadata, Chunk, Done, Ignored
    <3> QED  BY <1>3, <1>h, <3>1 DEF TooLong, Goto
  <2> QED  BY <1>3, <1>4, <1>t, <1>9, <2>1, <2>2 DEF EndInv
<1>12. FrameInv(r)'
  <2> SUFFICES ASSUME WellFramed(more)
               PROVE  /\ lastEvent'[r] = "metadata" <=> line = "metadata"
                      /\ chunks'[r] = Tokens(more)
    BY <1>4 DEF FrameInv
  <2>1. /\ lastEvent[r] = "metadata" <=> h # <<>> /\ h[Len(h)] = "metadata"
        /\ chunks[r] = Tokens(h)
        /\ lastEvent[r] = "metadata" => line = "data"
    BY <1>6, <1>8
  <2>2. CASE Event(r, line)  BY <1>7, <1>t, <2>1, <2>2 DEF Event
  <2>3. CASE Metadata(r, line)  BY <1>7, <1>t, <2>1, <2>3 DEF Metadata
  <2>4. CASE Chunk(r, line)  BY <1>5, <1>7, <1>t, <2>1, <2>4 DEF Chunk
  <2>5. CASE Done(r, line)  BY <1>7, <1>t, <2>1, <2>5 DEF Done
  <2>6. CASE TooLong(r, line)  BY <1>7, <1>t, <2>1, <2>6 DEF TooLong
  <2>7. CASE Ignored(r, line)  BY <1>7, <1>t, <2>1, <2>7 DEF Ignored
  <2> QED  BY <1>1, <2>2, <2>3, <2>4, <2>5, <2>6, <2>7
<1>13. \A s \in Requests \ {r} : EndInv(s)' /\ FrameInv(s)'
  <2>1. \A s \in Requests \ {r} : EndInv(s) /\ FrameInv(s)  BY DEF ApiIInv, OpenAIInv
  <2> QED  BY <1>9, <2>1 DEF EndInv, FrameInv
<1> QED  BY <1>10, <1>11, <1>12, <1>13 DEF OpenAIInv

\* The other steps of a translated stream tell the client nothing.
LEMMA OpenAIStepKeeps ==
  ASSUME ApiIInv, NEW r \in Requests, OpenAIStep(r)
  PROVE  OpenAIInv'
<1>1. CASE Scan(r)  BY <1>1, ScanInv
<1>2. CASE UNCHANGED openaiVars
  <2>1. \A s \in Requests : place'[s] # "done" => place[s] # "done"
    BY OpenAIStepInv DEF ApiIInv, IInv, TypeOK, Goto
  <2>2. HeardInv'  BY <1>2 DEF ApiIInv, OpenAIInv, HeardInv, openaiVars
  <2>3. ASSUME NEW s \in Requests PROVE EndInv(s)' /\ FrameInv(s)'
    <3>1. EndInv(s) /\ FrameInv(s)  BY DEF ApiIInv, OpenAIInv
    <3>2. EndInv(s)'  BY <1>2, <2>1, <3>1 DEF EndInv, openaiVars
    <3>3. FrameInv(s)'  BY <1>2, <3>1 DEF FrameInv, openaiVars
    <3> QED  BY <3>2, <3>3
  <2> QED  BY <2>2, <2>3 DEF OpenAIInv
<1> QED  BY <1>1, <1>2 DEF OpenAIStep, HandleOpenAIStream, Connect, ScanEnds

\* Every step, of the pipeline or of the translation, keeps the inductive invariant.
LEMMA ApiStep == ApiIInv /\ [ApiNext]_apiVars => ApiIInv'
<1> SUFFICES ASSUME ApiIInv, [ApiNext]_apiVars PROVE ApiIInv'  OBVIOUS
<1>1. CASE [Next]_vars /\ UNCHANGED openaiVars
  BY <1>1, StepIInv, PipelineStep DEF ApiIInv
<1>2. ASSUME NEW r \in Requests, OpenAIStep(r) PROVE ApiIInv'
  BY <1>2, OpenAIStepInv, OpenAIStepKeeps, StepIsEnough DEF ApiIInv
<1> QED  BY <1>1, <1>2 DEF ApiNext, apiVars

\* The inductive invariant holds at first.
LEMMA ApiInitially == ApiInit => ApiIInv
<1> SUFFICES ASSUME ApiInit PROVE ApiIInv  OBVIOUS
<1>1. IInv  BY InitIInv DEF ApiInit
<1>2. HeardInv  BY EmptySeq DEF ApiInit, HeardInv
<1>3. ASSUME NEW r \in Requests PROVE EndInv(r) /\ FrameInv(r)
  <2>1. heard[r] = <<>> /\ chunks[r] = {} /\ marks[r] = 0 /\ lastEvent[r] = "none"
    BY DEF ApiInit
  <2>2. ToSet(<<>>) = {} /\ Tokens(<<>>) = {}  BY DEF ToSet, Tokens
  <2> QED  BY <2>1, <2>2 DEF EndInv, FrameInv
<1> QED  BY <1>1, <1>2, <1>3 DEF ApiIInv, OpenAIInv

-----------------------------------------------------------------------------
(* Theorems *)

\* The inductive invariant holds in every reachable state of both kinds of requests.
THEOREM ApiInvariance == ApiSpec => []ApiIInv
BY ApiInitially, ApiStep, PTL DEF ApiSpec

\* What is kept of a translated stream keeps its type, and [DONE] is sent at most once.
THEOREM OpenAITypeCorrect == ApiSpec => []OpenAITypeOK
<1>1. ApiIInv => OpenAITypeOK
  <2> SUFFICES ASSUME ApiIInv PROVE OpenAITypeOK  OBVIOUS
  <2>1. HeardInv  BY DEF ApiIInv, OpenAIInv
  <2> QED  BY <2>1 DEF HeardInv, OpenAITypeOK
<1> QED  BY <1>1, ApiInvariance, PTL

\* A client that is told [DONE] has had everything (handlers_openai.go:120), however
\* long the stream is.
THEOREM DoneAfterEverything == ApiSpec => []DoneMeansWhole
<1>1. ApiIInv => DoneMeansWhole  BY DEF ApiIInv, OpenAIInv, EndInv, DoneMeansWhole
<1> QED  BY <1>1, ApiInvariance, PTL

\* Under the bot's framing a client gets every token and no metadata
\* (handlers_openai.go:132, handlers_openai.go:161), however long the stream is.
THEOREM EveryTokenOnce == ApiSpec => []TokensTranslated
<1>1. ApiIInv => TokensTranslated  BY DEF ApiIInv, OpenAIInv, FrameInv, TokensTranslated
<1> QED  BY <1>1, ApiInvariance, PTL

\* What PipelineV1Proofs shows of the pipeline holds beside translated streams too.
THEOREM PipelineBesideOpenAI ==
  ApiSpec => [](TypeOK /\ StoredWasStreamed /\ EndAfterStore /\ NoErrorCached)
<1>1. IInv => TypeOK /\ NoErrorCached  BY DEF IInv
<1>2. IInv => StoredWasStreamed  BY AllParsed DEF StoredWasStreamed
<1>3. IInv => EndAfterStore  BY DEF IInv, RequestInv, PlaceInv, EndAfterStore
<1>4. ApiIInv => IInv  BY DEF ApiIInv
<1> QED  BY <1>1, <1>2, <1>3, <1>4, ApiInvariance, PTL

\* AnswerStream is implemented by the streams of /chat with translated streams beside
\* them: the two keep apart, although they share the handlers' places.
THEOREM StreamRefinementBesideOpenAI == ApiSpec => ImplementsStream
<1>1. ApiIInv /\ [ApiNext]_apiVars => MappedStep
  <2> SUFFICES ASSUME ApiIInv, [ApiNext]_apiVars PROVE MappedStep  OBVIOUS
  <2>1. CASE [Next]_vars  BY <2>1, StepMapped DEF ApiIInv
  <2>2. ASSUME NEW r \in Requests, OpenAIStep(r) PROVE MappedStep
    <3>1. StepInv(r) /\ Sees(r) /\ IInv  BY <2>2, OpenAIStepInv DEF ApiIInv
    <3>2. IInv'  BY <3>1, StepIsEnough
    <3> QED  BY <3>1, <3>2, SeesIsEnough DEF StepInv
  <2> QED  BY <2>1, <2>2 DEF ApiNext, apiVars
<1>2. ApiIInv /\ [ApiNext]_apiVars =>
        [AS!Next]_<<[r \in Requests |-> StreamPhase(r)], delivered,
                    [r \in Requests |-> IF StreamPhase(r) \in {"idle", "open"}
                                        THEN {} ELSE ToSet(builder[r])]>>
  BY <1>1 DEF MappedStep, Kept
<1>3. ApiInit => AS!Init  BY MappedInit DEF ApiInit
<1> QED
  BY <1>2, <1>3, ApiInvariance, PTL DEF ApiSpec, ImplementsStream, AS!Spec
=============================================================================
