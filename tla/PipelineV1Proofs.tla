-------------------------- MODULE PipelineV1Proofs --------------------------
(***************************************************************************)
(* Theorems about PipelineV1, for any number of requests, any length of a  *)
(* stream and any headers: its type invariant, its safety invariants, and  *)
(* that its streams implement AnswerStream.                                *)
(***************************************************************************)
EXTENDS PipelineV1, SequenceTheorems, WellFoundedInduction, TLAPS

-----------------------------------------------------------------------------
(* The SSE reading of a stream *)

Mark == {"hide", "event", "blank"}

MarksBefore(lines, i) == {j \in 1..(i-1) : lines[j] \in Mark}

LastOf(S) == CHOOSE j \in S : \A k \in S : k =< j

\* EventOf of module AnswerStream in these terms.
LEMMA EventOfMarks ==
  ASSUME NEW lines, NEW i
  PROVE  AS!EventOf(lines, i) =
           IF MarksBefore(lines, i) = {} THEN "blank"
           ELSE lines[LastOf(MarksBefore(lines, i))]
BY DEF AS!EventOf, MarksBefore, Mark, LastOf

\* A set of natural numbers with a bound has a greatest member: the least of its
\* bounds.
LEMMA Greatest ==
  ASSUME NEW S, S \subseteq Nat, S # {}, NEW n \in Nat, \A j \in S : j =< n
  PROVE  \E m \in S : \A j \in S : j =< m
<1> DEFINE U == {u \in Nat : \A j \in S : j =< u}
<1>1. U \subseteq Nat /\ U # {}  OBVIOUS
<1>2. PICK m \in U : \A u \in U : ~ (<<u, m>> \in OpToRel(<, Nat))
  BY <1>1, NatLessThanWellFounded, WFMin
<1>3. \A u \in U : ~ (u < m)
  BY <1>1, <1>2 DEF OpToRel
<1>4. m \in S
  <2> SUFFICES ASSUME m \notin S PROVE FALSE  OBVIOUS
  <2>1. m \in Nat /\ \A j \in S : j =< m  BY <1>2
  <2>2. \A j \in S : j \in Nat /\ j < m  BY <2>1
  <2>3. m - 1 \in Nat /\ \A j \in S : j =< m - 1
    <3>1. PICK j \in S : TRUE  OBVIOUS
    <3>2. j \in Nat /\ j < m  BY <2>2
    <3>3. m - 1 \in Nat  BY <2>1, <3>2
    <3> QED  BY <2>1, <2>2, <3>3
  <2>4. m - 1 \in U /\ m - 1 < m  BY <2>1, <2>3
  <2> QED  BY <2>4, <1>3
<1> QED  BY <1>4

\* The event of a line is that of the last mark before it.
LEMMA LastMark ==
  ASSUME NEW T, NEW lines \in Seq(T), NEW i \in 1..(Len(lines) + 1),
         MarksBefore(lines, i) # {}
  PROVE  \E m \in MarksBefore(lines, i) :
           /\ \A k \in MarksBefore(lines, i) : k =< m
           /\ AS!EventOf(lines, i) = lines[m]
<1> DEFINE S == MarksBefore(lines, i)
<1>1. S \subseteq Nat /\ \A j \in S : j =< Len(lines)
  BY LenProperties DEF MarksBefore
<1>2. \E m \in S : \A k \in S : k =< m
  BY <1>1, LenProperties, Greatest
<1>3. LastOf(S) \in S /\ \A k \in S : k =< LastOf(S)  BY <1>2 DEF LastOf
<1>4. AS!EventOf(lines, i) = lines[LastOf(S)]  BY EventOfMarks
<1> QED  BY <1>3, <1>4

\* Which event a line belongs to is settled once it has been read.
LEMMA EventOfNext ==
  ASSUME NEW T, NEW lines \in Seq(T), NEW i \in 1..Len(lines)
  PROVE  AS!EventOf(lines, i + 1) =
           IF lines[i] \in Mark THEN lines[i] ELSE AS!EventOf(lines, i)
<1>l. Len(lines) \in Nat  BY LenProperties
<1>1. CASE lines[i] \in Mark
  <2>1. i \in MarksBefore(lines, i + 1)  BY <1>1, <1>l DEF MarksBefore
  <2>2. PICK m \in MarksBefore(lines, i + 1) :
          /\ \A k \in MarksBefore(lines, i + 1) : k =< m
          /\ AS!EventOf(lines, i + 1) = lines[m]
    BY <2>1, <1>l, LastMark
  <2>3. m = i  BY <2>1, <2>2, <1>l DEF MarksBefore
  <2> QED  BY <1>1, <2>2, <2>3
<1>2. CASE lines[i] \notin Mark
  <2>1. \A j : j \in MarksBefore(lines, i + 1) <=> j \in MarksBefore(lines, i)
    BY <1>2, <1>l DEF MarksBefore
  <2>2. MarksBefore(lines, i + 1) = MarksBefore(lines, i)  BY <2>1 DEF MarksBefore
  <2> QED  BY <1>2, <2>2, EventOfMarks
<1> QED  BY <1>1, <1>2

\* A line that arrives later changes nothing of that.
LEMMA EventOfAppend ==
  ASSUME NEW T, NEW lines \in Seq(T), NEW x \in T, NEW i \in 1..(Len(lines) + 1)
  PROVE  AS!EventOf(Append(lines, x), i) = AS!EventOf(lines, i)
<1> DEFINE more == Append(lines, x)
<1>1. /\ more \in Seq(T) /\ Len(more) = Len(lines) + 1 /\ Len(lines) \in Nat
      /\ \A j \in 1..Len(lines) : more[j] = lines[j]
  BY AppendProperties, LenProperties
<1> HIDE DEF more
<1>2. MarksBefore(more, i) = MarksBefore(lines, i)
  BY <1>1 DEF MarksBefore
<1>3. CASE MarksBefore(lines, i) = {}
  BY <1>2, <1>3, EventOfMarks DEF more
<1>4. CASE MarksBefore(lines, i) # {}
  <2>1. PICK m \in MarksBefore(lines, i) :
          /\ \A k \in MarksBefore(lines, i) : k =< m
          /\ AS!EventOf(lines, i) = lines[m]
    BY <1>4, LastMark
  <2>2. PICK l \in MarksBefore(lines, i) :
          /\ \A k \in MarksBefore(lines, i) : k =< l
          /\ AS!EventOf(more, i) = more[l]
    BY <1>1, <1>2, <1>4, LastMark
  <2>3. \A k \in MarksBefore(lines, i) : k \in 1..Len(lines)
    BY <1>1 DEF MarksBefore
  <2>4. m = l /\ m \in 1..Len(lines)  BY <2>1, <2>2, <2>3, <1>1
  <2> QED  BY <2>1, <2>2, <2>4, <1>1 DEF more
<1> QED  BY <1>3, <1>4 DEF more

\* What a stream shows with one more line.
LEMMA ShownAppend ==
  ASSUME NEW T, NEW lines \in Seq(T), NEW x \in T
  PROVE  AS!Shown(Append(lines, x)) =
           AS!Shown(lines) \cup
             IF x = "token" /\ AS!EventOf(lines, Len(lines) + 1) # "hide"
             THEN {Len(lines) + 1} ELSE {}
<1> DEFINE more == Append(lines, x)
<1>1. /\ Len(more) = Len(lines) + 1 /\ Len(lines) \in Nat
      /\ DOMAIN more = 1..(Len(lines) + 1) /\ DOMAIN lines = 1..Len(lines)
      /\ \A j \in 1..Len(lines) : more[j] = lines[j]
      /\ more[Len(lines) + 1] = x
  BY AppendProperties, LenProperties
<1>2. \A i \in 1..(Len(lines) + 1) : AS!EventOf(more, i) = AS!EventOf(lines, i)
  BY EventOfAppend
<1> HIDE DEF more
<1>3. \A i : i \in AS!Shown(more) <=>
        /\ i \in 1..(Len(lines) + 1)
        /\ more[i] = "token" /\ AS!EventOf(more, i) # "hide"
  BY <1>1 DEF AS!Shown
<1>4. \A i : i \in AS!Shown(lines) <=>
        /\ i \in 1..Len(lines)
        /\ lines[i] = "token" /\ AS!EventOf(lines, i) # "hide"
  BY <1>1 DEF AS!Shown
<1>5. \A i : i \in AS!Shown(more) <=>
        \/ i \in AS!Shown(lines)
        \/ i = Len(lines) + 1 /\ x = "token" /\ AS!EventOf(lines, Len(lines) + 1) # "hide"
  BY <1>1, <1>2, <1>3, <1>4
<1> QED  BY <1>5 DEF more

-----------------------------------------------------------------------------
(* The inductive invariant *)

StreamLines == Lines \cup {"tail"}

\* The sequences are functions, which TypeOK does not say.
SeqInv ==
  /\ delivered \in [Requests -> Seq(StreamLines)]
  /\ builder \in [Requests -> Seq(1..MaxLines)]

\* Where a request has got to says what it has left behind.
PlaceInv(r) ==
  /\ place[r] \notin {"replying", "done"} => bg[r] = {}
  /\ pump[r] = "none" =>
       /\ place[r] \notin {"pumping", "forwarding"}
       /\ pipe[r] = NoLine /\ delivered[r] = <<>>
       /\ event[r] = "none" /\ builder[r] = <<>>
  /\ pump[r] # "none" =>
       /\ place[r] \in {"pumping", "forwarding", "replying", "done"}
       /\ Streams(r) /\ bg[r] = {}
       /\ place[r] \in {"replying", "done"} => pump[r] = "closed"

\* What is in the pipe.  A line takes one of MaxLines numbers when it is read.
PipeInv(r) ==
  /\ pump[r] \notin {"writing", "ending"} => pipe[r] = NoLine
  /\ pump[r] = "ending" => pipe[r] \in {NoLine, "tail"}
  /\ pump[r] = "writing" =>
       /\ pipe[r] # "tail"
       /\ pipe[r] # NoLine => Len(delivered[r]) < MaxLines
       /\ pipe[r] = NoLine => Len(delivered[r]) \in 1..MaxLines

\* The lines the pump has parsed: it lags behind by one when the handler has taken a
\* line and Write has not returned.
Parsed(r) ==
  IF pump[r] = "writing" /\ pipe[r] = NoLine THEN Len(delivered[r]) - 1
                                             ELSE Len(delivered[r])

\* The pump's two variables are the SSE reading of the lines it has parsed.
ParseInv(r) ==
  /\ LET e == AS!EventOf(delivered[r], Parsed(r) + 1) IN
     event[r] = IF e = "blank" THEN "none" ELSE e
  /\ ToSet(builder[r]) = {i \in AS!Shown(delivered[r]) : i =< Parsed(r)}
  /\ \A i, j \in DOMAIN builder[r] : i < j => builder[r][i] < builder[r][j]

\* A text that is to be stored is none of an error.
AnswerInv(r) ==
  "cache" \in bg[r] => answer[r] \in Texts \ {"apology", "session error"}

RequestInv(r) == PlaceInv(r) /\ PipeInv(r) /\ ParseInv(r) /\ AnswerInv(r)

IInv == TypeOK /\ SeqInv /\ NoErrorCached /\ \A r \in Requests : RequestInv(r)

-----------------------------------------------------------------------------
(* What the steps have in common *)

\* The flags of a request, from any headers.
LEMMA FlagsType ==
  ASSUME NEW m \in Modes, NEW header \in Header
  PROVE  FlagsOf(m, header) \in FeatureState
<1>1. ThresholdOf(header) \in Threshold
  BY DEF ThresholdOf, Threshold, Header
<1>2. Flags(header) \in FeatureState
  BY <1>1 DEF Flags, FeatureState
<1>3. ChatFlags(header) \in FeatureState
  BY <1>2 DEF ChatFlags, FeatureState
<1> QED  BY <1>3 DEF FlagsOf, FeatureState

\* A lookup returns a text, if only the empty one.
LEMMA LookupType ==
  ASSUME TypeOK, NEW r \in Requests, NEW res \in LookupResults(r)
  PROVE  res.answer \in Texts
<1>e. "empty" \in Texts  BY DEF Texts
<1>1. CASE res = Miss
  BY <1>e, <1>1 DEF Miss
<1>2. CASE res \in PhantomHits(entries)
  BY <1>e, <1>2 DEF PhantomHits
<1>3. CASE \E e \in entries : res = [hit |-> TRUE, answer |-> e.answer]
  BY <1>3 DEF TypeOK, Entry
<1>4. \/ res = Miss \/ res \in PhantomHits(entries)
      \/ \E e \in entries : res = [hit |-> TRUE, answer |-> e.answer]
  BY DEF LookupResults, GetCache, MatchesAboveThreshold, Nearest
<1> QED  BY <1>1, <1>2, <1>3, <1>4

Same(s) ==
  /\ place'[s] = place[s] /\ req'[s] = req[s] /\ answer'[s] = answer[s] /\ bg'[s] = bg[s]
  /\ pump'[s] = pump[s] /\ pipe'[s] = pipe[s] /\ delivered'[s] = delivered[s]
  /\ event'[s] = event[s] /\ builder'[s] = builder[s]

\* A step of one request does not disturb another one.
LEMMA SameInv ==
  ASSUME NEW s \in Requests, RequestInv(s), Same(s)
  PROVE  RequestInv(s)'
<1>1. PlaceInv(s)'  BY DEF RequestInv, PlaceInv, Same, Streams
<1>2. PipeInv(s)'  BY DEF RequestInv, PipeInv, Same
<1>3. Parsed(s)' = Parsed(s)  BY DEF Parsed, Same
<1>4. ParseInv(s)'  BY <1>3 DEF RequestInv, ParseInv, Same
<1>5. AnswerInv(s)'  BY DEF RequestInv, AnswerInv, Same
<1> QED  BY <1>1, <1>2, <1>4, <1>5 DEF RequestInv

\* A step of the handler leaves the pump alone.
LEMMA HandlerInv ==
  ASSUME NEW s \in Requests, RequestInv(s), UNCHANGED pumpVars, PlaceInv(s)', AnswerInv(s)'
  PROVE  RequestInv(s)'
<1>1. PipeInv(s)'  BY DEF RequestInv, PipeInv, pumpVars
<1>2. Parsed(s)' = Parsed(s)  BY DEF Parsed, pumpVars
<1>3. ParseInv(s)'  BY <1>2 DEF RequestInv, ParseInv, pumpVars
<1> QED  BY <1>1, <1>3 DEF RequestInv

\* What a step of r has to show.
StepInv(r) ==
  /\ TypeOK' /\ SeqInv' /\ NoErrorCached'
  /\ RequestInv(r)'
  /\ \A s \in Requests \ {r} : Same(s)

\* A step of r that shows StepInv keeps the inductive invariant: the others stay the same.
LEMMA StepIsEnough ==
  ASSUME IInv, NEW r \in Requests, StepInv(r)
  PROVE  IInv'
BY SameInv DEF IInv, StepInv

-----------------------------------------------------------------------------
(* The handler *)

\* A step of the handler gives place, request, answer and background writes of r a
\* value each.
Move(r, p, q, a, w) ==
  /\ p \in Places /\ q \in Request /\ a \in Texts \cup {"none"} /\ w \in SUBSET {"session", "cache"}
  /\ place' = [place EXCEPT ![r] = p]
  /\ req' = [req EXCEPT ![r] = q]
  /\ answer' = [answer EXCEPT ![r] = a]
  /\ bg' = [bg EXCEPT ![r] = w]
  /\ UNCHANGED <<gone, pumpVars>>
  /\ entries' \subseteq Entry /\ NoErrorCached'
  /\ p \notin {"replying", "done"} => w = {}
  /\ "cache" \in w => a \in Texts \ {"apology", "session error"}
  /\ pump[r] = "none" => p \notin {"pumping", "forwarding"}
  /\ pump[r] # "none" =>
       /\ p \in {"pumping", "forwarding", "replying", "done"}
       /\ q.mode = "stream" /\ w = {}
       /\ p \in {"replying", "done"} => pump[r] = "closed"

\* A step of the handler that is a Move keeps the inductive invariant.
LEMMA HandlerStep ==
  ASSUME IInv, NEW r \in Requests, NEW p, NEW q, NEW a, NEW w, Move(r, p, q, a, w)
  PROVE  StepInv(r)
<1>1. /\ place' \in [Requests -> Places] /\ req' \in [Requests -> Request]
      /\ answer' \in [Requests -> Texts \cup {"none"}]
      /\ bg' \in [Requests -> SUBSET {"session", "cache"}]
  BY DEF IInv, TypeOK, Move
<1>2. /\ place'[r] = p /\ req'[r] = q /\ answer'[r] = a /\ bg'[r] = w
  BY DEF IInv, TypeOK, Move
<1>3. \A s \in Requests \ {r} : Same(s)
  BY DEF Move, Same, pumpVars, IInv, TypeOK
<1>4. TypeOK' /\ SeqInv'
  BY <1>1 DEF Move, IInv, TypeOK, SeqInv, pumpVars
<1>5. PlaceInv(r)'
  BY <1>2 DEF Move, IInv, RequestInv, PlaceInv, Streams, pumpVars
<1>6. AnswerInv(r)'
  BY <1>2 DEF Move, AnswerInv
<1>7. RequestInv(r)'
  BY <1>5, <1>6, HandlerInv DEF Move, IInv
<1> QED  BY <1>3, <1>4, <1>7 DEF Move, StepInv

\* What r has already, in the same words.
LEMMA Present ==
  ASSUME IInv, NEW r \in Requests
  PROVE  /\ place[r] \in Places /\ req[r] \in Request
         /\ answer[r] \in Texts \cup {"none"} /\ bg[r] \in SUBSET {"session", "cache"}
         /\ place = [place EXCEPT ![r] = place[r]] /\ req = [req EXCEPT ![r] = req[r]]
         /\ answer = [answer EXCEPT ![r] = answer[r]] /\ bg = [bg EXCEPT ![r] = bg[r]]
         /\ entries \subseteq Entry /\ NoErrorCached
         /\ PlaceInv(r) /\ AnswerInv(r) /\ PipeInv(r) /\ ParseInv(r)
BY DEF IInv, TypeOK, RequestInv

\* Before the bot nothing of a request is in the background or in a pump.
LEMMA EarlyInv ==
  ASSUME IInv, NEW r \in Requests,
         place[r] \in {"idle", "session", "rewrite", "embed", "lookup", "intent", "bot",
                      "connecting", "translating"}
  PROVE  bg[r] = {} /\ pump[r] = "none"
BY Present DEF PlaceInv

-----------------------------------------------------------------------------
(* Up to the bot *)

\* A request that arrives has no pump, no answer and nothing in the background.
LEMMA HandleInv ==
  ASSUME IInv, NEW r \in Requests, Handle(r)
  PROVE  StepInv(r)
<1>1. /\ UNCHANGED <<answer, bg, gone, pumpVars, entries>>
      /\ bg[r] = {} /\ pump[r] = "none"
      /\ entries' \subseteq Entry /\ NoErrorCached'
  BY EarlyInv, Present DEF Handle, NoErrorCached
<1>2. CASE Goto(r, "done") /\ UNCHANGED req
  <2>1. Move(r, "done", req[r], answer[r], bg[r])
    BY <1>1, <1>2, Present DEF Goto, Places, Move
  <2> QED  BY <2>1, HandlerStep
<1>3. ASSUME NEW m \in ModesOf[r], NEW q \in Queries, NEW header \in Headers,
             NEW h \in BOOLEAN,
             req' = [req EXCEPT ![r] = [mode |-> m, query |-> q, flags |-> FlagsOf(m, header),
                                        history |-> h, vector |-> FALSE]],
             Goto(r, IF FlagsOf(m, header).NoSession THEN "rewrite" ELSE "session")
      PROVE  StepInv(r)
  <2>1. m \in Modes /\ FlagsOf(m, header) \in FeatureState
    BY PipelineAssumption, FlagsType
  <2>2. PICK n : n = [mode |-> m, query |-> q, flags |-> FlagsOf(m, header),
                     history |-> h, vector |-> FALSE]
    OBVIOUS
  <2>4. n \in Request  BY <2>1, <2>2 DEF Request
  <2>3. PICK p \in {"rewrite", "session"} : place' = [place EXCEPT ![r] = p]
    BY <1>3 DEF Goto
  <2>5. Move(r, p, n, answer[r], bg[r])
    BY <1>1, <1>3, <2>2, <2>3, <2>4, Present DEF Move, Places
  <2> QED  BY <2>5, HandlerStep
<1> QED  BY <1>2, <1>3 DEF Handle

\* A hang-up changes no more than the context.
LEMMA HangUpInv ==
  ASSUME IInv, NEW r \in Requests, HangUp(r)
  PROVE  IInv'
<1>1. UNCHANGED <<place, req, answer, bg, pumpVars, entries>> /\ gone' \in [Requests -> BOOLEAN]
  BY DEF HangUp, IInv, TypeOK
<1>2. TypeOK' /\ SeqInv' /\ NoErrorCached'
  BY <1>1 DEF IInv, TypeOK, SeqInv, NoErrorCached, pumpVars
<1>3. \A s \in Requests : Same(s)  BY <1>1 DEF Same, pumpVars
<1> QED  BY <1>2, <1>3, SameInv DEF IInv

\* An invalid session ends the request, any other goes on without an answer.
LEMMA GetSessionInv ==
  ASSUME IInv, NEW r \in Requests, GetSession(r)
  PROVE  StepInv(r)
<1>1. /\ UNCHANGED <<bg, gone, pumpVars, entries>>
      /\ bg[r] = {} /\ pump[r] = "none"
      /\ entries' \subseteq Entry /\ NoErrorCached'
  BY EarlyInv, Present DEF GetSession, NoErrorCached
<1>2. ASSUME NEW h \in BOOLEAN, req' = [req EXCEPT ![r].history = h],
             Goto(r, "rewrite"), UNCHANGED answer
      PROVE  StepInv(r)
  <2>1. [req[r] EXCEPT !.history = h] \in Request  BY Present DEF Request
  <2>2. req' = [req EXCEPT ![r] = [req[r] EXCEPT !.history = h]]  BY <1>2
  <2>3. Move(r, "rewrite", [req[r] EXCEPT !.history = h], answer[r], bg[r])
    BY <1>1, <1>2, <2>1, <2>2, Present DEF Move, Goto, Places
  <2> QED  BY <2>3, HandlerStep
<1>3. ASSUME answer' = [answer EXCEPT ![r] = "session error"],
             Goto(r, IF Streams(r) THEN "done" ELSE "replying"), UNCHANGED req
      PROVE  StepInv(r)
  <2>1. PICK p \in {"done", "replying"} : place' = [place EXCEPT ![r] = p]
    BY <1>3 DEF Goto
  <2>2. Move(r, p, req[r], "session error", bg[r])
    BY <1>1, <1>3, <2>1, Present DEF Move, Places, Texts
  <2> QED  BY <2>2, HandlerStep
<1> QED  BY <1>2, <1>3 DEF GetSession

\* The rewriter leaves one of the queries.
LEMMA ResolveInv ==
  ASSUME IInv, NEW r \in Requests, Resolve(r)
  PROVE  StepInv(r)
<1>1. /\ UNCHANGED <<answer, bg, gone, pumpVars, entries>>
      /\ bg[r] = {} /\ pump[r] = "none"
      /\ entries' \subseteq Entry /\ NoErrorCached'
  BY EarlyInv, Present DEF Resolve, NoErrorCached
<1>2. PICK q \in IF req[r].history /\ ~gone[r] THEN Queries ELSE {req[r].query} :
        req' = [req EXCEPT ![r].query = q]
  BY DEF Resolve
<1>3. q \in Queries  BY <1>2, Present DEF Request
<1>4. [req[r] EXCEPT !.query = q] \in Request  BY <1>3, Present DEF Request
<1>5. req' = [req EXCEPT ![r] = [req[r] EXCEPT !.query = q]]  BY <1>2
<1>6. place' = [place EXCEPT ![r] = "embed"]  BY DEF Resolve, Goto
<1>7. Move(r, "embed", [req[r] EXCEPT !.query = q], answer[r], bg[r])
  BY <1>1, <1>4, <1>5, <1>6, Present DEF Move, Places
<1> QED  BY <1>7, HandlerStep

\* Without a vector the cache is passed by.
LEMMA EmbedTextInv ==
  ASSUME IInv, NEW r \in Requests, EmbedText(r)
  PROVE  StepInv(r)
<1>1. /\ UNCHANGED <<answer, bg, gone, pumpVars, entries>>
      /\ bg[r] = {} /\ pump[r] = "none"
      /\ entries' \subseteq Entry /\ NoErrorCached'
  BY EarlyInv, Present DEF EmbedText, NoErrorCached
<1>2. PICK v \in BOOLEAN : /\ req' = [req EXCEPT ![r].vector = v]
                           /\ Goto(r, IF v THEN "lookup" ELSE "intent")
  BY DEF EmbedText
<1>3. [req[r] EXCEPT !.vector = v] \in Request  BY Present DEF Request
<1>4. req' = [req EXCEPT ![r] = [req[r] EXCEPT !.vector = v]]  BY <1>2
<1>5. PICK p \in {"lookup", "intent"} : place' = [place EXCEPT ![r] = p]
  BY <1>2 DEF Goto
<1>6. Move(r, p, [req[r] EXCEPT !.vector = v], answer[r], bg[r])
  BY <1>1, <1>3, <1>4, <1>5, Present DEF Move, Places
<1> QED  BY <1>6, HandlerStep

\* An answer that is no error may be stored, in the session and in the cache.
LEMMA AnswerStep ==
  ASSUME IInv, NEW r \in Requests, NEW text \in Texts, NEW w \in SUBSET {"session", "cache"},
         place[r] \in {"lookup", "intent", "bot"},
         "cache" \in w => text \notin {"apology", "session error"},
         Answer(r, text, w), UNCHANGED <<req, gone, pumpVars, entries>>
  PROVE  StepInv(r)
<1>1. bg[r] = {} /\ pump[r] = "none"  BY EarlyInv
<1>2. entries' \subseteq Entry /\ NoErrorCached'  BY Present DEF NoErrorCached
<1>3. Move(r, "replying", req[r], text, w)
  BY <1>1, <1>2, Present DEF Move, Answer, Goto, Places
<1> QED  BY <1>3, HandlerStep

\* The handler goes on; nothing else changes.
LEMMA GotoStep ==
  ASSUME IInv, NEW r \in Requests, NEW p \in Places, Goto(r, p),
         UNCHANGED <<req, answer, bg, gone, pumpVars, entries>>,
         p \notin {"replying", "done"} => bg[r] = {},
         pump[r] = "none" => p \notin {"pumping", "forwarding"},
         pump[r] # "none" =>
           /\ p \in {"pumping", "forwarding", "replying", "done"}
           /\ p \in {"replying", "done"} => pump[r] = "closed"
  PROVE  StepInv(r)
<1>1. /\ "cache" \in bg[r] => answer[r] \in Texts \ {"apology", "session error"}
      /\ pump[r] # "none" => req[r].mode = "stream" /\ bg[r] = {}
  BY Present DEF PlaceInv, AnswerInv, Streams
<1>2. entries' \subseteq Entry /\ NoErrorCached'  BY Present DEF NoErrorCached
<1>3. Move(r, p, req[r], answer[r], bg[r])
  BY <1>1, <1>2, Present DEF Move, Goto
<1> QED  BY <1>3, HandlerStep

\* The writes after an answer.
LEMMA WritesType ==
  ASSUME NEW r
  PROVE  /\ SessionWrites(r) \cup CacheWrites(r) \in SUBSET {"session", "cache"}
         /\ SessionWrites(r) \in SUBSET {"session", "cache"}
         /\ "cache" \notin SessionWrites(r)
BY DEF SessionWrites, CacheWrites

\* A hit is an answer that has been stored, hence no error.
LEMMA LookupInv ==
  ASSUME IInv, NEW r \in Requests, Lookup(r)
  PROVE  StepInv(r)
<1>1. bg[r] = {} /\ pump[r] = "none" /\ place[r] = "lookup"  BY EarlyInv DEF Lookup
<1>2. PICK res \in LookupResults(r) :
        \/ res.hit /\ Answer(r, res.answer, SessionWrites(r))
        \/ ~res.hit /\ Goto(r, "intent") /\ UNCHANGED <<answer, bg>>
  BY DEF Lookup
<1>3. UNCHANGED <<req, gone, pumpVars, entries>>  BY DEF Lookup
<1>4. CASE Answer(r, res.answer, SessionWrites(r))
  <2>1. res.answer \in Texts  BY LookupType DEF IInv
  <2> QED  BY <1>1, <1>3, <1>4, <2>1, WritesType, AnswerStep
<1>5. CASE Goto(r, "intent") /\ UNCHANGED <<answer, bg>>
  BY <1>1, <1>3, <1>5, GotoStep DEF Places
<1> QED  BY <1>2, <1>4, <1>5

\* What is out of domain is answered by the fallback text, which is no error.
LEMMA DetermineInv ==
  ASSUME IInv, NEW r \in Requests, Determine(r)
  PROVE  StepInv(r)
<1>1. bg[r] = {} /\ pump[r] = "none" /\ place[r] = "intent"  BY EarlyInv DEF Determine
<1>2. UNCHANGED <<req, gone, pumpVars, entries>>  BY DEF Determine
<1>3. CASE Goto(r, "bot") /\ UNCHANGED <<answer, bg>>
  BY <1>1, <1>2, <1>3, GotoStep DEF Places
<1>4. CASE Answer(r, "fallback", IF Streams(r) THEN {}
                                 ELSE SessionWrites(r) \cup CacheWrites(r))
  <2>1. PICK w \in SUBSET {"session", "cache"} : Answer(r, "fallback", w)
    BY <1>4, WritesType
  <2> QED  BY <1>1, <1>2, <2>1, AnswerStep DEF Texts
<1> QED  BY <1>3, <1>4 DEF Determine

-----------------------------------------------------------------------------
(* The bot, blocking *)

\* An answer of the bot may be stored, its apology only becomes the reply.
LEMMA ForwardChatInv ==
  ASSUME IInv, NEW r \in Requests, ForwardChat(r)
  PROVE  StepInv(r)
<1>1. place[r] = "bot" /\ UNCHANGED <<req, gone, pumpVars, entries>>  BY DEF ForwardChat
<1>2. ASSUME NEW text \in {"facts", "empty"},
             Answer(r, text, SessionWrites(r) \cup CacheWrites(r))
      PROVE  StepInv(r)
  BY <1>1, <1>2, WritesType, AnswerStep DEF Texts
<1>3. CASE Answer(r, "apology", SessionWrites(r))
  BY <1>1, <1>3, WritesType, AnswerStep DEF Texts
<1> QED  BY <1>2, <1>3 DEF ForwardChat

\* The reply ends the handler and leaves its goroutines behind.
LEMMA ReplyInv ==
  ASSUME IInv, NEW r \in Requests, Reply(r)
  PROVE  StepInv(r)
<1>1. pump[r] # "none" => pump[r] = "closed"  BY Present DEF Reply, PlaceInv
<1> QED  BY <1>1, GotoStep DEF Reply, Places

\* A save in the background takes the session from what is left to write.
LEMMA SaveSessionInv ==
  ASSUME IInv, NEW r \in Requests, SaveSession(r)
  PROVE  StepInv(r)
<1>1. place[r] \in {"replying", "done"} /\ pump[r] = "none"
  BY Present DEF SaveSession, PlaceInv
<1>2. entries' \subseteq Entry /\ NoErrorCached'  BY Present DEF SaveSession, NoErrorCached
<1>3. Move(r, place[r], req[r], answer[r], bg[r] \ {"session"})
  BY <1>1, <1>2, Present DEF Move, SaveSession, AnswerInv
<1> QED  BY <1>3, HandlerStep

\* Storing a text that is no error.
LEMMA SetCacheInv ==
  ASSUME IInv, NEW r \in Requests, NEW text \in Texts \ {"apology", "session error"},
         SetCache(r, text)
  PROVE  entries' \subseteq Entry /\ NoErrorCached'
<1>1. PICK n : n = [query |-> req[r].query, answer |-> text]  OBVIOUS
<1>4. n \in Entry /\ n.answer = text  BY <1>1, Present DEF Request, Entry
<1>2. CASE entries' = entries \cup {[query |-> req[r].query, answer |-> text]}
  <2>1. entries' = entries \cup {n}  BY <1>1, <1>2
  <2> QED  BY <1>4, <2>1, Present DEF NoErrorCached
<1>3. CASE UNCHANGED entries
  BY <1>3, Present DEF NoErrorCached
<1> QED  BY <1>2, <1>3 DEF SetCache

\* The write to the cache stores the answer, which is no error.
LEMMA StoreAnswerInv ==
  ASSUME IInv, NEW r \in Requests, StoreAnswer(r)
  PROVE  StepInv(r)
<1>1. place[r] \in {"replying", "done"} /\ pump[r] = "none"
  BY Present DEF StoreAnswer, PlaceInv
<1>2. answer[r] \in Texts \ {"apology", "session error"}
  BY Present DEF StoreAnswer, AnswerInv
<1>3. entries' \subseteq Entry /\ NoErrorCached'  BY <1>2, SetCacheInv DEF StoreAnswer
<1>4. Move(r, place[r], req[r], answer[r], bg[r] \ {"cache"})
  BY <1>1, <1>3, Present DEF Move, StoreAnswer
<1> QED  BY <1>4, HandlerStep

-----------------------------------------------------------------------------
(* The pump *)

\* A step of the pump, which ends only once, gives pump, pipe, event and builder of r
\* a value each.
PumpMove(r, u, l, e, b) ==
  /\ u \in PumpPlaces \ {"none"} /\ l \in Lines \cup {NoLine, "tail"}
  /\ e \in {"none", "hide", "event"} /\ b \in Seq(1..MaxLines)
  /\ pump' = [pump EXCEPT ![r] = u]
  /\ pipe' = [pipe EXCEPT ![r] = l]
  /\ event' = [event EXCEPT ![r] = e]
  /\ builder' = [builder EXCEPT ![r] = b]
  /\ UNCHANGED <<place, req, answer, bg, gone, delivered>>
  /\ cut' \in [Requests -> BOOLEAN]
  /\ entries' \subseteq Entry /\ NoErrorCached'
  /\ pump[r] \notin {"none", "closed"}
  /\ PipeInv(r)' /\ ParseInv(r)'

\* A step of the pump that is a PumpMove keeps the inductive invariant.
LEMMA PumpStep ==
  ASSUME IInv, NEW r \in Requests, NEW u, NEW l, NEW e, NEW b, PumpMove(r, u, l, e, b)
  PROVE  StepInv(r)
<1>1. /\ pump' \in [Requests -> PumpPlaces] /\ pump'[r] = u
      /\ pipe' \in [Requests -> Lines \cup {NoLine, "tail"}]
      /\ event' \in [Requests -> {"none", "hide", "event"}]
      /\ builder' \in [Requests -> Seq(1..MaxLines)]
  BY DEF PumpMove, IInv, TypeOK, SeqInv
<1>2. TypeOK' /\ SeqInv'
  BY <1>1 DEF PumpMove, IInv, TypeOK, SeqInv
<1>3. \A s \in Requests \ {r} : Same(s)
  BY DEF PumpMove, Same, IInv, TypeOK, SeqInv
<1>4. PlaceInv(r)'
  BY <1>1 DEF PumpMove, IInv, RequestInv, PlaceInv, Streams
<1>5. AnswerInv(r)'  BY Present DEF PumpMove, AnswerInv
<1> QED  BY <1>2, <1>3, <1>4, <1>5 DEF PumpMove, StepInv, RequestInv

\* The reading is kept while nothing more is parsed or delivered.
LEMMA ParseKept ==
  ASSUME IInv, NEW r \in Requests, UNCHANGED <<delivered, event, builder>>,
         Parsed(r)' = Parsed(r)
  PROVE  ParseInv(r)'
BY Present DEF ParseInv

\* What r has of the pump, in the words of PumpMove.
LEMMA PresentPump ==
  ASSUME IInv, NEW r \in Requests
  PROVE  /\ event[r] \in {"none", "hide", "event"} /\ builder[r] \in Seq(1..MaxLines)
         /\ pipe[r] \in Lines \cup {NoLine, "tail"}
         /\ delivered[r] \in Seq(StreamLines) /\ Len(delivered[r]) \in Nat
         /\ event = [event EXCEPT ![r] = event[r]]
         /\ builder = [builder EXCEPT ![r] = builder[r]]
         /\ pipe = [pipe EXCEPT ![r] = pipe[r]]
         /\ cut \in [Requests -> BOOLEAN]
<1>1. delivered[r] \in Seq(StreamLines)  BY DEF IInv, SeqInv
<1>2. Len(delivered[r]) \in Nat  BY <1>1, LenProperties
<1> QED  BY <1>1, <1>2 DEF IInv, TypeOK, SeqInv

\* The pump reads a line and writes it to the pipe before it parses it.
LEMMA ReadStringInv ==
  ASSUME IInv, NEW r \in Requests, ReadString(r)
  PROVE  StepInv(r)
<1>1. PICK line \in Lines : pipe' = [pipe EXCEPT ![r] = line]  BY DEF ReadString
<1>2. /\ pump[r] = "reading" /\ pump'[r] = "writing" /\ pipe'[r] = line
      /\ line # NoLine /\ line # "tail"
      /\ Len(delivered[r]) < MaxLines /\ UNCHANGED <<delivered, event, builder>>
  BY <1>1 DEF ReadString, IInv, TypeOK, Lines, NoLine
<1>3. PipeInv(r)'  BY <1>2 DEF PipeInv
<1>4. ParseInv(r)'  BY <1>2, ParseKept DEF Parsed
<1>5. entries' \subseteq Entry /\ NoErrorCached'  BY Present DEF ReadString, NoErrorCached
<1>6. PumpMove(r, "writing", line, event[r], builder[r])
  BY <1>1, <1>2, <1>3, <1>4, <1>5, PresentPump DEF PumpMove, ReadString, PumpPlaces
<1> QED  BY <1>6, PumpStep

\* The loop ends, or what follows it does.
LEMMA PumpGoesOn ==
  ASSUME IInv, NEW r \in Requests, NEW u \in PumpPlaces \ {"none", "reading", "writing", "ending"},
         pump[r] \notin {"none", "closed"},
         pump[r] \in {"writing", "ending"} => pipe[r] = NoLine,
         pump[r] # "writing",
         pump' = [pump EXCEPT ![r] = u],
         UNCHANGED <<place, req, answer, bg, gone, pipe, delivered, event, builder>>,
         cut' \in [Requests -> BOOLEAN], entries' \subseteq Entry, NoErrorCached'
  PROVE  StepInv(r)
<1>1. pump'[r] = u /\ pipe'[r] = NoLine  BY Present DEF PipeInv, IInv, TypeOK
<1>2. PipeInv(r)'  BY <1>1 DEF PipeInv
<1>3. ParseInv(r)'  BY <1>1, ParseKept DEF Parsed
<1>4. PumpMove(r, u, pipe[r], event[r], builder[r])
  BY <1>2, <1>3, PresentPump DEF PumpMove
<1> QED  BY <1>4, PumpStep

\* A broken body is for the pump the end of the stream.
LEMMA BodyBreaksInv ==
  ASSUME IInv, NEW r \in Requests, BodyBreaks(r)
  PROVE  StepInv(r)
<1>1. cut' \in [Requests -> BOOLEAN]  BY DEF BodyBreaks, IInv, TypeOK
<1>2. entries' \subseteq Entry /\ NoErrorCached'  BY Present DEF BodyBreaks, NoErrorCached
<1> QED  BY <1>1, <1>2, PumpGoesOn DEF BodyBreaks, PumpPlaces

\* Text after the last line break is forwarded and not parsed.
LEMMA BodyEndsInv ==
  ASSUME IInv, NEW r \in Requests, BodyEnds(r)
  PROVE  StepInv(r)
<1>1. /\ pump[r] = "reading" /\ cut' \in [Requests -> BOOLEAN]
      /\ UNCHANGED <<place, req, answer, bg, gone, delivered, event, builder, cut, entries>>
  BY PresentPump DEF BodyEnds
<1>2. entries' \subseteq Entry /\ NoErrorCached'  BY <1>1, Present DEF NoErrorCached
<1>3. CASE pump' = [pump EXCEPT ![r] = "session"] /\ UNCHANGED pipe
  BY <1>1, <1>2, <1>3, PumpGoesOn DEF PumpPlaces
<1>4. CASE pump' = [pump EXCEPT ![r] = "ending"] /\ pipe' = [pipe EXCEPT ![r] = "tail"]
  <2>1. pump'[r] = "ending" /\ pipe'[r] = "tail"  BY <1>4 DEF IInv, TypeOK
  <2>2. PipeInv(r)'  BY <2>1 DEF PipeInv
  <2>3. ParseInv(r)'  BY <1>1, <2>1, ParseKept DEF Parsed
  <2>4. PumpMove(r, "ending", "tail", event[r], builder[r])
    BY <1>1, <1>2, <1>4, <2>2, <2>3, PresentPump DEF PumpMove, PumpPlaces
  <2> QED  BY <2>4, PumpStep
<1> QED  BY <1>3, <1>4 DEF BodyEnds

\* After the tail the pump saves.
LEMMA TailWrittenInv ==
  ASSUME IInv, NEW r \in Requests, TailWritten(r)
  PROVE  StepInv(r)
<1>1. cut' \in [Requests -> BOOLEAN]  BY DEF TailWritten, IInv, TypeOK
<1>2. entries' \subseteq Entry /\ NoErrorCached'  BY Present DEF TailWritten, NoErrorCached
<1> QED  BY <1>1, <1>2, PumpGoesOn DEF TailWritten, Written, PumpPlaces

\* The pump saves the turn, and goes to the cache or to the deferred Close.
LEMMA PumpSavesInv ==
  ASSUME IInv, NEW r \in Requests, PumpSaves(r)
  PROVE  StepInv(r)
<1>1. cut' \in [Requests -> BOOLEAN]  BY DEF PumpSaves, IInv, TypeOK
<1>2. entries' \subseteq Entry /\ NoErrorCached'  BY Present DEF PumpSaves, NoErrorCached
<1>3. PICK u \in {"closing", "cache"} : pump' = [pump EXCEPT ![r] = u]  BY DEF PumpSaves
<1> QED  BY <1>1, <1>2, <1>3, PumpGoesOn DEF PumpSaves, PumpPlaces

\* What the pump stores is the text it collected: no apology, no session error.
LEMMA PumpStoresInv ==
  ASSUME IInv, NEW r \in Requests, PumpStores(r)
  PROVE  StepInv(r)
<1>1. cut' \in [Requests -> BOOLEAN]  BY DEF PumpStores, IInv, TypeOK
<1>2. entries' \subseteq Entry /\ NoErrorCached'
  <2>1. (IF cut[r] THEN "cut" ELSE "facts") \in Texts \ {"apology", "session error"}
    BY DEF Texts
  <2> QED  BY <2>1, SetCacheInv, Present DEF PumpStores, NoErrorCached
<1> QED  BY <1>1, <1>2, PumpGoesOn DEF PumpStores, PumpPlaces

\* The deferred Close is the last step of the pump.
LEMMA PumpClosesInv ==
  ASSUME IInv, NEW r \in Requests, PumpCloses(r)
  PROVE  StepInv(r)
<1>1. cut' \in [Requests -> BOOLEAN]  BY DEF PumpCloses, IInv, TypeOK
<1>2. entries' \subseteq Entry /\ NoErrorCached'  BY Present DEF PumpCloses, NoErrorCached
<1> QED  BY <1>1, <1>2, PumpGoesOn DEF PumpCloses, PumpPlaces

\* One more parsed line: n is its number.
LEMMA ParsedLine ==
  ASSUME IInv, NEW r \in Requests, Parse(r), NEW n, n = Len(delivered[r])
  PROVE  /\ n \in 1..MaxLines /\ n \in 1..Len(delivered[r])
         /\ Parsed(r) = n - 1 /\ Parsed(r)' = n
         /\ PipeInv(r)' /\ pipe[r] = NoLine
         /\ pump'[r] = "reading" /\ UNCHANGED <<delivered, pipe>>
         /\ Last(delivered[r]) = delivered[r][n]
         /\ delivered[r][n] \in StreamLines
<1>1. /\ pump[r] = "writing" /\ pipe[r] = NoLine /\ pump'[r] = "reading"
      /\ UNCHANGED <<delivered, pipe>>
  BY DEF Parse, Written, IInv, TypeOK
<1>2. n \in 1..MaxLines  BY <1>1, Present DEF PipeInv
<1>3. n \in 1..Len(delivered[r])  BY <1>2, PresentPump
<1>4. Parsed(r) = n - 1 /\ Parsed(r)' = n  BY <1>1 DEF Parsed
<1>5. PipeInv(r)'  BY <1>1 DEF PipeInv
<1>6. delivered[r][n] \in StreamLines  BY <1>3, PresentPump, ElementOfSeq
<1> QED  BY <1>1, <1>2, <1>3, <1>4, <1>5, <1>6 DEF Last

\* What Parse makes of the event type is what the SSE reading makes of it.
LEMMA ParseEvent ==
  ASSUME IInv, NEW r \in Requests, Parse(r)
  PROVE  /\ event'[r] \in {"none", "hide", "event"}
         /\ event' = [event EXCEPT ![r] = event'[r]]
         /\ LET e == AS!EventOf(delivered[r], Len(delivered[r]) + 1) IN
            event'[r] = IF e = "blank" THEN "none" ELSE e
<1> DEFINE n == Len(delivered[r])
           line == delivered[r][n]
           before == AS!EventOf(delivered[r], n)
           after == AS!EventOf(delivered[r], n + 1)
<1>1. /\ n \in 1..Len(delivered[r]) /\ Parsed(r) + 1 = n
      /\ Last(delivered[r]) = line
  BY ParsedLine
<1>2. event[r] = IF before = "blank" THEN "none" ELSE before
  BY <1>1, Present DEF ParseInv
<1>3. after = IF line \in Mark THEN line ELSE before
  BY <1>1, PresentPump, EventOfNext
<1> HIDE DEF n, line, before, after
<1>4. event' = [event EXCEPT ![r] = CASE line \in {"hide", "event"} -> line
                                    [] line = "blank" -> "none"
                                    [] OTHER -> event[r]]
  BY <1>1 DEF Parse
<1>5. event'[r] = CASE line \in {"hide", "event"} -> line
                    [] line = "blank" -> "none"
                    [] OTHER -> event[r]
  BY <1>4 DEF IInv, TypeOK
<1>6. event' = [event EXCEPT ![r] = event'[r]]  BY <1>4, <1>5
<1>7. event'[r] \in {"none", "hide", "event"}  BY <1>5, PresentPump
<1>8. event'[r] = IF after = "blank" THEN "none" ELSE after
  BY <1>2, <1>3, <1>5 DEF Mark
<1> QED  BY <1>6, <1>7, <1>8 DEF n, after

\* The builder gets the number of the line exactly when the line is shown.
LEMMA ParseBuilder ==
  ASSUME IInv, NEW r \in Requests, Parse(r)
  PROVE  /\ builder'[r] \in Seq(1..MaxLines)
         /\ builder' = [builder EXCEPT ![r] = builder'[r]]
         /\ ToSet(builder'[r]) = {i \in AS!Shown(delivered[r]) : i =< Len(delivered[r])}
         /\ \A i, j \in DOMAIN builder'[r] : i < j => builder'[r][i] < builder'[r][j]
<1> DEFINE n == Len(delivered[r])
           line == delivered[r][n]
           b == builder[r]
           shown == AS!Shown(delivered[r])
<1>1. /\ n \in 1..Len(delivered[r]) /\ n \in 1..MaxLines /\ Parsed(r) = n - 1
      /\ Last(delivered[r]) = line
  BY ParsedLine
<1>2. /\ event[r] = "hide" <=> AS!EventOf(delivered[r], n) = "hide"
      /\ ToSet(b) = {i \in shown : i =< n - 1}
      /\ \A i, j \in DOMAIN b : i < j => b[i] < b[j]
  BY <1>1, Present DEF ParseInv
<1>3. n \in shown <=> line = "token" /\ event[r] # "hide"
  BY <1>1, <1>2, PresentPump, LenProperties DEF AS!Shown
<1>4. shown \subseteq Nat
  BY PresentPump, LenProperties DEF AS!Shown
<1>5. b \in Seq(1..MaxLines)  BY PresentPump
<1>6. Len(b) \in Nat /\ DOMAIN b = 1..Len(b)  BY <1>5, LenProperties
<1> HIDE DEF n, line, b, shown
<1>7. builder' = [builder EXCEPT ![r] = IF line = "token" /\ event[r] # "hide"
                                        THEN Append(b, n) ELSE b]
  BY <1>1 DEF Parse, n, b
<1>8. builder'[r] = IF n \in shown THEN Append(b, n) ELSE b
  BY <1>3, <1>7 DEF IInv, SeqInv
<1>9. builder' = [builder EXCEPT ![r] = builder'[r]]  BY <1>3, <1>7, <1>8
<1>10. \A x : x \in ToSet(b) <=> x \in shown /\ x =< n - 1  BY <1>2
<1>11. n \in Nat /\ \A x \in Nat : (x =< n <=> x =< n - 1 \/ x = n) /\ (x =< n - 1 => x < n)
  BY <1>1
<1>12. CASE n \in shown
  <2> DEFINE c == Append(b, n)
  <2>1. /\ c \in Seq(1..MaxLines) /\ Len(c) = Len(b) + 1 /\ DOMAIN c = 1..(Len(b) + 1)
        /\ \A i \in 1..Len(b) : c[i] = b[i]
        /\ c[Len(b) + 1] = n
    BY <1>1, <1>5, <1>6, AppendProperties, LenProperties
  <2> HIDE DEF c
  <2>2. ToSet(b) = {b[i] : i \in 1..Len(b)}  BY <1>6 DEF ToSet
  <2>3. ToSet(c) = {c[i] : i \in 1..(Len(b) + 1)}  BY <2>1 DEF ToSet
  <2>4. \A x : x \in ToSet(c) <=> x \in ToSet(b) \/ x = n
    BY <1>6, <2>1, <2>2, <2>3
  <2>5. \A x : x \in ToSet(c) <=> x \in shown /\ x =< n
    BY <1>10, <1>11, <1>4, <1>12, <2>4
  <2>6. \A i \in 1..Len(b) : b[i] < n
    <3>1. \A i \in 1..Len(b) : b[i] \in ToSet(b)  BY <2>2
    <3>2. \A x \in ToSet(b) : x < n  BY <1>10, <1>11, <1>4
    <3> QED  BY <3>1, <3>2
  <2>7. \A i, j \in DOMAIN c : i < j => c[i] < c[j]
    BY <1>2, <1>6, <2>1, <2>6
  <2>8. builder'[r] = c  BY <1>8, <1>12 DEF c
  <2>9. ToSet(c) = {i \in shown : i =< n}  BY <2>5
  <2> QED  BY <1>9, <2>1, <2>7, <2>8, <2>9 DEF n, shown
<1>13. CASE n \notin shown
  <2>1. \A x : x \in ToSet(b) <=> x \in shown /\ x =< n
    BY <1>10, <1>11, <1>4, <1>13
  <2>2. ToSet(b) = {i \in shown : i =< n}  BY <2>1
  <2> QED  BY <1>2, <1>5, <1>8, <1>9, <1>13, <2>2 DEF n, shown
<1> QED  BY <1>12, <1>13

\* A parsed line keeps the inductive invariant.
LEMMA ParseStep ==
  ASSUME IInv, NEW r \in Requests, Parse(r)
  PROVE  StepInv(r)
<1>1. /\ pump[r] = "writing" /\ pump' = [pump EXCEPT ![r] = "reading"]
      /\ UNCHANGED <<place, req, answer, bg, gone, pipe, delivered, cut, entries>>
  BY DEF Parse
<1>2. Parsed(r)' = Len(delivered[r]) /\ PipeInv(r)'  BY ParsedLine
<1>3. ParseInv(r)'
  BY <1>1, <1>2, ParseEvent, ParseBuilder DEF ParseInv
<1>4. entries' \subseteq Entry /\ NoErrorCached'  BY <1>1, Present DEF NoErrorCached
<1>5. PumpMove(r, "reading", pipe[r], event'[r], builder'[r])
  BY <1>1, <1>2, <1>3, <1>4, ParseEvent, ParseBuilder, PresentPump DEF PumpMove, PumpPlaces
<1> QED  BY <1>5, PumpStep

-----------------------------------------------------------------------------
(* The handler's end of the pipe *)

\* A stream that opens starts the pump with nothing read; one that does not ends the request.
LEMMA ForwardChatStreamInv ==
  ASSUME IInv, NEW r \in Requests, ForwardChatStream(r)
  PROVE  StepInv(r)
<1>1. /\ bg[r] = {} /\ pump[r] = "none" /\ place[r] = "bot" /\ Streams(r)
      /\ UNCHANGED <<req, answer, bg, gone, pipe, delivered, event, builder, cut, entries>>
  BY EarlyInv DEF ForwardChatStream
<1>2. CASE Goto(r, "done") /\ UNCHANGED pump
  BY <1>1, <1>2, GotoStep DEF Places, pumpVars
<1>3. CASE pump' = [pump EXCEPT ![r] = "reading"] /\ Goto(r, "pumping")
  <2>1. /\ place' \in [Requests -> Places] /\ place'[r] = "pumping"
        /\ pump' \in [Requests -> PumpPlaces] /\ pump'[r] = "reading"
    BY <1>3 DEF Goto, Places, PumpPlaces, IInv, TypeOK
  <2>2. TypeOK' /\ SeqInv' /\ NoErrorCached'
    BY <1>1, <2>1 DEF IInv, TypeOK, SeqInv, NoErrorCached
  <2>3. \A s \in Requests \ {r} : Same(s)
    BY <1>1, <1>3 DEF Goto, Same, IInv, TypeOK
  <2>4. pipe[r] = NoLine  BY <1>1, Present DEF PlaceInv
  <2>5. PlaceInv(r)' /\ PipeInv(r)' /\ AnswerInv(r)'
    BY <1>1, <2>1, <2>4, Present DEF PlaceInv, PipeInv, AnswerInv, Streams
  <2>6. ParseInv(r)'  BY <1>1, <2>1, ParseKept DEF Parsed
  <2> QED  BY <2>2, <2>3, <2>5, <2>6 DEF StepInv, RequestInv
<1> QED  BY <1>1, <1>2, <1>3 DEF ForwardChatStream

\* Neither a line the pump has not parsed yet nor the text after the last line break
\* changes the reading.
LEMMA TakeReading ==
  ASSUME IInv, NEW r \in Requests, pipe[r] # NoLine,
         delivered'[r] = Append(delivered[r], pipe[r]), pipe'[r] = NoLine,
         UNCHANGED <<pump, event, builder>>
  PROVE  ParseInv(r)'
<1> DEFINE d == delivered[r]
           n == Len(d)
           x == pipe[r]
           more == Append(d, x)
<1>1. /\ d \in Seq(StreamLines) /\ n \in Nat /\ x \in StreamLines
      /\ more \in Seq(StreamLines) /\ Len(more) = n + 1
      /\ more[n + 1] = x
  BY PresentPump, AppendProperties DEF StreamLines
<1>2. pump[r] \in {"writing", "ending"} /\ (pump[r] = "ending" => x = "tail")
  BY Present DEF PipeInv
<1>3. Parsed(r) = n  BY DEF Parsed
<1>4. AS!EventOf(more, n + 1) = AS!EventOf(d, n + 1)
  BY <1>1, EventOfAppend
<1>5. AS!Shown(more) = AS!Shown(d) \cup
        IF x = "token" /\ AS!EventOf(d, n + 1) # "hide" THEN {n + 1} ELSE {}
  BY <1>1, ShownAppend
<1>6. \A i \in AS!Shown(d) : i \in Nat /\ i =< n
  BY <1>1, LenProperties DEF AS!Shown
<1>7. AS!EventOf(more, n + 2) = IF x \in Mark THEN x ELSE AS!EventOf(d, n + 1)
  <2>1. n + 1 \in 1..Len(more) /\ (n + 1) + 1 = n + 2  BY <1>1
  <2> QED  BY <1>1, <1>4, <2>1, EventOfNext
<1>8. /\ LET e == AS!EventOf(d, n + 1) IN event[r] = IF e = "blank" THEN "none" ELSE e
      /\ ToSet(builder[r]) = {i \in AS!Shown(d) : i =< n}
      /\ \A i, j \in DOMAIN builder[r] : i < j => builder[r][i] < builder[r][j]
  BY <1>3, Present DEF ParseInv
<1>9. delivered'[r] = more  OBVIOUS
<1> HIDE DEF d, n, x, more
<1>10. CASE pump[r] = "writing"
  <2>1. Parsed(r)' = n  BY <1>1, <1>9, <1>10 DEF Parsed
  <2>2. \A i : i \in AS!Shown(more) /\ i =< n <=> i \in AS!Shown(d) /\ i =< n
    BY <1>1, <1>5
  <2>3. {i \in AS!Shown(more) : i =< n} = {i \in AS!Shown(d) : i =< n}
    BY <2>2
  <2> QED  BY <1>4, <1>8, <1>9, <2>1, <2>3 DEF ParseInv
<1>11. CASE pump[r] = "ending"
  <2>1. x = "tail"  BY <1>2, <1>11
  <2>2. Parsed(r)' = n + 1  BY <1>1, <1>9, <1>11 DEF Parsed
  <2>3. AS!Shown(more) = AS!Shown(d) /\ AS!EventOf(more, n + 2) = AS!EventOf(d, n + 1)
    BY <1>5, <1>7, <2>1 DEF Mark
  <2>4. {i \in AS!Shown(more) : i =< n + 1} = {i \in AS!Shown(d) : i =< n}
    BY <1>1, <1>6, <2>3
  <2>5. Parsed(r)' + 1 = n + 2  BY <1>1, <2>2
  <2> QED  BY <1>8, <1>9, <2>2, <2>3, <2>4, <2>5 DEF ParseInv
<1> QED  BY <1>2, <1>10, <1>11

\* The handler takes the line the pump stands at: delivered is one line longer.
LEMMA TakeInv ==
  ASSUME IInv, NEW r \in Requests, Take(r)
  PROVE  StepInv(r)
<1>1. /\ place[r] = "pumping" /\ pipe[r] # NoLine
      /\ delivered' = [delivered EXCEPT ![r] = Append(delivered[r], pipe[r])]
      /\ pipe' = [pipe EXCEPT ![r] = NoLine]
      /\ UNCHANGED <<req, answer, bg, gone, pump, event, builder, cut, entries>>
  BY DEF Take
<1>2. PICK p \in {"pumping", "forwarding"} : place' = [place EXCEPT ![r] = p]
  BY DEF Take, Goto
<1>3. /\ pipe[r] \in StreamLines /\ delivered[r] \in Seq(StreamLines)
      /\ Append(delivered[r], pipe[r]) \in Seq(StreamLines)
      /\ Len(Append(delivered[r], pipe[r])) = Len(delivered[r]) + 1
      /\ Len(delivered[r]) \in Nat
  BY <1>1, PresentPump, AppendProperties DEF StreamLines
<1>4. /\ place'[r] = p /\ pipe'[r] = NoLine
      /\ delivered'[r] = Append(delivered[r], pipe[r])
      /\ Len(delivered'[r]) = Len(delivered[r]) + 1
  BY <1>1, <1>2, <1>3 DEF IInv, TypeOK, SeqInv
<1>5. /\ place' \in [Requests -> Places]
      /\ pipe' \in [Requests -> Lines \cup {NoLine, "tail"}]
      /\ delivered' \in [Requests -> Seq(StreamLines)]
  BY <1>1, <1>2, <1>3 DEF Places, IInv, TypeOK, SeqInv
<1>6. TypeOK' /\ SeqInv' /\ NoErrorCached'
  BY <1>1, <1>5 DEF IInv, TypeOK, SeqInv, NoErrorCached, StreamLines
<1>7. \A s \in Requests \ {r} : Same(s)
  BY <1>1, <1>2 DEF Same, IInv, TypeOK, SeqInv
<1>8. PlaceInv(r)'
  BY <1>1, <1>2, <1>4, Present DEF PlaceInv, Streams
<1>9. PipeInv(r)'
  <2>1. PipeInv(r) /\ pump'[r] = pump[r]  BY <1>1, Present
  <2>2. pump[r] = "writing" => Len(delivered'[r]) \in 1..MaxLines
    <3> SUFFICES ASSUME pump[r] = "writing" PROVE Len(delivered'[r]) \in 1..MaxLines
      OBVIOUS
    <3>1. Len(delivered[r]) < MaxLines  BY <1>1, <2>1 DEF PipeInv
    <3> QED  BY <1>3, <1>4, <3>1, PipelineAssumption
  <2>3. NoLine # "tail"  BY DEF NoLine
  <2> QED  BY <1>4, <2>1, <2>2, <2>3 DEF PipeInv
<1>10. AnswerInv(r)'  BY <1>1, Present DEF AnswerInv
<1>11. ParseInv(r)'  BY <1>1, <1>4, TakeReading
<1> QED  BY <1>6, <1>7, <1>8, <1>9, <1>10, <1>11 DEF StepInv, RequestInv

\* A line on its way to the client changes nothing else.
LEMMA ForwardInv ==
  ASSUME IInv, NEW r \in Requests, Forward(r)
  PROVE  StepInv(r)
<1>1. bg[r] = {} /\ pump[r] # "none"  BY Present DEF Forward, PlaceInv
<1> QED  BY <1>1, GotoStep DEF Forward, Places

\* The handler sees the end of the pipe only when the pump has closed it.
LEMMA EndOfStreamInv ==
  ASSUME IInv, NEW r \in Requests, EndOfStream(r)
  PROVE  StepInv(r)
<1>1. PICK p \in {"replying", "done"} : Goto(r, p)  BY DEF EndOfStream
<1> QED  BY <1>1, GotoStep DEF EndOfStream, Places

-----------------------------------------------------------------------------
(* The invariant *)

\* The inductive invariant holds at first.
LEMMA InitIInv == Init => IInv
<1> SUFFICES ASSUME Init PROVE IInv  OBVIOUS
<1>1. TypeOK
  <2>1. NoRequest \in Request
    BY QueriesAssumption DEF NoRequest, Request, FeatureState, Threshold, Modes
  <2>2. /\ place \in [Requests -> Places] /\ pump \in [Requests -> PumpPlaces]
        /\ pipe \in [Requests -> Lines \cup {NoLine, "tail"}]
    BY DEF Init, Places, PumpPlaces
  <2>3. \A r \in Requests : /\ delivered[r] \in Seq(Lines \cup {"tail"})
                            /\ builder[r] \in Seq(1..MaxLines)
    BY EmptySeq DEF Init
  <2> QED  BY <2>1, <2>2, <2>3 DEF Init, TypeOK
<1>2. SeqInv /\ NoErrorCached  BY EmptySeq DEF Init, SeqInv, NoErrorCached
<1>3. ASSUME NEW r \in Requests PROVE RequestInv(r)
  <2>1. PlaceInv(r) /\ PipeInv(r) /\ AnswerInv(r)
    BY <1>3 DEF Init, PlaceInv, PipeInv, AnswerInv, NoLine
  <2>2. Parsed(r) = 0 /\ delivered[r] = <<>> /\ builder[r] = <<>> /\ event[r] = "none"
    BY <1>3, EmptySeq DEF Init, Parsed
  <2>3. MarksBefore(<<>>, 1) = {} /\ AS!Shown(<<>>) = {} /\ ToSet(<<>>) = {}
    BY DEF MarksBefore, AS!Shown, ToSet
  <2>4. AS!EventOf(delivered[r], Parsed(r) + 1) = "blank"
    BY <2>2, <2>3, EventOfMarks
  <2>5. ParseInv(r)  BY <2>2, <2>3, <2>4 DEF ParseInv
  <2> QED  BY <2>1, <2>5 DEF RequestInv
<1> QED  BY <1>1, <1>2, <1>3 DEF IInv

\* Every step keeps the inductive invariant.
LEMMA StepIInv == IInv /\ [Next]_vars => IInv'
<1> SUFFICES ASSUME IInv, [Next]_vars PROVE IInv'  OBVIOUS
<1>1. CASE UNCHANGED vars
  <2>1. TypeOK' /\ SeqInv' /\ NoErrorCached'
    BY <1>1 DEF IInv, TypeOK, SeqInv, NoErrorCached, vars
  <2>2. \A s \in Requests : Same(s)  BY <1>1 DEF Same, vars
  <2> QED  BY <2>1, <2>2, SameInv DEF IInv
<1>2. ASSUME NEW r \in Requests, Remote(r) PROVE StepInv(r)
  BY <1>2, GetSessionInv, ResolveInv, EmbedTextInv, LookupInv, DetermineInv, ForwardChatInv,
     ForwardChatStreamInv, ReplyInv, ForwardInv DEF Remote
<1>3. ASSUME NEW r \in Requests, Local(r) PROVE StepInv(r)
  BY <1>3, SaveSessionInv, StoreAnswerInv, ParseStep, TailWrittenInv, PumpSavesInv,
     PumpStoresInv, PumpClosesInv, TakeInv, EndOfStreamInv DEF Local
<1>4. ASSUME NEW r \in Requests,
             Handle(r) \/ ReadString(r) \/ BodyBreaks(r) \/ BodyEnds(r)
      PROVE  StepInv(r)
  BY <1>4, HandleInv, ReadStringInv, BodyBreaksInv, BodyEndsInv
<1>5. ASSUME NEW q \in Queries, V2Stores(q) PROVE IInv'
  <2>1. /\ UNCHANGED <<place, req, answer, bg, gone, pumpVars>>
        /\ entries' = entries \cup {[query |-> q, answer |-> "v2"]}
    BY <1>5 DEF V2Stores
  <2>2. PICK n : n = [query |-> q, answer |-> "v2"]  OBVIOUS
  <2>3. n \in Entry /\ n.answer = "v2"  BY <2>2 DEF Entry, Texts
  <2>4. TypeOK' /\ SeqInv' /\ NoErrorCached'
    BY <2>1, <2>2, <2>3 DEF IInv, TypeOK, SeqInv, NoErrorCached, pumpVars
  <2>5. \A s \in Requests : Same(s)  BY <2>1 DEF Same, pumpVars
  <2> QED  BY <2>4, <2>5, SameInv DEF IInv
<1>6. ASSUME NEW e \in entries, EntryRemoved(e) PROVE IInv'
  <2>1. UNCHANGED <<place, req, answer, bg, gone, pumpVars>> /\ entries' \subseteq entries
    BY <1>6 DEF EntryRemoved
  <2>2. TypeOK' /\ SeqInv' /\ NoErrorCached'
    BY <2>1 DEF IInv, TypeOK, SeqInv, NoErrorCached, pumpVars
  <2>3. \A s \in Requests : Same(s)  BY <2>1 DEF Same, pumpVars
  <2> QED  BY <2>2, <2>3, SameInv DEF IInv
<1> QED
  BY <1>1, <1>2, <1>3, <1>4, <1>5, <1>6, HangUpInv, StepIsEnough DEF Next

\* The inductive invariant holds in every reachable state.
THEOREM Invariance == Spec => []IInv
BY InitIInv, StepIInv, PTL DEF Spec

\* Every variable keeps its type; in particular a stream never numbers more than
\* MaxLines lines.
THEOREM TypeCorrect == Spec => []TypeOK
<1>1. IInv => TypeOK  BY DEF IInv
<1> QED  BY <1>1, Invariance, PTL

\* No error text of the pipeline reaches the cache (blocking.go:140).
THEOREM ErrorsStayOut == Spec => []NoErrorCached
<1>1. IInv => NoErrorCached  BY DEF IInv
<1> QED  BY <1>1, Invariance, PTL

\* A streaming handler ends after its pump has stored the text (streaming.go:148).
THEOREM EndComesLast == Spec => []EndAfterStore
<1>1. IInv => EndAfterStore  BY DEF IInv, RequestInv, PlaceInv, EndAfterStore
<1> QED  BY <1>1, Invariance, PTL

\* When the loop of the pump is over, all that was delivered has been parsed.
LEMMA AllParsed ==
  ASSUME IInv, NEW r \in Requests,
         pump[r] = "writing" => pipe[r] # NoLine
  PROVE  /\ ToSet(builder[r]) = AS!Shown(delivered[r])
         /\ \A i, j \in DOMAIN builder[r] : i < j => builder[r][i] < builder[r][j]
<1>1. Parsed(r) = Len(delivered[r])  BY DEF Parsed
<1>2. \A i \in AS!Shown(delivered[r]) : i =< Len(delivered[r])
  BY PresentPump, LenProperties DEF AS!Shown
<1>3. {i \in AS!Shown(delivered[r]) : i =< Len(delivered[r])} = AS!Shown(delivered[r])
  BY <1>2
<1>4. ParseInv(r)  BY Present
<1> QED  BY <1>1, <1>3, <1>4 DEF ParseInv

\* What the pump stores is made of exactly the lines of text the client was given
\* (streaming.go:188), however long the stream is and wherever it broke.
THEOREM StoresWhatWasStreamed == Spec => []StoredWasStreamed
<1>1. IInv => StoredWasStreamed
  BY AllParsed DEF StoredWasStreamed
<1> QED  BY <1>1, Invariance, PTL

-----------------------------------------------------------------------------
(* The refinement *)

Kept(r) == IF StreamPhase(r) \in {"idle", "open"} THEN {} ELSE ToSet(builder[r])

\* A step that AnswerStream does not see.
Stutters(s) ==
  /\ StreamPhase(s)' = StreamPhase(s) /\ delivered'[s] = delivered[s] /\ Kept(s)' = Kept(s)

\* What stays the same is not seen.
LEMMA SameStutters == ASSUME NEW s, Same(s) PROVE Stutters(s)
<1>1. StreamPhase(s)' = StreamPhase(s)  BY DEF Same, StreamPhase
<1> QED  BY <1>1 DEF Same, Stutters, Kept

\* Before the bot's stream is open there is nothing to see.
LEMMA IdleStutters ==
  ASSUME NEW s, pump[s] = "none", UNCHANGED pumpVars
  PROVE  Stutters(s)
<1>1. StreamPhase(s) = "idle" /\ StreamPhase(s)' = "idle"  BY DEF StreamPhase, pumpVars
<1> QED  BY <1>1 DEF Stutters, Kept, pumpVars

Sees(r) ==
  \/ Stutters(r)
  \/ /\ StreamPhase(r) = "idle" /\ StreamPhase(r)' = "open"
     /\ delivered'[r] = delivered[r] /\ Kept(r)' = Kept(r)
  \/ /\ StreamPhase(r) = "open" /\ StreamPhase(r)' = "open" /\ Kept(r)' = Kept(r)
     /\ \E line \in StreamLines : delivered'[r] = Append(delivered[r], line)
  \/ /\ StreamPhase(r) = "open" /\ StreamPhase(r)' = "settled"
     /\ delivered'[r] = delivered[r] /\ Kept(r)' = AS!Shown(delivered[r])
  \/ /\ StreamPhase(r) = "settled" /\ StreamPhase(r)' = "stored"
     /\ delivered'[r] = delivered[r] /\ Kept(r)' = Kept(r)
  \/ /\ StreamPhase(r) = "stored" /\ StreamPhase(r)' = "ended"
     /\ delivered'[r] = delivered[r] /\ Kept(r)' = Kept(r)

MappedStep == AS!Next \/ UNCHANGED <<[r \in Requests |-> StreamPhase(r)], delivered,
                                     [r \in Requests |-> Kept(r)]>>

\* A step of one request is a step of AnswerStream when that request makes one.
LEMMA SeesIsEnough ==
  ASSUME IInv, IInv', NEW r \in Requests, Sees(r), \A s \in Requests \ {r} : Same(s)
  PROVE  MappedStep
<1> DEFINE phase == [s \in Requests |-> StreamPhase(s)]
           kept == [s \in Requests |-> Kept(s)]
<1>1. \A s \in Requests \ {r} : Stutters(s)  BY SameStutters
<1>2. /\ delivered \in [Requests -> Seq(StreamLines)]
      /\ delivered' \in [Requests -> Seq(StreamLines)]
  BY DEF IInv, SeqInv
<1>3. /\ phase' = [phase EXCEPT ![r] = StreamPhase(r)']
      /\ delivered' = [delivered EXCEPT ![r] = delivered'[r]]
      /\ kept' = [kept EXCEPT ![r] = Kept(r)']
  BY <1>1, <1>2 DEF Stutters
<1>4. phase[r] = StreamPhase(r) /\ kept[r] = Kept(r)  OBVIOUS
<1>5. /\ StreamPhase(r)' = StreamPhase(r) => phase' = phase
      /\ Kept(r)' = Kept(r) => kept' = kept
      /\ delivered'[r] = delivered[r] => delivered' = delivered
  BY <1>1, <1>2 DEF Stutters
<1> HIDE DEF phase, kept
<1>6. CASE Stutters(r)
  BY <1>5, <1>6 DEF Stutters, MappedStep, phase, kept
<1>7. CASE /\ StreamPhase(r) = "idle" /\ StreamPhase(r)' = "open"
           /\ delivered'[r] = delivered[r] /\ Kept(r)' = Kept(r)
  <2>1. AS!Open(r)
    BY <1>3, <1>4, <1>5, <1>7 DEF AS!Open, AS!Pass, phase, kept, Kept
  <2> QED  BY <2>1 DEF MappedStep, AS!Next
<1>8. CASE /\ StreamPhase(r) = "open" /\ StreamPhase(r)' = "open" /\ Kept(r)' = Kept(r)
           /\ \E line \in StreamLines : delivered'[r] = Append(delivered[r], line)
  <2>1. AS!Emit(r)
    BY <1>3, <1>4, <1>5, <1>8 DEF AS!Emit, phase, kept, Kept, StreamLines
  <2> QED  BY <2>1 DEF MappedStep, AS!Next
<1>9. CASE /\ StreamPhase(r) = "open" /\ StreamPhase(r)' = "settled"
           /\ delivered'[r] = delivered[r] /\ Kept(r)' = AS!Shown(delivered[r])
  <2>1. AS!Settle(r)
    BY <1>3, <1>4, <1>5, <1>9 DEF AS!Settle, AS!Pass, phase, kept, Kept
  <2> QED  BY <2>1 DEF MappedStep, AS!Next
<1>10. CASE /\ StreamPhase(r) = "settled" /\ StreamPhase(r)' = "stored"
            /\ delivered'[r] = delivered[r] /\ Kept(r)' = Kept(r)
  <2>1. AS!Store(r)
    BY <1>3, <1>4, <1>5, <1>10 DEF AS!Store, AS!Pass, phase, kept, Kept
  <2> QED  BY <2>1 DEF MappedStep, AS!Next
<1>11. CASE /\ StreamPhase(r) = "stored" /\ StreamPhase(r)' = "ended"
            /\ delivered'[r] = delivered[r] /\ Kept(r)' = Kept(r)
  <2>1. AS!End(r)
    BY <1>3, <1>4, <1>5, <1>11 DEF AS!End, AS!Pass, phase, kept, Kept
  <2> QED  BY <2>1 DEF MappedStep, AS!Next
<1> QED  BY <1>6, <1>7, <1>8, <1>9, <1>10, <1>11 DEF Sees

\* The handler without a pump, and its loop, are not seen.
LEMMA HandlerSees ==
  ASSUME IInv, NEW r \in Requests,
         \/ Handle(r) \/ GetSession(r) \/ Resolve(r) \/ EmbedText(r) \/ Lookup(r)
         \/ Determine(r) \/ ForwardChat(r) \/ SaveSession(r) \/ StoreAnswer(r)
  PROVE  Sees(r)
<1>1. pump[r] = "none"
  BY Present DEF PlaceInv, Handle, GetSession, Resolve, EmbedText, Lookup, Determine,
     ForwardChat, SaveSession, StoreAnswer
<1>2. UNCHANGED pumpVars
  BY DEF Handle, GetSession, Resolve, EmbedText, Lookup, Determine, ForwardChat,
     SaveSession, StoreAnswer
<1> QED  BY <1>1, <1>2, IdleStutters DEF Sees

\* Passing a line on is not seen: it was emitted when it was taken.
LEMMA ForwardSees == ASSUME IInv, NEW r \in Requests, Forward(r) PROVE Sees(r)
<1>1. /\ place[r] = "forwarding" /\ place'[r] = "pumping"
      /\ UNCHANGED <<pump, bg, delivered, builder>>
  BY DEF Forward, Goto, pumpVars, IInv, TypeOK
<1>2. StreamPhase(r)' = StreamPhase(r)  BY <1>1 DEF StreamPhase
<1> QED  BY <1>1, <1>2 DEF Sees, Stutters, Kept

\* The last step of the handler is the end of the stream.
LEMMA ReplySees == ASSUME IInv, NEW r \in Requests, Reply(r) PROVE Sees(r)
<1>1. /\ place[r] = "replying" /\ place'[r] = "done" /\ UNCHANGED pumpVars
      /\ UNCHANGED <<pump, bg, delivered, builder>>
  BY DEF Reply, Goto, pumpVars, IInv, TypeOK
<1>2. CASE pump[r] = "none"  BY <1>1, <1>2, IdleStutters DEF Sees
<1>3. CASE pump[r] # "none"
  <2>1. pump[r] = "closed" /\ bg[r] = {}  BY <1>1, <1>3, Present DEF PlaceInv
  <2>2. StreamPhase(r) = "stored" /\ StreamPhase(r)' = "ended"
    BY <1>1, <2>1 DEF StreamPhase
  <2> QED  BY <1>1, <2>2 DEF Sees, Kept
<1> QED  BY <1>2, <1>3

\* The end of the pipe is the end of the stream, once everything is stored.
LEMMA EndOfStreamSees == ASSUME IInv, NEW r \in Requests, EndOfStream(r) PROVE Sees(r)
<1>1. /\ place[r] = "pumping" /\ pump[r] = "closed" /\ place'[r] \in {"replying", "done"}
      /\ UNCHANGED <<pump, bg, delivered, builder>>
  BY DEF EndOfStream, Goto, pumpVars, IInv, TypeOK
<1>2. bg[r] = {}  BY <1>1, Present DEF PlaceInv
<1>3. /\ StreamPhase(r) = "stored"
      /\ StreamPhase(r)' = IF place'[r] = "done" THEN "ended" ELSE "stored"
  BY <1>1, <1>2 DEF StreamPhase
<1> QED  BY <1>1, <1>3 DEF Sees, Stutters, Kept

\* The answer of the bot opens the stream.
LEMMA ForwardChatStreamSees ==
  ASSUME IInv, NEW r \in Requests, ForwardChatStream(r) PROVE Sees(r)
<1>1. pump[r] = "none" /\ UNCHANGED <<bg, delivered, builder>>
  BY EarlyInv DEF ForwardChatStream
<1>2. StreamPhase(r) = "idle"  BY <1>1 DEF StreamPhase
<1>3. pump'[r] \in {"none", "reading"}
  BY <1>1 DEF ForwardChatStream, IInv, TypeOK
<1>4. StreamPhase(r)' = IF pump'[r] = "none" THEN "idle" ELSE "open"
  BY <1>3 DEF StreamPhase
<1> QED  BY <1>1, <1>2, <1>4 DEF Sees, Stutters, Kept

\* Reading and parsing are not seen; a line that is taken is.
LEMMA OpenSees ==
  ASSUME IInv, NEW r \in Requests, ReadString(r) \/ Parse(r) \/ Take(r)
  PROVE  Sees(r)
<1>1. /\ pump[r] \in {"reading", "writing", "ending"}
      /\ pump'[r] \in {"reading", "writing", "ending"}
  BY Present DEF ReadString, Parse, Take, PipeInv, IInv, TypeOK
<1>2. StreamPhase(r) = "open" /\ StreamPhase(r)' = "open" /\ Kept(r)' = Kept(r)
  BY <1>1 DEF StreamPhase, Kept
<1>3. CASE ReadString(r) \/ Parse(r)
  BY <1>2, <1>3 DEF ReadString, Parse, Sees, Stutters
<1>4. CASE Take(r)
  <2>1. /\ delivered' = [delivered EXCEPT ![r] = Append(delivered[r], pipe[r])]
        /\ pipe[r] # NoLine
    BY <1>4 DEF Take
  <2>2. pipe[r] \in StreamLines  BY <2>1, PresentPump DEF StreamLines
  <2>3. delivered'[r] = Append(delivered[r], pipe[r])  BY <2>1 DEF IInv, SeqInv
  <2> QED  BY <1>2, <2>2, <2>3 DEF Sees
<1> QED  BY <1>3, <1>4

\* The end of the loop settles what is kept.
LEMMA SettleSees ==
  ASSUME IInv, NEW r \in Requests, BodyBreaks(r) \/ BodyEnds(r) \/ TailWritten(r)
  PROVE  Sees(r)
<1>1. /\ pump[r] \in {"reading", "ending"} /\ pump'[r] \in {"session", "ending"}
      /\ UNCHANGED <<place, bg, delivered, builder>>
      /\ place[r] # "done"
  <2>1. pump \in [Requests -> PumpPlaces] /\ PlaceInv(r)  BY Present DEF IInv, TypeOK
  <2>2. pump[r] \in {"reading", "ending"} /\ UNCHANGED <<place, bg, delivered, builder>>
    BY DEF BodyBreaks, BodyEnds, TailWritten
  <2>3. pump'[r] \in {"session", "ending"}
    BY <2>1 DEF BodyBreaks, BodyEnds, TailWritten
  <2>4. place[r] # "done"  BY <2>1, <2>2 DEF PlaceInv
  <2> QED  BY <2>2, <2>3, <2>4
<1>2. StreamPhase(r) = "open"  BY <1>1 DEF StreamPhase
<1>3. StreamPhase(r)' = IF pump'[r] = "session" THEN "settled" ELSE "open"
  BY <1>1 DEF StreamPhase
<1>4. ToSet(builder[r]) = AS!Shown(delivered[r])  BY <1>1, AllParsed
<1> QED  BY <1>1, <1>2, <1>3, <1>4 DEF Sees, Stutters, Kept

\* The stores come before the pipe is closed.
LEMMA StoreSees ==
  ASSUME IInv, NEW r \in Requests, PumpSaves(r) \/ PumpStores(r) \/ PumpCloses(r)
  PROVE  Sees(r)
<1>1. /\ UNCHANGED <<place, bg, delivered, builder>>
      /\ pump[r] \in {"session", "cache", "closing"}
      /\ pump'[r] \in {"cache", "closing", "closed"}
      /\ pump[r] = "closing" => pump'[r] = "closed"
  BY DEF PumpSaves, PumpStores, PumpCloses, IInv, TypeOK
<1>2. place[r] # "done" /\ bg[r] = {}  BY <1>1, Present DEF PlaceInv
<1>3. /\ StreamPhase(r) = IF pump[r] = "closing" THEN "stored" ELSE "settled"
      /\ StreamPhase(r)' = IF pump'[r] = "cache" THEN "settled" ELSE "stored"
  BY <1>1, <1>2 DEF StreamPhase
<1> QED  BY <1>1, <1>3 DEF Sees, Stutters, Kept

\* Every step is a step of AnswerStream or a stutter.
LEMMA StepMapped == IInv /\ [Next]_vars => MappedStep
<1> SUFFICES ASSUME IInv, [Next]_vars PROVE MappedStep  OBVIOUS
<1>i. IInv'  BY StepIInv
<1>u. ASSUME UNCHANGED <<place, bg, pump, delivered, builder>> PROVE MappedStep
  <2>1. \A s \in Requests : StreamPhase(s)' = StreamPhase(s) /\ Kept(s)' = Kept(s)
    BY <1>u DEF StreamPhase, Kept
  <2>2. /\ [s \in Requests |-> StreamPhase(s)]' = [s \in Requests |-> StreamPhase(s)]
        /\ [s \in Requests |-> Kept(s)]' = [s \in Requests |-> Kept(s)]
    BY <2>1
  <2> QED  BY <1>u, <2>2 DEF MappedStep
<1>1. CASE UNCHANGED vars  BY <1>1, <1>u DEF vars
<1>2. ASSUME NEW r \in Requests, Remote(r) PROVE Sees(r) /\ StepInv(r)
  BY <1>2, GetSessionInv, ResolveInv, EmbedTextInv, LookupInv, DetermineInv, ForwardChatInv,
     ForwardChatStreamInv, ReplyInv, ForwardInv, HandlerSees, ForwardSees, ReplySees,
     ForwardChatStreamSees DEF Remote
<1>3. ASSUME NEW r \in Requests, Local(r) PROVE Sees(r) /\ StepInv(r)
  BY <1>3, SaveSessionInv, StoreAnswerInv, ParseStep, TailWrittenInv, PumpSavesInv,
     PumpStoresInv, PumpClosesInv, TakeInv, EndOfStreamInv, HandlerSees, OpenSees,
     SettleSees, StoreSees, EndOfStreamSees DEF Local
<1>4. ASSUME NEW r \in Requests,
             Handle(r) \/ ReadString(r) \/ BodyBreaks(r) \/ BodyEnds(r)
      PROVE  Sees(r) /\ StepInv(r)
  BY <1>4, HandleInv, ReadStringInv, BodyBreaksInv, BodyEndsInv, HandlerSees, OpenSees,
     SettleSees
<1>5. ASSUME NEW r \in Requests, HangUp(r) PROVE MappedStep
  BY <1>5, <1>u DEF HangUp, pumpVars
<1>6. ASSUME NEW q \in Queries, V2Stores(q) PROVE MappedStep
  BY <1>6, <1>u DEF V2Stores, pumpVars
<1>7. ASSUME NEW e \in entries, EntryRemoved(e) PROVE MappedStep
  BY <1>7, <1>u DEF EntryRemoved, pumpVars
<1>8. ASSUME NEW r \in Requests, Sees(r), StepInv(r) PROVE MappedStep
  BY <1>8, <1>i, SeesIsEnough DEF StepInv
<1> QED
  BY <1>1, <1>2, <1>3, <1>4, <1>5, <1>6, <1>7, <1>8 DEF Next

\* The initial states map to the initial state of AnswerStream.
LEMMA MappedInit == Init => AS!Init
BY DEF Init, AS!Init, StreamPhase

\* The pump, the pipe and the handler that reads it implement the stream of
\* AnswerStream for any number of requests and lines: what is kept is settled by what
\* the client was given, and the end of the stream comes after the stores.
THEOREM StreamRefinement == Spec => ImplementsStream
<1>1. IInv /\ [Next]_vars =>
        [AS!Next]_<<[r \in Requests |-> StreamPhase(r)], delivered,
                    [r \in Requests |-> IF StreamPhase(r) \in {"idle", "open"}
                                        THEN {} ELSE ToSet(builder[r])]>>
  BY StepMapped DEF MappedStep, Kept
<1> QED
  BY <1>1, Invariance, MappedInit, PTL DEF Spec, ImplementsStream, AS!Spec
=============================================================================
