-------------------------- MODULE QueryCacheProofs --------------------------
(***************************************************************************)
(* Proofs about QueryCache, for any sets of pods, flushes and writes.      *)
(***************************************************************************)
EXTENDS QueryCache, TLAPS

-----------------------------------------------------------------------------
(* The inductive invariant *)

Broken(d) == Command("set", d) \in failed

\* The life of a document.  Before its HSET, and after an error, only a copy of a failed
\* attempt can have stored it; while its EXPIRE is under way it is there unless it was
\* removed; after that it is mortal or was removed, and only a copy of a failed attempt
\* brings it back without a time to live.
DocInv(d) ==
  /\ writer[d] \in {"idle", "sending"} /\ d \in docs => Broken(d)
  /\ writer[d] = "error" => Broken(d)
  /\ writer[d] = "expiring" => d \in docs \cup removed
  /\ writer[d] = "ok" => d \in mortal \cup removed
  /\ writer[d] = "ok" /\ d \in docs \ mortal => Broken(d)

\* What had been stored when a flush began is not stored again by a call that has not
\* failed.
BeforeInv(f) ==
  \A d \in before[f] : writer[d] \in Stored \/ Broken(d)

\* A flush that is past its wipe, or past its fallback, left nothing of that, unless the
\* fallback failed or a failed attempt brought it back.
WipedInv(f) ==
  flush[f] \in {"creating", "sessions", "replied"} =>
    \A d \in before[f] \cap docs : Command("flushdb", f) \in failed \/ Broken(d)

IInv ==
  /\ TypeOK
  /\ \A d \in Writes : DocInv(d)
  /\ \A f \in Flushes : BeforeInv(f) /\ WipedInv(f)
  /\ IndexLostOnlyByFailure

-----------------------------------------------------------------------------
(* What commands do *)

Kept == UNCHANGED <<docs, mortal, removed>>

Emptied == docs' = {} /\ mortal' = {} /\ removed' = removed \cup docs

\* A command is told by what it does and for whom.
LEMMA CommandForm ==
  ASSUME NEW c \in Commands
  PROVE  /\ c = Command(c.do, c.by)
         /\ c.do \in {"set", "wipe", "flushdb", "create"}
         /\ c.do = "set" => c.by \in Writes
         /\ c.do # "set" => c.by \in Flushes \cup Pods
BY DEF Commands, Command

\* Commands of flushes and pods are commands, and those of writes.
LEMMA CommandType ==
  /\ \A do \in {"wipe", "flushdb", "create"}, by \in Flushes \cup Pods :
       Command(do, by) \in Commands /\ Command(do, by).do = do
  /\ \A w \in Writes : Command("set", w) \in Commands /\ Command("set", w).do = "set"
BY DEF Commands, Command

\* Only SetCache stores a document; the commands of a flush keep all or none.
LEMMA Effect ==
  ASSUME TypeOK, NEW c, Executed(c), c.do \in {"wipe", "flushdb", "create"}
  PROVE  /\ Kept \/ Emptied
         /\ c.do \in {"wipe", "flushdb"} => Emptied
         /\ index' = IF c.do = "create" THEN TRUE ELSE IF c.do = "wipe" THEN index ELSE FALSE
<1>1. CASE c.do = "wipe"
  BY <1>1 DEF Executed, Remove, Emptied, TypeOK
<1>2. CASE c.do = "flushdb"
  BY <1>2 DEF Executed, Remove, Emptied, TypeOK
<1>3. CASE c.do = "create"
  BY <1>3 DEF Executed, Kept
<1>4. QED
  BY <1>1, <1>2, <1>3

\* A command of a flush or of a boot: documents are kept or emptied, failures are
\* remembered, and it fails visibly or does what it should.
LEMMA CallEffect ==
  ASSUME TypeOK, NEW do \in {"wipe", "flushdb", "create"}, NEW by \in Flushes \cup Pods,
         Succeeds(Command(do, by)) \/ Fails(Command(do, by))
  PROVE  /\ Kept \/ Emptied
         /\ failed \subseteq failed'
         /\ failed' \subseteq Commands
         /\ late' \subseteq failed'
         /\ Fails(Command(do, by)) => Command(do, by) \in failed' /\ index' = index
         /\ Succeeds(Command(do, by)) =>
              /\ do \in {"wipe", "flushdb"} => Emptied
              /\ index' = IF do = "create" THEN TRUE ELSE IF do = "wipe" THEN index ELSE FALSE
<1> DEFINE c == Command(do, by)
<1>c. c \in Commands /\ c.do = do
  BY CommandType
<1> HIDE DEF c
<1>1. CASE Succeeds(c)
  <2>1. Executed(c) /\ (AttemptFails(c) \/ UNCHANGED <<failed, late>>)
    BY <1>1 DEF Succeeds
  <2>2. /\ Kept \/ Emptied
        /\ do \in {"wipe", "flushdb"} => Emptied
        /\ index' = IF do = "create" THEN TRUE ELSE IF do = "wipe" THEN index ELSE FALSE
    BY <1>c, <2>1, Effect
  <2>3. failed \subseteq failed' /\ failed' \subseteq Commands /\ late' \subseteq failed'
    BY <1>c, <2>1 DEF AttemptFails, TypeOK
  <2>4. Fails(c) => c \in failed' /\ index' = index
    BY DEF Fails, AttemptFails, redisVars
  <2>5. QED
    BY <2>2, <2>3, <2>4 DEF c
<1>2. CASE Fails(c)
  <2>1. Kept /\ index' = index /\ c \in failed'
    BY <1>2 DEF Fails, AttemptFails, redisVars, Kept
  <2>2. failed \subseteq failed' /\ failed' \subseteq Commands /\ late' \subseteq failed'
    BY <1>c, <1>2 DEF Fails, AttemptFails, TypeOK
  <2>3. Succeeds(c) =>
          /\ do \in {"wipe", "flushdb"} => Emptied
          /\ index' = IF do = "create" THEN TRUE ELSE IF do = "wipe" THEN index ELSE FALSE
    BY <1>c, Effect DEF Succeeds
  <2>4. QED
    BY <2>1, <2>2, <2>3 DEF c
<1>3. QED
  BY <1>1, <1>2 DEF c

\* A call of a flush, by what became of it.
LEMMA FlushCall ==
  ASSUME TypeOK, NEW f \in Flushes, NEW do \in {"wipe", "flushdb", "create"},
         NEW then \in Places, NEW otherwise \in Places, Call(f, do, then, otherwise)
  PROVE  /\ Kept \/ Emptied
         /\ failed \subseteq failed' /\ failed' \subseteq Commands /\ late' \subseteq failed'
         /\ UNCHANGED <<up, writer, before>>
         /\ \/ /\ flush' = [flush EXCEPT ![f] = then]
               /\ do \in {"wipe", "flushdb"} => Emptied
               /\ index' = IF do = "create" THEN TRUE ELSE IF do = "wipe" THEN index ELSE FALSE
            \/ /\ flush' = [flush EXCEPT ![f] = otherwise]
               /\ Command(do, f) \in failed'
               /\ index' = index
<1>1. f \in Flushes \cup Pods
  OBVIOUS
<1>2. \/ Succeeds(Command(do, f)) /\ flush' = [flush EXCEPT ![f] = then]
      \/ Fails(Command(do, f)) /\ flush' = [flush EXCEPT ![f] = otherwise]
  BY DEF Call
<1>3. UNCHANGED <<up, writer, before>>
  BY DEF Call
<1>4. QED
  BY <1>1, <1>2, <1>3, CallEffect

\* A late copy: it had failed; of its effect all, part or nothing is seen.
LEMMA LateEffect ==
  ASSUME TypeOK, NEW c \in Commands, ExecutedLate(c)
  PROVE  /\ c \in failed
         /\ UNCHANGED <<up, writer, flush, failed, before>> /\ late' \subseteq failed
         /\ \/ Kept /\ UNCHANGED index
            \/ Kept /\ c.do = "create" /\ index' = TRUE
            \/ Emptied /\ c.do = "wipe" /\ UNCHANGED index
            \/ Emptied /\ c.do = "flushdb"  /\ index' = FALSE
            \/ \E w \in Writes :
                 /\ c = Command("set", w)
                 /\ docs' = docs \cup {w} /\ mortal' \in {mortal, mortal \cup {w}}
                 /\ UNCHANGED <<index, removed>>
<1>1. c \in failed /\ UNCHANGED <<up, writer, flush, failed, before>> /\ late' \subseteq failed
  BY DEF ExecutedLate, TypeOK
<1>2. CASE UNCHANGED redisVars
  BY <1>1, <1>2 DEF redisVars, Kept
<1>3. CASE c.do = "set" /\ HSet(c.by)
  BY <1>1, <1>3, CommandForm DEF HSet
<1>4. CASE Executed(c) /\ c.do = "set"
  BY <1>1, <1>4, CommandForm DEF Executed
<1>5. CASE Executed(c) /\ c.do = "create"
  BY <1>1, <1>5 DEF Executed, Kept
<1>6. CASE Executed(c) /\ c.do = "wipe"
  BY <1>1, <1>6, Effect
<1>7. CASE Executed(c) /\ c.do = "flushdb"
  BY <1>1, <1>7, Effect
<1>8. QED
  BY <1>2, <1>3, <1>4, <1>5, <1>6, <1>7, CommandForm DEF ExecutedLate

-----------------------------------------------------------------------------
(* The parts of the invariant *)

\* Nothing has started: the invariant holds, with or without an index.
LEMMA InitIInv == Init => IInv
BY DEF Init, IInv, TypeOK, WriterPlaces, Places, DocInv, BeforeInv, WipedInv, IndexLostOnlyByFailure

\* A step that stores nothing keeps what is known of the documents, as failures are
\* remembered and what is removed is recorded.
LEMMA DocFrame ==
  ASSUME IInv, Kept \/ Emptied, failed \subseteq failed', UNCHANGED writer
  PROVE  \A d \in Writes : DocInv(d)'
<1> SUFFICES ASSUME NEW d \in Writes PROVE DocInv(d)'
  OBVIOUS
<1>1. DocInv(d)
  BY DEF IInv
<1>2. CASE Kept
  BY <1>1, <1>2 DEF DocInv, Broken, Kept
<1>3. CASE Emptied
  BY <1>1, <1>3 DEF DocInv, Broken, Emptied, IInv, TypeOK
<1>4. QED
  BY <1>2, <1>3

\* Such a step keeps what is known of the flushes whose place it leaves alone.
LEMMA FlushFrame ==
  ASSUME IInv, Kept \/ Emptied, failed \subseteq failed', UNCHANGED writer,
         NEW f \in Flushes, flush'[f] = flush[f], before'[f] = before[f]
  PROVE  BeforeInv(f)' /\ WipedInv(f)'
<1>1. BeforeInv(f) /\ WipedInv(f)
  BY DEF IInv
<1>2. BeforeInv(f)'
  BY <1>1 DEF BeforeInv, Broken
<1>3. CASE Kept
  BY <1>1, <1>2, <1>3 DEF WipedInv, Broken, Kept
<1>4. CASE Emptied
  BY <1>2, <1>4 DEF WipedInv, Emptied
<1>5. QED
  BY <1>3, <1>4

\* A pod that boots creates the index, or an attempt to do so has failed.
LEMMA BootStep ==
  ASSUME IInv, NEW p \in Pods, PodBoots(p)
  PROVE  IInv'
<1>t. TypeOK
  BY DEF IInv
<1>1. /\ Succeeds(Command("create", p)) \/ Fails(Command("create", p))
      /\ up' = up \cup {p} /\ UNCHANGED <<writer, flush, before>>
  BY DEF PodBoots
<1>2. /\ Kept \/ Emptied
      /\ failed \subseteq failed' /\ failed' \subseteq Commands /\ late' \subseteq failed'
      /\ \/ Command("create", p) \in failed' /\ index' = index
         \/ index' = TRUE
  BY <1>t, <1>1, CallEffect
<1>3. TypeOK'
  BY <1>t, <1>1, <1>2 DEF TypeOK, Kept, Emptied
<1>4. \A d \in Writes : DocInv(d)'
  BY <1>1, <1>2, DocFrame
<1>5. \A f \in Flushes : BeforeInv(f)' /\ WipedInv(f)'
  BY <1>1, <1>2, FlushFrame
<1>6. IndexLostOnlyByFailure'
  <2>1. Command("create", p).do = "create"
    BY DEF Command
  <2>2. CASE index' = TRUE
    BY <2>2 DEF IndexLostOnlyByFailure
  <2>3. CASE Command("create", p) \in failed'
    BY <2>1, <2>3 DEF IndexLostOnlyByFailure
  <2>4. QED
    BY <1>2, <2>2, <2>3
<1>7. QED
  BY <1>3, <1>4, <1>5, <1>6 DEF IInv

\* SetCache: what it stores it has either not failed to store before, or is known to.
LEMMA WriteStep ==
  ASSUME IInv, NEW w \in Writes, StartSet(w) \/ SetCache(w) \/ Expire(w) \/ SetFails(w)
  PROVE  IInv'
<1>t. TypeOK
  BY DEF IInv
<1>1. UNCHANGED <<index, removed, up, flush, before>> /\ failed \subseteq failed'
      /\ failed' \subseteq failed \cup {Command("set", w)} /\ late' \subseteq late \cup {Command("set", w)}
  BY DEF StartSet, SetCache, Expire, SetFails, redisVars, HSet, AttemptFails
<1>2. /\ docs \subseteq docs' /\ docs' \subseteq docs \cup {w}
      /\ mortal \subseteq mortal' /\ mortal' \subseteq mortal \cup ({w} \cap docs)
      /\ w \in docs' \ docs => writer[w] = "sending"
  BY DEF StartSet, SetCache, Expire, SetFails, redisVars, HSet
<1>3. writer' \in [Writes -> WriterPlaces] /\ \A d \in Writes \ {w} : writer'[d] = writer[d]
  BY <1>t DEF StartSet, SetCache, Expire, SetFails, TypeOK, WriterPlaces
<1>4. TypeOK'
  <2>1. failed' \subseteq Commands
    BY <1>t, <1>1, CommandType DEF TypeOK
  <2>2. late' \subseteq failed'
    BY <1>t DEF StartSet, SetCache, Expire, SetFails, AttemptFails, TypeOK
  <2>3. QED
    BY <1>t, <1>1, <1>2, <1>3, <2>1, <2>2 DEF TypeOK
<1>5. ASSUME NEW d \in Writes PROVE DocInv(d)'
  <2>1. DocInv(d)
    BY DEF IInv
  <2>2. CASE d # w
    BY <1>1, <1>2, <1>3, <2>1, <2>2 DEF DocInv, Broken
  <2>3. CASE d = w /\ StartSet(w)
    BY <1>t, <2>1, <2>3 DEF StartSet, DocInv, Broken, redisVars, TypeOK
  <2>4. CASE d = w /\ SetCache(w)
    BY <1>t, <2>1, <2>4 DEF SetCache, HSet, DocInv, Broken, TypeOK
  <2>5. CASE d = w /\ Expire(w)
    BY <1>t, <2>1, <2>5 DEF Expire, DocInv, Broken, TypeOK
  <2>6. CASE d = w /\ SetFails(w)
    BY <1>t, <2>1, <2>6 DEF SetFails, AttemptFails, DocInv, Broken, TypeOK
  <2>7. QED
    BY <2>2, <2>3, <2>4, <2>5, <2>6
<1>6. ASSUME NEW f \in Flushes PROVE BeforeInv(f)' /\ WipedInv(f)'
  <2>1. BeforeInv(f) /\ WipedInv(f)
    BY DEF IInv
  <2>2. before[f] \subseteq Writes
    BY <1>t DEF TypeOK
  <2>3. w \in before[f] => writer'[w] \in Stored \/ Broken(w)'
    BY <1>t, <2>1 DEF BeforeInv, Broken, Stored, TypeOK, StartSet, SetCache, Expire, SetFails,
           AttemptFails
  <2>4. BeforeInv(f)'
    BY <1>1, <1>3, <2>1, <2>2, <2>3 DEF BeforeInv, Broken
  <2>5. w \in before[f] /\ w \in docs' \ docs => Broken(w)
    BY <1>2, <2>1 DEF BeforeInv, Stored
  <2>6. WipedInv(f)'
    BY <1>1, <1>2, <2>1, <2>5 DEF WipedInv, Broken
  <2>7. QED
    BY <2>4, <2>6
<1>7. IndexLostOnlyByFailure'
  BY <1>1 DEF IInv, IndexLostOnlyByFailure
<1>8. QED
  BY <1>4, <1>5, <1>6, <1>7 DEF IInv

\* The calls of a flush.  FlushDB is the only one that drops the index, and the next
\* one creates it.
LEMMA FlushInv ==
  ASSUME IInv, NEW f \in Flushes, FlushStep(f)
  PROVE  IInv'
<1>t. TypeOK
  BY DEF IInv
<1>1. CASE StartFlush(f)
  <2>1. UNCHANGED <<redisVars, up, writer, failed, late>> /\ flush[f] = "idle"
        /\ flush' = [flush EXCEPT ![f] = "wiping"]
        /\ before' = [before EXCEPT ![f] = docs \cup {w \in Writes : writer[w] \in Stored}]
    BY <1>1 DEF StartFlush
  <2>2. Kept
    BY <2>1 DEF Kept, redisVars
  <2>3. TypeOK'
    BY <1>t, <2>1 DEF TypeOK, Places, redisVars
  <2>4. \A d \in Writes : DocInv(d)'
    BY <2>1, <2>2, DocFrame
  <2>5. \A g \in Flushes \ {f} : BeforeInv(g)' /\ WipedInv(g)'
    BY <1>t, <2>1, <2>2, FlushFrame DEF TypeOK
  <2>6. BeforeInv(f)'
    <3>1. before'[f] = docs \cup {w \in Writes : writer[w] \in Stored}
      BY <1>t, <2>1 DEF TypeOK
    <3>2. \A d \in docs : writer[d] \in Stored \/ Broken(d)
      BY <1>t DEF IInv, DocInv, TypeOK, WriterPlaces, Stored
    <3>3. QED
      BY <2>1, <3>1, <3>2 DEF BeforeInv, Broken
  <2>7. WipedInv(f)'
    BY <1>t, <2>1 DEF WipedInv, TypeOK
  <2>8. IndexLostOnlyByFailure'
    BY <1>t, <2>1 DEF IInv, IndexLostOnlyByFailure, redisVars, TypeOK
  <2>9. QED
    BY <2>3, <2>4, <2>5, <2>6, <2>7, <2>8 DEF IInv
<1>2. CASE WipeCache(f)
  <2>1. flush[f] = "wiping" /\ Call(f, "wipe", "sessions", "dropping")
    BY <1>2 DEF WipeCache
  <2>2. /\ Kept \/ Emptied
        /\ failed \subseteq failed' /\ failed' \subseteq Commands /\ late' \subseteq failed'
        /\ UNCHANGED <<up, writer, before>> /\ index' = index
        /\ \/ flush' = [flush EXCEPT ![f] = "sessions"] /\ Emptied
           \/ flush' = [flush EXCEPT ![f] = "dropping"]
    BY <1>t, <2>1, FlushCall DEF Places
  <2>3. TypeOK'
    BY <1>t, <2>2 DEF TypeOK, Places, Kept, Emptied
  <2>4. \A d \in Writes : DocInv(d)'
    BY <2>2, DocFrame
  <2>5. \A g \in Flushes \ {f} : BeforeInv(g)' /\ WipedInv(g)'
    BY <1>t, <2>2, FlushFrame DEF TypeOK
  <2>6. BeforeInv(f)'
    BY <2>2 DEF IInv, BeforeInv, Broken
  <2>7. WipedInv(f)'
    BY <1>t, <2>2 DEF WipedInv, TypeOK, Emptied
  <2>8. IndexLostOnlyByFailure'
    BY <1>t, <2>1, <2>2 DEF IInv, IndexLostOnlyByFailure, TypeOK
  <2>9. QED
    BY <2>3, <2>4, <2>5, <2>6, <2>7, <2>8 DEF IInv
<1>3. CASE FlushDB(f)
  <2>1. flush[f] = "dropping" /\ Call(f, "flushdb", "creating", "creating")
    BY <1>3 DEF FlushDB
  <2>2. /\ Kept \/ Emptied
        /\ failed \subseteq failed' /\ failed' \subseteq Commands /\ late' \subseteq failed'
        /\ UNCHANGED <<up, writer, before>>
        /\ flush' = [flush EXCEPT ![f] = "creating"]
        /\ index' \in BOOLEAN
        /\ Emptied \/ Command("flushdb", f) \in failed'
    BY <1>t, <2>1, FlushCall DEF Places, TypeOK
  <2>3. TypeOK'
    BY <1>t, <2>2 DEF TypeOK, Places, Kept, Emptied
  <2>4. \A d \in Writes : DocInv(d)'
    BY <2>2, DocFrame
  <2>5. \A g \in Flushes \ {f} : BeforeInv(g)' /\ WipedInv(g)'
    BY <1>t, <2>2, FlushFrame DEF TypeOK
  <2>6. BeforeInv(f)'
    BY <2>2 DEF IInv, BeforeInv, Broken
  <2>7. WipedInv(f)'
    BY <1>t, <2>2 DEF WipedInv, TypeOK, Emptied
  <2>8. IndexLostOnlyByFailure'
    BY <1>t, <2>2 DEF IndexLostOnlyByFailure, TypeOK
  <2>9. QED
    BY <2>3, <2>4, <2>5, <2>6, <2>7, <2>8 DEF IInv
<1>4. CASE InitializeIndex(f)
  <2>1. flush[f] = "creating" /\ Call(f, "create", "sessions", "sessions")
    BY <1>4 DEF InitializeIndex
  <2>2. /\ Kept \/ Emptied
        /\ failed \subseteq failed' /\ failed' \subseteq Commands /\ late' \subseteq failed'
        /\ UNCHANGED <<up, writer, before>>
        /\ flush' = [flush EXCEPT ![f] = "sessions"]
        /\ index' \in BOOLEAN
        /\ index' = TRUE \/ Command("create", f) \in failed'
    BY <1>t, <2>1, FlushCall DEF Places, TypeOK
  <2>3. TypeOK'
    BY <1>t, <2>2 DEF TypeOK, Places, Kept, Emptied
  <2>4. \A d \in Writes : DocInv(d)'
    BY <2>2, DocFrame
  <2>5. \A g \in Flushes \ {f} : BeforeInv(g)' /\ WipedInv(g)'
    BY <1>t, <2>2, FlushFrame DEF TypeOK
  <2>6. BeforeInv(f)'
    BY <2>2 DEF IInv, BeforeInv, Broken
  <2>7. WipedInv(f)'
    <3>1. \A d \in before[f] \cap docs : Command("flushdb", f) \in failed \/ Broken(d)
      BY <2>1 DEF IInv, WipedInv
    <3>2. QED
      BY <2>2, <3>1 DEF WipedInv, Broken, Kept, Emptied
  <2>8. IndexLostOnlyByFailure'
    <3>1. Command("create", f).do = "create"
      BY DEF Command
    <3>2. CASE index' = TRUE
      BY <3>2 DEF IndexLostOnlyByFailure
    <3>3. CASE Command("create", f) \in failed'
      BY <3>1, <3>3 DEF IndexLostOnlyByFailure
    <3>4. QED
      BY <2>2, <3>2, <3>3
  <2>9. QED
    BY <2>3, <2>4, <2>5, <2>6, <2>7, <2>8 DEF IInv
<1>5. CASE WipeSessions(f)
  <2>1. UNCHANGED <<redisVars, up, writer, failed, late, before>> /\ flush[f] = "sessions"
        /\ flush' = [flush EXCEPT ![f] = "replied"]
    BY <1>5 DEF WipeSessions
  <2>2. Kept
    BY <2>1 DEF Kept, redisVars
  <2>3. TypeOK'
    BY <1>t, <2>1 DEF TypeOK, Places, redisVars
  <2>4. \A d \in Writes : DocInv(d)'
    BY <2>1, <2>2, DocFrame
  <2>5. \A g \in Flushes \ {f} : BeforeInv(g)' /\ WipedInv(g)'
    BY <1>t, <2>1, <2>2, FlushFrame DEF TypeOK
  <2>6. BeforeInv(f)' /\ WipedInv(f)'
    BY <2>1 DEF IInv, BeforeInv, WipedInv, Broken, redisVars
  <2>7. IndexLostOnlyByFailure'
    BY <1>t, <2>1 DEF IInv, IndexLostOnlyByFailure, redisVars, TypeOK
  <2>8. QED
    BY <2>3, <2>4, <2>5, <2>6, <2>7 DEF IInv
<1>6. QED
  BY <1>1, <1>2, <1>3, <1>4, <1>5 DEF FlushStep

\* A copy that is executed late had failed, which is what the invariant asks of it.
LEMMA LateStep ==
  ASSUME IInv, NEW c \in Commands, ExecutedLate(c)
  PROVE  IInv'
<1>t. TypeOK
  BY DEF IInv
<1>1. /\ c \in failed
      /\ UNCHANGED <<up, writer, flush, failed, before>> /\ late' \subseteq failed
      /\ \/ Kept /\ UNCHANGED index
         \/ Kept /\ c.do = "create" /\ index' = TRUE
         \/ Emptied /\ c.do = "wipe" /\ UNCHANGED index
         \/ Emptied /\ c.do = "flushdb" /\ index' = FALSE
         \/ \E w \in Writes :
              /\ c = Command("set", w)
              /\ docs' = docs \cup {w} /\ mortal' \in {mortal, mortal \cup {w}}
              /\ UNCHANGED <<index, removed>>
  BY <1>t, LateEffect
<1>2. IndexLostOnlyByFailure'
  BY <1>1 DEF IInv, IndexLostOnlyByFailure
<1>3. CASE Kept \/ Emptied
  <2>1. TypeOK'
    BY <1>t, <1>1, <1>3 DEF TypeOK, Kept, Emptied
  <2>2. \A d \in Writes : DocInv(d)'
    BY <1>1, <1>3, DocFrame
  <2>3. \A f \in Flushes : BeforeInv(f)' /\ WipedInv(f)'
    BY <1>1, <1>3, FlushFrame
  <2>4. QED
    BY <1>2, <2>1, <2>2, <2>3 DEF IInv
<1>4. CASE \E w \in Writes :
              /\ c = Command("set", w)
              /\ docs' = docs \cup {w} /\ mortal' \in {mortal, mortal \cup {w}}
              /\ UNCHANGED <<index, removed>>
  <2>1. PICK w \in Writes :
              /\ c = Command("set", w)
              /\ docs' = docs \cup {w} /\ mortal' \in {mortal, mortal \cup {w}}
              /\ UNCHANGED <<index, removed>>
    BY <1>4
  <2>2. Broken(w)
    BY <1>1, <2>1 DEF Broken
  <2>3. TypeOK'
    BY <1>t, <1>1, <2>1 DEF TypeOK
  <2>4. \A d \in Writes : DocInv(d)'
    BY <1>1, <2>1, <2>2 DEF IInv, DocInv, Broken
  <2>5. \A f \in Flushes : BeforeInv(f)' /\ WipedInv(f)'
    BY <1>1, <2>1, <2>2 DEF IInv, BeforeInv, WipedInv, Broken
  <2>6. QED
    BY <1>2, <2>3, <2>4, <2>5 DEF IInv
<1>5. QED
  BY <1>1, <1>3, <1>4

\* A document that expires is recorded as removed.
LEMMA ExpireStep ==
  ASSUME IInv, NEW d \in Writes, Expires(d)
  PROVE  IInv'
<1>t. TypeOK
  BY DEF IInv
<1>1. /\ docs' = docs \ {d} /\ mortal' = mortal \ {d} /\ removed' = removed \cup {d}
      /\ UNCHANGED <<index, up, writer, flush, failed, late, before>>
  BY DEF Expires, Remove
<1>2. TypeOK'
  BY <1>t, <1>1 DEF TypeOK
<1>3. \A e \in Writes : DocInv(e)'
  BY <1>1 DEF IInv, DocInv, Broken
<1>4. \A f \in Flushes : BeforeInv(f)' /\ WipedInv(f)'
  BY <1>1 DEF IInv, BeforeInv, WipedInv, Broken
<1>5. IndexLostOnlyByFailure'
  BY <1>1 DEF IInv, IndexLostOnlyByFailure
<1>6. QED
  BY <1>2, <1>3, <1>4, <1>5 DEF IInv

\* One step keeps the invariant.
LEMMA StepIInv == IInv /\ [Next]_vars => IInv'
<1> SUFFICES ASSUME IInv, [Next]_vars PROVE IInv'
  OBVIOUS
<1>1. CASE UNCHANGED vars
  BY <1>1 DEF vars, IInv, TypeOK, DocInv, BeforeInv, WipedInv, Broken, IndexLostOnlyByFailure
<1>2. QED
  BY <1>1, BootStep, WriteStep, FlushInv, LateStep, ExpireStep DEF Next, AllEnded

-----------------------------------------------------------------------------
(* The theorems *)

\* IInv holds in every reachable state.
THEOREM Invariance == Spec => []IInv
BY InitIInv, StepIInv, PTL DEF Spec

\* The documents are those of writes, the mortal ones are documents, and what may still
\* be executed has failed.
THEOREM TypeCorrect == Spec => []TypeOK
<1>1. IInv => TypeOK
  BY DEF IInv
<1>2. QED
  BY Invariance, <1>1, PTL

\* However many flushes and pods there are, lookups lose their index only to a failed
\* attempt to drop or to create it (main.go:108, querycache.go:201-202).
THEOREM IndexSurvives == Spec => []IndexLostOnlyByFailure
<1>1. IInv => IndexLostOnlyByFailure
  BY DEF IInv
<1>2. QED
  BY Invariance, <1>1, PTL

\* What a flush had to remove is gone at its reply, but for failed attempts.
THEOREM FlushRemovesAll == Spec => []SurvivorsNeedFailure
<1>1. IInv => SurvivorsNeedFailure
  BY DEF IInv, WipedInv, SurvivorsNeedFailure, Broken
<1>2. QED
  BY Invariance, <1>1, PTL

\* A document without a time to live is left by an attempt that broke between HSET and
\* EXPIRE (querycache.go:168-174).
THEOREM DocumentsAreMortal == Spec => []ImmortalNeedsFailure
<1>1. IInv => ImmortalNeedsFailure
  <2> SUFFICES ASSUME IInv, NEW d \in docs \ mortal, writer[d] \in {"ok", "error"}
               PROVE  Command("set", d) \in failed /\ (writer[d] = "ok" => d \in removed)
    BY DEF ImmortalNeedsFailure
  <2>1. d \in Writes
    BY DEF IInv, TypeOK
  <2>2. QED
    BY <2>1 DEF IInv, DocInv, Broken
<1>2. QED
  BY Invariance, <1>1, PTL
=============================================================================
