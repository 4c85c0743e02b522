----------------------------- MODULE QueryCache -----------------------------
(***************************************************************************)
(* The shared Redis under the semantic cache: the documents SetCache       *)
(* stores, the vector index every lookup needs (GetCache fails without it, *)
(* and a failed lookup is a miss), and DELETE /cache, which wipes the      *)
(* documents and, when its script fails, drops the whole database and      *)
(* creates the index anew.  Several pods share one Redis; each creates the *)
(* index when it boots.                                                    *)
(*                                                                         *)
(* A command is sent in one or more attempts (the driver sends it again    *)
(* after a network error), and an attempt that failed at its caller may    *)
(* still be executed by Redis: at once, later, or never; of the pipeline   *)
(* of SetCache perhaps only the first command.  Abstracted: a document is  *)
(* the SetCache call that stored it; the lists of the sessions, which a    *)
(* flush deletes too, are those of module SessionStore.                    *)
(***************************************************************************)
EXTENDS Integers, FiniteSets

CONSTANTS
  Pods,      \* replicas of the gateway (2 in helm-chart/values.yaml)
  Flushes,   \* DELETE /cache requests
  Writes     \* SetCache calls

VARIABLES
  docs,      \* documents under cache:v1:
  mortal,    \* those that have a time to live
  index,     \* idx:cache exists
  up,        \* pods that have booted
  writer,    \* the place of each SetCache call
  flush,     \* the place of each flush
  failed,    \* commands of which an attempt failed
  late,      \* those of which Redis may still execute such an attempt
  before,    \* the documents that had been stored when a flush began
  removed    \* documents that were deleted or expired, at least once

vars == <<docs, mortal, index, up, writer, flush, failed, late, before, removed>>

redisVars == <<docs, mortal, index, removed>>

-----------------------------------------------------------------------------
(* Data *)

Places == {"idle", "wiping", "dropping", "creating", "sessions", "replied"}

WriterPlaces == {"idle", "sending", "expiring", "ok", "error"}

Stored == {"expiring", "ok"}

\* What a command does to Redis.
Commands ==
  [do : {"set"}, by : Writes] \cup
  [do : {"wipe", "flushdb", "create"}, by : Flushes \cup Pods]

Command(do, by) == [do |-> do, by |-> by]

HSet(d) ==
  /\ docs' = docs \cup {d}
  /\ UNCHANGED <<mortal, index, removed>>

Remove(ds) ==
  /\ docs' = docs \ ds
  /\ mortal' = mortal \ ds
  /\ removed' = removed \cup ds

Executed(c) ==
  CASE c.do = "set" -> /\ docs' = docs \cup {c.by}
                       /\ mortal' = mortal \cup {c.by}
                       /\ UNCHANGED <<index, removed>>
    [] c.do = "wipe" -> Remove(docs) /\ UNCHANGED index
    [] c.do = "flushdb" -> Remove(docs) /\ index' = FALSE
    [] c.do = "create" -> index' = TRUE /\ UNCHANGED <<docs, mortal, removed>>

\* A failed attempt that leaves no trace.
SilentAttemptFails(c) ==
  /\ late' \in {late, late \cup {c}}
  /\ UNCHANGED failed

\* An attempt of a command fails; it may still be on its way.
AttemptFails(c) ==
  /\ failed' = failed \cup {c}
  /\ late' \in {late, late \cup {c}}

\* A call returns nil once Redis has executed an attempt; FT.CREATE does so too
\* when it reports that the index already exists (InitializeIndex).
Succeeds(c) ==
  /\ Executed(c)
  /\ AttemptFails(c) \/ UNCHANGED <<failed, late>>

\* A call returns an error after its last attempt, or with nothing sent when the
\* request context is cancelled.
Fails(c) == AttemptFails(c) /\ UNCHANGED redisVars

-----------------------------------------------------------------------------
(* Pods *)

\* main: the error of InitializeIndex is ignored, and the pod serves.
PodBoots(p) ==
  /\ p \notin up
  /\ up' = up \cup {p}
  /\ Succeeds(Command("create", p)) \/ Fails(Command("create", p))
  /\ UNCHANGED <<writer, flush, before>>

-----------------------------------------------------------------------------
(* SetCache: a fresh key; HSET and EXPIRE in one pipeline, which is no      *)
(* transaction; no retry but the driver's                                  *)

StartSet(w) ==
  /\ up # {}
  /\ writer[w] = "idle"
  /\ writer' = [writer EXCEPT ![w] = "sending"]
  /\ UNCHANGED <<redisVars, up, flush, failed, late, before>>

SetCache(w) ==
  /\ writer[w] = "sending"
  /\ writer' = [writer EXCEPT ![w] = "expiring"]
  /\ HSet(w)
  /\ UNCHANGED <<up, flush, failed, late, before>>

\* The TTL is left out.
ForgottenExpire(w) ==
  /\ writer[w] = "expiring"
  /\ writer' = [writer EXCEPT ![w] = "ok"]
  /\ UNCHANGED <<redisVars, up, flush, failed, late, before>>

\* Of a document that was deleted in between there is nothing left to expire.
Expire(w) ==
  /\ writer[w] = "expiring"
  /\ writer' = [writer EXCEPT ![w] = "ok"]
  /\ mortal' = mortal \cup ({w} \cap docs)
  /\ UNCHANGED <<docs, index, removed, up, flush, failed, late, before>>

\* The connection breaks before the pipeline or in it; the driver sends it again or
\* SetCache returns an error.
SetFails(w) ==
  /\ writer[w] \in {"sending", "expiring"}
  /\ writer' \in {[writer EXCEPT ![w] = p] : p \in {"sending", "error"}}
  /\ AttemptFails(Command("set", w))
  /\ UNCHANGED <<redisVars, up, flush, before>>

-----------------------------------------------------------------------------
(* cacheFlush and FlushCache *)

StartFlush(f) ==
  /\ up # {}
  /\ flush[f] = "idle"
  /\ flush' = [flush EXCEPT ![f] = "wiping"]
  /\ before' = [before EXCEPT ![f] = docs \cup {w \in Writes : writer[w] \in Stored}]
  /\ UNCHANGED <<redisVars, up, writer, failed, late>>

\* One call of FlushCache: it goes to `then' when it succeeds and to `otherwise'
\* when it fails.
Call(f, do, then, otherwise) ==
  /\ \/ Succeeds(Command(do, f)) /\ flush' = [flush EXCEPT ![f] = then]
     \/ Fails(Command(do, f)) /\ flush' = [flush EXCEPT ![f] = otherwise]
  /\ UNCHANGED <<up, writer, before>>

\* FlushCache without its fallback.
FaintWipeCache(f) ==
  /\ flush[f] = "wiping"
  /\ Call(f, "wipe", "sessions", "sessions")

WipeCache(f) ==
  /\ flush[f] = "wiping"
  /\ Call(f, "wipe", "sessions", "dropping")

\* A fallback that forgets to create the index again.
ForgetfulFlushDB(f) ==
  /\ flush[f] = "dropping"
  /\ Call(f, "flushdb", "sessions", "sessions")

\* The results of FlushDB, of InitializeIndex and of the second script are not
\* looked at: FlushCache returns nil and the handler replies 200.
FlushDB(f) ==
  /\ flush[f] = "dropping"
  /\ Call(f, "flushdb", "creating", "creating")

InitializeIndex(f) ==
  /\ flush[f] = "creating"
  /\ Call(f, "create", "sessions", "sessions")

WipeSessions(f) ==
  /\ flush[f] = "sessions"
  /\ flush' = [flush EXCEPT ![f] = "replied"]
  /\ UNCHANGED <<redisVars, up, writer, failed, late, before>>

-----------------------------------------------------------------------------
(* Redis *)

\* A command whose caller has given up is executed after all, perhaps in part, or is
\* lost.
ExecutedLate(c) ==
  /\ c \in late
  /\ late' = late \ {c}
  /\ Executed(c) \/ (c.do = "set" /\ HSet(c.by)) \/ UNCHANGED redisVars
  /\ UNCHANGED <<up, writer, flush, failed, before>>

Expires(d) ==
  /\ d \in mortal
  /\ Remove({d})
  /\ UNCHANGED <<index, up, writer, flush, failed, late, before>>

-----------------------------------------------------------------------------
(* Specification *)

\* Redis keeps its data while no pod runs.
Init ==
  /\ docs = {}
  /\ index \in BOOLEAN
  /\ mortal = {}
  /\ up = {}
  /\ writer = [w \in Writes |-> "idle"]
  /\ flush = [f \in Flushes |-> "idle"]
  /\ failed = {}
  /\ late = {}
  /\ before = [f \in Flushes |-> {}]
  /\ removed = {}

FlushStep(f) ==
  \/ StartFlush(f) \/ WipeCache(f) \/ FlushDB(f) \/ InitializeIndex(f)
  \/ WipeSessions(f)

\* The bound on the calls is reached and all of them have ended.
AllEnded ==
  /\ up = Pods
  /\ \A w \in Writes : writer[w] \in {"ok", "error"}
  /\ \A f \in Flushes : flush[f] = "replied"
  /\ UNCHANGED vars

Next ==
  \/ \E p \in Pods : PodBoots(p)
  \/ \E w \in Writes : StartSet(w) \/ SetCache(w) \/ Expire(w) \/ SetFails(w) \/ Expires(w)
  \/ \E f \in Flushes : FlushStep(f)
  \/ \E c \in Commands : ExecutedLate(c)
  \/ AllEnded

Spec == Init /\ [][Next]_vars

-----------------------------------------------------------------------------
(* Properties *)

TypeOK ==
  /\ docs \subseteq Writes
  /\ mortal \subseteq docs
  /\ index \in BOOLEAN
  /\ up \subseteq Pods
  /\ writer \in [Writes -> WriterPlaces]
  /\ flush \in [Flushes -> Places]
  /\ failed \subseteq Commands
  /\ late \subseteq failed
  /\ before \in [Flushes -> SUBSET Writes]
  /\ removed \subseteq Writes

\* Once a pod serves, lookups have their index, except while a fallback flush is
\* about to create it again - however flushes, boots and late commands interleave -
\* unless an attempt to drop or to create it failed: an error the code ignores
\* (main.go:108, querycache.go:201-202) or the driver hides.
IndexLostOnlyByFailure ==
  up # {} /\ (\A c \in failed : c.do \notin {"flushdb", "create"}) =>
    index \/ \E f \in Flushes : flush[f] = "creating"

\* A document that was stored before a flush and is there after its reply survived a
\* failed fallback, or SetCache had sent it twice: what else a flush leaves are answers
\* whose write was still to come, like those of V1 requests that had just been answered
\* (blocking.go:183).
SurvivorsNeedFailure ==
  \A f \in Flushes : flush[f] = "replied" =>
    \A d \in before[f] \cap docs :
      Command("flushdb", f) \in failed \/ Command("set", d) \in failed

\* A document that no call is writing and that has no time to live - it stays until the
\* next flush, and every similar question gets it - is left by an attempt that broke
\* between HSET and EXPIRE (querycache.go:168-174); and after a SetCache that returned
\* nil only by a late copy of such an attempt that brings back what was deleted.
ImmortalNeedsFailure ==
  \A d \in docs \ mortal : writer[d] \in {"ok", "error"} =>
    /\ Command("set", d) \in failed
    /\ writer[d] = "ok" => d \in removed

\* querycache.go:207: "Strategic wipe complete. Schema preserved."
SchemaPreserved ==
  \A f \in Flushes :
    flush[f] = "replied" /\ (\A p \in Pods : Command("create", p) \notin failed) => index
=============================================================================
