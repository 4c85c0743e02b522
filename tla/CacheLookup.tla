---------------------------- MODULE CacheLookup ----------------------------
(***************************************************************************)
(* The evaluation of one semantic-cache lookup (QueryCache.GetCache in     *)
(* internal/cache/querycache.go): FT.SEARCH with KNN 1 over every stored   *)
(* vector, then the comparison of the single neighbour with the request's  *)
(* threshold.  An embedding is abstracted to the query it embeds and the   *)
(* cosine geometry to the table Similarity, in percent.                    *)
(***************************************************************************)
EXTENDS RequestMetadata

CONSTANTS
  Queries,      \* query texts, the empty text included
  NoQuery,      \* the empty query text
  Similarity    \* 100 * (1 - cosine distance) of two queries

ASSUME QueriesAssumption ==
  /\ NoQuery \in Queries
  /\ Similarity \in [Queries \X Queries -> -100..100]

Miss == [hit |-> FALSE, answer |-> "empty"]

\* KNN 1: a document no other document is closer than.  Ties are broken by
\* RediSearch, so any nearest document can be the one returned.
Nearest(entries, q) ==
  {e \in entries : \A f \in entries : Similarity[q, f.query] =< Similarity[q, e.query]}

MatchesAboveThreshold(entries, q, threshold) ==
  {e \in Nearest(entries, q) : Similarity[q, e.query] >= threshold}

\* The reply counts a match but carries no document (it expired while the query
\* ran): answer and distance keep their zero values, and 1 - 0 passes every
\* threshold.
PhantomHits(entries) ==
  IF entries = {} THEN {} ELSE {[hit |-> TRUE, answer |-> "empty"]}

\* Every (answer, hit) pair GetCache can return.  A miss is always possible: the
\* search has a 50 ms budget and no retry, and an error is reported as a miss.
GetCache(entries, q, threshold) ==
  {Miss} \cup PhantomHits(entries)
         \cup {[hit |-> TRUE, answer |-> e.answer] :
                 e \in MatchesAboveThreshold(entries, q, threshold)}
=============================================================================
