--------------------------- MODULE MCPregelEngine ---------------------------
(* Instances of PregelEngine for TLC. *)
EXTENDS PregelEngine

\* Two different queries are close to one another, but not the same; the empty
\* text is close to none.
MCSimilarity ==
  [p \in Queries \X Queries |->
     IF p[1] = p[2] THEN 100 ELSE IF "empty" \in {p[1], p[2]} THEN 10 ELSE 92]

MCFlags(skip, nosession, threshold) ==
  [SkipCache |-> skip, NoSession |-> nosession, SimilarityThreshold |-> threshold]

MCDefaultOnly == {MCFlags(FALSE, FALSE, 90)}

\* The default headers, and a stateless client that skips the cache.
MCTwoClients == {MCFlags(FALSE, FALSE, 90), MCFlags(TRUE, TRUE, 90)}
=============================================================================
