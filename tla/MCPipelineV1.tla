---------------------------- MODULE MCPipelineV1 ----------------------------
(* Instances of PipelineV1 and OpenAIStream for TLC. *)
EXTENDS OpenAIStream

MCSimilarity ==
  [p \in Queries \X Queries |-> IF p[1] = p[2] THEN 100 ELSE 92]

MCHeader(session, skip, nosession, threshold) ==
  [session |-> session, skip |-> skip, nosession |-> nosession,
   threshold |-> threshold, number |-> 95]

\* A client with a session and a strict threshold; one whose session id and threshold
\* are malformed; and a stateless one that skips the cache.
MCHeaders ==
  {MCHeader("ulid", "absent", "absent", "number"),
   MCHeader("malformed", "other", "other", "malformed"),
   MCHeader("absent", "true", "true", "absent")}

MCModesOf == [r \in Requests |-> Modes]

MCStreamOnly == [r \in Requests |-> {"stream"}]
=============================================================================
