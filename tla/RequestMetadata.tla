-------------------------- MODULE RequestMetadata --------------------------
(***************************************************************************)
(* ParseRequestMetadata (internal/config/config.go): what the gateway      *)
(* takes from the headers of a request.  A header is abstracted to what    *)
(* the parser tells apart, numbers to percent.                             *)
(***************************************************************************)
EXTENDS Integers

\* Thresholds a request can carry: 0.0 - 1.0, in percent.
Threshold == 0..100

FeatureState ==
  [SkipCache : BOOLEAN, NoSession : BOOLEAN, SimilarityThreshold : Threshold]

\* A number outside the range is as far outside as need be.
Header ==
  [session   : {"absent", "ulid", "malformed"},
   skip      : {"absent", "true", "other"},
   nosession : {"absent", "true", "other"},
   threshold : {"absent", "malformed", "number"},
   number    : -1..101]

\* A threshold that is no number, or none of the range, leaves the default.
ThresholdOf(h) ==
  IF h.threshold = "number" /\ h.number \in Threshold THEN h.number ELSE 90

Flags(h) ==
  [SkipCache |-> h.skip = "true",
   NoSession |-> h.nosession = "true",
   SimilarityThreshold |-> ThresholdOf(h)]

\* A session id is checked only when there is one.
Valid(h) == h.session # "malformed"

\* A malformed id is served without a session.
ChatFlags(h) == [Flags(h) EXCEPT !.NoSession = @ \/ ~Valid(h)]
=============================================================================
