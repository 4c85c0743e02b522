\* The synthesizer's failure text is stored in the semantic cache.
SPECIFICATION Spec
CONSTANTS
  Requests = {r1}
  NoQuery = "empty"
  Queries = {"empty", "wife"}
  Similarity <- MCSimilarity
  FeatureStates <- MCDefaultOnly
  MaxTasks = 1
  MaxBeats = 0
INVARIANTS
  OnlySynthesizedAnswersCached
