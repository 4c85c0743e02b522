\* One request with up to three sub-tasks beside V1 writes to the same cache: every
\* interleaving, and termination.
SPECIFICATION FairSpec
CONSTANTS
  Requests = {r1}
  NoQuery = "empty"
  Queries = {"empty", "wife"}
  Similarity <- MCSimilarity
  FeatureStates <- MCTwoClients
  MaxTasks = 3
  MaxBeats = 1
INVARIANTS
  TypeOK
  FanInComplete
  NoPartialAnswerCached
  EveryReplyHasAnswer
PROPERTIES
  ImplementsForkJoin
  EveryRequestSettles
