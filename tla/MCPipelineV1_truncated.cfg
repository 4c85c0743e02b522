\* One streamed request: what a broken stream leaves in the cache.
SPECIFICATION ApiSpec
CONSTANTS
  Requests = {"request"}
  NoQuery = "empty"
  Queries = {"empty", "wife"}
  Similarity <- MCSimilarity
  ModesOf <- MCStreamOnly
  Headers <- MCHeaders
  MaxLines = 3
  MaxHeard = 4
  MaxEntries = 1
INVARIANT OnlyWholeAnswersCached
