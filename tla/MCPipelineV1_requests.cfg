\* One request of any kind, beside a V2 engine that writes to the same cache.
SPECIFICATION ApiFairSpec
CONSTANTS
  Requests = {"request"}
  NoQuery = "empty"
  Queries = {"empty", "wife"}
  Similarity <- MCSimilarity
  ModesOf <- MCModesOf
  Headers <- MCHeaders
  MaxLines = 3
  MaxHeard = 4
  MaxEntries = 1
INVARIANTS
  TypeOK
  StoredWasStreamed
  EndAfterStore
  NoErrorCached
  OpenAITypeOK
  TokensTranslated
  DoneMeansWhole
PROPERTIES
  ImplementsStream
  EveryRequestEnds
