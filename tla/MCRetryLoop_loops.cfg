\* Every goroutine that retries, with the settings of main.
SPECIFICATION FairSpec
CONSTANTS
  Overrun = 3000
  Never = 1000000
  Latencies <- MCLatencies
INVARIANTS
  TypeOK
  EndsWithContext
  SavesAreBounded
  LimitedTwiceIsLost
  NoDeadEnd
PROPERTIES
  EveryLoopEnds
