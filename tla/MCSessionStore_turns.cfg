\* Two turns of one conversation that overlap, each call with a retry.
SPECIFICATION Spec
CONSTANTS
  t1 = t1
  t2 = t2
  t3 = t3
  Turns = {t1, t2}
  Clients = {"ann"}
  ClientOf <- MCOneClient
  Header <- MCUlid
  NoHeader = NoHeader
  BadHeader = BadHeader
  HistoryLimit = 3
  MaxRetries = 1
  DriverSends = 1
INVARIANTS
  TypeOK
  CopiesBounded
  AckedIsStored
  UserBeforeBot
  AnswersReadWithQuestions
PROPERTIES
  AckedIsRead
SYMMETRY TurnSymmetry
