\* GetSession reads the oldest lines of a conversation.
SPECIFICATION Spec
CONSTANTS
  t1 = t1
  t2 = t2
  t3 = t3
  Turns = {t1, t2}
  Clients = {"ann"}
  ClientOf <- MCOneClient
  Header <- MCUlid
  NoHeader = NoHeader
  BadHeader = BadHeader
  HistoryLimit = 3
  MaxRetries = 0
  DriverSends = 1
INVARIANTS
  LatestLineInWindow
