\* Clients without a session header share one history.
SPECIFICATION Spec
CONSTANTS
  t1 = t1
  t2 = t2
  t3 = t3
  Turns = {t1, t2, t3}
  Clients = {"ann", "bob", "cyd"}
  ClientOf <- MCThreeClients
  Header <- MCAnonymous
  NoHeader = NoHeader
  BadHeader = BadHeader
  HistoryLimit = 3
  MaxRetries = 0
  DriverSends = 1
INVARIANTS
  HistoryIsOwn
