\* Every kind of request in flight when the pod is stopped, none of which need end.
SPECIFICATION FairSpec
CONSTANTS
  Requests = {"chat", "stream", "v2"}
  KindOf <- MCKinds
  BootSteps = 5
  IndexStep = 4
  ShutdownBudget = 2
  DrainBudget = 2
  GracePeriod = 5
INVARIANTS
  TypeOK
  CleanShutdownLoses
  CounterExact
PROPERTIES
  NoAddDuringWait
  KilledOnlyAfterDrain
  SignalLeadsThroughDrain
