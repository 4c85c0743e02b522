\* The drain does not wait for the writes of V1.
SPECIFICATION Spec
CONSTANTS
  Requests = {"chat"}
  KindOf <- MCKinds
  BootSteps = 5
  IndexStep = 4
  ShutdownBudget = 2
  DrainBudget = 2
  GracePeriod = 5
INVARIANTS
  AllWritesDrained
