\* Two flushes, a boot and a write that share one Redis.
SPECIFICATION Spec
CONSTANTS
  p1 = p1
  f1 = f1
  f2 = f2
  w1 = w1
  Pods = {p1}
  Flushes = {f1, f2}
  Writes = {w1}
SYMMETRY FlushSymmetry
INVARIANTS
  TypeOK
  IndexLostOnlyByFailure
  SurvivorsNeedFailure
  ImmortalNeedsFailure
