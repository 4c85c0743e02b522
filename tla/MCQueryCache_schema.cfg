\* The fallback of a flush loses the index.
SPECIFICATION Spec
CONSTANTS
  p1 = p1
  f1 = f1
  f2 = f2
  w1 = w1
  Pods = {p1}
  Flushes = {f1}
  Writes = {w1}
INVARIANTS
  SchemaPreserved
