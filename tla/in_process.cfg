SPECIFICATION Spec
CONSTANTS
  Clients = {c1, c2}
  Tokens = {t1, t2, t3}
  Free = Free
  Callers = {k1, k2, k3, k4}
  Threshold = 3
INVARIANTS ClosedBelowThreshold
PROPERTIES ImplementsDistLock OpenUntilCooled
