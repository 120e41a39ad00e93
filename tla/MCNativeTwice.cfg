SPECIFICATION Spec
CONSTANTS
  b1 = b1
  b2 = b2
  b3 = b3
  s1 = s1
  s2 = s2
  p = p
  q = q
  Bodies = {b1, b2}
  Sessions = {s1, s2}
  Projects = {p, q}
  SessionsOf <- SessionsOfBodies
  NativeOf <- NativeOfBodies
  SizeOf <- SizeOfBodies
  Policies <- BothPolicies
  None = None
  QueueCap = 1
  MaxQueued = 3
  MaxDeferred = 1
  DeferTimeout = 1
  MaxTime = 0
  MaxStarts = 2
  MaxChanges = 2
INVARIANTS NeverTwice
CHECK_DEADLOCK FALSE
