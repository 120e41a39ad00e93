SPECIFICATION Spec
CONSTANTS
  l1 = l1
  l2 = l2
  l3 = l3
  w1 = w1
  w2 = w2
  sweep = sweep
  Lines = {l1, l2, l3}
  Writers = {w1, w2}
  Sweeper = sweep
  PidOf <- TwoProcesses
  RotateAt = 2
  SizeOf <- OneSmall
  Horizon = 0
  Span = 0
  Passes = 2
  NoLine = NoLine
  MaxTime = 2
  MaxFiles = 3
  MaxSweeps = 2
SYMMETRY Symmetry
INVARIANTS LinesLast ExpiredGoes ReadsMissNothing
CHECK_DEADLOCK FALSE
