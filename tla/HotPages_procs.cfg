SPECIFICATION Spec
CONSTANTS
  A = A
  B = B
  P = P
  Q = Q
  Cores = {A, B}
  Kinds = {"d"}
  Procs = {P, Q}
  ProcOf <- TwoProcesses
  Vpns = {v1, v2}
  Frames = {f1, f2, f3}
  Blocks = {b1}
  TlbSize = 2
  Threshold = 2
SYMMETRY PageSymmetry
CHECK_DEADLOCK FALSE
INVARIANT BlocksMapped
