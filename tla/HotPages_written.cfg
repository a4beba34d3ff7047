SPECIFICATION Spec
CONSTANTS
  A = A
  B = B
  P = P
  Q = Q
  Cores = {A}
  Kinds = {"d"}
  Procs = {P}
  ProcOf <- AlonePinned
  Vpns = {v1, v2}
  Frames = {f1, f2}
  Blocks = {b1}
  TlbSize = 1
  Threshold = 2
SYMMETRY PageSymmetry
INVARIANT NoWriteDropped
