SPECIFICATION Spec
CONSTANTS
  A = A
  B = B
  P = P
  Q = Q
  Cores = {A}
  Kinds = {"i", "d"}
  Procs = {P}
  ProcOf <- AlonePinned
  Vpns = {v1, v2, v3}
  Frames = {f1, f2, f3}
  Blocks = {b1, b2}
  TlbSize = 2
  Threshold = 2
SYMMETRY PageSymmetry
INVARIANTS TranslationAgrees MonitorFinds BlocksMapped
