SPECIFICATION SharedSpec
CONSTANTS
  Cores = {A, B}
  K = 2
  CoreDelay = 0
  MemDelay = 3
  Contention = {7}
  PhaseLength = 7
  Phases = 2
  PQ_BLOCKS = 4
  BlockCycles = 2
INVARIANTS CrossingNotLate Causality QueueExact PhaseComplete
PROPERTY PhaseEnds
