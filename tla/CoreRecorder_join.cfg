SPECIFICATION Spec
CONSTANTS
  PhaseLength = 4
  Phases = 3
  MaxEvents = 4
  Work = {1, 3}
  Latencies = {2}
  Contention = {0, 1, 5}
INVARIANTS SkewIsSound ContentionAccounted
