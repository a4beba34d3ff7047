SPECIFICATION FairSpec
CONSTANTS
  Accesses = {a1, a2, a3}
  Arrivals = {1, 2, 4, 9}
  MinLatency = 3
  Latencies = {4, 5, 8}
  MaxRefusals = 1
INVARIANTS DoneOnTime
PROPERTIES EveryAccessDone
