SPECIFICATION FairSpec
CONSTANTS
  Cores = {c1, c2, c3}
  Lines = {a1, a2}
  L1Ways = 1
  LLCWays = 1
INVARIANTS SingleWriter DirectoryExact DirtyKept AssertionsHold
PROPERTY AccessEnds
