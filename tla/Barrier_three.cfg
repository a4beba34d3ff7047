SPECIFICATION FairSpec
CONSTANTS
    MAX_THREADS = 3
    parallelThreads = 2
    CleanupPeriod = 2
INVARIANTS NoWakeupRace JoinIsSafe ListAndCountersExact NobodyForgotten
PROPERTIES ImplementsPhaseBarrier WaitingThreadRuns
CHECK_DEADLOCK FALSE
