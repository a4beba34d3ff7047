SPECIFICATION FairSpec
CONSTANTS
    t1 = t1
    t2 = t2
    t3 = t3
    Threads <- MCThreads
    NULL = NULL
    numCores = 2
    Limits = {1, 2}
    schedQuantum = 2
    mask <- MCMask
    Syscalls = {s1}
    SleepPhases = {1, 2}
INVARIANTS EverybodyAccounted NoContextWasted HandoffsAreSeen SleepersOnTime
PROPERTY EverybodyServed
CHECK_DEADLOCK FALSE
