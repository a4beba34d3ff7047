SPECIFICATION FairSpec
CONSTANT Threads = {t1, t2, t3}
INVARIANTS MutualExclusion NoLostWakeup
PROPERTIES SomebodyEnters
CHECK_DEADLOCK TRUE
