---------------------------- MODULE MCScheduler ----------------------------
\* Three threads on two cores; one of them may use the first core only.
EXTENDS Scheduler

CONSTANTS t1, t2, t3

MCThreads == {t1, t2, t3}
MCMask == [t \in MCThreads |-> IF t = t3 THEN {0} ELSE {0, 1}]
=============================================================================
