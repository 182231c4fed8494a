\* The MAXFORKS of recv3.c.  A parent that waits for ever polls its counter:
\* it is stuck, and never deadlocked.
SPECIFICATION FairSpec
CONSTANT
    MaxForks = 10
CHECK_DEADLOCK TRUE
INVARIANTS
    CounterExact
    ForkLimit
PROPERTY
    WaitEnds
