\* Four hosts and three records, one of a host that never answers: records change
\* hands, the table can be full, and a put asks the silent host in vain, again and
\* again.  Two blocks, so that an ACK can be late for the next one.
SPECIFICATION FairSpec
CONSTANTS
    h1 = h1
    h2 = h2
    h3 = h3
    h4 = h4
    Hosts <- MCHosts
    NoHost = NoHost
    MaxHosts = 3
    Tables <- MCTables
    Silent <- MCSilent
    NumBlocks = 2
    MaxFaults = 1
    MaxReused = 1
\* The put ends.
CHECK_DEADLOCK FALSE
INVARIANTS
    CopiesStored
    TwoHosts
    CopiesTooMany
PROPERTIES
    StuckForever
    PutEnds
