\* Commands for three files never stop.
SPECIFICATION FairSpec
CONSTANTS
    BitsPerLong = 2
    Files <- MCFiles
    Size <- MCSize
    Requests <- MCRequests
    Clients = {c1}
    Jobs = {j1, j2}
    NoJob = NoJob
    Mode = "busy"
INVARIANTS
    NoUseAfterFree
    OneJobPerFile
    MarksAreBlocks
    NoLostWakeup
PROPERTIES
    ImplementsFileServer
    MarksAreHandled
