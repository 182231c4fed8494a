\* Three hosts other than the server and two records: the table can be full
\* of live hosts, and records are given up.  Six seconds: three thresholds.
SPECIFICATION Spec
CONSTANTS
    Hosts = {self, h1, h2, h3}
    Self = self
    NoHost = NoHost
    MaxHosts = 2
    DeadThreshold = 1
    Start = 2
    MaxTime = 7
SYMMETRY Symmetry
\* exit(1) on a full table, and the end of the modelled time.
CHECK_DEADLOCK FALSE
INVARIANTS
    OneRecordPerHost
    LiveHostsKnown
    LiveRecordsTrue
PROPERTIES
    ExitOnlyWhenFull
    BroadcastTrue
