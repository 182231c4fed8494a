\* One client, words as wide as in the code, commands that never stop: one for
\* the file arrives while its job is freed.
SPECIFICATION Spec
CONSTANTS
    BitsPerLong = 64
    Files <- MCFiles
    Size <- MCSize
    Requests <- MCRequests
    Clients = {c1}
    Jobs = {j1, j2}
    NoJob = NoJob
    Mode = "normal"
CHECK_DEADLOCK FALSE
PROPERTY
    FreedJobsAreDone
