\* Three blocks in two words, and commands of a single range: a request may
\* need two commands, and a range may cross words from their second bit.
SPECIFICATION FairSpec
CONSTANTS
    BitsPerLong = 2
    File = File
    N = 3
    MaxRanges = 1
    MaxInt = 9
    Foreign = Foreign
    Short = Short
    Strays <- MCStrays
    MaxCommands = 2
\* The client ends.
CHECK_DEADLOCK FALSE
INVARIANTS
    NeededExact
    WithinLimit
    AsksForMissing
PROPERTIES
    MarkedIsAsked
    Finish
