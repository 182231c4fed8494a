\* Three names and two sizes; up to five entries, so that one name can be
\* in the list several times at the head, in the middle and at the tail.
SPECIFICATION SizeSpec
CONSTANTS
    FileNames = {1, 2, 3}
    Sizes = {0, 7}
    MaxLen = 5
INVARIANTS
    WellFormed
    LatestIsRead
PROPERTY
    OnceIsForgotten
