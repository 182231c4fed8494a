\* Two files, three block numbers, three slots: a full cache, blocks stored
\* in descending and mixed order, files deleted and stored anew.
SPECIFICATION Spec
CONSTANTS
    Names = {n1, n2}
    FBlocks = {1, 2, 3}
    Payloads = {p1, p2}
    NumBlocks = 3
    Blank = Blank
    NoBlock = NoBlock
SYMMETRY Symmetry
CHECK_DEADLOCK TRUE
INVARIANTS
    NeverFaults
    SlotFlagsExact
    NoSlotShared
    HeadIsLeast
    ListedHaveBlocks
PROPERTY
    ImplementsFileCache
