\* Two files and three slots: every call at every state, damaged ones included.
SPECIFICATION ApiSpec
CONSTANTS
    Names = {n1, n2}
    FBlocks = {1, 2, 3}
    Payloads = {p1, p2}
    NumBlocks = 3
    Blank = Blank
    NoBlock = NoBlock
    MaxEntries = 3
SYMMETRY Symmetry
INVARIANTS
    NoSlotLeaked
    FaultsAreNoticed
PROPERTIES
    WrittenIsRead
    OthersUndisturbed
