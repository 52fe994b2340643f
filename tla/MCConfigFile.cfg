SPECIFICATION FairSpec
CONSTANTS
    Writers = {"w1"}
    Readers = {"r1"}
    Versions = {"short", "long", "huge"}
    InitVersions = {"short", "long"}
    Len <- MCLen
    MaxLen = 4
    BufCap = 4
    Inodes = {i1, i2, i3}
    None = None
    Overlap = FALSE
INVARIANTS PathIsWhole ResultIsTrue
PROPERTIES ImplementsAtomicFile SaveEnds
