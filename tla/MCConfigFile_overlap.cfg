SPECIFICATION Spec
CONSTANTS
    Writers = {"w1", "w2"}
    Readers = {}
    Versions = {"short", "long", "huge"}
    InitVersions = {"short"}
    Len <- MCLen
    MaxLen = 4
    BufCap = 4
    Inodes = {i1, i2, i3, i4}
    None = None
    Overlap = TRUE
INVARIANT PathIsWhole
SYMMETRY InodeSymmetry
