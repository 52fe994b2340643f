SPECIFICATION Spec
CONSTANTS
    MaxBoots = 3
    Micros = 4
    Rates = {1, 2, 8}
    FrameCounts = {1, 2}
    MaxOld = 6
    Anchors <- PageAnchors
    MaxAnchors = 3
    MaxPieces = 3
    UrlBytes = {65, 126, 32, 10, 195}
    RawBytes = {0, 239, 255}
    MaxUrl = 3
    MaxRaw = 4
    MaxCap = 11
    Hosts = {1, 2, 3}
    Nothing = 0
    MaxRuns = 2
    Runs = {r1, r2, r3}
    Cars = 2
    None = None
INVARIANTS  NoSilentWriteFailure FileIsFresh
           SearchComplete LastBytesRead EncodersRight StartsClean InsertsAtomic ScanTrue
           Exclusive ListsOwnCars
CHECK_DEADLOCK FALSE
