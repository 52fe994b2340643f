SPECIFICATION FairSpec
CONSTANTS
    Nodes = {n1, n2}
    NULL = NULL
    MatchLast = FALSE
PROPERTY RemoveEnds
