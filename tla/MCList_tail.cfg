SPECIFICATION Spec
CONSTANTS
    Nodes = {n1, n2}
    NULL = NULL
    MatchLast = TRUE
INVARIANT SoleNodeIsHead
