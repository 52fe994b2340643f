SPECIFICATION FairSpec
CONSTANTS
    Nodes = {n1, n2, n3}
    NULL = NULL
    MatchLast = FALSE
INVARIANTS WellFormed NoDanglingPointer
PROPERTIES ImplementsSequence WalksEnd
