SPECIFICATION FairSpec
CONSTANTS
    Clients = {c1, c2}
    Backlog = 1
    MaxLines = 2
    NoConn = NoConn
INVARIANTS OwnAnswers NothingHeldAtAccept
PROPERTY ClientsFinish
CHECK_DEADLOCK FALSE
