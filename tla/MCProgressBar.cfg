SPECIFICATION Spec
CONSTANTS
    BlockCount = 3
    AnimationLength = 2
    Reported <- MCReported
    Workers = {w1, w2, w3}
INVARIANTS OneTick ScreenIsText BarNotAhead
PROPERTY ReportShown
CHECK_DEADLOCK FALSE
