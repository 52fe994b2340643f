SPECIFICATION Spec
CONSTANTS
    MaxRuns = 2
INVARIANT SavedConfigLoads
CHECK_DEADLOCK FALSE
