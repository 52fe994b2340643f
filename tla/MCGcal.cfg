SPECIFICATION FairSpec
CONSTANTS
    MaxRuns = 3
INVARIANTS StoresOwnGrantOnly AuthExitMeansStored UsesStoredToken NoHttpLeak
PROPERTIES TokenNotLost RunEndsUnlessBlocked
CHECK_DEADLOCK FALSE
