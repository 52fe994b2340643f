SPECIFICATION FairSpec
CONSTANTS
    Codes <- MCCodes
    CodeLen <- MCCodeLen
    NoCode = "nocode"
    CodeMax = 3
    CodeCap = 2
INVARIANT LcSafe
PROPERTIES ImplementsOneShot PromptReturn Terminates
CHECK_DEADLOCK FALSE
