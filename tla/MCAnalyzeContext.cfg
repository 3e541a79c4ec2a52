SPECIFICATION MCSpec
CONSTANTS
    BuffSize = 4
    BuffExhaustCritical = 4
    EnableLowercase = TRUE
    UseSmart = TRUE
    SubSegmenters = {letter}
    Inputs <- MCInputs
    ShortReads = TRUE
    ReadErrors = TRUE
    ResultTypes = {2, 32}
    MaxResults = 2
    letter = letter
INVARIANTS ContextTypeOK BufferWindow TextsFaithful ConsumedWasRead
PROPERTIES NextReturns
