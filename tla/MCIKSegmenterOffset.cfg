SPECIFICATION EngineSpec
CONSTANTS
    BuffSize = 4
    BuffExhaustCritical = 4
    EnableLowercase = TRUE
    UseSmart = FALSE
    SubSegmenters = {"LETTER_SEGMENTER", "SURROGATE_PAIR_SEGMENTER", "QUAN_SEGMENTER", "CJK_SEGMENTER"}
    Inputs <- MCLetters
    LaterInputs <- MCEmpty
    ShortReads = FALSE
    ReadErrors = FALSE
    ResultTypes = {}
    MaxResults = 0
    Dictionaries <- MCBare
    QuantifierWords <- MCNone
    longCNWordLengthThreshold = 10
    longCNWordCountThreshold = 5
    totalLexemeCountThreshold = 50
    denseCrossPathSizeThreshold = 20
    denseOverlapRatioThreshold = 4
PROPERTIES
    FinalOffsetExact
