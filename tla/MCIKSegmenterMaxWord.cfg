SPECIFICATION EngineSpec
CONSTANTS
    BuffSize = 4
    BuffExhaustCritical = 4
    EnableLowercase = TRUE
    UseSmart = FALSE
    SubSegmenters = {"LETTER_SEGMENTER", "SURROGATE_PAIR_SEGMENTER", "QUAN_SEGMENTER", "CJK_SEGMENTER"}
    Inputs <- MCMaxWord
    LaterInputs <- MCLater
    ShortReads = TRUE
    ReadErrors = TRUE
    ResultTypes = {}
    MaxResults = 0
    Dictionaries <- MCMixed
    QuantifierWords <- MCQuantifierWords
    longCNWordLengthThreshold = 10
    longCNWordCountThreshold = 5
    totalLexemeCountThreshold = 50
    denseCrossPathSizeThreshold = 20
    denseOverlapRatioThreshold = 4
INVARIANTS
    EngineTypeOK
    TokensInOrder
    CharactersCovered
