SPECIFICATION EngineSpec
CONSTANTS
    BuffSize = 4
    BuffExhaustCritical = 4
    EnableLowercase = TRUE
    UseSmart = TRUE
    SubSegmenters = {"LETTER_SEGMENTER", "SURROGATE_PAIR_SEGMENTER", "QUAN_SEGMENTER", "CJK_SEGMENTER"}
    Inputs <- MCSmart
    LaterInputs <- MCEmpty
    ShortReads = FALSE
    ReadErrors = FALSE
    ResultTypes = {}
    MaxResults = 0
    Dictionaries <- MCOne
    QuantifierWords <- MCQuantifierWords
    longCNWordLengthThreshold = 10
    longCNWordCountThreshold = 5
    totalLexemeCountThreshold = 50
    denseCrossPathSizeThreshold = 20
    denseOverlapRatioThreshold = 4
INVARIANTS
    NumeralsTakeQuantifiers
