SPECIFICATION TokenizerSpec
CONSTANTS
    BuffSize = 4
    BuffExhaustCritical = 3
    EnableLowercase = TRUE
    UseSmart = TRUE
    SubSegmenters = {"LETTER_SEGMENTER", "SURROGATE_PAIR_SEGMENTER", "QUAN_SEGMENTER", "CJK_SEGMENTER"}
    Inputs <- MCTexts
    LaterInputs <- MCTexts
    ShortReads = FALSE
    ReadErrors = TRUE
    ResultTypes = {}
    MaxResults = 0
    Dictionaries <- MCWords
    QuantifierWords <- MCNone
    longCNWordLengthThreshold = 10
    longCNWordCountThreshold = 5
    totalLexemeCountThreshold = 50
    denseCrossPathSizeThreshold = 20
    denseOverlapRatioThreshold = 4
INVARIANTS
    TokenizerTypeOK
    TermsFollowTheText
    TermsSurviveStrings
    IncrementsCountStopWords
PROPERTIES
    FinalOffsetIsLength
    PlaceholderGivesNoToken
