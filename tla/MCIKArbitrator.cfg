SPECIFICATION Spec
CONSTANTS
    Length = 5
    MaxCandidates = 7
    longCNWordLengthThreshold = 2
    longCNWordCountThreshold = 2
    totalLexemeCountThreshold = 6
    denseCrossPathSizeThreshold = 5
    denseOverlapRatioThreshold = 2
INVARIANTS EveryCandidateSurvives SmartChoosesSegmentations
           NoCandidateOutweighs CoveringWordWins FallbackCoversTheStretch
CHECK_DEADLOCK FALSE
