SPECIFICATION DictSpec
CONSTANTS
    Words <- MCWords
    Texts <- MCTexts
    Batches <- MCBatches
    Loads <- MCLoads
    MaxUpdates = 2
    MaxLoads = 2
INVARIANTS
    DictTypeOK
    WordsAccountedFor
    MatchesWereInForce
PROPERTIES
    ImplementsWordSet
