SPECIFICATION Spec
CONSTANTS
    Lexemes <- MCLexemes
    MaxCells = 4
INVARIANTS TypeOK WellLinked
PROPERTIES ImplementsSortedSet AddReturns AppendRepairsTheWalk
CHECK_DEADLOCK FALSE
