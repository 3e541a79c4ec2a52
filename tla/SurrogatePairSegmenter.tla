------------------------ MODULE SurrogatePairSegmenter ------------------------
(***************************************************************************)
(* src/core/surrogate_pair_segmenter.go: the two code units of a character *)
(* outside the BMP become one lexeme.                                      *)
(***************************************************************************)
EXTENDS CharacterRun

surrogatePairSegmenterName == "SURROGATE_PAIR_SEGMENTER"

NoSurrogate == [start |-> -1, end |-> -1, hasHighSurrogate |-> FALSE]

(* A high surrogate that follows another takes its place; one that meets   *)
(* anything but a low surrogate, or the end of the buffer, is emitted      *)
(* alone.  After a pair start and end stay set, and the buffer locked,     *)
(* until the next character.                                               *)
SurrogateAnalyze(s) ==
    LET high == IsHighSurrogate(CurrentChar)
        pair == IsLowSurrogate(CurrentChar) /\ s.hasHighSurrogate
        alone == \/ ~high /\ ~pair /\ s.hasHighSurrogate
                 \/ high /\ IsBufferConsumed
        position == IF high THEN cursor ELSE s.start
    IN  [state |-> IF high /\ ~IsBufferConsumed
                   THEN [start |-> cursor, end |-> s.end, hasHighSurrogate |-> TRUE]
                   ELSE IF pair
                   THEN [start |-> s.start, end |-> cursor, hasHighSurrogate |-> FALSE]
                   ELSE NoSurrogate,
         added |-> IF pair THEN <<NewLexeme(buffOffset, s.start,
                                            cursor - s.start + 1, TypeCNChar)>>
                   ELSE IF alone THEN <<NewLexeme(buffOffset, position, 1, TypeCNWord)>>
                   ELSE <<>>]

(* Faulty: the first half of a pair holds no lock.                         *)
SurrogateLocksNothing(s) == FALSE

SurrogateLocks(s) == s # NoSurrogate
=============================================================================
