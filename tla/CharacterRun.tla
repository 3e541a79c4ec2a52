----------------------------- MODULE CharacterRun -----------------------------
(***************************************************************************)
(* The state machine that four passes of the sub-segmenters repeat: a run  *)
(* of characters opens, grows, may be held open by a character that is not *)
(* part of it, and becomes a lexeme when it ends or the buffer does.       *)
(***************************************************************************)
EXTENDS AnalyzeContext

NoRun == [start |-> -1, end |-> -1]

(* Faulty: a run still open at the end of the buffer is dropped.           *)
PassDropsOpenRun(run, opens, extends, holds) ==
    LET grown == IF run = NoRun /\ opens THEN [start |-> cursor, end |-> cursor]
                 ELSE IF run # NoRun /\ extends THEN [run EXCEPT !.end = cursor]
                 ELSE IF run # NoRun /\ holds THEN run
                 ELSE NoRun
    IN  [run |-> IF IsBufferConsumed THEN NoRun ELSE grown,
         ended |-> IF grown = NoRun /\ run # NoRun THEN <<run>> ELSE <<>>]

(* The run after the character under the cursor, and the run that ended    *)
(* there, if one did: a run is closed before a new one can open, so that   *)
(* at most one ends.                                                       *)
Pass(run, opens, extends, holds) ==
    LET grown == IF run = NoRun /\ opens THEN [start |-> cursor, end |-> cursor]
                 ELSE IF run # NoRun /\ extends THEN [run EXCEPT !.end = cursor]
                 ELSE IF run # NoRun /\ holds THEN run
                 ELSE NoRun
        ended == IF grown = NoRun THEN run
                 ELSE IF IsBufferConsumed THEN grown ELSE NoRun
    IN  [run |-> IF IsBufferConsumed THEN NoRun ELSE grown,
         ended |-> IF ended = NoRun THEN <<>> ELSE <<ended>>]

(* Faulty: the end is taken for one past the run.                          *)
LexemesOfOpenEnd(runs, lexemeType) ==
    [k \in DOMAIN runs |-> NewLexeme(buffOffset, runs[k].start,
                              runs[k].end - runs[k].start, lexemeType)]

(* The lexemes of the runs that ended.                                     *)
LexemesOf(runs, lexemeType) ==
    [k \in DOMAIN runs |-> NewLexeme(buffOffset, runs[k].start,
                              runs[k].end - runs[k].start + 1, lexemeType)]

(* The character under the cursor.                                         *)
CurrentChar     == segmentBuff[cursor]
CurrentCharType == charTypes[cursor]
=============================================================================
