---------------------------- MODULE AnalyzeContext ----------------------------
(***************************************************************************)
(* The analysis context of src/core/analyze_context.go as the loop of      *)
(* IKSegmenter.Next drives it: a buffer of BuffSize code units slides over *)
(* an input of any length, a cursor walks the buffer, and lexemes of the   *)
(* part walked over wait in results for the caller.                        *)
(*                                                                         *)
(* What the sub-segmenters and the arbitrator make of the characters is    *)
(* left open here: they take any locks (Analyze) and produce any lexemes   *)
(* of the part walked over (Output).  IKSegmenter.tla makes the choices.   *)
(***************************************************************************)
EXTENDS Lexeme, CharacterUtil, Sequences

CONSTANTS BuffSize,              \* buffSize: 4096 in the code
          BuffExhaustCritical,   \* buffExhaustCritical: 100 in the code
          EnableLowercase,       \* the two options of the configuration that
          UseSmart,              \*   the engine reads
          SubSegmenters,         \* the names under which the buffer is locked
          Inputs,                \* the texts a caller may submit
          ShortReads,            \* whether the reader may return early
          ReadErrors,            \* whether the reader may fail
          ResultTypes, MaxResults  \* bound: the results Next may choose

ASSUME BufferAssumption ==
    /\ BuffSize \in Nat \ {0}
    /\ BuffExhaustCritical \in Nat
    /\ 2 * BuffExhaustCritical <= BuffSize + 4
    /\ EnableLowercase \in BOOLEAN /\ UseSmart \in BOOLEAN

ASSUME InputsAssumption == Inputs \subseteq Seq(Char)

ASSUME ChoicesAssumption == /\ ShortReads \in BOOLEAN /\ ReadErrors \in BOOLEAN
                            /\ ResultTypes \subseteq LexemeType
                            /\ MaxResults \in Nat

VARIABLES
    pc,           \* where Next is: idle (outside), poll, fill, analyze, arbitrate
    input, read,  \* the reader: its text, and how much of it was handed out
    segmentBuff, charTypes, buffOffset, cursor, available, buffLocker, results,
    lastUselessCharNum, maxConsumedEndPosition, lastSkippedCount

reader  == <<input, read>>
buffer  == <<segmentBuff, charTypes, buffOffset, cursor, available>>
tallies == <<lastUselessCharNum, maxConsumedEndPosition, lastSkippedCount>>
cvars   == <<pc, reader, buffer, buffLocker, results, tallies>>

Index == 0..(BuffSize - 1)

ContextInit ==
    /\ pc = "idle"
    /\ input \in Inputs /\ read = 0
    /\ segmentBuff = [i \in Index |-> 0]
    /\ charTypes = [i \in Index |-> charUseless]
    /\ buffOffset = 0 /\ cursor = 0 /\ available = 0
    /\ buffLocker = {} /\ results = <<>>
    /\ lastUselessCharNum = 0 /\ maxConsumedEndPosition = 0
    /\ lastSkippedCount = 0

-----------------------------------------------------------------------------
(* Faulty: the furthest consumed position survives as well.                *)
ContextResetKeepsMax == /\ segmentBuff' = [i \in Index |-> 0]
                        /\ charTypes' = [i \in Index |-> charUseless]
                        /\ buffOffset' = 0 /\ cursor' = 0 /\ available' = 0
                        /\ buffLocker' = {} /\ results' = <<>>
                        /\ lastSkippedCount' = 0
                        /\ UNCHANGED maxConsumedEndPosition

(* Faulty: the results of the last input survive.                          *)
ContextResetKeepsResults == /\ segmentBuff' = [i \in Index |-> 0]
                            /\ charTypes' = [i \in Index |-> charUseless]
                            /\ buffOffset' = 0 /\ cursor' = 0 /\ available' = 0
                            /\ buffLocker' = {}
                            /\ maxConsumedEndPosition' = 0
                            /\ lastSkippedCount' = 0
                            /\ UNCHANGED results

(* reset: everything but lastUselessCharNum.                               *)
ContextReset == /\ segmentBuff' = [i \in Index |-> 0]
                /\ charTypes' = [i \in Index |-> charUseless]
                /\ buffOffset' = 0 /\ cursor' = 0 /\ available' = 0
                /\ buffLocker' = {} /\ results' = <<>>
                /\ maxConsumedEndPosition' = 0
                /\ lastSkippedCount' = 0

(* IKSegmenter.Reset: another input.                                       *)
Reset(text) == /\ pc = "idle"
               /\ input' = text
               /\ read' = 0
               /\ ContextReset
               /\ UNCHANGED <<pc, lastUselessCharNum>>

(* IKSegmenter.Next is called and enters getNextLexeme.                    *)
CallNext == /\ pc = "idle"
            /\ pc' = "poll"
            /\ lastSkippedCount' = 0
            /\ UNCHANGED <<reader, buffer, buffLocker, results,
                           lastUselessCharNum, maxConsumedEndPosition>>

-----------------------------------------------------------------------------
(* getNextLexeme and compound *)

(* The first two results, when they are adjacent, joined into one.         *)
Joined(q, lexemeType) == <<Appended(q[1], q[2], lexemeType)>> \o Tail(Tail(q))

Joins(q, first, second) == /\ Len(q) >= 2
                           /\ q[1].lexemeType = first
                           /\ q[2].lexemeType = second
                           /\ CanAppend(q[1], q[2])

JoinArabic(q) == IF Joins(q, TypeArabic, TypeCNum) THEN Joined(q, TypeCNum)
                 ELSE IF Joins(q, TypeArabic, TypeCount) THEN Joined(q, TypeCQuan)
                 ELSE q

JoinCount(q) == IF Joins(q, TypeCNum, TypeCount) THEN Joined(q, TypeCQuan) ELSE q

Compound(q) == IF UseSmart THEN JoinCount(JoinArabic(q)) ELSE q

(* One turn of the loop: the next result is compounded and counted as      *)
(* consumed; a stop word is skipped, another one ends the call.            *)
Consume(stopWord) ==
    LET q == Compound(results)
        end == EndPosition(Head(q))
    IN  /\ pc = "poll" /\ results # <<>>
        /\ results' = Tail(q)
        /\ maxConsumedEndPosition' = IF end > maxConsumedEndPosition
                                     THEN end ELSE maxConsumedEndPosition
        /\ lastSkippedCount' = IF stopWord THEN lastSkippedCount + 1
                                           ELSE lastSkippedCount
        /\ pc' = IF stopWord THEN "poll" ELSE "idle"
        /\ UNCHANGED <<reader, buffer, buffLocker, lastUselessCharNum>>

(* Faulty: the buffer is filled with results still waiting.                *)
NoResultWanted == /\ pc = "poll"
                  /\ pc' = "fill"
                  /\ UNCHANGED <<reader, buffer, buffLocker, results, tallies>>

(* No result is left: getNextLexeme returns nil.                           *)
NoResult == /\ pc = "poll" /\ results = <<>>
            /\ pc' = "fill"
            /\ UNCHANGED <<reader, buffer, buffLocker, results, tallies>>

-----------------------------------------------------------------------------
(* fillBuffer and initCursor *)

(* Faulty: the character under the cursor is taken for unprocessed.        *)
UnprocessedFromCursor == IF buffOffset = 0 THEN 0 ELSE available - cursor

(* What the cursor has not reached: it starts one past the cursor, which   *)
(* sits on a character that has been processed.                            *)
Unprocessed == IF buffOffset = 0 THEN 0 ELSE available - (cursor + 1)

(* The unprocessed characters, moved to the front of the buffer.           *)
Moved(i) == IF i < Unprocessed THEN segmentBuff[cursor + 1 + i] ELSE segmentBuff[i]

(* Faulty: the place that the moved characters take is not counted.        *)
ReadCountsWhole ==
    LET left == Len(input) - read
    IN  {IF BuffSize < left THEN BuffSize ELSE left}

(* How many units a read may return: none only at the end of the input.    *)
ReadCounts ==
    LET room == BuffSize - Unprocessed
        left == Len(input) - read
        most == IF room < left THEN room ELSE left
    IN  IF ShortReads /\ most > 0 THEN 1..most ELSE {most}

Fill(n) ==
    LET filled == [i \in Index |-> IF i \in Unprocessed..(Unprocessed + n - 1)
                                   THEN input[read + 1 + i - Unprocessed]
                                   ELSE Moved(i)]
        first == Regularize(filled[0], EnableLowercase)
    IN  /\ pc = "fill"
        /\ n \in ReadCounts
        /\ Unprocessed + n > 0
        /\ read' = read + n
        /\ available' = Unprocessed + n
        /\ cursor' = 0
        /\ segmentBuff' = [filled EXCEPT ![0] = first]
        /\ charTypes' = [charTypes EXCEPT ![0] = IdentifyCharType(first)]
        /\ lastUselessCharNum' = IF buffOffset = 0 THEN 0 ELSE lastUselessCharNum
        /\ pc' = "analyze"
        /\ UNCHANGED <<input, buffOffset, buffLocker, results,
                       maxConsumedEndPosition, lastSkippedCount>>

(* Faulty: Next tries again instead of returning nil.                      *)
EndOfInputTriesAgain ==
    /\ pc = "fill"
    /\ read = Len(input)
    /\ Unprocessed = 0
    /\ ContextReset
    /\ lastUselessCharNum' = IF buffOffset = 0 THEN 0 ELSE lastUselessCharNum
    /\ pc' = "poll"
    /\ UNCHANGED reader

(* Nothing to analyse: the context is reset and Next returns nil.          *)
EndOfInput == /\ pc = "fill"
              /\ read = Len(input)
              /\ Unprocessed = 0
              /\ ContextReset
              /\ lastUselessCharNum' = IF buffOffset = 0 THEN 0 ELSE lastUselessCharNum
              /\ pc' = "idle"
              /\ UNCHANGED reader

(* The read fails: Next returns the error, and what fillBuffer moved stays *)
(* moved although available and cursor still describe the old place.       *)
ReadFails == /\ pc = "fill"
             /\ ReadErrors
             /\ segmentBuff' = [i \in Index |-> Moved(i)]
             /\ pc' = "idle"
             /\ UNCHANGED <<reader, charTypes, buffOffset, cursor, available,
                            buffLocker, results, tallies>>

-----------------------------------------------------------------------------
(* The analysis loop *)

NeedRefillBuffer(locks) == /\ available = BuffSize
                           /\ cursor < available - 1
                           /\ cursor > available - BuffExhaustCritical
                           /\ locks = {}

IsBufferConsumed == cursor = available - 1

(* The sub-segmenters have seen the character under the cursor and left    *)
(* the buffer locked by locks; the loop moves the cursor or ends.          *)
Analyze(locks) ==
    LET c == Regularize(segmentBuff[cursor + 1], EnableLowercase)
    IN  /\ pc = "analyze"
        /\ buffLocker' = locks
        /\ IF NeedRefillBuffer(locks) \/ cursor >= available - 1
           THEN /\ pc' = "arbitrate"
                /\ UNCHANGED <<cursor, segmentBuff, charTypes>>
           ELSE /\ cursor' = cursor + 1
                /\ segmentBuff' = [segmentBuff EXCEPT ![cursor + 1] = c]
                /\ charTypes' = [charTypes EXCEPT ![cursor + 1] = IdentifyCharType(c)]
                /\ pc' = pc
        /\ UNCHANGED <<reader, buffOffset, available, results, tallies>>

(* outputToResult and markBufferOffset: the lexemes rs become results, the *)
(* last trailing characters being useless, and getNextLexeme is entered    *)
(* again.  Every lexeme lies in the part that was walked over.             *)
Output(rs, trailing) ==
    /\ pc = "arbitrate"
    /\ rs \in Seq(Lexeme) /\ trailing \in Nat
    /\ \A k \in DOMAIN rs : rs[k].offset = buffOffset /\ End(rs[k]) <= cursor + 1
    /\ results' = results \o rs
    /\ lastUselessCharNum' = trailing
    /\ buffOffset' = buffOffset + cursor + 1
    /\ lastSkippedCount' = 0
    /\ pc' = "poll"
    /\ UNCHANGED <<reader, segmentBuff, charTypes, cursor, available,
                   buffLocker, maxConsumedEndPosition>>

-----------------------------------------------------------------------------
(* The results the component, on its own, chooses from.                    *)
ChosenLexemes == {l \in {NewLexeme(buffOffset, b, n, t) :
                            b \in 0..cursor, n \in 1..(cursor + 1), t \in ResultTypes} :
                     End(l) <= cursor + 1}

ChosenResults == UNION {[1..n -> ChosenLexemes] : n \in 0..MaxResults}

InsideNext == \/ \E stopWord \in BOOLEAN : Consume(stopWord)
              \/ NoResult
              \/ \E n \in ReadCounts : Fill(n)
              \/ EndOfInput
              \/ ReadFails
              \/ \E locks \in SUBSET SubSegmenters : Analyze(locks)
              \/ \E rs \in ChosenResults, trailing \in 0..1 : Output(rs, trailing)

ContextNext == \/ \E text \in Inputs : Reset(text)
               \/ CallNext
               \/ InsideNext

ContextSpec == ContextInit /\ [][ContextNext]_cvars

-----------------------------------------------------------------------------
(* Every variable has its type.                                            *)
ContextTypeOK ==
    /\ pc \in {"idle", "poll", "fill", "analyze", "arbitrate"}
    /\ input \in Seq(Char) /\ read \in Nat
    /\ segmentBuff \in [Index -> Char]
    /\ charTypes \in [Index -> CharType]
    /\ buffOffset \in Nat /\ cursor \in Nat /\ available \in 0..BuffSize
    /\ buffLocker \subseteq SubSegmenters
    /\ results \in Seq(Lexeme)
    /\ lastUselessCharNum \in Nat
    /\ maxConsumedEndPosition \in Nat /\ lastSkippedCount \in Nat

(* Where in the input the first cell of the buffer comes from.             *)
Origin == IF pc \in {"analyze", "arbitrate"} THEN buffOffset
                                             ELSE buffOffset - (cursor + 1)

(* Whether the buffer holds part of the input.                             *)
Loaded == pc \in {"analyze", "arbitrate"} \/ buffOffset > 0

(* Whether the characters up to the cursor are still needed.               *)
Needed == pc \in {"analyze", "arbitrate"} \/ results # <<>>

(* The input is read without gap or overlap: what the buffer holds ends    *)
(* where the reader stands.  Before the first read nothing has been read   *)
(* but, after the end of an input, all of it.                              *)
ReadContiguously ==
    IF Loaded
    THEN /\ cursor < available /\ available <= BuffSize
         /\ Origin \in Nat
         /\ Origin + available = read
         /\ read <= Len(input)
    ELSE /\ read = 0 \/ read = Len(input)
         /\ results = <<>>

(* The characters past the cursor are those of the input, untouched: each  *)
(* is regularised once, when the cursor reaches it (regularize is not      *)
(* idempotent).  A failed read, retried, moves them twice and loses none.  *)
UnprocessedIsRaw ==
    Loaded => \A i \in (cursor + 1)..(available - 1) :
                 segmentBuff[i] = input[Origin + i + 1]

(* The characters up to the cursor are those of the input, regularised     *)
(* exactly once, and their types are their own: no type survives from      *)
(* another character that was at the same place in an earlier buffer.      *)
ProcessedIsRegular ==
    Loaded /\ Needed =>
       \A i \in 0..cursor :
          /\ segmentBuff[i] = Regularize(input[Origin + i + 1], EnableLowercase)
          /\ charTypes[i] = IdentifyCharType(segmentBuff[i])

(* The analysis stops where fillBuffer can move the unprocessed characters *)
(* to a place they do not overlap, so that moving them again after a       *)
(* failed read is harmless.                                                *)
MoveIsRepeatable ==
    Loaded /\ pc # "analyze" => available - (cursor + 1) <= cursor + 1

(* A lexeme that waits for the caller lies within what was walked over of  *)
(* the buffer still in place: its text is read out of the buffer late, in  *)
(* getNextLexeme, and must not have been overwritten by then.              *)
ResultsInWindow ==
    \A k \in DOMAIN results : /\ results[k].offset = Origin
                              /\ End(results[k]) <= cursor + 1

(* Results are waited for only between two fills.                          *)
NoResultsWhileFilling == pc \in {"fill", "analyze", "arbitrate"} => results = <<>>

(* The buffer is a faithful window on the input.                           *)
BufferWindow == /\ ReadContiguously
                /\ UnprocessedIsRaw
                /\ ProcessedIsRegular
                /\ MoveIsRepeatable
                /\ ResultsInWindow
                /\ NoResultsWhileFilling

(* The text a waiting lexeme will be given is the text of the input at the *)
(* lexeme's place, each character regularised once.                        *)
TextsFaithful ==
    \A k \in DOMAIN results :
       \A i \in results[k].begin..(End(results[k]) - 1) :
          segmentBuff[i] =
             Regularize(input[results[k].offset + i + 1], EnableLowercase)

(* No offset handed out lies beyond what was read of the input.            *)
ConsumedWasRead == maxConsumedEndPosition <= read
=============================================================================
