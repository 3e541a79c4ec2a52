------------------------- MODULE CNQuantifierSegmenter -------------------------
(***************************************************************************)
(* src/core/cn_quantifier_segmenter.go: Chinese numerals, and the          *)
(* quantifiers that are looked for next to a numeral only.                 *)
(***************************************************************************)
EXTENDS CharacterRun, Dictionary, LexemePath

quanSegmenterName == "QUAN_SEGMENTER"

NoQuantity == [number |-> NoRun, countHits |-> {}]

CNumberPass(run) ==
    LET numeral == CurrentCharType = charChinese /\ CurrentChar \in chnNumberChars
    IN  Pass(run, numeral, numeral, FALSE)

(* The last candidate so far is a numeral that ends where the cursor is.   *)
AfterNumeral(orgLexemes) ==
    /\ orgLexemes # <<>>
    /\ Last(orgLexemes).lexemeType \in {TypeCNum, TypeArabic}
    /\ End(Last(orgLexemes)) = cursor

NeedCountScan(number, countHits, orgLexemes) ==
    number # NoRun \/ countHits # {} \/ AfterNumeral(orgLexemes)

(* The lexemes of the quantifiers that begin at starts and end here.       *)
Counts(starts) == {NewLexeme(buffOffset, b, HitLength(b), TypeCount) : b \in starts}

AddAll(orgLexemes, lexemes) == FoldSet(LAMBDA l, q : AddLexeme(q, l), orgLexemes, lexemes)

(* The quantifiers in progress are extended; then the character under the  *)
(* cursor may start one, but only after a numeral or inside another.       *)
ProcessCount(number, countHits, orgLexemes) ==
    LET extended == AddAll(orgLexemes, Counts(Matched(QuantifierWords, countHits)))
        pending  == Pending(QuantifierWords, countHits)
        starting == IF AfterNumeral(extended) \/ pending # {} THEN {cursor} ELSE {}
        hits     == pending \cup Pending(QuantifierWords, starting)
    IN  IF ~NeedCountScan(number, countHits, orgLexemes)
        THEN [hits |-> countHits, org |-> orgLexemes]
        ELSE IF CurrentCharType # charChinese
        THEN [hits |-> {}, org |-> orgLexemes]
        ELSE [hits |-> IF IsBufferConsumed THEN {} ELSE hits,
              org |-> AddAll(extended, Counts(Matched(QuantifierWords, starting)))]

QuantifierAnalyze(s, orgLexemes) ==
    LET number == CNumberPass(s.number)
        count  == ProcessCount(number.run, s.countHits,
                     AddLexemes(orgLexemes, LexemesOf(number.ended, TypeCNum)))
    IN  [state |-> [number |-> number.run, countHits |-> count.hits],
         org |-> count.org]

(* Faulty: a numeral in progress holds no lock.                            *)
QuantifierLocksCounts(s) == s.countHits # {}

QuantifierLocks(s) == s # NoQuantity
=============================================================================
