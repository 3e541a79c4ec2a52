---------------------------- MODULE LetterSegmenter ----------------------------
(***************************************************************************)
(* src/core/letter_segmenter.go: letters, digits, and the two mixed, by    *)
(* three passes over the same characters.                                  *)
(***************************************************************************)
EXTENDS CharacterRun

letterSegmenterName == "LETTER_SEGMENTER"

NoLetters == [english |-> NoRun, arabic |-> NoRun, mix |-> NoRun]

EnglishPass(run) == Pass(run, CurrentCharType = charEnglish,
                              CurrentCharType = charEnglish, FALSE)

(* A separator neither extends a number nor ends it.                       *)
ArabicPass(run) == Pass(run, CurrentCharType = charArabic,
                             CurrentCharType = charArabic,
                             /\ CurrentCharType = charUseless
                             /\ CurrentChar \in numConnectors)

(* A connector does extend a mixed token.                                  *)
MixPass(run) ==
    LET alphanumeric == CurrentCharType \in {charArabic, charEnglish}
        connector == CurrentCharType = charUseless /\ CurrentChar \in letterConnectors
    IN  Pass(run, alphanumeric, alphanumeric \/ connector, FALSE)

(* The passes in the order they run: the mixed one last, so that a span it *)
(* shares with another is dropped.                                         *)
LetterAnalyze(s) ==
    LET english == EnglishPass(s.english)
        arabic  == ArabicPass(s.arabic)
        mix     == MixPass(s.mix)
    IN  [state |-> [english |-> english.run, arabic |-> arabic.run, mix |-> mix.run],
         added |-> LexemesOf(english.ended, TypeEnglish)
                   \o LexemesOf(arabic.ended, TypeArabic)
                   \o LexemesOf(mix.ended, TypeLetter)]

LetterLocks(s) == s # NoLetters
=============================================================================
