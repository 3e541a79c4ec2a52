----------------------------- MODULE CJKSegmenter -----------------------------
(***************************************************************************)
(* src/core/cjk_segmenter.go: the words of the main dictionary, from every *)
(* start.  Its state is the set of hits: the starts whose word may still   *)
(* go on, each with the dictionary that its node is in.                    *)
(***************************************************************************)
EXTENDS CharacterRun, Dictionary

cjkSegmenterName == "CJK_SEGMENTER"

(* The hits are extended and the character under the cursor is tried on    *)
(* its own, in the dictionary in force.  A reload between two lookups of   *)
(* one character comes to one before it or after it: only the last lookup  *)
(* asks for the dictionary in force.                                       *)
CJKAnalyze(tmpHits) ==
    LET tried == IF CurrentCharType = charUseless THEN {}
                 ELSE tmpHits \cup {[begin |-> cursor, generation |-> generation]}
        longer(h) == IsPrefixOf(MainWords(h.generation), h.begin, HitLength(h.begin))
        word(h)   == IsMatch(MainWords(h.generation), h.begin, HitLength(h.begin))
    IN  [hits |-> IF IsBufferConsumed THEN {} ELSE {h \in tried : longer(h)},
         words |-> {NewLexeme(buffOffset, h.begin, HitLength(h.begin), TypeCNWord) :
                       h \in {h \in tried : word(h)}}]

(* Faulty: the words in progress hold no lock.                             *)
CJKLocksNothing(tmpHits) == FALSE

CJKLocks(tmpHits) == tmpHits # {}
=============================================================================
