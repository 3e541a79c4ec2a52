----------------------------- MODULE IKArbitrator -----------------------------
(***************************************************************************)
(* src/core/ik_arbitrator.go: groups the candidates into stretches that    *)
(* overlap (crossing paths) and, in smart mode, chooses one way to cover   *)
(* each.                                                                   *)
(***************************************************************************)
EXTENDS LexemePath

CONSTANTS longCNWordLengthThreshold, longCNWordCountThreshold,
          totalLexemeCountThreshold, denseCrossPathSizeThreshold,
          denseOverlapRatioThreshold    \* 10, 5, 50, 20 and 4 in the code

ASSUME ThresholdsAssumption ==
    /\ longCNWordLengthThreshold \in Nat /\ longCNWordCountThreshold \in Nat
    /\ totalLexemeCountThreshold \in Nat /\ denseCrossPathSizeThreshold \in Nat
    /\ denseOverlapRatioThreshold \in Nat

-----------------------------------------------------------------------------
(* Too tangled to arbitrate: too many candidates, or a dense mat of long   *)
(* words.                                                                  *)
IsLongCNWord(l) == /\ l.lexemeType = TypeCNWord
                   /\ l.length > longCNWordLengthThreshold

ShouldFallback(cross) ==
    \/ Len(cross.lexemes) > totalLexemeCountThreshold
    \/ /\ cross.pathEnd > cross.pathBegin
       /\ Len(SelectSeq(cross.lexemes, IsLongCNWord)) > longCNWordCountThreshold
       /\ Len(cross.lexemes) >= denseCrossPathSizeThreshold
       /\ FoldLeft(LAMBDA n, l : n + l.length, 0, cross.lexemes)
             >= (cross.pathEnd - cross.pathBegin) * denseOverlapRatioThreshold

(* Faulty: the rest is as long as the stretch.                             *)
FallbackPathTooLong(cross) ==
    LET first == Head(cross.lexemes)
        remain == cross.pathEnd - first.begin
    IN  AddNotCrossLexeme(PathOf(first),
           NewLexeme(first.offset, End(first), remain, TypeCNWord))

(* The first candidate, and the rest of the stretch as one made-up word.   *)
FallbackPath(cross) ==
    LET first == Head(cross.lexemes)
        remain == cross.pathEnd - End(first)
    IN  IF remain > 0
        THEN AddNotCrossLexeme(PathOf(first),
                NewLexeme(first.offset, End(first), remain, TypeCNWord))
        ELSE PathOf(first)

-----------------------------------------------------------------------------
(* forwardPath: from the k-th candidate on, everything that fits is added  *)
(* and the rest is remembered by its place.                                *)
ForwardPath(chain, k, option) ==
    LET visit(walk, i) ==
           IF i < k THEN walk
           ELSE IF MayAddNotCross(walk.option, chain[i])
           THEN [walk EXCEPT !.option = AddNotCrossLexeme(@, chain[i])]
           ELSE [walk EXCEPT !.conflicts = Append(@, i)]
    IN  FoldLeftDomain(visit, [option |-> option, conflicts |-> <<>>], chain)

(* backPath: lexemes are dropped from the end until l fits.                *)
BackPath(l, option) ==
    LET without[n \in 0..Len(option.lexemes)] ==
           IF n = 0 THEN option ELSE RemoveTail(without[n - 1])
        fits == {n \in DOMAIN without : ~CheckCross(without[n], l)}
    IN  without[Min(fits)]

(* Faulty: the last outcome is kept, not the best.                         *)
TurnKeepsLast(chain, state, k) ==
    LET option == ForwardPath(chain, k, BackPath(chain[k], state.option)).option
    IN  [option |-> option, best |-> option]

(* One turn of the loop of judge: back to where the skipped candidate      *)
(* fits, forward from it, and the outcome is kept when it is better.       *)
Turn(chain, state, k) ==
    LET option == ForwardPath(chain, k, BackPath(chain[k], state.option)).option
    IN  [option |-> option,
         best |-> IF Better(option, state.best) THEN option ELSE state.best]

Judge(cross) ==
    IF ~IsEmpty(cross) /\ ShouldFallback(cross) THEN FallbackPath(cross)
    ELSE LET chain == cross.lexemes
             first == ForwardPath(chain, 1, newLexemePath)
             turn(state, k) == Turn(chain, state, k)
         IN  FoldLeft(turn, [option |-> first.option, best |-> first.option],
                      Reverse(first.conflicts)).best

-----------------------------------------------------------------------------
Resolved(cross, useSmart) ==
    IF Len(cross.lexemes) = 1 \/ ~useSmart THEN cross ELSE Judge(cross)

(* process: the candidates, in order, gathered into crossing paths; what   *)
(* becomes of each goes into the path map, here the set of its paths.      *)
Process(orgLexemes, useSmart) ==
    LET poll(state, l) ==
           IF MayAddCross(state.cross, l)
           THEN [state EXCEPT !.cross = AddCrossLexeme(@, l)]
           ELSE [cross |-> AddCrossLexeme(newLexemePath, l),
                 paths |-> state.paths \cup {Resolved(state.cross, useSmart)}]
        done == FoldLeft(poll, [cross |-> newLexemePath, paths |-> {}], orgLexemes)
    IN  done.paths \cup {Resolved(done.cross, useSmart)}
=============================================================================
