---------------------------- MODULE MCIKArbitrator ----------------------------
(***************************************************************************)
(* The arbitrator over every set of candidates that a short text allows:   *)
(* the sub-segmenters add one at a time, in any order.  The thresholds are *)
(* small, so that some stretches are arbitrated and some are found too     *)
(* tangled.                                                                *)
(***************************************************************************)
EXTENDS IKArbitrator

CONSTANTS Length,        \* bound: the code units of the text
          MaxCandidates  \* bound: the candidates added

ASSUME BoundsAssumption == Length \in Nat /\ MaxCandidates \in Nat

VARIABLE orgLexemes

Candidates == {l \in {NewLexeme(0, b, n, TypeCNWord) :
                        b \in 0..(Length - 1), n \in 1..Length} : End(l) <= Length}

Init == orgLexemes = <<>>

Add(l) == /\ Len(orgLexemes) < MaxCandidates
          /\ orgLexemes' = AddLexeme(orgLexemes, l)

Next == \E l \in Candidates : Add(l)

Spec == Init /\ [][Next]_orgLexemes

-----------------------------------------------------------------------------
Smart   == Process(orgLexemes, TRUE)
MaxWord == Process(orgLexemes, FALSE)
Kept    == UNION {ToSet(p.lexemes) : p \in Smart}

Apart(p, q) == p.pathEnd <= q.pathBegin \/ q.pathEnd <= p.pathBegin

(* Without arbitration every candidate survives (ik_arbitrator.go:21-22):  *)
(* each is in one crossing path, and paths do not overlap, so that no two  *)
(* are filed under the same start.                                         *)
EveryCandidateSurvives ==
    /\ UNION {ToSet(p.lexemes) : p \in MaxWord} = ToSet(orgLexemes)
    /\ \A p \in MaxWord : \A l \in ToSet(p.lexemes) :
          p.pathBegin <= l.begin /\ End(l) <= p.pathEnd
    /\ \A p, q \in MaxWord : p = q \/ Apart(p, q)

(* With arbitration what survives overlaps nowhere, and every field of     *)
(* every path agrees with its lexemes (lexeme_path.go:9-10, 45-79), also   *)
(* when the rest of a tangled stretch became one made-up word so that the  *)
(* offsets still advance (ik_arbitrator.go:90-91).                         *)
SmartChoosesSegmentations ==
    /\ \A p \in Smart : IsSegmentation(p)
    /\ \A l, m \in Kept : l = m \/ Disjoint(l, m)

(* No stretch comes out with less text than a single candidate of it had:  *)
(* judge tries every candidate that the first pass skipped                 *)
(* (ik_arbitrator.go:135-143).                                             *)
NoCandidateOutweighs ==
    \A p \in MaxWord : \A l \in ToSet(p.lexemes) :
       l.length <= Resolved(p, TRUE).payloadLength

(* A word that covers a stretch alone is what becomes of the stretch: it   *)
(* carries the most text in the fewest lexemes (lexeme_path.go:143-160).   *)
(* Only a stretch too tangled to arbitrate is torn all the same.           *)
CoveringWordWins ==
    \A p \in MaxWord : \A l \in ToSet(p.lexemes) :
       (l.length = p.pathEnd - p.pathBegin /\ ~ShouldFallback(p))
          => Resolved(p, TRUE).lexemes = <<l>>

(* A stretch too tangled to arbitrate keeps its extent: the first          *)
(* candidate and the made-up word cover it without a gap                   *)
(* (ik_arbitrator.go:90-114).                                              *)
FallbackCoversTheStretch ==
    \A p \in MaxWord :
       (Len(p.lexemes) > 1 /\ ShouldFallback(p)) =>
          LET q == Resolved(p, TRUE)
          IN  /\ q.pathBegin = p.pathBegin /\ q.pathEnd = p.pathEnd
              /\ q.payloadLength = p.pathEnd - p.pathBegin
=============================================================================
