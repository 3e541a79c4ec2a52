------------------------- MODULE MCIKArbitratorProofs -------------------------
(***************************************************************************)
(* What MCIKArbitrator states of small texts holds of every text and every *)
(* number of candidates.                                                   *)
(***************************************************************************)
EXTENDS MCIKArbitrator, IKArbitratorProofs

-----------------------------------------------------------------------------
(* The candidates are in order.                                            *)
InOrder == orgLexemes \in Seq(Lexeme) /\ Ordered(orgLexemes)

LEMMA CandidatesAreInOrder == Spec => []InOrder
<1>1. Init => InOrder
  BY DEF Init, InOrder, Ordered
<1>2. InOrder /\ [Next]_orgLexemes => InOrder'
  <2> SUFFICES ASSUME InOrder, [Next]_orgLexemes PROVE InOrder'
    OBVIOUS
  <2>1. CASE Next
    <3>1. PICK l \in Candidates : Add(l)
      BY <2>1 DEF Next
    <3>2. l \in Lexeme
      BY BoundsAssumption DEF Candidates, NewLexeme, Lexeme, LexemeType, TypeCNWord
    <3>3. orgLexemes' = AddLexeme(orgLexemes, l)
      BY <3>1 DEF Add
    <3> QED
      BY <3>2, <3>3, AddLexemeFacts DEF InOrder
  <2>2. CASE UNCHANGED orgLexemes
    BY <2>2 DEF InOrder
  <2> QED
    BY <2>1, <2>2
<1> QED
  BY <1>1, <1>2, PTL DEF Spec

-----------------------------------------------------------------------------
(* What the candidates become.                                             *)
LEMMA EmptyText ==
  ASSUME orgLexemes = <<>>, InOrder
  PROVE  /\ MaxWord = {newLexemePath}
         /\ Smart = {Resolved(newLexemePath, TRUE)}
         /\ Resolved(newLexemePath, TRUE) \in Segmentations
         /\ ToSet(Resolved(newLexemePath, TRUE).lexemes) = {}
         /\ newLexemePath.lexemes = <<>> /\ Len(newLexemePath.lexemes) = 0
         /\ ToSet(newLexemePath.lexemes) = {}
<1> DEFINE p == newLexemePath
<1>1. p.lexemes = <<>> /\ Len(p.lexemes) = 0 /\ <<>> \in Seq(Lexeme) /\ IsEmpty(p) /\ ToSet(<<>>) = {}
  BY DEF newLexemePath, IsEmpty, ToSet
<1>2. MaxWord = {p} /\ Smart = {Resolved(p, TRUE)}
  BY ProcessFacts, SmartFollowsMaxWord DEF InOrder, MaxWord, Smart
<1> HIDE DEF p
<1>3. Resolved(p, TRUE) = Judge(p)
  BY <1>1 DEF Resolved
<1>4. Judge(p) \in Ways(<<>>)
  BY <1>1, JudgeFacts
<1> QED
  BY <1>1, <1>2, <1>3, <1>4 DEF Ways, p

LEMMA SomeText ==
  ASSUME orgLexemes # <<>>, InOrder
  PROVE  /\ AreStretches(MaxWord, orgLexemes, Len(orgLexemes))
         /\ Smart = {Resolved(p, TRUE) : p \in MaxWord}
  BY ProcessFacts, SmartFollowsMaxWord DEF InOrder, MaxWord, Smart

LEMMA InOrderSurvives == InOrder => EveryCandidateSurvives
<1> SUFFICES ASSUME InOrder PROVE EveryCandidateSurvives
  OBVIOUS
<1>1. CASE orgLexemes = <<>>
  <2>1. UNION {ToSet(p.lexemes) : p \in {newLexemePath}} = ToSet(newLexemePath.lexemes)
    OBVIOUS
  <2>2. ToSet(orgLexemes) = {}
    BY <1>1 DEF ToSet
  <2> QED
    BY <1>1, <2>1, <2>2, EmptyText DEF EveryCandidateSurvives
<1>2. CASE orgLexemes # <<>>
  <2> DEFINE q == orgLexemes
  <2>1. /\ \A p \in MaxWord : /\ IsStretch(p)
                              /\ \A l \in ToSet(p.lexemes) : \E j \in 1..Len(q) : l = q[j]
        /\ \A p, r \in MaxWord : p = r \/ Follows(p, r) \/ Follows(r, p)
        /\ \A j \in 1..Len(q) : \E p \in MaxWord : q[j] \in ToSet(p.lexemes)
        /\ DOMAIN q = 1..Len(q)
    BY <1>2, SomeText DEF AreStretches, InOrder
  <2>2. \A l : l \in UNION {ToSet(p.lexemes) : p \in MaxWord} <=> l \in ToSet(q)
    <3>1. ASSUME NEW l \in UNION {ToSet(p.lexemes) : p \in MaxWord} PROVE l \in ToSet(q)
      <4>1. PICK p \in MaxWord : l \in ToSet(p.lexemes)
        OBVIOUS
      <4> QED
        BY <2>1, <4>1 DEF ToSet
    <3>2. ASSUME NEW l \in ToSet(q) PROVE l \in UNION {ToSet(p.lexemes) : p \in MaxWord}
      <4>1. PICK j \in 1..Len(q) : l = q[j]
        BY <2>1 DEF ToSet
      <4>2. PICK p \in MaxWord : l \in ToSet(p.lexemes)
        BY <2>1, <4>1
      <4> QED
        BY <4>2
    <3> QED
      BY <3>1, <3>2
  <2>3. \A p \in MaxWord : \A l \in ToSet(p.lexemes) :
           p.pathBegin <= l.begin /\ End(l) <= p.pathEnd
    BY <2>1 DEF IsStretch
  <2>4. \A p, r \in MaxWord : p = r \/ Apart(p, r)
    BY <2>1 DEF Apart, Follows
  <2> QED
    BY <2>2, <2>3, <2>4 DEF EveryCandidateSurvives
<1> QED
  BY <1>1, <1>2

LEMMA InOrderSegments == InOrder => SmartChoosesSegmentations
<1> SUFFICES ASSUME InOrder PROVE SmartChoosesSegmentations
  OBVIOUS
<1>1. CASE orgLexemes = <<>>
  <2>1. Kept = {}
    <3>1. UNION {ToSet(p.lexemes) : p \in {Resolved(newLexemePath, TRUE)}}
             = ToSet(Resolved(newLexemePath, TRUE).lexemes)
      OBVIOUS
    <3> QED
      BY <1>1, <3>1, EmptyText DEF Kept
  <2> QED
    BY <1>1, <2>1, EmptyText DEF SmartChoosesSegmentations, Segmentations
<1>2. CASE orgLexemes # <<>>
  <2>1. /\ \A p \in MaxWord : IsStretch(p)
        /\ \A p, r \in MaxWord : p = r \/ Follows(p, r) \/ Follows(r, p)
        /\ Smart = {Resolved(p, TRUE) : p \in MaxWord}
    BY <1>2, SomeText DEF AreStretches
  <2>2. \A p \in MaxWord :
           /\ Resolved(p, TRUE) \in Segmentations
           /\ \A l \in ToSet(Resolved(p, TRUE).lexemes) : p.pathBegin <= l.begin /\ End(l) <= p.pathEnd
    BY <2>1, ResolvedFacts
  <2>3. \A s \in Smart : IsSegmentation(s)
    BY <2>1, <2>2 DEF Segmentations
  <2>4. ASSUME NEW l \in Kept, NEW m \in Kept PROVE l = m \/ Disjoint(l, m)
    <3>1. PICK p \in MaxWord : l \in ToSet(Resolved(p, TRUE).lexemes)
      BY <2>1 DEF Kept
    <3>2. PICK r \in MaxWord : m \in ToSet(Resolved(r, TRUE).lexemes)
      BY <2>1 DEF Kept
    <3>3. ASSUME NEW s \in Segmentations, NEW x \in ToSet(s.lexemes)
          PROVE  x \in Lexeme
      <4>1. s.lexemes \in Seq(Lexeme)
        BY DEF Segmentations, Path
      <4> QED
        BY <4>1 DEF ToSet
    <3>4. l \in Lexeme /\ m \in Lexeme
      BY <2>2, <3>1, <3>2, <3>3
    <3>5. CASE p = r
      <4> DEFINE q == Resolved(p, TRUE).lexemes
      <4>1. Spaced(q) /\ q \in Seq(Lexeme)
        BY <2>2, SegmentationIs DEF Segmentations, Path
      <4>2. PICK i \in DOMAIN q : q[i] = l
        BY <3>1 DEF ToSet
      <4>3. PICK j \in DOMAIN q : q[j] = m
        BY <3>2, <3>5 DEF ToSet
      <4> HIDE DEF q
      <4>4. i < j \/ j < i \/ i = j
        BY <4>1, <4>2, <4>3
      <4> QED
        BY <4>1, <4>2, <4>3, <4>4 DEF Spaced, Disjoint
    <3>6. ASSUME NEW a \in MaxWord, NEW b \in MaxWord, Follows(a, b), NEW x \in Lexeme, NEW y \in Lexeme,
                 End(x) <= a.pathEnd, b.pathBegin <= y.begin
          PROVE  End(x) <= y.begin
      <4>1. a.pathEnd \in Nat /\ b.pathBegin \in Nat
        BY <2>1, StretchFacts
      <4>2. End(x) \in Nat /\ y.begin \in Nat
        BY OrderFacts
      <4> QED
        BY <3>6, <4>1, <4>2 DEF Follows
    <3>7. CASE Follows(p, r)
      BY <2>2, <3>1, <3>2, <3>4, <3>6, <3>7 DEF Disjoint
    <3>8. CASE Follows(r, p)
      BY <2>2, <3>1, <3>2, <3>4, <3>6, <3>8 DEF Disjoint
    <3> QED
      BY <2>1, <3>5, <3>7, <3>8
  <2> QED
    BY <2>3, <2>4 DEF SmartChoosesSegmentations
<1> QED
  BY <1>1, <1>2

(* The three that speak of each stretch on its own.                        *)
LEMMA InOrderResolves ==
  InOrder => NoCandidateOutweighs /\ CoveringWordWins /\ FallbackCoversTheStretch
<1> SUFFICES ASSUME InOrder PROVE NoCandidateOutweighs /\ CoveringWordWins /\ FallbackCoversTheStretch
  OBVIOUS
<1>1. CASE orgLexemes = <<>>
  <2>1. MaxWord = {newLexemePath} /\ ToSet(newLexemePath.lexemes) = {} /\ ~(Len(newLexemePath.lexemes) > 1)
    <3>1. ~(0 > 1)
      OBVIOUS
    <3> QED
      BY <1>1, <3>1, EmptyText
  <2> QED
    BY <2>1 DEF NoCandidateOutweighs, CoveringWordWins, FallbackCoversTheStretch
<1>2. CASE orgLexemes # <<>>
  <2>1. \A p \in MaxWord : IsStretch(p)
    BY <1>2, SomeText DEF AreStretches
  <2>2. NoCandidateOutweighs
    BY <2>1, ResolvedFacts DEF NoCandidateOutweighs
  <2>3. CoveringWordWins
    BY <2>1, ResolvedFacts DEF CoveringWordWins
  <2>4. FallbackCoversTheStretch
    <3> SUFFICES ASSUME NEW p \in MaxWord, Len(p.lexemes) > 1, ShouldFallback(p)
                 PROVE  /\ Resolved(p, TRUE).pathBegin = p.pathBegin
                        /\ Resolved(p, TRUE).pathEnd = p.pathEnd
                        /\ Resolved(p, TRUE).payloadLength = p.pathEnd - p.pathBegin
      BY DEF FallbackCoversTheStretch
    <3>1. Resolved(p, TRUE) = FallbackPath(p)
      BY <2>1, ResolvedFacts
    <3> QED
      BY <2>1, <3>1, FallbackFacts
  <2> QED
    BY <2>2, <2>3, <2>4
<1> QED
  BY <1>1, <1>2

-----------------------------------------------------------------------------
(* Without arbitration no candidate is lost, and the crossing paths that   *)
(* process gathers do not overlap (ik_arbitrator.go:21-22).                *)
THEOREM CandidatesSurvive == Spec => []EveryCandidateSurvives
  BY CandidatesAreInOrder, InOrderSurvives, PTL

(* With arbitration no two lexemes that survive overlap, and the fields of *)
(* every path agree with its lexemes (ik_arbitrator.go:119-143,            *)
(* lexeme_path.go:45-79).                                                  *)
THEOREM ChoicesAreSegmentations == Spec => []SmartChoosesSegmentations
  BY CandidatesAreInOrder, InOrderSegments, PTL

(* No stretch comes out with less text than one of its candidates had      *)
(* (ik_arbitrator.go:135-143).                                             *)
THEOREM ChoicesOutweigh == Spec => []NoCandidateOutweighs
  BY CandidatesAreInOrder, InOrderResolves, PTL

(* A word that covers a stretch alone is what becomes of it                *)
(* (lexeme_path.go:143-160).                                               *)
THEOREM CoversWin == Spec => []CoveringWordWins
  BY CandidatesAreInOrder, InOrderResolves, PTL

(* A stretch too tangled to arbitrate keeps its extent                     *)
(* (ik_arbitrator.go:90-114).                                              *)
THEOREM FallbacksCover == Spec => []FallbackCoversTheStretch
  BY CandidatesAreInOrder, InOrderResolves, PTL
=============================================================================
