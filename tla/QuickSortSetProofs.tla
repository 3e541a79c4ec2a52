-------------------------- MODULE QuickSortSetProofs --------------------------
(***************************************************************************)
(* Proofs about QuickSortSet: for any set of lexemes and any number of     *)
(* cells, the list stays well linked, and it implements SortedLexemes.     *)
(***************************************************************************)
EXTENDS QuickSortSet, FiniteSetTheorems, WellFoundedInduction, TLAPS

(* The order of lexemes is a strict order, total but for equal spans: what *)
(* Lexeme.CompareTo (lexeme.go:80-96) must be for a sorted list to exist.  *)
LEMMA BeforeIsStrictOrder ==
  ASSUME NEW l \in Lexeme, NEW m \in Lexeme, NEW k \in Lexeme
  PROVE  /\ ~Before(l, l)
         /\ Before(l, m) => ~Before(m, l)
         /\ Before(l, m) /\ Before(m, k) => Before(l, k)
         /\ SameSpan(l, m) \/ Before(l, m) \/ Before(m, l)
         /\ SameSpan(l, m) => ~Before(l, m) /\ ~Before(m, l)
BY DEF Lexeme, Before, SameSpan

(* What the three outcomes of CompareTo say of the order.                  *)
LEMMA CompareToMeaning ==
  ASSUME NEW l \in Lexeme, NEW m \in Lexeme
  PROVE  /\ (CompareTo(l, m) = 0) <=> SameSpan(l, m)
         /\ (CompareTo(l, m) < 0) <=> Before(l, m)
         /\ (CompareTo(l, m) > 0) <=> Before(m, l)
         /\ (CompareTo(l, m) <= 0) <=> ~Before(m, l)
<1>1. CompareTo(l, m) \in {-1, 0, 1}
  BY DEF CompareTo
<1>2. /\ (CompareTo(l, m) = 0) <=> ~Before(l, m) /\ SameSpan(l, m)
      /\ (CompareTo(l, m) = -1) <=> Before(l, m)
      /\ (CompareTo(l, m) = 1) <=> ~Before(l, m) /\ ~SameSpan(l, m)
  BY DEF CompareTo
<1> QED
  BY <1>1, <1>2, BeforeIsStrictOrder

(* NoLexeme stands for no lexeme at all.                                   *)
LEMMA NoLexemeIsNone == NoLexeme \notin Lexeme
BY DEF NoLexeme, Lexeme

IInv == TypeOK /\ WellLinked

(* The order, stated of the cells of a state that satisfies the invariant. *)
LEMMA CellOrder ==
  ASSUME IInv, NEW c \in 1..allocated, NEW d \in 1..allocated,
         NEW e \in 1..allocated
  PROVE  /\ c \in Cell
         /\ lexeme[c] \in Lexemes
         /\ lexeme[c] \in Lexeme
         /\ ~Precedes(c, c)
         /\ Precedes(c, d) => ~Precedes(d, c)
         /\ Precedes(c, d) /\ Precedes(d, e) => Precedes(c, e)
         /\ SameSpan(lexeme[c], lexeme[d]) \/ Precedes(c, d) \/ Precedes(d, c)
         /\ SameSpan(lexeme[c], lexeme[d]) => ~Precedes(c, d) /\ ~Precedes(d, c)
         /\ (CompareTo(lexeme[c], lexeme[d]) = 0) <=> SameSpan(lexeme[c], lexeme[d])
         /\ (CompareTo(lexeme[c], lexeme[d]) < 0) <=> Precedes(c, d)
         /\ (CompareTo(lexeme[c], lexeme[d]) > 0) <=> Precedes(d, c)
         /\ (CompareTo(lexeme[c], lexeme[d]) <= 0) <=> ~Precedes(d, c)
<1>1. /\ c \in Cell
      /\ lexeme[c] \in Lexemes /\ lexeme[d] \in Lexemes /\ lexeme[e] \in Lexemes
  BY QuickSortSetAssumption DEF IInv, TypeOK, WellLinked, MembersAllocated, Cell
<1>2. lexeme[c] \in Lexeme /\ lexeme[d] \in Lexeme /\ lexeme[e] \in Lexeme
  BY <1>1, QuickSortSetAssumption
<1> QED
  BY <1>1, <1>2, BeforeIsStrictOrder, CompareToMeaning DEF Precedes

(* An empty list has no members, and only it: isEmpty tells the truth.     *)
LEMMA EmptyIsEmpty ==
  ASSUME IInv
  PROVE  /\ (size = 0) <=> (members = {})
         /\ size = 1 => members = {head} /\ tail = head
         /\ size > 1 => \E c \in members : c # head
         /\ size > 1 => head # tail
<1>1. IsFiniteSet(members) /\ size = Cardinality(members)
  BY DEF IInv, WellLinked, SizeCounts
<1>2. (size = 0) <=> (members = {})
  BY <1>1, FS_EmptySet
<1>3. ASSUME members # {}
      PROVE  /\ head \in members /\ tail \in members
             /\ IsFiniteSet(members \ {head})
             /\ Cardinality(members \ {head}) = size - 1
  BY <1>1, <1>3, FS_RemoveElement DEF IInv, WellLinked, EndsAreExtreme
<1>4. size = 1 => members = {head} /\ tail = head
  BY <1>2, <1>3, FS_EmptySet
<1>5. size > 1 => \E c \in members : c # head
  <2> SUFFICES ASSUME size > 1 PROVE members \ {head} # {}
    OBVIOUS
  <2> QED
    BY <1>2, <1>3, FS_EmptySet DEF IInv, TypeOK
<1>6. size > 1 => head # tail
  <2> SUFFICES ASSUME size > 1, head = tail PROVE FALSE
    OBVIOUS
  <2>1. PICK c \in members : c # head
    BY <1>5
  <2>2. Precedes(head, c) /\ Precedes(c, head)
    BY <2>1 DEF IInv, WellLinked, EndsAreExtreme
  <2>3. head \in 1..allocated /\ c \in 1..allocated
    BY <2>1, <1>3 DEF IInv, WellLinked, MembersAllocated
  <2> QED
    BY <2>2, <2>3, CellOrder
<1> QED
  BY <1>2, <1>4, <1>5, <1>6

(* The initial state.                                                      *)
LEMMA InitEstablishesIInv == Init => IInv
<1> SUFFICES ASSUME Init PROVE IInv
  OBVIOUS
<1> USE DEF Init
<1>1. TypeOK
  BY QuickSortSetAssumption DEF TypeOK, Answer
<1>2. WellLinked
  BY FS_EmptySet DEF WellLinked, MembersAllocated, NoDuplicates, SizeCounts,
     EndsAreExtreme, LinkedInOrder, LinkedBack, WalkStaysInside
<1> QED
  BY <1>1, <1>2 DEF IInv

(* A call of newCell: the newcomer is allocated and not yet a member.      *)
LEMMA NewCellPreservesIInv ==
  ASSUME IInv, NEW l \in Lexemes, NewCell(l)
  PROVE  IInv'
<1> USE DEF NewCell
<1>1. /\ allocated \in Nat /\ allocated + 1 \in Cell /\ allocated + 1 \notin members
      /\ \A c \in 1..allocated : c \in Cell /\ c # allocated + 1
      /\ \A c \in members : c \in 1..allocated
  BY QuickSortSetAssumption
     DEF IInv, TypeOK, WellLinked, MembersAllocated, Cell
<1>2. TypeOK'
  BY <1>1, QuickSortSetAssumption DEF IInv, TypeOK
<1>3. \A c \in 1..allocated : lexeme'[c] = lexeme[c]
  BY <1>1 DEF IInv, TypeOK
<1>4. lexeme'[allocated + 1] = l
  BY <1>1 DEF IInv, TypeOK
<1>5. \A c, d \in members : Precedes(c, d)' = Precedes(c, d)
  BY <1>1, <1>3 DEF Precedes
<1>6. MembersAllocated'
  <2>1. ASSUME NEW c \in 1..(allocated + 1) PROVE lexeme'[c] \in Lexemes
    <3>1. CASE c = allocated + 1
      BY <3>1, <1>4
    <3>2. CASE c # allocated + 1
      <4>1. c \in 1..allocated
        BY <3>2, <1>1
      <4> QED
        BY <4>1, <1>3 DEF IInv, WellLinked, MembersAllocated
    <3> QED
      BY <3>1, <3>2
  <2> QED
    BY <2>1, <1>1 DEF MembersAllocated, newCell
<1>7. NoDuplicates'
  BY <1>5 DEF NoDuplicates, IInv, WellLinked
<1>8. SizeCounts'
  BY DEF SizeCounts, IInv, WellLinked
<1>9. EndsAreExtreme'
  BY <1>5 DEF EndsAreExtreme, IInv, WellLinked
<1>10. LinkedInOrder' /\ LinkedBack'
  BY <1>5 DEF LinkedInOrder, LinkedBack, IInv, WellLinked
<1>11. WalkStaysInside'
  BY DEF WalkStaysInside
<1> QED
  BY <1>2, <1>6, <1>7, <1>8, <1>9, <1>10, <1>11 DEF IInv, WellLinked

(* The part of an insertion that is the same wherever the newcomer goes:   *)
(* the members stay distinct, and the size counts them.                    *)
LEMMA AddedKeepsMembers ==
  ASSUME IInv, pc # "idle", Added, UNCHANGED <<lexeme, allocated>>,
         \A c \in members : Precedes(c, newCell) \/ Precedes(newCell, c)
  PROVE  /\ MembersAllocated' /\ NoDuplicates' /\ SizeCounts' /\ WalkStaysInside'
         /\ size' \in Nat /\ members' \subseteq Cell
         /\ newCell \in Cell /\ newCell \in 1..allocated /\ newCell \notin members
         /\ result' \in [ok: BOOLEAN, lexeme: Lexemes \cup {NoLexeme}]
         /\ index' \in Cell \cup {Nil} /\ pc' \in {"idle", "ends", "walk"}
         /\ \A c, d \in Cell : Precedes(c, d)' = Precedes(c, d)
<1> USE DEF Added
<1>1. newCell \in Cell /\ newCell \in 1..allocated /\ newCell \notin members
  BY QuickSortSetAssumption
     DEF IInv, TypeOK, WellLinked, MembersAllocated, Cell, newCell
<1>2. \A c, d \in Cell : Precedes(c, d)' = Precedes(c, d)
  BY DEF Precedes
<1>3. MembersAllocated'
  BY <1>1 DEF IInv, WellLinked, MembersAllocated, newCell
<1>4. NoDuplicates'
  BY <1>1, <1>2 DEF IInv, TypeOK, WellLinked, NoDuplicates
<1>5. SizeCounts' /\ size' \in Nat
  BY <1>1, FS_AddElement DEF IInv, TypeOK, WellLinked, SizeCounts
<1>6. WalkStaysInside'
  BY DEF WalkStaysInside
<1>7. result' \in [ok: BOOLEAN, lexeme: Lexemes \cup {NoLexeme}]
  BY <1>1 DEF IInv, WellLinked, MembersAllocated, Answer
<1> QED
  BY <1>1, <1>2, <1>3, <1>4, <1>5, <1>6, <1>7 DEF IInv, TypeOK, Nil

LEMMA AddToEmptyPreservesIInv ==
  ASSUME IInv, AddToEmpty
  PROVE  IInv'
<1> USE DEF AddToEmpty, heap
<1>1. members = {}
  BY EmptyIsEmpty
<1>2. /\ MembersAllocated' /\ NoDuplicates' /\ SizeCounts' /\ WalkStaysInside'
      /\ size' \in Nat /\ members' \subseteq Cell /\ newCell \in Cell
      /\ result' \in [ok: BOOLEAN, lexeme: Lexemes \cup {NoLexeme}]
      /\ index' \in Cell \cup {Nil} /\ pc' \in {"idle", "ends", "walk"}
  BY <1>1, AddedKeepsMembers
<1>3. members' = {newCell}
  BY <1>1 DEF Added
<1>4. TypeOK'
  BY <1>2 DEF IInv, TypeOK
<1>5. EndsAreExtreme' /\ LinkedInOrder' /\ LinkedBack'
  BY <1>3 DEF EndsAreExtreme, LinkedInOrder, LinkedBack
<1> QED
  BY <1>2, <1>4, <1>5 DEF IInv, WellLinked

LEMMA AddAfterTailPreservesIInv ==
  ASSUME IInv, AddAfterTail
  PROVE  IInv'
<1> USE DEF AddAfterTail
<1>1. /\ members # {} /\ tail \in members /\ head \in members
      /\ members \subseteq 1..allocated /\ newCell \in 1..allocated
      /\ 1..allocated \subseteq Cell
  BY EmptyIsEmpty, CellOrder, QuickSortSetAssumption
     DEF IInv, TypeOK, WellLinked, EndsAreExtreme, MembersAllocated, newCell, Cell
<1>2. Precedes(tail, newCell)
  BY <1>1, CellOrder
<1>3. \A c \in members : Precedes(c, newCell)
  BY <1>1, <1>2, CellOrder DEF IInv, WellLinked, EndsAreExtreme
<1>4. /\ MembersAllocated' /\ NoDuplicates' /\ SizeCounts' /\ WalkStaysInside'
      /\ size' \in Nat /\ members' \subseteq Cell
      /\ newCell \in Cell /\ newCell \notin members
      /\ result' \in [ok: BOOLEAN, lexeme: Lexemes \cup {NoLexeme}]
      /\ index' \in Cell \cup {Nil} /\ pc' \in {"idle", "ends", "walk"}
      /\ \A c, d \in Cell : Precedes(c, d)' = Precedes(c, d)
  BY <1>3, AddedKeepsMembers
<1>5. members' = members \cup {newCell}
  BY DEF Added
<1>6. TypeOK'
  BY <1>1, <1>4 DEF IInv, TypeOK
<1>7. EndsAreExtreme'
  BY <1>1, <1>3, <1>4, <1>5 DEF IInv, TypeOK, WellLinked, EndsAreExtreme
<1>8. LinkedInOrder'
  <2> SUFFICES ASSUME NEW c \in members, NEW n, n = next'[c]
               PROVE  /\ n \in members' /\ Precedes(c, n)
                      /\ \A d \in members' : ~(Precedes(c, d) /\ Precedes(d, n))
    BY <1>5 DEF LinkedInOrder, Precedes
  <2>1. \A d \in members' : d \in Cell
    BY <1>4
  <2>2. CASE c = tail
    <3>1. next'[c] = newCell
      BY <2>2, <1>1, <1>4 DEF IInv, TypeOK
    <3>2. ASSUME NEW d \in members', Precedes(c, d), Precedes(d, newCell)
          PROVE  FALSE
      BY <3>2, <2>2, <1>1, <1>5, CellOrder DEF IInv, WellLinked, EndsAreExtreme
    <3> QED
      BY <3>1, <3>2, <2>1, <2>2, <1>2, <1>4, <1>5, <1>1
  <2>3. CASE c # tail
    <3>1. /\ next[c] \in members /\ Precedes(c, next[c])
          /\ \A d \in members : ~(Precedes(c, d) /\ Precedes(d, next[c]))
      BY <2>3 DEF IInv, WellLinked, LinkedInOrder
    <3>2. next'[c] = next[c]
      BY <2>3, <3>1, <1>1, <1>4 DEF IInv, TypeOK
    <3>3. ~Precedes(newCell, next[c])
      BY <3>1, <1>1, <1>3, CellOrder
    <3> QED
      BY <3>1, <3>2, <3>3, <2>1, <1>4, <1>5, <1>1
  <2> QED
    BY <2>2, <2>3
<1>9. LinkedBack'
  <2> SUFFICES ASSUME NEW c \in members', c # head
               PROVE  prev'[c] \in members' /\ prev'[c] # newCell /\ next'[prev'[c]] = c
    BY <1>1 DEF LinkedBack
  <2>1. CASE c = newCell
    BY <2>1, <1>1, <1>4, <1>5 DEF IInv, TypeOK
  <2>2. CASE c # newCell
    <3>1. prev[c] \in members /\ prev[c] # tail /\ next[prev[c]] = c
      BY <2>2, <1>5 DEF IInv, WellLinked, LinkedBack
    <3> QED
      BY <3>1, <2>2, <1>1, <1>4, <1>5 DEF IInv, TypeOK
  <2> QED
    BY <2>1, <2>2
<1> QED
  BY <1>4, <1>6, <1>7, <1>8, <1>9 DEF IInv, WellLinked

LEMMA AddBeforeHeadPreservesIInv ==
  ASSUME IInv, AddBeforeHead
  PROVE  IInv'
<1> USE DEF AddBeforeHead
<1>1. /\ members # {} /\ tail \in members /\ head \in members
      /\ members \subseteq 1..allocated /\ newCell \in 1..allocated
      /\ 1..allocated \subseteq Cell
  BY EmptyIsEmpty, CellOrder, QuickSortSetAssumption
     DEF IInv, TypeOK, WellLinked, EndsAreExtreme, MembersAllocated, newCell, Cell
<1>2. Precedes(newCell, head)
  BY <1>1, CellOrder
<1>3. \A c \in members : Precedes(newCell, c)
  BY <1>1, <1>2, CellOrder DEF IInv, WellLinked, EndsAreExtreme
<1>4. /\ MembersAllocated' /\ NoDuplicates' /\ SizeCounts' /\ WalkStaysInside'
      /\ size' \in Nat /\ members' \subseteq Cell
      /\ newCell \in Cell /\ newCell \notin members
      /\ result' \in [ok: BOOLEAN, lexeme: Lexemes \cup {NoLexeme}]
      /\ index' \in Cell \cup {Nil} /\ pc' \in {"idle", "ends", "walk"}
      /\ \A c, d \in Cell : Precedes(c, d)' = Precedes(c, d)
  BY <1>3, AddedKeepsMembers
<1>5. members' = members \cup {newCell}
  BY DEF Added
<1>6. TypeOK'
  BY <1>1, <1>4 DEF IInv, TypeOK
<1>7. EndsAreExtreme'
  BY <1>1, <1>3, <1>4, <1>5 DEF IInv, TypeOK, WellLinked, EndsAreExtreme
<1>8. LinkedInOrder'
  <2> SUFFICES ASSUME NEW c \in members', c # tail, NEW n, n = next'[c]
               PROVE  /\ n \in members' /\ Precedes(c, n)
                      /\ \A d \in members' : ~(Precedes(c, d) /\ Precedes(d, n))
    BY DEF LinkedInOrder, Precedes
  <2>1. \A d \in members' : d \in Cell
    BY <1>4
  <2>2. CASE c = newCell
    <3>1. next'[c] = head
      BY <2>2, <1>1, <1>4 DEF IInv, TypeOK
    <3>2. ASSUME NEW d \in members', Precedes(d, head), d # newCell
          PROVE  FALSE
      BY <3>2, <1>1, <1>5, CellOrder DEF IInv, WellLinked, EndsAreExtreme
    <3>3. ~Precedes(newCell, newCell)
      BY <1>1, CellOrder
    <3> QED
      BY <3>1, <3>2, <3>3, <2>1, <2>2, <1>2, <1>4, <1>5, <1>1
  <2>3. CASE c # newCell
    <3>1. /\ next[c] \in members /\ Precedes(c, next[c])
          /\ \A d \in members : ~(Precedes(c, d) /\ Precedes(d, next[c]))
          /\ c \in members
      BY <2>3, <1>5 DEF IInv, WellLinked, LinkedInOrder
    <3>2. next[c] # head
      BY <3>1, <1>1, CellOrder DEF IInv, WellLinked, EndsAreExtreme
    <3>3. next'[c] = next[c]
      BY <2>3, <3>1, <3>2, <1>1, <1>4 DEF IInv, TypeOK
    <3>4. ~Precedes(c, newCell)
      BY <3>1, <1>1, <1>3, CellOrder
    <3> QED
      BY <3>1, <3>3, <3>4, <2>1, <1>4, <1>5, <1>1
  <2> QED
    BY <2>2, <2>3
<1>9. LinkedBack'
  <2> SUFFICES ASSUME NEW c \in members
               PROVE  prev'[c] \in members' /\ prev'[c] # tail /\ next'[prev'[c]] = c
    BY <1>5 DEF LinkedBack
  <2>1. CASE c = head
    <3>1. newCell # tail
      BY <1>1, <1>4
    <3> QED
      BY <3>1, <2>1, <1>1, <1>4, <1>5 DEF IInv, TypeOK
  <2>2. CASE c # head
    <3>1. prev[c] \in members /\ prev[c] # tail /\ next[prev[c]] = c
      BY <2>2 DEF IInv, WellLinked, LinkedBack
    <3> QED
      BY <3>1, <2>2, <1>1, <1>4, <1>5 DEF IInv, TypeOK
  <2> QED
    BY <2>1, <2>2
<1> QED
  BY <1>4, <1>6, <1>7, <1>8, <1>9 DEF IInv, WellLinked

LEMMA InsertInMiddlePreservesIInv ==
  ASSUME IInv, InsertInMiddle
  PROVE  IInv'
<1> USE DEF InsertInMiddle
<1> DEFINE succ == next[index]
<1>1. /\ members # {} /\ tail \in members /\ head \in members /\ index \in members
      /\ members \subseteq 1..allocated /\ newCell \in 1..allocated
      /\ 1..allocated \subseteq Cell
  BY CellOrder, QuickSortSetAssumption
     DEF IInv, TypeOK, WellLinked, EndsAreExtreme, WalkStaysInside,
         MembersAllocated, newCell, Cell
<1>2. /\ Precedes(index, newCell) /\ Precedes(newCell, tail)
      /\ \A c \in members : Precedes(index, c) => Precedes(newCell, c)
  BY <1>1, CellOrder DEF IInv, WellLinked, WalkStaysInside
<1>3. /\ index # tail
      /\ succ \in members /\ Precedes(index, succ)
      /\ \A d \in members : ~(Precedes(index, d) /\ Precedes(d, succ))
  BY <1>1, <1>2, CellOrder DEF IInv, WellLinked, LinkedInOrder
<1>4. \A c \in members : Precedes(c, newCell) \/ Precedes(newCell, c)
  <2> SUFFICES ASSUME NEW c \in members, ~Precedes(index, c)
               PROVE  Precedes(c, newCell)
    BY <1>2
  <2>1. c = index \/ Precedes(c, index)
    BY <1>1 DEF IInv, WellLinked, NoDuplicates
  <2> QED
    BY <2>1, <1>1, <1>2, CellOrder
<1>5. /\ MembersAllocated' /\ NoDuplicates' /\ SizeCounts' /\ WalkStaysInside'
      /\ size' \in Nat /\ members' \subseteq Cell
      /\ newCell \in Cell /\ newCell \notin members
      /\ result' \in [ok: BOOLEAN, lexeme: Lexemes \cup {NoLexeme}]
      /\ index' \in Cell \cup {Nil} /\ pc' \in {"idle", "ends", "walk"}
      /\ \A c, d \in Cell : Precedes(c, d)' = Precedes(c, d)
  BY <1>4, AddedKeepsMembers
<1>6. members' = members \cup {newCell}
  BY DEF Added
<1>7. TypeOK'
  BY <1>1, <1>3, <1>5 DEF IInv, TypeOK
<1>8. EndsAreExtreme'
  <2>1. Precedes(head, newCell)
    BY <1>1, <1>4, <1>5 DEF IInv, WellLinked, WalkStaysInside
  <2> QED
    BY <2>1, <1>1, <1>2, <1>5, <1>6 DEF IInv, TypeOK, WellLinked, EndsAreExtreme
<1>9. LinkedInOrder'
  <2> SUFFICES ASSUME NEW c \in members', c # tail, NEW n, n = next'[c]
               PROVE  /\ n \in members' /\ Precedes(c, n)
                      /\ \A d \in members' : ~(Precedes(c, d) /\ Precedes(d, n))
    BY DEF LinkedInOrder, Precedes
  <2>1. \A d \in members' : d \in Cell /\ d \in 1..allocated
    BY <1>1, <1>5, <1>6
  <2>2. next'[index] = newCell /\ next'[newCell] = succ
    BY <1>1, <1>5 DEF IInv, TypeOK
  <2>3. prev'[newCell] = index /\ prev'[succ] = newCell
    BY <1>1, <1>3, <1>5 DEF IInv, TypeOK
  <2>4. CASE c = newCell
    <3>1. Precedes(newCell, succ)
      BY <1>2, <1>3
    <3>2. ASSUME NEW d \in members', Precedes(newCell, d), Precedes(d, succ)
          PROVE  FALSE
      <4>1. d \in members
        BY <3>2, <1>6, <2>1, CellOrder
      <4>2. Precedes(index, d)
        BY <4>1, <3>2, <1>1, <1>2, CellOrder
      <4> QED
        BY <4>1, <4>2, <3>2, <1>3
    <3> QED
      <4>1. n = succ
        BY <2>2, <2>4
      <4>2. n \in members'
        BY <4>1, <1>3, <1>6
      <4>3. Precedes(c, n)
        BY <4>1, <2>4, <3>1
      <4>4. ASSUME NEW d \in members', Precedes(c, d), Precedes(d, n) PROVE FALSE
        BY <4>1, <4>4, <2>4, <3>2
      <4> QED
        BY <4>2, <4>3, <4>4
  <2>5. CASE c = index
    <3>1. ASSUME NEW d \in members', Precedes(index, d), Precedes(d, newCell)
          PROVE  FALSE
      BY <3>1, <1>1, <1>2, <1>6, <2>1, CellOrder
    <3> QED
      <4>1. n = newCell
        BY <2>2, <2>5
      <4>2. n \in members'
        BY <4>1, <1>6
      <4>3. Precedes(c, n)
        BY <4>1, <2>5, <1>2
      <4>4. ASSUME NEW d \in members', Precedes(c, d), Precedes(d, n) PROVE FALSE
        BY <4>1, <4>4, <2>5, <3>1
      <4> QED
        BY <4>2, <4>3, <4>4
  <2>6. CASE c # newCell /\ c # index
    <3>1. /\ c \in members
          /\ next[c] \in members /\ Precedes(c, next[c])
          /\ \A d \in members : ~(Precedes(c, d) /\ Precedes(d, next[c]))
      BY <2>6, <1>6 DEF IInv, WellLinked, LinkedInOrder
    <3>2. next[c] # succ
      <4>1. Precedes(c, index) \/ Precedes(index, c)
        BY <2>6, <3>1, <1>1 DEF IInv, WellLinked, NoDuplicates
      <4> QED
        BY <4>1, <3>1, <1>1, <1>3
    <3>3. next'[c] = next[c]
      BY <2>6, <3>1, <3>2, <1>1, <1>5 DEF IInv, TypeOK
    <3>4. ~(Precedes(c, newCell) /\ Precedes(newCell, next[c]))
      <4> SUFFICES ASSUME Precedes(c, newCell), Precedes(newCell, next[c])
                   PROVE  FALSE
        OBVIOUS
      <4>1. Precedes(c, index) \/ Precedes(index, c)
        BY <2>6, <3>1, <1>1 DEF IInv, WellLinked, NoDuplicates
      <4>2. CASE Precedes(index, c)
        BY <4>2, <3>1, <1>1, <1>2, CellOrder
      <4>3. CASE Precedes(c, index)
        <5>1. Precedes(index, next[c])
          BY <3>1, <1>1, <1>2, CellOrder
        <5> QED
          BY <5>1, <4>3, <3>1, <1>1
      <4> QED
        BY <4>1, <4>2, <4>3
    <3> QED
      <4>1. n = next[c]
        BY <3>3
      <4>2. n \in members'
        BY <4>1, <3>1, <1>6
      <4>3. Precedes(c, n)
        BY <4>1, <3>1
      <4>4. ASSUME NEW d \in members', Precedes(c, d), Precedes(d, n) PROVE FALSE
        BY <4>1, <4>4, <3>1, <3>4, <1>6
      <4> QED
        BY <4>2, <4>3, <4>4
  <2> QED
    BY <2>4, <2>5, <2>6
<1>10. LinkedBack'
  <2> SUFFICES ASSUME NEW c \in members', c # head
               PROVE  prev'[c] \in members' /\ prev'[c] # tail /\ next'[prev'[c]] = c
    BY DEF LinkedBack
  <2>1. newCell # tail
    BY <1>1, <1>5
  <2>2. CASE c = newCell
    BY <2>2, <1>1, <1>3, <1>5, <1>6 DEF IInv, TypeOK
  <2>3. CASE c = succ
    BY <2>1, <2>3, <1>1, <1>3, <1>5, <1>6 DEF IInv, TypeOK
  <2>4. CASE c # newCell /\ c # succ
    <3>1. /\ prev[c] \in members /\ prev[c] # tail /\ next[prev[c]] = c
          /\ c \in members
      BY <2>4, <1>6 DEF IInv, WellLinked, LinkedBack
    <3>2. prev[c] # index /\ prev[c] # newCell
      BY <3>1, <2>4, <1>5
    <3>3. prev'[c] = prev[c] /\ next'[prev[c]] = c
      BY <3>1, <3>2, <2>4, <1>1, <1>3, <1>5 DEF IInv, TypeOK
    <3> QED
      BY <3>1, <3>3, <1>6
  <2> QED
    BY <2>2, <2>3, <2>4
<1> QED
  BY <1>5, <1>7, <1>8, <1>9, <1>10 DEF IInv, WellLinked

(* A newcomer that is refused changes nothing in the list.                 *)
LEMMA RefusedPreservesIInv ==
  ASSUME IInv, pc # "idle", Refused
  PROVE  IInv'
<1> USE DEF Refused, heap
<1>1. \A c, d \in Cell : Precedes(c, d)' = Precedes(c, d)
  BY DEF Precedes
<1>2. newCell \in Cell /\ lexeme[newCell] \in Lexemes
  BY QuickSortSetAssumption
     DEF IInv, TypeOK, WellLinked, MembersAllocated, Cell, newCell
<1>3. TypeOK'
  BY <1>2 DEF IInv, TypeOK, Answer
<1>4. MembersAllocated' /\ SizeCounts' /\ WalkStaysInside'
  BY DEF IInv, WellLinked, MembersAllocated, SizeCounts, WalkStaysInside
<1>5. NoDuplicates'
  BY DEF IInv, WellLinked, NoDuplicates, Precedes
<1>6. EndsAreExtreme'
  BY DEF IInv, WellLinked, EndsAreExtreme, Precedes
<1>7. LinkedInOrder' /\ LinkedBack'
  BY DEF IInv, WellLinked, LinkedInOrder, LinkedBack, Precedes
<1> QED
  BY <1>3, <1>4, <1>5, <1>6, <1>7 DEF IInv, WellLinked

(* The walk starts at the tail, and the newcomer lies before it.           *)
LEMMA StartWalkPreservesIInv ==
  ASSUME IInv, StartWalk
  PROVE  IInv'
<1> USE DEF StartWalk, heap
<1>1. /\ members # {} /\ tail \in members /\ head \in members
      /\ members \subseteq 1..allocated /\ newCell \in 1..allocated
  BY EmptyIsEmpty, QuickSortSetAssumption
     DEF IInv, TypeOK, WellLinked, EndsAreExtreme, MembersAllocated, newCell, Cell
<1>2. Precedes(newCell, tail) /\ ~Precedes(newCell, head)
  BY <1>1, CellOrder
<1>3. \A c \in members : ~Precedes(tail, c)
  BY <1>1, CellOrder DEF IInv, WellLinked, EndsAreExtreme
<1>4. WalkStaysInside'
  BY <1>1, <1>2, <1>3 DEF WalkStaysInside, Precedes, newCell
<1>5. TypeOK'
  BY DEF IInv, TypeOK
<1>6. MembersAllocated' /\ SizeCounts'
  BY DEF IInv, WellLinked, MembersAllocated, SizeCounts, newCell
<1>7. NoDuplicates' /\ EndsAreExtreme' /\ LinkedInOrder' /\ LinkedBack'
  BY DEF IInv, WellLinked, NoDuplicates, EndsAreExtreme, LinkedInOrder,
     LinkedBack, Precedes
<1> QED
  BY <1>4, <1>5, <1>6, <1>7 DEF IInv, WellLinked

(* One step of the walk: there is a member before index, since the head is *)
(* not after the newcomer and index is.                                    *)
LEMMA WalkBackPreservesIInv ==
  ASSUME IInv, WalkBack
  PROVE  IInv'
<1> USE DEF WalkBack, heap
<1>1. /\ index \in members /\ tail \in members /\ head \in members
      /\ members \subseteq 1..allocated /\ newCell \in 1..allocated
      /\ Precedes(newCell, tail) /\ ~Precedes(newCell, head)
      /\ \A c \in members : Precedes(index, c) => Precedes(newCell, c)
  BY QuickSortSetAssumption
     DEF IInv, TypeOK, WellLinked, EndsAreExtreme, MembersAllocated, newCell,
         Cell, WalkStaysInside
<1>2. Precedes(newCell, index) /\ index # head
  BY <1>1, CellOrder
<1>3. /\ prev[index] \in members /\ prev[index] # tail
      /\ \A d \in members : ~(Precedes(prev[index], d) /\ Precedes(d, index))
  <2>1. /\ prev[index] \in members /\ prev[index] # tail
        /\ next[prev[index]] = index
    BY <1>1, <1>2 DEF IInv, WellLinked, LinkedBack
  <2>2. \A d \in members : ~(Precedes(prev[index], d) /\ Precedes(d, next[prev[index]]))
    BY <2>1 DEF IInv, WellLinked, LinkedInOrder
  <2> QED
    BY <2>1, <2>2
<1>4. ASSUME NEW c \in members, Precedes(prev[index], c)
      PROVE  Precedes(newCell, c)
  <2>1. c = index \/ Precedes(index, c)
    BY <1>1, <1>3, <1>4 DEF IInv, WellLinked, NoDuplicates
  <2> QED
    BY <2>1, <1>1, <1>2
<1>5. WalkStaysInside'
  BY <1>1, <1>3, <1>4 DEF WalkStaysInside, Precedes, newCell
<1>6. TypeOK'
  BY <1>1 DEF IInv, TypeOK
<1>7. MembersAllocated' /\ SizeCounts'
  BY DEF IInv, WellLinked, MembersAllocated, SizeCounts, newCell
<1>8. NoDuplicates' /\ EndsAreExtreme' /\ LinkedInOrder' /\ LinkedBack'
  BY DEF IInv, WellLinked, NoDuplicates, EndsAreExtreme, LinkedInOrder,
     LinkedBack, Precedes
<1> QED
  BY <1>5, <1>6, <1>7, <1>8 DEF IInv, WellLinked

(* Polling the last lexeme left empties the list.                          *)
LEMMA PollOnlyPreservesIInv ==
  ASSUME IInv, PollOnly
  PROVE  IInv'
<1> USE DEF PollOnly, heap
<1>1. members = {head} /\ head \in 1..allocated
  BY EmptyIsEmpty DEF IInv, WellLinked, MembersAllocated
<1>2. members' = {}
  BY <1>1
<1>3. lexeme[head] \in Lexemes
  BY <1>1, CellOrder
<1>4. TypeOK'
  BY <1>2, <1>3 DEF IInv, TypeOK, Answer
<1>5. WellLinked'
  BY <1>2, FS_EmptySet
     DEF IInv, WellLinked, MembersAllocated, NoDuplicates, SizeCounts,
         EndsAreExtreme, LinkedInOrder, LinkedBack, WalkStaysInside
<1> QED
  BY <1>4, <1>5 DEF IInv

(* After either poll the members left are still distinct and counted.      *)
LEMMA RemoveKeepsMembers ==
  ASSUME IInv, NEW c \in members, size > 1, pc = "idle", size' = size - 1,
         members' = members \ {c}, UNCHANGED <<heap, pc>>,
         result' = Answer(TRUE, lexeme[c])
  PROVE  /\ MembersAllocated' /\ NoDuplicates' /\ SizeCounts' /\ WalkStaysInside'
         /\ result' \in [ok: BOOLEAN, lexeme: Lexemes \cup {NoLexeme}]
         /\ size' \in Nat
<1> USE DEF heap
<1>1. c \in 1..allocated /\ lexeme[c] \in Lexemes
  BY CellOrder DEF IInv, WellLinked, MembersAllocated
<1>2. MembersAllocated' /\ WalkStaysInside'
  BY DEF IInv, WellLinked, MembersAllocated, WalkStaysInside
<1>3. NoDuplicates'
  BY DEF IInv, WellLinked, NoDuplicates, Precedes
<1>4. SizeCounts' /\ size' \in Nat
  BY FS_RemoveElement DEF IInv, TypeOK, WellLinked, SizeCounts
<1>5. result' \in [ok: BOOLEAN, lexeme: Lexemes \cup {NoLexeme}]
  BY <1>1 DEF Answer
<1> QED
  BY <1>2, <1>3, <1>4, <1>5

(* The cell next to the old head becomes the head: nothing lies between.   *)
LEMMA PollFirstPreservesIInv ==
  ASSUME IInv, PollFirst
  PROVE  IInv'
<1> USE DEF PollFirst, heap
<1>1. /\ head \in members /\ tail \in members /\ head # tail
      /\ members \subseteq 1..allocated
  BY EmptyIsEmpty
     DEF IInv, TypeOK, WellLinked, EndsAreExtreme, MembersAllocated
<1>2. /\ MembersAllocated' /\ NoDuplicates' /\ SizeCounts' /\ WalkStaysInside'
      /\ result' \in [ok: BOOLEAN, lexeme: Lexemes \cup {NoLexeme}]
      /\ size' \in Nat
  BY <1>1, RemoveKeepsMembers
<1>3. TypeOK'
  BY <1>1, <1>2 DEF IInv, TypeOK
<1> DEFINE second == next[head]
<1>4. /\ second \in members /\ Precedes(head, second)
      /\ \A d \in members : ~(Precedes(head, d) /\ Precedes(d, second))
  BY <1>1 DEF IInv, WellLinked, LinkedInOrder
<1>5. second # head
  BY <1>1, <1>4, CellOrder
<1>6. \A c \in members \ {head, second} : Precedes(second, c)
  BY <1>1, <1>4 DEF IInv, WellLinked, EndsAreExtreme, NoDuplicates
<1>7. EndsAreExtreme'
  BY <1>1, <1>4, <1>5, <1>6 DEF IInv, WellLinked, EndsAreExtreme, Precedes
<1>8. LinkedInOrder'
  <2> SUFFICES ASSUME NEW c \in members, c # head, c # tail
               PROVE  /\ next[c] \in members \ {head}
                      /\ Precedes(c, next[c])
                      /\ \A d \in members : ~(Precedes(c, d) /\ Precedes(d, next[c]))
    BY DEF LinkedInOrder, Precedes
  <2>1. Precedes(head, c)
    BY <1>1 DEF IInv, WellLinked, EndsAreExtreme
  <2>2. /\ next[c] \in members /\ Precedes(c, next[c])
        /\ \A d \in members : ~(Precedes(c, d) /\ Precedes(d, next[c]))
    BY DEF IInv, WellLinked, LinkedInOrder
  <2>3. next[c] # head
    BY <2>1, <2>2, <1>1, CellOrder
  <2> QED
    BY <2>2, <2>3
<1>9. LinkedBack'
  <2> SUFFICES ASSUME NEW c \in members, c # head, c # second
               PROVE  /\ prev[c] \in members \ {head} /\ prev[c] # tail
                      /\ next[prev[c]] = c
    BY DEF LinkedBack
  <2>1. prev[c] \in members /\ prev[c] # tail /\ next[prev[c]] = c
    BY DEF IInv, WellLinked, LinkedBack
  <2> QED
    BY <2>1
<1> QED
  BY <1>2, <1>3, <1>7, <1>8, <1>9 DEF IInv, WellLinked

(* The cell before the old tail becomes the tail.                          *)
LEMMA PollLastPreservesIInv ==
  ASSUME IInv, PollLast
  PROVE  IInv'
<1> USE DEF PollLast, heap
<1>1. /\ head \in members /\ tail \in members /\ head # tail
      /\ members \subseteq 1..allocated
  BY EmptyIsEmpty
     DEF IInv, TypeOK, WellLinked, EndsAreExtreme, MembersAllocated
<1>2. /\ MembersAllocated' /\ NoDuplicates' /\ SizeCounts' /\ WalkStaysInside'
      /\ result' \in [ok: BOOLEAN, lexeme: Lexemes \cup {NoLexeme}]
      /\ size' \in Nat
  BY <1>1, RemoveKeepsMembers
<1>3. TypeOK'
  BY <1>1, <1>2 DEF IInv, TypeOK
<1> DEFINE last == prev[tail]
<1>4. last \in members /\ last # tail /\ next[last] = tail
  BY <1>1 DEF IInv, WellLinked, LinkedBack
<1>5. /\ Precedes(last, next[last])
      /\ \A d \in members : ~(Precedes(last, d) /\ Precedes(d, next[last]))
  BY <1>4 DEF IInv, WellLinked, LinkedInOrder
<1>6. \A c \in members \ {last, tail} : Precedes(c, last)
  BY <1>1, <1>4, <1>5 DEF IInv, WellLinked, EndsAreExtreme, NoDuplicates
<1>7. EndsAreExtreme'
  BY <1>1, <1>4, <1>6 DEF IInv, WellLinked, EndsAreExtreme, Precedes
<1>8. LinkedInOrder'
  <2> SUFFICES ASSUME NEW c \in members, c # last, c # tail
               PROVE  /\ next[c] \in members \ {tail}
                      /\ Precedes(c, next[c])
                      /\ \A d \in members : ~(Precedes(c, d) /\ Precedes(d, next[c]))
    BY DEF LinkedInOrder, Precedes
  <2>1. /\ next[c] \in members /\ Precedes(c, next[c])
        /\ \A d \in members : ~(Precedes(c, d) /\ Precedes(d, next[c]))
    BY DEF IInv, WellLinked, LinkedInOrder
  <2>2. next[c] # tail
    <3> SUFFICES ASSUME next[c] = tail PROVE FALSE
      OBVIOUS
    <3>1. Precedes(c, last) /\ Precedes(last, tail)
      BY <1>4, <1>5, <1>6
    <3> QED
      BY <3>1, <2>1, <1>4
  <2> QED
    BY <2>1, <2>2
<1>9. LinkedBack'
  <2> SUFFICES ASSUME NEW c \in members, c # head, c # tail
               PROVE  /\ prev[c] \in members \ {tail} /\ prev[c] # last
                      /\ next[prev[c]] = c
    BY DEF LinkedBack
  <2>1. prev[c] \in members /\ prev[c] # tail /\ next[prev[c]] = c
    BY DEF IInv, WellLinked, LinkedBack
  <2> QED
    BY <2>1, <1>4
<1> QED
  BY <1>2, <1>3, <1>7, <1>8, <1>9 DEF IInv, WellLinked

(* One step, action by action.                                             *)
LEMMA NextPreservesIInv ==
  ASSUME IInv, [Next]_vars
  PROVE  IInv'
<1>1. ASSUME NEW l \in Lexemes, NewCell(l) PROVE IInv'
  BY <1>1, NewCellPreservesIInv
<1>2. CASE AddToEmpty
  BY <1>2, AddToEmptyPreservesIInv
<1>3. CASE RefuseAtTail
  BY <1>3, RefusedPreservesIInv DEF RefuseAtTail
<1>4. CASE AddAfterTail
  BY <1>4, AddAfterTailPreservesIInv
<1>5. CASE AddBeforeHead
  BY <1>5, AddBeforeHeadPreservesIInv
<1>6. CASE StartWalk
  BY <1>6, StartWalkPreservesIInv
<1>7. CASE WalkBack
  BY <1>7, WalkBackPreservesIInv
<1>8. CASE RefuseInMiddle
  BY <1>8, RefusedPreservesIInv DEF RefuseInMiddle
<1>9. CASE InsertInMiddle
  BY <1>9, InsertInMiddlePreservesIInv
<1>10. CASE PollEmpty
  BY <1>10 DEF PollEmpty, heap, IInv, TypeOK, Answer, WellLinked, MembersAllocated,
     NoDuplicates, SizeCounts, EndsAreExtreme, LinkedInOrder, LinkedBack,
     WalkStaysInside, Precedes, newCell
<1>11. CASE PollOnly
  BY <1>11, PollOnlyPreservesIInv
<1>12. CASE PollFirst
  BY <1>12, PollFirstPreservesIInv
<1>13. CASE PollLast
  BY <1>13, PollLastPreservesIInv
<1>14. CASE UNCHANGED vars
  BY <1>14 DEF vars, IInv, TypeOK, WellLinked, MembersAllocated,
     NoDuplicates, SizeCounts, EndsAreExtreme, LinkedInOrder, LinkedBack,
     WalkStaysInside, Precedes, newCell
<1> QED
  BY <1>1, <1>2, <1>3, <1>4, <1>5, <1>6, <1>7, <1>8, <1>9, <1>10, <1>11, <1>12,
     <1>13, <1>14 DEF Next, AddLexeme

(* Whatever the lexemes and however many cells, every state of the list is *)
(* well typed.                                                             *)
THEOREM ListIsTyped == Spec => []TypeOK
<1>1. Init => IInv
  BY InitEstablishesIInv
<1>2. IInv /\ [Next]_vars => IInv'
  BY NextPreservesIInv
<1>3. IInv => TypeOK
  BY DEF IInv
<1> QED
  BY <1>1, <1>2, <1>3, PTL DEF Spec

(* Whatever the lexemes and however many cells, the list of                *)
(* quick_sort_set.go is a sorted, duplicate-free, doubly linked list of    *)
(* its members between two calls and in the middle of one, and the walk of *)
(* addLexeme never leaves it: it dereferences no nil pointer.              *)
THEOREM ListIsWellLinked == Spec => []WellLinked
<1>1. Init => IInv
  BY InitEstablishesIInv
<1>2. IInv /\ [Next]_vars => IInv'
  BY NextPreservesIInv
<1>3. IInv => WellLinked
  BY DEF IInv
<1> QED
  BY <1>1, <1>2, <1>3, PTL DEF Spec

-----------------------------------------------------------------------------
(* The refinement.                                                         *)

held == {lexeme[c] : c \in members}
given == IF pc = "idle" THEN NoLexeme ELSE lexeme[newCell]

(* The first lexeme of the set is the one in the head, the last the one in *)
(* the tail, and no other cell carries them.                               *)
LEMMA EndsHoldFirstAndLast ==
  ASSUME IInv, members # {}
  PROVE  /\ Sorted!First(held) = lexeme[head]
         /\ Sorted!Last(held) = lexeme[tail]
         /\ held \ {lexeme[head]} = {lexeme[c] : c \in members \ {head}}
         /\ held \ {lexeme[tail]} = {lexeme[c] : c \in members \ {tail}}
<1> USE DEF held, Precedes
<1>1. /\ head \in members /\ \A c \in members \ {head} : Before(lexeme[head], lexeme[c])
      /\ tail \in members /\ \A c \in members \ {tail} : Before(lexeme[c], lexeme[tail])
      /\ members \subseteq 1..allocated
  BY DEF IInv, WellLinked, EndsAreExtreme, MembersAllocated
<1>2. \A c, d \in members : Before(lexeme[c], lexeme[d]) =>
                             lexeme[c] # lexeme[d] /\ ~Before(lexeme[d], lexeme[c])
  BY <1>1, CellOrder
<1>3. \A l, m : Sorted!Before(l, m) <=> Before(l, m)
  BY DEF Sorted!Before, Before
<1>4. Sorted!First(held) = lexeme[head]
  <2>1. /\ lexeme[head] \in held
        /\ \A m \in held : m = lexeme[head] \/ Before(lexeme[head], m)
    BY <1>1
  <2>2. ASSUME NEW l \in held, \A m \in held : m = l \/ Before(l, m)
        PROVE  l = lexeme[head]
    BY <2>1, <2>2, <1>1, <1>2
  <2> QED
    BY <2>1, <2>2, <1>3 DEF Sorted!First
<1>5. Sorted!Last(held) = lexeme[tail]
  <2>1. /\ lexeme[tail] \in held
        /\ \A m \in held : m = lexeme[tail] \/ Before(m, lexeme[tail])
    BY <1>1
  <2>2. ASSUME NEW l \in held, \A m \in held : m = l \/ Before(m, l)
        PROVE  l = lexeme[tail]
    BY <2>1, <2>2, <1>1, <1>2
  <2> QED
    BY <2>1, <2>2, <1>3 DEF Sorted!Last
<1>6. held \ {lexeme[head]} = {lexeme[c] : c \in members \ {head}}
  BY <1>1, <1>2
<1>7. held \ {lexeme[tail]} = {lexeme[c] : c \in members \ {tail}}
  BY <1>1, <1>2
<1> QED
  BY <1>4, <1>5, <1>6, <1>7

(* A newcomer added beside every member of the list carries a new span.    *)
LEMMA AddedIsInsert ==
  ASSUME IInv, pc # "idle", Added, UNCHANGED <<lexeme, allocated>>,
         \A c \in members : Precedes(c, newCell) \/ Precedes(newCell, c)
  PROVE  Sorted!Insert
<1> USE DEF Added
<1>1. members \subseteq 1..allocated /\ newCell \in 1..allocated
  BY QuickSortSetAssumption
     DEF IInv, TypeOK, WellLinked, MembersAllocated, newCell, Cell
<1>2. \A c \in members : ~SameSpan(lexeme[c], lexeme[newCell])
  BY <1>1, CellOrder
<1>3. lexeme[newCell] \in Lexeme
  BY <1>1, CellOrder
<1>4. given = lexeme[newCell] /\ given # NoLexeme /\ given' = NoLexeme
  BY <1>3, NoLexemeIsNone DEF given
<1>5. held' = held \cup {lexeme[newCell]}
  BY DEF held
<1>6. ~\E m \in held : Sorted!SameSpan(m, given)
  BY <1>2, <1>4 DEF held, Sorted!SameSpan, SameSpan
<1>7. result' = Sorted!Answer(TRUE, given)
  BY <1>4 DEF Sorted!Answer, Answer
<1> QED
  BY <1>4, <1>5, <1>6, <1>7
     DEF Sorted!Insert, held, given, NoLexeme, Sorted!NoLexeme,
         TypeUnknown, Sorted!TypeUnknown

(* A newcomer is refused only when a member has its span.                  *)
LEMMA RefusedIsInsert ==
  ASSUME IInv, pc # "idle", Refused, NEW c \in members,
         CompareTo(lexeme[c], lexeme[newCell]) = 0
  PROVE  Sorted!Insert
<1> USE DEF Refused, heap
<1>1. members \subseteq 1..allocated /\ newCell \in 1..allocated
  BY QuickSortSetAssumption
     DEF IInv, TypeOK, WellLinked, MembersAllocated, newCell, Cell
<1>2. SameSpan(lexeme[c], lexeme[newCell]) /\ lexeme[newCell] \in Lexeme
  BY <1>1, CellOrder
<1>3. given = lexeme[newCell] /\ given # NoLexeme /\ given' = NoLexeme
  BY <1>2, NoLexemeIsNone DEF given
<1>4. held' = held
  BY DEF held
<1>5. \E m \in held : Sorted!SameSpan(m, given)
  BY <1>2, <1>3 DEF held, Sorted!SameSpan, SameSpan
<1>6. result' = Sorted!Answer(FALSE, given)
  BY <1>3 DEF Sorted!Answer, Answer
<1> QED
  BY <1>3, <1>4, <1>5, <1>6
     DEF Sorted!Insert, held, given, NoLexeme, Sorted!NoLexeme,
         TypeUnknown, Sorted!TypeUnknown

(* Every step of the list is a step of the sorted set, or hides from it.   *)
LEMMA StepRefines ==
  ASSUME IInv, [Next]_vars
  PROVE  [Sorted!SortedNext]_(Sorted!svars)
<1>1. /\ members \subseteq 1..allocated
      /\ members # {} => head \in members /\ tail \in members
      /\ pc # "idle" => newCell \in 1..allocated
  <2>1. members \subseteq 1..allocated
    BY DEF IInv, WellLinked, MembersAllocated
  <2>2. members # {} => head \in members /\ tail \in members
    BY DEF IInv, WellLinked, EndsAreExtreme
  <2>3. pc # "idle" => newCell \in 1..allocated
    BY QuickSortSetAssumption
       DEF IInv, TypeOK, WellLinked, MembersAllocated, newCell, Cell
  <2> QED
    BY <2>1, <2>2, <2>3
<1> USE DEF NoLexeme, Sorted!NoLexeme, TypeUnknown, Sorted!TypeUnknown
<1>2. ASSUME NEW l \in Lexemes, NewCell(l) PROVE Sorted!Offer(l)
  <2> USE <1>2 DEF NewCell
  <2>1. \A c \in members : lexeme'[c] = lexeme[c]
    BY <1>1 DEF IInv, TypeOK
  <2>2. held' = held
    BY <2>1 DEF held
  <2>3. given = NoLexeme /\ given' = l
    <3>1. lexeme'[allocated + 1] = l
      BY QuickSortSetAssumption DEF IInv, TypeOK, Cell
    <3> QED
      BY <3>1 DEF given, newCell
  <2> QED
    BY <2>2, <2>3 DEF Sorted!Offer, held, given
<1>3. CASE AddToEmpty
  <2>1. members = {}
    BY <1>3, EmptyIsEmpty DEF AddToEmpty
  <2> QED
    BY <1>3, <2>1, AddedIsInsert DEF AddToEmpty, heap, Sorted!SortedNext
<1>4. CASE AddAfterTail
  <2>1. \A c \in members : Precedes(c, newCell)
    BY <1>4, <1>1, EmptyIsEmpty, CellOrder
       DEF AddAfterTail, IInv, WellLinked, EndsAreExtreme
  <2> QED
    BY <1>4, <2>1, AddedIsInsert DEF AddAfterTail, Sorted!SortedNext
<1>5. CASE AddBeforeHead
  <2>1. \A c \in members : Precedes(newCell, c)
    BY <1>5, <1>1, EmptyIsEmpty, CellOrder
       DEF AddBeforeHead, IInv, WellLinked, EndsAreExtreme
  <2> QED
    BY <1>5, <2>1, AddedIsInsert DEF AddBeforeHead, Sorted!SortedNext
<1>6. CASE InsertInMiddle
  <2>1. /\ index \in members /\ Precedes(index, newCell)
        /\ \A c \in members : Precedes(index, c) => Precedes(newCell, c)
    BY <1>6, <1>1, CellOrder DEF InsertInMiddle, IInv, WellLinked, WalkStaysInside
  <2>2. \A c \in members : Precedes(c, newCell) \/ Precedes(newCell, c)
    BY <2>1, <1>1, <1>6, CellOrder
       DEF InsertInMiddle, IInv, WellLinked, NoDuplicates
  <2> QED
    BY <1>6, <2>2, AddedIsInsert DEF InsertInMiddle, Sorted!SortedNext
<1>7. CASE RefuseAtTail
  BY <1>7, <1>1, EmptyIsEmpty, RefusedIsInsert DEF RefuseAtTail, Sorted!SortedNext
<1>8. CASE RefuseInMiddle
  <2>1. index \in members
    BY <1>8 DEF RefuseInMiddle, IInv, WellLinked, WalkStaysInside
  <2> QED
    BY <1>8, <2>1, RefusedIsInsert DEF RefuseInMiddle, Sorted!SortedNext
<1>9. CASE StartWalk \/ WalkBack
  BY <1>9 DEF StartWalk, WalkBack, heap, newCell, Sorted!svars
<1>10. CASE PollEmpty
  <2>1. members = {}
    BY <1>10, EmptyIsEmpty DEF PollEmpty
  <2> QED
    BY <1>10, <2>1 DEF PollEmpty, heap, Sorted!SortedNext, Sorted!PollNothing,
       Answer, Sorted!Answer
<1>11. CASE PollOnly
  <2>1. members = {head}
    BY <1>11, EmptyIsEmpty DEF PollOnly
  <2>2. Sorted!First(held) = lexeme[head] /\ held # {}
    BY <2>1, EndsHoldFirstAndLast DEF held
  <2>3. held' = held \ {lexeme[head]}
    BY <1>11, <2>1 DEF PollOnly, heap, held
  <2>4. Sorted!Poll(Sorted!First(held))
    BY <1>11, <2>2, <2>3 DEF PollOnly, heap, held, Sorted!Poll, Answer, Sorted!Answer
  <2> QED
    BY <2>4 DEF held, Sorted!SortedNext
<1>12. CASE PollFirst
  <2>1. members # {}
    BY <1>12, EmptyIsEmpty DEF PollFirst, IInv, TypeOK
  <2>2. /\ Sorted!First(held) = lexeme[head] /\ held # {}
        /\ held \ {lexeme[head]} = {lexeme[c] : c \in members \ {head}}
    BY <2>1, EndsHoldFirstAndLast DEF held
  <2>3. held' = held \ {lexeme[head]}
    BY <1>12, <2>2 DEF PollFirst, heap, held
  <2>4. Sorted!Poll(Sorted!First(held))
    BY <1>12, <2>2, <2>3 DEF PollFirst, heap, held, Sorted!Poll, Answer, Sorted!Answer
  <2> QED
    BY <2>4 DEF held, Sorted!SortedNext
<1>13. CASE PollLast
  <2>1. members # {}
    BY <1>13, EmptyIsEmpty DEF PollLast, IInv, TypeOK
  <2>2. /\ Sorted!Last(held) = lexeme[tail] /\ held # {}
        /\ held \ {lexeme[tail]} = {lexeme[c] : c \in members \ {tail}}
    BY <2>1, EndsHoldFirstAndLast DEF held
  <2>3. held' = held \ {lexeme[tail]}
    BY <1>13, <2>2 DEF PollLast, heap, held
  <2>4. Sorted!Poll(Sorted!Last(held))
    BY <1>13, <2>2, <2>3 DEF PollLast, heap, held, Sorted!Poll, Answer, Sorted!Answer
  <2> QED
    BY <2>4 DEF held, Sorted!SortedNext
<1>14. CASE UNCHANGED vars
  BY <1>14 DEF vars, newCell, Sorted!svars
<1> QED
  BY <1>2, <1>3, <1>4, <1>5, <1>6, <1>7, <1>8, <1>9, <1>10, <1>11, <1>12, <1>13,
     <1>14 DEF Next, AddLexeme, Sorted!SortedNext

(* The linked list implements the sorted set: for any lexemes and any      *)
(* number of cells, addLexeme adds a lexeme unless its span is there, and  *)
(* pollFirst and pollLast return the extremes (quick_sort_set.go).         *)
THEOREM ListImplementsSortedSet == Spec => ImplementsSortedSet
<1>1. Init => IInv
  BY InitEstablishesIInv
<1>2. IInv /\ [Next]_vars => IInv'
  BY NextPreservesIInv
<1>3. Init => Sorted!SortedInit
  BY DEF Init, Sorted!SortedInit, NoLexeme, Sorted!NoLexeme, TypeUnknown,
     Sorted!TypeUnknown, Answer, Sorted!Answer
<1>4. IInv /\ [Next]_vars => [Sorted!SortedNext]_(Sorted!svars)
  BY StepRefines
<1> QED
  BY <1>1, <1>2, <1>3, <1>4, PTL DEF Spec, ImplementsSortedSet, Sorted!SortedSpec

-----------------------------------------------------------------------------
(* The walk to nil.                                                        *)

(* A set of numbers that is not empty has a least one.                     *)
LEMMA LeastNumber ==
  ASSUME NEW T, T \subseteq Nat, T # {}
  PROVE  \E x \in T : \A y \in T : x <= y
<1> DEFINE R == OpToRel(<, Nat)
<1>1. IsWellFoundedOn(R, Nat)
  BY NatLessThanWellFounded
<1> HIDE DEF R
<1>2. PICK x \in T : \A y \in T : ~(<<y, x>> \in R)
  BY <1>1, WFMin
<1>3. \A y \in T : ~(y < x)
  BY <1>2 DEF R, OpToRel
<1> QED
  BY <1>3

(* What holds of 0, and of m + 1 when of m, holds up to n.                 *)
LEMMA UpTo ==
  ASSUME NEW n \in Nat, NEW G, 0 \in G, \A m \in 0..(n - 1) : m \in G => m + 1 \in G
  PROVE  \A m \in 0..n : m \in G
<1> SUFFICES ASSUME \E m \in 0..n : m \notin G PROVE FALSE
  OBVIOUS
<1> DEFINE T == {m \in 0..n : m \notin G}
<1>1. PICK x \in T : \A y \in T : x <= y
  <2>1. T \subseteq Nat /\ T # {}
    OBVIOUS
  <2> HIDE DEF T
  <2> QED
    BY <2>1, LeastNumber
<1>2. x - 1 \in 0..(n - 1) /\ x - 1 \notin T
  BY <1>1
<1> QED
  BY <1>1, <1>2

(* The cells met by following the pointers nx from h, one more at a time.  *)
Onward(s, nx) == s \cup ({nx[c] : c \in s} \ {Nil})

WalkedFrom(h, nx) ==
    LET from[n \in 0..MaxCells] ==
            IF n = 0 THEN {h} \ {Nil}
            ELSE from[n-1] \cup ({nx[c] : c \in from[n-1]} \ {Nil})
    IN from[MaxCells]

(* The walk, as the sequence of the cells met after so many steps.         *)
IsWalk(g, h, nx) == /\ g[0] = {h}
                    /\ \A n \in 0..(MaxCells - 1) : g[n + 1] = Onward(g[n], nx)

LEMMA WalkByStages ==
  ASSUME NEW h \in Cell, NEW nx \in [Cell -> Cell \cup {Nil}]
  PROVE  \E g \in [0..MaxCells -> SUBSET Cell] :
            IsWalk(g, h, nx) /\ WalkedFrom(h, nx) = g[MaxCells]
<1> DEFINE Eq(g) == g = [n \in 0..MaxCells |->
                           IF n = 0 THEN {h} \ {Nil}
                           ELSE g[n-1] \cup ({nx[c] : c \in g[n-1]} \ {Nil})]
           from == CHOOSE g : Eq(g)
<1>1. WalkedFrom(h, nx) = from[MaxCells]
  BY DEF WalkedFrom
<1>2. MaxCells \in Nat
  BY QuickSortSetAssumption
<1>3. h # Nil /\ {h} \ {Nil} = {h}
  BY DEF Cell, Nil
<1>4. \A s \in SUBSET Cell : Onward(s, nx) \in SUBSET Cell
  BY DEF Onward
<1> DEFINE Stages(m, g) == /\ g[0] = {h}
                           /\ \A n \in 0..(m - 1) : g[n + 1] = Onward(g[n], nx)
           G == {m \in Nat : \E g \in [0..m -> SUBSET Cell] : Stages(m, g)}
<1>5. 0 \in G
  <2>1. [n \in 0..0 |-> {h}] \in [0..0 -> SUBSET Cell]
    OBVIOUS
  <2>2. Stages(0, [n \in 0..0 |-> {h}])
    OBVIOUS
  <2> HIDE DEF Stages
  <2> QED
    BY <2>1, <2>2
<1>6. ASSUME NEW m \in 0..(MaxCells - 1), m \in G PROVE m + 1 \in G
  <2>1. PICK g \in [0..m -> SUBSET Cell] : Stages(m, g)
    BY <1>6
  <2>2. m \in Nat
    BY <1>2
  <2> DEFINE k == [n \in 0..(m + 1) |-> IF n = m + 1 THEN Onward(g[m], nx) ELSE g[n]]
  <2>3. k \in [0..(m + 1) -> SUBSET Cell]
    BY <2>1, <2>2, <1>4
  <2>4. k[0] = {h}
    BY <2>1, <2>2
  <2>5. ASSUME NEW n \in 0..m PROVE k[n + 1] = Onward(k[n], nx)
    <3>1. n + 1 \in 0..(m + 1) /\ n \in 0..(m + 1) /\ n # m + 1
      BY <2>2
    <3>2. k[n] = g[n]
      BY <3>1
    <3>3. CASE n = m
      BY <3>1, <3>2, <3>3
    <3>4. CASE n # m
      <4>1. n \in 0..(m - 1) /\ n + 1 # m + 1
        BY <3>4, <2>2
      <4>2. k[n + 1] = g[n + 1]
        BY <3>1, <4>1
      <4> HIDE DEF k
      <4> QED
        BY <2>1, <3>2, <4>1, <4>2
    <3> QED
      BY <3>3, <3>4
  <2>6. Stages(m + 1, k)
    <3> HIDE DEF k
    <3>1. 0..((m + 1) - 1) = 0..m
      BY <2>2
    <3> QED
      BY <2>4, <2>5, <3>1
  <2> HIDE DEF k, Stages
  <2> QED
    BY <2>2, <2>3, <2>6
<1>7. PICK g \in [0..MaxCells -> SUBSET Cell] : Stages(MaxCells, g)
  <2>1. \A m \in 0..MaxCells : m \in G
    <3> HIDE DEF G
    <3> QED
      BY <1>2, <1>5, <1>6, UpTo
  <2>2. MaxCells \in 0..MaxCells
    BY <1>2
  <2>3. MaxCells \in G
    BY <2>1, <2>2
  <2> HIDE DEF Stages
  <2> QED
    BY <2>3
<1>8. \E w : Eq(w)
  <2>1. ASSUME NEW n \in 0..MaxCells
        PROVE  g[n] = IF n = 0 THEN {h} \ {Nil}
                      ELSE g[n-1] \cup ({nx[c] : c \in g[n-1]} \ {Nil})
    <3>1. CASE n = 0
      BY <3>1, <1>3, <1>7
    <3>2. CASE n # 0
      <4>1. n - 1 \in 0..(MaxCells - 1) /\ (n - 1) + 1 = n
        BY <3>2, <1>2
      <4>2. g[n] = Onward(g[n-1], nx)
        BY <4>1, <1>7
      <4> QED
        BY <3>2, <4>2 DEF Onward
    <3> QED
      BY <3>1, <3>2
  <2>2. Eq(g)
    BY <1>7, <2>1
  <2> HIDE DEF Eq
  <2> QED
    BY <2>2
<1> HIDE DEF from, Eq
<1>9. Eq(from)
  BY <1>8 DEF from
<1>10. /\ DOMAIN from = 0..MaxCells
       /\ \A n \in 0..MaxCells :
             from[n] = IF n = 0 THEN {h} \ {Nil}
                       ELSE from[n-1] \cup ({nx[c] : c \in from[n-1]} \ {Nil})
  BY <1>9 DEF Eq
<1>11. from[0] = {h}
  BY <1>2, <1>3, <1>10
<1>12. ASSUME NEW n \in 0..(MaxCells - 1) PROVE from[n + 1] = Onward(from[n], nx)
  <2>1. n + 1 \in 0..MaxCells /\ n + 1 # 0 /\ (n + 1) - 1 = n
    BY <1>2
  <2> QED
    BY <1>10, <2>1 DEF Onward
<1>13. from \in [0..MaxCells -> SUBSET Cell]
  <2> DEFINE K == {n \in 0..MaxCells : from[n] \in SUBSET Cell}
  <2>1. 0 \in K
    BY <1>2, <1>11
  <2>2. ASSUME NEW n \in 0..(MaxCells - 1), n \in K PROVE n + 1 \in K
    <3>1. n + 1 \in 0..MaxCells
      BY <1>2
    <3> QED
      BY <1>4, <1>12, <2>2, <3>1
  <2>3. \A n \in 0..MaxCells : n \in K
    <3> HIDE DEF K
    <3> QED
      BY <1>2, <2>1, <2>2, UpTo
  <2>4. from = [n \in 0..MaxCells |-> from[n]]
    BY <1>9 DEF Eq
  <2> QED
    BY <2>3, <2>4
<1> QED
  BY <1>1, <1>11, <1>12, <1>13 DEF IsWalk

(* After as many steps as there are cells nothing new is met: each step    *)
(* that is not the last brings one more.                                   *)
LEMMA WalkEnds ==
  ASSUME NEW h \in Cell, NEW nx \in [Cell -> Cell \cup {Nil}],
         NEW g \in [0..MaxCells -> SUBSET Cell], IsWalk(g, h, nx)
  PROVE  Onward(g[MaxCells], nx) = g[MaxCells]
<1>1. MaxCells \in Nat /\ MaxCells \in 0..MaxCells
  BY QuickSortSetAssumption
<1>2. IsFiniteSet(Cell) /\ Cardinality(Cell) = MaxCells
  BY <1>1, FS_Interval DEF Cell
<1>3. \A s \in SUBSET Cell : Onward(s, nx) \in SUBSET Cell /\ s \subseteq Onward(s, nx)
  BY DEF Onward
<1> DEFINE K == {n \in 0..MaxCells : \/ Onward(g[n], nx) = g[n]
                                     \/ Cardinality(g[n]) >= n + 1}
<1>4. 0 \in K
  <2>1. g[0] = {h}
    BY DEF IsWalk
  <2>2. Cardinality({h}) = 1
    BY FS_Singleton
  <2>3. 0 \in 0..MaxCells /\ Cardinality(g[0]) >= 0 + 1
    BY <1>1, <2>1, <2>2
  <2> QED
    BY <2>3
<1>5. ASSUME NEW n \in 0..(MaxCells - 1), n \in K PROVE n + 1 \in K
  <2>1. n \in 0..MaxCells /\ n + 1 \in 0..MaxCells /\ n \in Nat
    BY <1>1
  <2>2. g[n + 1] = Onward(g[n], nx) /\ g[n] \in SUBSET Cell /\ g[n + 1] \in SUBSET Cell
    BY <2>1 DEF IsWalk
  <2>3. CASE Onward(g[n], nx) = g[n]
    BY <2>1, <2>2, <2>3
  <2>4. CASE Onward(g[n], nx) # g[n]
    <3>1. Cardinality(g[n]) >= n + 1
      BY <1>5, <2>4
    <3>2. IsFiniteSet(g[n + 1])
      BY <1>2, <2>2, FS_Subset
    <3>3. g[n] \in SUBSET g[n + 1]
      BY <1>3, <2>2
    <3>4. Cardinality(g[n]) <= Cardinality(g[n + 1]) /\ Cardinality(g[n]) # Cardinality(g[n + 1])
          /\ IsFiniteSet(g[n])
      BY <2>2, <2>4, <3>2, <3>3, FS_Subset
    <3>5. Cardinality(g[n]) \in Nat /\ Cardinality(g[n + 1]) \in Nat
      BY <3>2, <3>4, FS_CardinalityType
    <3> QED
      BY <2>1, <3>1, <3>4, <3>5
  <2> QED
    BY <2>3, <2>4
<1>6. MaxCells \in K
  <2> HIDE DEF K
  <2> QED
    BY <1>1, <1>4, <1>5, UpTo
<1>7. /\ g[MaxCells] \in SUBSET Cell
      /\ IsFiniteSet(g[MaxCells])
      /\ Cardinality(g[MaxCells]) <= MaxCells
  BY <1>1, <1>2, FS_Subset
<1>8. Cardinality(g[MaxCells]) \in Nat
  BY <1>7, FS_CardinalityType
<1> QED
  BY <1>1, <1>6, <1>7, <1>8

(* A strict order on a set of cells, as a set of pairs.                    *)
StrictOn(before, M) == /\ \A c \in M : <<c, c>> \notin before
                       /\ \A c, d, e \in M :
                             <<c, d>> \in before /\ <<d, e>> \in before => <<c, e>> \in before

(* From every member but the first, the pointers pv lead to an earlier     *)
(* one, whose pointer nx leads back.                                       *)
LedBack(h, nx, pv, before, M) ==
    \A c \in M \ {h} : /\ pv[c] \in M /\ nx[pv[c]] = c
                       /\ <<pv[c], c>> \in before

(* Sets of cells are finite.                                               *)
LEMMA CellsAreFinite ==
  ASSUME NEW M \in SUBSET Cell
  PROVE  IsFiniteSet(M)
<1>1. IsFiniteSet(Cell)
  BY QuickSortSetAssumption, FS_Interval DEF Cell
<1> QED
  BY <1>1, FS_Subset

(* How many come before: an earlier member has fewer.                      *)
LEMMA RankGrows ==
  ASSUME NEW M \in SUBSET Cell, NEW before, StrictOn(before, M),
         NEW c \in M, NEW d \in M, <<d, c>> \in before,
         NEW below, \A x \in M : below[x] = {y \in M : <<y, x>> \in before}
  PROVE  /\ Cardinality(below[d]) \in Nat /\ Cardinality(below[c]) \in Nat
         /\ Cardinality(below[d]) < Cardinality(below[c])
<1>1. IsFiniteSet(M)
  BY CellsAreFinite
<1>2. below[c] \in SUBSET M /\ below[d] \in SUBSET below[c] /\ d \in below[c] /\ d \notin below[d]
  BY DEF StrictOn
<1>3. IsFiniteSet(below[c])
  BY <1>1, <1>2, FS_Subset
<1>4. /\ IsFiniteSet(below[d])
      /\ Cardinality(below[d]) <= Cardinality(below[c])
      /\ Cardinality(below[d]) # Cardinality(below[c])
  BY <1>2, <1>3, FS_Subset
<1> QED
  BY <1>3, <1>4, FS_CardinalityType

(* Members met that lead only to members met are all of them: the first    *)
(* one missed would be the next of one met.                                *)
LEMMA ClosedIsAll ==
  ASSUME NEW M \in SUBSET Cell, NEW h \in M, NEW nx, NEW pv, NEW before,
         StrictOn(before, M), LedBack(h, nx, pv, before, M),
         NEW S \in SUBSET M, h \in S, \A c \in S : nx[c] \in M => nx[c] \in S
  PROVE  S = M
<1> SUFFICES ASSUME M \ S # {} PROVE FALSE
  OBVIOUS
<1> DEFINE below == [x \in M |-> {y \in M : <<y, x>> \in before}]
           T == {Cardinality(below[x]) : x \in M \ S}
<1>1. \A c \in M \ S : /\ pv[c] \in M /\ <<pv[c], c>> \in before
                       /\ nx[pv[c]] = c /\ pv[c] \notin S
  BY DEF LedBack
<1>2. \A x \in M : below[x] = {y \in M : <<y, x>> \in before}
  OBVIOUS
<1> HIDE DEF below
<1>3. ASSUME NEW c \in M \ S
      PROVE  /\ Cardinality(below[pv[c]]) \in Nat /\ Cardinality(below[c]) \in Nat
             /\ Cardinality(below[pv[c]]) < Cardinality(below[c])
  BY <1>1, <1>2, RankGrows
<1>4. T \subseteq Nat /\ T # {}
  BY <1>3
<1>5. PICK t \in T : \A y \in T : t <= y
  <2> HIDE DEF T
  <2> QED
    BY <1>4, LeastNumber
<1>6. PICK c \in M \ S : t = Cardinality(below[c])
  BY <1>5
<1>7. Cardinality(below[pv[c]]) \in T
  BY <1>1
<1>8. Cardinality(below[c]) <= Cardinality(below[pv[c]])
  BY <1>5, <1>6, <1>7
<1> HIDE DEF T
<1> QED
  BY <1>3, <1>8

(* Where nothing follows the last member but nil, a walk from the first    *)
(* meets the members and nothing else.                                     *)
LEMMA WalkMeetsMembers ==
  ASSUME NEW M \in SUBSET Cell, NEW h \in M, NEW nx \in [Cell -> Cell \cup {Nil}],
         NEW pv, NEW before, StrictOn(before, M), LedBack(h, nx, pv, before, M),
         \A c \in M : nx[c] \in M \cup {Nil}
  PROVE  WalkedFrom(h, nx) = M
<1>1. MaxCells \in Nat /\ MaxCells \in 0..MaxCells /\ h \in Cell
  BY QuickSortSetAssumption
<1>2. PICK g \in [0..MaxCells -> SUBSET Cell] :
         IsWalk(g, h, nx) /\ WalkedFrom(h, nx) = g[MaxCells]
  BY <1>1, WalkByStages
<1>3. Onward(g[MaxCells], nx) = g[MaxCells]
  BY <1>1, <1>2, WalkEnds
<1> DEFINE K == {n \in 0..MaxCells : h \in g[n] /\ g[n] \subseteq M}
<1>4. 0 \in K
  BY <1>1, <1>2 DEF IsWalk
<1>5. ASSUME NEW n \in 0..(MaxCells - 1), n \in K PROVE n + 1 \in K
  <2>1. n + 1 \in 0..MaxCells
    BY <1>1
  <2>2. g[n + 1] = Onward(g[n], nx)
    BY <1>2 DEF IsWalk
  <2> QED
    BY <1>5, <2>1, <2>2 DEF Onward
<1>6. MaxCells \in K
  <2> HIDE DEF K
  <2> QED
    BY <1>1, <1>4, <1>5, UpTo
<1>7. \A c \in g[MaxCells] : nx[c] \in M => nx[c] \in g[MaxCells]
  BY <1>3 DEF Onward, Cell, Nil
<1> QED
  BY <1>2, <1>6, <1>7, ClosedIsAll

(* A cell that is not yet linked points at nothing: those not allocated,   *)
(* and the newcomer while addLexeme looks for its place.                   *)
Unlinked(c) == c > allocated \/ (c = newCell /\ pc # "idle")

FreshInv == \A c \in Cell : Unlinked(c) => next[c] = Nil

(* No step links a cell before it is that cell's turn.                     *)
LEMMA NextPreservesFreshInv ==
  ASSUME IInv, FreshInv, [Next]_vars
  PROVE  FreshInv'
<1>1. /\ allocated \in Nat /\ head \in Cell \cup {Nil} /\ tail \in Cell \cup {Nil}
      /\ next \in [Cell -> Cell \cup {Nil}]
      /\ \A c \in Cell : c \in Nat
      /\ \A c \in members : c \in Cell /\ c <= allocated
      /\ pc # "idle" => newCell \notin members
  BY QuickSortSetAssumption DEF IInv, TypeOK, WellLinked, MembersAllocated, Cell
<1>2. size # 0 => head \in members /\ tail \in members
  BY EmptyIsEmpty DEF IInv, WellLinked, EndsAreExtreme
<1>3. pc = "walk" => index \in members
  BY DEF IInv, WellLinked, WalkStaysInside
<1> USE DEF FreshInv, Unlinked, newCell
<1>4. ASSUME NEW l \in Lexemes, NewCell(l) PROVE FreshInv'
  BY <1>1, <1>4 DEF NewCell
<1>5. CASE AddToEmpty \/ RefuseAtTail \/ RefuseInMiddle
  BY <1>5 DEF AddToEmpty, RefuseAtTail, RefuseInMiddle, Added, Refused, heap
<1>6. CASE AddAfterTail
  BY <1>1, <1>2, <1>6 DEF AddAfterTail, Added
<1>7. CASE AddBeforeHead
  BY <1>1, <1>2, <1>7 DEF AddBeforeHead, Added
<1>8. CASE InsertInMiddle
  BY <1>1, <1>3, <1>8 DEF InsertInMiddle, Added
<1>9. CASE StartWalk \/ WalkBack
  BY <1>9 DEF StartWalk, WalkBack, heap
<1>10. CASE PollEmpty \/ PollOnly \/ PollFirst \/ PollLast
  BY <1>10 DEF PollEmpty, PollOnly, PollFirst, PollLast, heap
<1>11. CASE UNCHANGED vars
  BY <1>11 DEF vars
<1> QED
  BY <1>4, <1>5, <1>6, <1>7, <1>8, <1>9, <1>10, <1>11 DEF Next, AddLexeme

(* After an appending step the last member points at nothing, so that the  *)
(* walk from the head ends there.                                          *)
LEMMA AppendEndsTheWalk ==
  ASSUME IInv, FreshInv, AddToEmpty \/ AddAfterTail
  PROVE  (CellsWalked = members)'
<1> DEFINE before == {p \in members' \X members' : Precedes(p[1], p[2])}
<1>1. IInv'
  <2>1. CASE AddToEmpty
    BY <2>1, AddToEmptyPreservesIInv
  <2>2. CASE AddAfterTail
    BY <2>2, AddAfterTailPreservesIInv
  <2> QED
    BY <2>1, <2>2
<1>2. /\ members' = members \cup {newCell} /\ tail' = newCell
      /\ UNCHANGED <<lexeme, allocated>>
      /\ pc # "idle"
  BY DEF AddToEmpty, AddAfterTail, Added, heap
<1>3. /\ members \subseteq 1..allocated /\ newCell \in Cell \ members
      /\ newCell \in 1..allocated /\ tail \in Cell \cup {Nil}
      /\ next \in [Cell -> Cell \cup {Nil}]
  BY <1>2, QuickSortSetAssumption
     DEF IInv, TypeOK, WellLinked, MembersAllocated, Cell, newCell
<1>4. next'[newCell] = Nil
  <2>1. next[newCell] = Nil
    BY <1>2, <1>3 DEF FreshInv, Unlinked
  <2>2. CASE AddToEmpty
    BY <2>1, <2>2 DEF AddToEmpty, heap
  <2>3. CASE AddAfterTail
    <3>1. tail \in members
      BY <2>3, EmptyIsEmpty DEF AddAfterTail, IInv, WellLinked, EndsAreExtreme
    <3> QED
      BY <1>3, <2>1, <2>3, <3>1 DEF AddAfterTail
  <2> QED
    BY <2>2, <2>3
<1>5. /\ members' \in SUBSET Cell /\ head' \in members'
      /\ next' \in [Cell -> Cell \cup {Nil}]
  BY <1>1, <1>2 DEF IInv, TypeOK, WellLinked, EndsAreExtreme
<1>6. \A c \in members' : next'[c] \in members' \cup {Nil}
  BY <1>1, <1>2, <1>4 DEF IInv, WellLinked, LinkedInOrder
<1>7. StrictOn(before, members')
  <2>1. members' \subseteq 1..allocated
    BY <1>2, <1>3
  <2>2. \A c, d, e \in members' : /\ ~Precedes(c, c)
                                  /\ Precedes(c, d) /\ Precedes(d, e) => Precedes(c, e)
    BY <2>1, CellOrder
  <2>3. \A c, d \in members' : <<c, d>> \in before <=> Precedes(c, d)
    OBVIOUS
  <2> HIDE DEF before
  <2> QED
    BY <2>2, <2>3 DEF StrictOn
<1>8. LedBack(head', next', prev', before, members')
  <2> SUFFICES ASSUME NEW c \in members' \ {head'}
               PROVE  /\ prev'[c] \in members' /\ next'[prev'[c]] = c
                      /\ <<prev'[c], c>> \in before
    BY DEF LedBack
  <2>1. prev'[c] \in members' /\ prev'[c] # tail' /\ next'[prev'[c]] = c
    BY <1>1 DEF IInv, WellLinked, LinkedBack
  <2>2. \A d \in members' \ {tail'} : Before(lexeme'[d], lexeme'[next'[d]])
    BY <1>1 DEF IInv, WellLinked, LinkedInOrder, Precedes
  <2>3. Precedes(prev'[c], c)
    BY <1>2, <2>1, <2>2 DEF Precedes
  <2> QED
    BY <2>1, <2>3
<1>9. WalkedFrom(head', next') = members'
  <2> HIDE DEF before
  <2> QED
    BY <1>5, <1>6, <1>7, <1>8, WalkMeetsMembers
<1>10. CellsWalked' = WalkedFrom(head', next')
  BY DEF CellsWalked, WalkedFrom
<1> QED
  BY <1>9, <1>10

(* Whatever was polled before, after a lexeme was appended a walk from the *)
(* head until nil meets the cells of the list and no other: what copy,     *)
(* getXWeight, getPWeight and forwardPath walk in judge                    *)
(* (ik_arbitrator.go:138-140) is the list.                                 *)
THEOREM AppendsRepairTheWalk == Spec => AppendRepairsTheWalk
<1> DEFINE Repairs == [(AddToEmpty \/ AddAfterTail) => (CellsWalked = members)']_vars
<1>1. Init => IInv /\ FreshInv
  BY InitEstablishesIInv DEF Init, FreshInv
<1>2. IInv /\ FreshInv /\ [Next]_vars => IInv' /\ FreshInv'
  BY NextPreservesIInv, NextPreservesFreshInv
<1>3. IInv /\ FreshInv /\ [Next]_vars => Repairs
  BY AppendEndsTheWalk
<1> QED
  BY <1>1, <1>2, <1>3, PTL DEF Spec, AppendRepairsTheWalk
=============================================================================
