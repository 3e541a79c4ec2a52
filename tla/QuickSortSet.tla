----------------------------- MODULE QuickSortSet -----------------------------
(***************************************************************************)
(* The doubly linked list of src/core/quick_sort_set.go.  A cell is a      *)
(* number, handed out once and never reused: a cell that was polled keeps  *)
(* its pointers, and its neighbours keep theirs to it, which is what the   *)
(* code leaves behind.  addLexeme is one call, in several steps: the       *)
(* comparisons with the two ends, then the walk back from the tail.        *)
(***************************************************************************)
EXTENDS Lexeme, FiniteSets

CONSTANTS Lexemes,       \* the lexemes a caller may insert
          MaxCells       \* bound: how many cells a run may allocate

ASSUME QuickSortSetAssumption == /\ Lexemes \subseteq Lexeme
                                 /\ MaxCells \in Nat

Nil  == 0
Cell == 1..MaxCells

NoLexeme == [offset |-> 0, begin |-> 0, length |-> 0, lexemeType |-> TypeUnknown]

VARIABLES head, tail, size,   \* the three fields of quickSortSet
          prev, next, lexeme, \* the fields of every cell
          allocated,          \* the cells handed out so far are 1..allocated
          pc,                 \* idle, or inside addLexeme: "ends" or "walk"
          index,              \* the cell the walk has come to
          result,             \* what the last completed call returned
          members             \* history: the cells that are in the list

vars == <<head, tail, size, prev, next, lexeme, allocated, pc, index, result,
          members>>

heap == <<prev, next, lexeme, allocated>>

Answer(ok, l) == [ok |-> ok, lexeme |-> l]

newCell == allocated     \* the cell addLexeme is inserting

Init == /\ head = Nil /\ tail = Nil /\ size = 0
        /\ prev = [c \in Cell |-> Nil]
        /\ next = [c \in Cell |-> Nil]
        /\ lexeme = [c \in Cell |-> NoLexeme]
        /\ allocated = 0
        /\ pc = "idle"
        /\ index = Nil
        /\ result = Answer(FALSE, NoLexeme)
        /\ members = {}

-----------------------------------------------------------------------------
(* addLexeme *)

(* The call: newCell(lexeme).                                              *)
NewCell(l) == /\ pc = "idle"
              /\ allocated < MaxCells
              /\ allocated' = allocated + 1
              /\ lexeme' = [lexeme EXCEPT ![allocated + 1] = l]
              /\ pc' = "ends"
              /\ UNCHANGED <<head, tail, size, prev, next, index, result, members>>

(* The call returns: the newcomer is in the list, or it is dropped.        *)
Added == /\ pc' = "idle"
         /\ index' = Nil
         /\ size' = size + 1
         /\ members' = members \cup {newCell}
         /\ result' = Answer(TRUE, lexeme[newCell])

Refused == /\ pc' = "idle"
           /\ index' = Nil
           /\ result' = Answer(FALSE, lexeme[newCell])
           /\ UNCHANGED <<head, tail, size, heap, members>>

AddToEmpty == /\ pc = "ends" /\ size = 0
              /\ head' = newCell
              /\ tail' = newCell
              /\ Added
              /\ UNCHANGED heap

RefuseAtTail == /\ pc = "ends" /\ size # 0
                /\ CompareTo(lexeme[tail], lexeme[newCell]) = 0
                /\ Refused

(* Faulty: the newcomer inherits what the old tail pointed at.             *)
AddAfterTailKeepsNext == /\ pc = "ends" /\ size # 0
                         /\ CompareTo(lexeme[tail], lexeme[newCell]) < 0
                         /\ next' = [next EXCEPT ![newCell] = next[tail],
                                                 ![tail] = newCell]
                         /\ prev' = [prev EXCEPT ![newCell] = tail]
                         /\ tail' = newCell
                         /\ Added
                         /\ UNCHANGED <<head, lexeme, allocated>>

AddAfterTail == /\ pc = "ends" /\ size # 0
                /\ CompareTo(lexeme[tail], lexeme[newCell]) < 0
                /\ next' = [next EXCEPT ![tail] = newCell]
                /\ prev' = [prev EXCEPT ![newCell] = tail]
                /\ tail' = newCell
                /\ Added
                /\ UNCHANGED <<head, lexeme, allocated>>

(* Faulty: the link forward is forgotten.                                  *)
AddBeforeHeadUnlinked ==
    /\ pc = "ends" /\ size # 0
    /\ CompareTo(lexeme[tail], lexeme[newCell]) > 0
    /\ CompareTo(lexeme[head], lexeme[newCell]) > 0
    /\ prev' = [prev EXCEPT ![head] = newCell]
    /\ head' = newCell
    /\ Added
    /\ UNCHANGED <<tail, next, lexeme, allocated>>

AddBeforeHead == /\ pc = "ends" /\ size # 0
                 /\ CompareTo(lexeme[tail], lexeme[newCell]) > 0
                 /\ CompareTo(lexeme[head], lexeme[newCell]) > 0
                 /\ prev' = [prev EXCEPT ![head] = newCell]
                 /\ next' = [next EXCEPT ![newCell] = head]
                 /\ head' = newCell
                 /\ Added
                 /\ UNCHANGED <<tail, lexeme, allocated>>

StartWalk == /\ pc = "ends" /\ size # 0
             /\ CompareTo(lexeme[tail], lexeme[newCell]) > 0
             /\ CompareTo(lexeme[head], lexeme[newCell]) <= 0
             /\ pc' = "walk"
             /\ index' = tail
             /\ UNCHANGED <<head, tail, size, heap, result, members>>

(* Faulty: the walk goes the wrong way.                                    *)
WalkForward == /\ pc = "walk" /\ index # Nil
               /\ CompareTo(lexeme[index], lexeme[newCell]) > 0
               /\ index' = next[index]
               /\ UNCHANGED <<head, tail, size, heap, pc, result, members>>

WalkBack == /\ pc = "walk" /\ index # Nil
            /\ CompareTo(lexeme[index], lexeme[newCell]) > 0
            /\ index' = prev[index]
            /\ UNCHANGED <<head, tail, size, heap, pc, result, members>>

RefuseInMiddle == /\ pc = "walk" /\ index # Nil
                  /\ CompareTo(lexeme[index], lexeme[newCell]) = 0
                  /\ Refused

(* index.next is dereferenced: were it nil the code would panic, here the  *)
(* step would be disabled and the walk stuck.                              *)
InsertInMiddle == /\ pc = "walk" /\ index # Nil
                  /\ CompareTo(lexeme[index], lexeme[newCell]) < 0
                  /\ next[index] # Nil
                  /\ prev' = [prev EXCEPT ![newCell] = index,
                                          ![next[index]] = newCell]
                  /\ next' = [next EXCEPT ![newCell] = next[index],
                                          ![index] = newCell]
                  /\ Added
                  /\ UNCHANGED <<head, tail, lexeme, allocated>>

AddLexeme == \/ \E l \in Lexemes : NewCell(l)
             \/ AddToEmpty
             \/ RefuseAtTail
             \/ AddAfterTail
             \/ AddBeforeHead
             \/ StartWalk
             \/ WalkBack
             \/ RefuseInMiddle
             \/ InsertInMiddle

-----------------------------------------------------------------------------
(* pollFirst and pollLast.  Only the end pointer moves: the cell left out  *)
(* keeps pointing at the list and the new end keeps pointing at it.        *)

(* Faulty: the size is counted down before the list is found empty.        *)
PollEmptyCounted == /\ pc = "idle" /\ size = 0
                    /\ size' = size - 1
                    /\ result' = Answer(FALSE, NoLexeme)
                    /\ UNCHANGED <<head, tail, heap, pc, index, members>>

PollEmpty == /\ pc = "idle" /\ size = 0
             /\ result' = Answer(FALSE, NoLexeme)
             /\ UNCHANGED <<head, tail, size, heap, pc, index, members>>

PollOnly == /\ pc = "idle" /\ size = 1
            /\ result' = Answer(TRUE, lexeme[head])
            /\ head' = Nil
            /\ tail' = Nil
            /\ size' = 0
            /\ members' = members \ {head}
            /\ UNCHANGED <<heap, pc, index>>

PollFirst == /\ pc = "idle" /\ size > 1
             /\ result' = Answer(TRUE, lexeme[head])
             /\ head' = next[head]
             /\ size' = size - 1
             /\ members' = members \ {head}
             /\ UNCHANGED <<tail, heap, pc, index>>

(* Faulty: the first lexeme is returned and the last one removed.          *)
PollLastReturnsFirst == /\ pc = "idle" /\ size > 1
                        /\ result' = Answer(TRUE, lexeme[head])
                        /\ tail' = prev[tail]
                        /\ size' = size - 1
                        /\ members' = members \ {tail}
                        /\ UNCHANGED <<head, heap, pc, index>>

PollLast == /\ pc = "idle" /\ size > 1
            /\ result' = Answer(TRUE, lexeme[tail])
            /\ tail' = prev[tail]
            /\ size' = size - 1
            /\ members' = members \ {tail}
            /\ UNCHANGED <<head, heap, pc, index>>

Next == AddLexeme \/ PollEmpty \/ PollOnly \/ PollFirst \/ PollLast

(* addLexeme is straight-line code: once called it runs on.                *)
InsideAdd == AddLexeme /\ pc # "idle"

Spec == Init /\ [][Next]_vars /\ WF_vars(InsideAdd)

-----------------------------------------------------------------------------
(* Every variable has its type.                                            *)
TypeOK == /\ head \in Cell \cup {Nil}
          /\ tail \in Cell \cup {Nil}
          /\ index \in Cell \cup {Nil}
          /\ size \in Nat
          /\ prev \in [Cell -> Cell \cup {Nil}]
          /\ next \in [Cell -> Cell \cup {Nil}]
          /\ lexeme \in [Cell -> Lexemes \cup {NoLexeme}]
          /\ allocated \in 0..MaxCells
          /\ pc \in {"idle", "ends", "walk"}
          /\ result \in [ok: BOOLEAN, lexeme: Lexemes \cup {NoLexeme}]
          /\ members \subseteq Cell

Precedes(c, d) == Before(lexeme[c], lexeme[d])

(* The cells of the list are distinct allocated cells, other than the one  *)
(* being inserted, and no two of them carry the same span.                 *)
MembersAllocated == /\ members \subseteq 1..allocated
                    /\ \A c \in 1..allocated : lexeme[c] \in Lexemes
                    /\ pc # "idle" => newCell \in Cell \ members

NoDuplicates == \A c, d \in members :
                   c # d => Precedes(c, d) \/ Precedes(d, c)

SizeCounts == IsFiniteSet(members) /\ size = Cardinality(members)

(* head and tail are the ends of the order, and nil only when the list is  *)
(* empty: peekFirst and peekLast test the pointer, isEmpty the size.       *)
EndsAreExtreme ==
    IF members = {}
    THEN head = Nil /\ tail = Nil
    ELSE /\ head \in members /\ \A c \in members \ {head} : Precedes(head, c)
         /\ tail \in members /\ \A c \in members \ {tail} : Precedes(c, tail)

(* From every cell but the tail, next leads to its successor in the order; *)
(* from every cell but the head, prev leads to the cell whose next it is.  *)
(* It says nothing of tail.next and head.prev, which the polls leave       *)
(* dangling.                                                               *)
LinkedInOrder ==
    \A c \in members \ {tail} :
       /\ next[c] \in members
       /\ Precedes(c, next[c])
       /\ \A d \in members : ~(Precedes(c, d) /\ Precedes(d, next[c]))

LinkedBack ==
    \A c \in members \ {head} :
       /\ prev[c] \in members
       /\ prev[c] # tail
       /\ next[prev[c]] = c

(* The walk of addLexeme never leaves the list: the newcomer lies strictly *)
(* before the tail and not before the head, and everything after index is  *)
(* after the newcomer.                                                     *)
WalkStaysInside ==
    pc = "walk" => /\ index \in members
                   /\ Precedes(newCell, tail)
                   /\ ~Precedes(newCell, head)
                   /\ \A c \in members : Precedes(index, c) => Precedes(newCell, c)

(* The invariant the proofs rest on: the list is a sorted doubly linked    *)
(* list of its members, whatever pointers the polls left behind            *)
(* (quick_sort_set.go:3-6), and the walk has a nil-free way through it.    *)
WellLinked == /\ MembersAllocated
              /\ NoDuplicates
              /\ SizeCounts
              /\ EndsAreExtreme
              /\ LinkedInOrder
              /\ LinkedBack
              /\ WalkStaysInside

(* The list implements the sorted set: this is the refinement mapping.     *)
Sorted == INSTANCE SortedLexemes
             WITH contents <- {lexeme[c] : c \in members},
                  busy <- IF pc = "idle" THEN NoLexeme ELSE lexeme[newCell]

ImplementsSortedSet == Sorted!SortedSpec

(* A call of addLexeme that has begun returns: the walk back neither runs  *)
(* past the head nor goes round (quick_sort_set.go:61-79).                 *)
AddReturns == (pc # "idle") ~> (pc = "idle")

(* The cells met by following next from the head until nil, as copy,       *)
(* getXWeight, getPWeight and forwardPath do.                              *)
CellsWalked ==
    LET from[n \in 0..MaxCells] ==
            IF n = 0 THEN {head} \ {Nil}
            ELSE from[n-1] \cup ({next[c] : c \in from[n-1]} \ {Nil})
    IN from[MaxCells]

(* copy, getXWeight, getPWeight and forwardPath walk from the head until   *)
(* nil, not until the tail.  Once the tail was polled they would run on    *)
(* into the cells left out; after a lexeme has been appended, which is     *)
(* what judge does before each of those walks (ik_arbitrator.go:138-140),  *)
(* they meet the cells of the list and no other.                           *)
AppendRepairsTheWalk ==
    [][(AddToEmpty \/ AddAfterTail) => (CellsWalked = members)']_vars
=============================================================================
