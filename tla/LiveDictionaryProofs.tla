-------------------------- MODULE LiveDictionaryProofs --------------------------
(***************************************************************************)
(* A whole trie is a set of words with their prefixes: adding a word adds  *)
(* that word and its prefixes and nothing else, disabling one takes it     *)
(* away and no other, on either side of the step from array to map, and a  *)
(* lookup answers by membership.  For all words and every order of calls.  *)
(*                                                                         *)
(* And the dictionary while it changes, for every set of words, lists and  *)
(* texts and any number of loads and updates: its tries stay whole, the    *)
(* words in force are those loaded last with every update since, a word is *)
(* reported only if it was in force, and what lookups answer is a set of   *)
(* words with their prefixes, as WordSet says.                             *)
(***************************************************************************)
EXTENDS LiveDictionary, SequenceTheorems, TLAPS

(* The paths that lie above another, and so are prefixes to a lookup.      *)
PrefixesOf(trie) == {path \in DOMAIN trie : Children(trie[path]) # {}}

-----------------------------------------------------------------------------
(* The children of a node.                                                 *)

LEMMA CharIsInt ==
  /\ Char \subseteq Int
  /\ \A s \in Seq(Char) : \A i \in 1..Len(s) : s[i] \in Int
<1>1. Char \subseteq Int
  BY DEF Char
<1>2. \A s \in Seq(Char) : \A i \in 1..Len(s) : s[i] \in Char
  OBVIOUS
<1> QED
  BY <1>1, <1>2

LEMMA UpToThree == \A n \in Nat : n <= 3 <=> n \in {0, 1, 2, 3}
OBVIOUS

LEMMA HeldIsRange ==
  ASSUME NEW s \in Seq(Char)
  PROVE  /\ Held(s) \in SUBSET Char
         /\ (s = <<>>) <=> (Held(s) = {})
BY DEF Held

LEMMA SearchFinds ==
  ASSUME NEW s \in Seq(Char), Ascending(s), Len(s) <= arrayLengthLimit, NEW key \in Char
  PROVE  SearchChildren(s, key) <=> key \in Held(s)
<1>1. Len(s) \in {0, 1, 2, 3} /\ key \in Int /\ \A i \in 1..Len(s) : s[i] \in Int
  <2>1. Len(s) \in Nat /\ Len(s) <= 3
    BY DEF arrayLengthLimit
  <2>2. Len(s) \in {0, 1, 2, 3}
    BY <2>1, UpToThree
  <2> QED
    BY <2>2, CharIsInt
<1>2. CASE Len(s) = 0
  BY <1>2 DEF SearchChildren, Held
<1>3. CASE Len(s) = 1
  <2>1. Middle(s) = 1
    BY <1>3 DEF Middle
  <2> QED
    BY <1>1, <1>3, <2>1 DEF SearchChildren, Held
<1>4. CASE Len(s) = 2
  <2>1. Middle(s) = 1 /\ HalfMiddle(s, key) = IF s[1] < key THEN 2 ELSE 0
    BY <1>4 DEF Middle, HalfMiddle
  <2>2. s[1] < s[2]
    BY <1>4 DEF Ascending
  <2> QED
    BY <1>1, <1>4, <2>1, <2>2 DEF SearchChildren, Held
<1>5. CASE Len(s) = 3
  <2>1. Middle(s) = 2 /\ HalfMiddle(s, key) = IF s[2] < key THEN 3 ELSE 1
    BY <1>5 DEF Middle, HalfMiddle
  <2>2. s[1] < s[2] /\ s[2] < s[3]
    BY <1>5 DEF Ascending
  <2> QED
    BY <1>1, <1>5, <2>1, <2>2 DEF SearchChildren, Held
<1> QED
  BY <1>1, <1>2, <1>3, <1>4, <1>5

(* There is one place for a new child among the sorted ones.               *)
LEMMA SortSorts ==
  ASSUME NEW s \in Seq(Char), Ascending(s), Len(s) < arrayLengthLimit,
         NEW key \in Char, key \notin Held(s)
  PROVE  LET sorted == SortChildren(Append(s, key))
         IN  /\ sorted \in Seq(Char) /\ Len(sorted) = Len(s) + 1
             /\ Ascending(sorted) /\ Held(sorted) = Held(s) \cup {key}
<1> DEFINE t == Append(s, key)
           n == Len(s) + 1
           Sorted(r) == Held(r) = Held(t) /\ Ascending(r)
<1>1. /\ t \in Seq(Char) /\ Len(t) = n /\ n \in 1..3
      /\ Len(s) \in {0, 1, 2} /\ key \in Int
      /\ \A i \in 1..Len(s) : s[i] \in Int
      /\ \A i \in 1..Len(s) : s[i] # key
  <2>1. t \in Seq(Char) /\ Len(t) = n /\ Len(s) \in Nat /\ Len(s) < 3
    BY DEF arrayLengthLimit
  <2>2. Len(s) \in {0, 1, 2} /\ n \in 1..3
    <3>1. \A m \in Nat : m < 3 => m \in {0, 1, 2} /\ m + 1 \in 1..3
      OBVIOUS
    <3> QED
      BY <2>1, <3>1
  <2>3. key \in Int /\ \A i \in 1..Len(s) : s[i] \in Int
    BY CharIsInt
  <2>4. \A i \in 1..Len(s) : s[i] # key
    BY DEF Held
  <2> QED
    BY <2>1, <2>2, <2>3, <2>4
<1>2. Held(t) = Held(s) \cup {key}
  BY <1>1 DEF Held
<1>3. \E r \in [1..Len(t) -> Held(t)] : Sorted(r)
  <2>1. \E k \in 0..Len(s) : /\ \A i \in 1..k : s[i] < key
                             /\ \A i \in (k + 1)..Len(s) : key < s[i]
    <3>1. CASE Len(s) = 0
      BY <3>1
    <3>2. CASE Len(s) = 1
      <4>1. s[1] < key \/ key < s[1]
        BY <1>1, <3>2
      <4>2. CASE s[1] < key
        <5>1. \A i \in 1..1 : s[i] < key
          BY <4>2
        <5> QED
          BY <3>2, <5>1
      <4>3. CASE key < s[1]
        <5>1. \A i \in 1..1 : key < s[i]
          BY <4>3
        <5> QED
          BY <3>2, <5>1
      <4> QED
        BY <4>1, <4>2, <4>3
    <3>3. CASE Len(s) = 2
      <4>1. s[1] < s[2] /\ s[1] \in Int /\ s[2] \in Int /\ key \in Int
            /\ s[1] # key /\ s[2] # key
        BY <1>1, <3>3 DEF Ascending
      <4>2. CASE key < s[1]
        <5>1. \A i \in 1..2 : key < s[i]
          BY <4>1, <4>2
        <5> QED
          BY <3>3, <5>1
      <4>3. CASE s[1] < key /\ key < s[2]
        <5>1. (\A i \in 1..1 : s[i] < key) /\ (\A i \in 2..2 : key < s[i])
          BY <4>3
        <5> QED
          BY <3>3, <5>1
      <4>4. CASE s[2] < key
        <5>1. \A i \in 1..2 : s[i] < key
          BY <4>1, <4>4
        <5> QED
          BY <3>3, <5>1
      <4> QED
        BY <4>1, <4>2, <4>3, <4>4
    <3> QED
      BY <1>1, <3>1, <3>2, <3>3
  <2>2. PICK k \in 0..Len(s) : /\ \A i \in 1..k : s[i] < key
                               /\ \A i \in (k + 1)..Len(s) : key < s[i]
    BY <2>1
  <2> DEFINE r == [i \in 1..n |-> IF i <= k THEN s[i] ELSE IF i = k + 1 THEN key ELSE s[i - 1]]
  <2>3. /\ \A i \in 1..k : r[i] = s[i]
        /\ r[k + 1] = key /\ k + 1 \in 1..n
        /\ \A i \in (k + 2)..n : r[i] = s[i - 1]
        /\ r \in [1..n -> Held(t)]
    BY <1>1, <1>2, <2>2 DEF Held
  <2> HIDE DEF r
  <2>4. r \in Seq(Char) /\ Len(r) = n
    BY <1>1, <1>2, <2>3, HeldIsRange
  <2>5. Ascending(r)
    <3> SUFFICES ASSUME NEW i \in 1..n, NEW j \in 1..n, i < j PROVE r[i] < r[j]
      BY <2>4 DEF Ascending
    <3>1. \A x, y \in 1..Len(s) : x < y => s[x] < s[y]
      BY DEF Ascending
    <3>2. key \in Int /\ k \in Int /\ n = Len(s) + 1 /\ k <= Len(s)
      BY <1>1
    <3>3. CASE j <= k
      BY <1>1, <2>3, <3>1, <3>2, <3>3
    <3>4. CASE j = k + 1
      BY <1>1, <2>2, <2>3, <3>2, <3>4
    <3>5. CASE j > k + 1 /\ i <= k
      <4>1. r[j] = s[j - 1] /\ r[i] = s[i] /\ i < j - 1 /\ i \in 1..Len(s) /\ j - 1 \in 1..Len(s)
        BY <1>1, <2>3, <3>2, <3>5
      <4> QED
        BY <3>1, <4>1
    <3>6. CASE j > k + 1 /\ i = k + 1
      <4>1. r[j] = s[j - 1] /\ r[i] = key /\ j - 1 \in (k + 1)..Len(s)
        BY <1>1, <2>3, <3>2, <3>6
      <4> QED
        BY <2>2, <4>1
    <3>7. CASE i > k + 1
      <4>1. r[j] = s[j - 1] /\ r[i] = s[i - 1] /\ i - 1 < j - 1
            /\ i - 1 \in 1..Len(s) /\ j - 1 \in 1..Len(s)
        BY <1>1, <2>3, <3>2, <3>7
      <4> QED
        BY <3>1, <4>1
    <3> QED
      BY <3>2, <3>3, <3>4, <3>5, <3>6, <3>7
  <2>6. Held(r) = Held(t)
    <3>1. \A i \in 1..Len(s) : \E j \in 1..n : r[j] = s[i]
      <4> SUFFICES ASSUME NEW i \in 1..Len(s) PROVE \E j \in 1..n : r[j] = s[i]
        OBVIOUS
      <4>1. CASE i <= k
        BY <1>1, <2>3, <4>1
      <4>2. CASE i > k
        <5>1. i + 1 \in (k + 2)..n /\ (i + 1) - 1 = i /\ i + 1 \in 1..n
          BY <1>1, <4>2
        <5> QED
          BY <2>3, <5>1
      <4> QED
        BY <4>1, <4>2
    <3>2. Held(t) \subseteq Held(r)
      BY <1>2, <2>3, <2>4, <3>1 DEF Held
    <3>3. Held(r) \subseteq Held(t)
      <4>1. \A i \in 1..n : r[i] \in Held(t)
        BY <2>3
      <4> QED
        BY <2>4, <4>1 DEF Held
    <3> QED
      BY <3>2, <3>3
  <2> QED
    BY <1>1, <2>3, <2>5, <2>6
<1>4. LET sorted == SortChildren(t) IN sorted \in [1..n -> Held(t)] /\ Sorted(sorted)
  BY <1>1, <1>3 DEF SortChildren
<1>5. Held(t) \in SUBSET Char
  BY <1>1, HeldIsRange
<1> QED
  BY <1>1, <1>2, <1>4, <1>5

-----------------------------------------------------------------------------
(* One node: what it finds, and what becomes of it when it takes a child.  *)

LEMMA NodeFacts ==
  ASSUME NEW node \in Node
  PROVE  /\ node.childrenArray \in Seq(Char) /\ node.childrenMap \in SUBSET Char
         /\ node.storeSize \in Nat /\ node.nodeState \in {0, 1}
         /\ Children(node) \in SUBSET Char
BY HeldIsRange DEF Node, Children

LEMMA NewNode ==
  /\ newDictSegment \in Node /\ NodeOK(newDictSegment)
  /\ newDictSegment.nodeState = 0 /\ Children(newDictSegment) = {}
<1>1. newDictSegment \in Node /\ newDictSegment.nodeState = 0
  BY DEF newDictSegment, Node
<1>2. NodeOK(newDictSegment) /\ Children(newDictSegment) = {}
  BY DEF newDictSegment, NodeOK, Children, Held, Ascending, arrayLengthLimit
<1> QED
  BY <1>1, <1>2

(* Both ways of looking for a child, by container and by size, find the    *)
(* children there are.                                                     *)
LEMMA ChildFound ==
  ASSUME NEW node \in Node, NodeOK(node), NEW key \in Char
  PROVE  /\ FindSegment(node, key) <=> key \in Children(node)
         /\ MatchChild(node, key) <=> key \in Children(node)
<1> USE NodeFacts
<1>1. CASE node.storeSize <= arrayLengthLimit
  <2>1. SearchChildren(node.childrenArray, key) <=> key \in Children(node)
    BY <1>1, SearchFinds DEF NodeOK, Children
  <2>2. node.childrenMap = {} /\ (node.childrenArray = <<>> => Children(node) = {})
    BY <1>1, HeldIsRange DEF NodeOK, Children
  <2> QED
    BY <1>1, <2>1, <2>2 DEF FindSegment, MatchChild
<1>2. CASE ~(node.storeSize <= arrayLengthLimit)
  <2>1. node.childrenArray = <<>> /\ Children(node) = node.childrenMap
    BY <1>2, HeldIsRange DEF NodeOK, Children
  <2> QED
    BY <1>2, <2>1 DEF FindSegment, MatchChild
<1> QED
  BY <1>1, <1>2

(* There is something below a node exactly if its size says so.            *)
LEMMA SizeTells ==
  ASSUME NEW node \in Node, NodeOK(node)
  PROVE  node.storeSize > 0 <=> Children(node) # {}
<1> USE NodeFacts
<1>1. CASE node.storeSize <= arrayLengthLimit
  <2>1. Len(node.childrenArray) = node.storeSize /\ Children(node) = Held(node.childrenArray)
    BY <1>1 DEF NodeOK, Children
  <2>2. node.childrenArray = <<>> <=> Len(node.childrenArray) = 0
    OBVIOUS
  <2> QED
    BY <2>1, <2>2, HeldIsRange
<1>2. CASE ~(node.storeSize <= arrayLengthLimit)
  BY <1>2 DEF NodeOK, Children, arrayLengthLimit
<1> QED
  BY <1>1, <1>2

(* What a node is after its children were put elsewhere.                   *)
LEMMA NodeWithArray ==
  ASSUME NEW node \in Node, NEW array \in Seq(Char)
  PROVE  [node EXCEPT !.childrenArray = array, !.storeSize = @ + 1]
            = [childrenArray |-> array, childrenMap |-> node.childrenMap,
               storeSize |-> node.storeSize + 1, nodeState |-> node.nodeState]
<1> DEFINE one == [node EXCEPT !.childrenArray = array]
<1>1. one = [childrenArray |-> array, childrenMap |-> node.childrenMap,
             storeSize |-> node.storeSize, nodeState |-> node.nodeState]
  BY DEF Node
<1>2. [node EXCEPT !.childrenArray = array, !.storeSize = @ + 1]
         = [one EXCEPT !.storeSize = node.storeSize + 1]
  OBVIOUS
<1> HIDE DEF one
<1> QED
  BY <1>1, <1>2

LEMMA NodeWithMap ==
  ASSUME NEW node \in Node, NEW map \in SUBSET Char
  PROVE  [node EXCEPT !.childrenMap = map, !.storeSize = @ + 1]
            = [childrenArray |-> node.childrenArray, childrenMap |-> map,
               storeSize |-> node.storeSize + 1, nodeState |-> node.nodeState]
<1> DEFINE one == [node EXCEPT !.childrenMap = map]
<1>1. one = [childrenArray |-> node.childrenArray, childrenMap |-> map,
             storeSize |-> node.storeSize, nodeState |-> node.nodeState]
  BY DEF Node
<1>2. [node EXCEPT !.childrenMap = map, !.storeSize = @ + 1]
         = [one EXCEPT !.storeSize = node.storeSize + 1]
  OBVIOUS
<1> HIDE DEF one
<1> QED
  BY <1>1, <1>2

LEMMA NodeWithBoth ==
  ASSUME NEW node \in Node, NEW map \in SUBSET Char
  PROVE  [node EXCEPT !.childrenMap = map, !.childrenArray = <<>>, !.storeSize = @ + 1]
            = [childrenArray |-> <<>>, childrenMap |-> map,
               storeSize |-> node.storeSize + 1, nodeState |-> node.nodeState]
<1> DEFINE one == [node EXCEPT !.childrenMap = map]
           two == [one EXCEPT !.childrenArray = <<>>]
<1>1. one = [childrenArray |-> node.childrenArray, childrenMap |-> map,
             storeSize |-> node.storeSize, nodeState |-> node.nodeState]
  BY DEF Node
<1>2. [node EXCEPT !.childrenMap = map, !.childrenArray = <<>>, !.storeSize = @ + 1]
         = [two EXCEPT !.storeSize = node.storeSize + 1]
  OBVIOUS
<1> HIDE DEF one
<1>3. two = [childrenArray |-> <<>>, childrenMap |-> map,
             storeSize |-> node.storeSize, nodeState |-> node.nodeState]
  BY <1>1
<1> HIDE DEF two
<1> QED
  BY <1>2, <1>3

(* A child is added to those there are, the fourth to a map of all.        *)
LEMMA ChildAdded ==
  ASSUME NEW node \in Node, NodeOK(node), NEW key \in Char
  PROVE  LET after == LookforSegment(node, key)
         IN  /\ after \in Node /\ NodeOK(after)
             /\ after.nodeState = node.nodeState
             /\ Children(after) = Children(node) \cup {key}
<1> USE NodeFacts
<1> DEFINE after == LookforSegment(node, key)
           array == node.childrenArray
<1> SUFFICES /\ after \in Node /\ NodeOK(after)
             /\ after.nodeState = node.nodeState
             /\ Children(after) = Children(node) \cup {key}
  OBVIOUS
<1>1. CASE key \in Children(node)
  BY <1>1, ChildFound DEF LookforSegment
<1>2. CASE key \notin Children(node)
  <2>1. after = AddChild(node, key)
    BY <1>2, ChildFound DEF LookforSegment
  <2> HIDE DEF after
  <2>2. CASE node.storeSize < arrayLengthLimit
    <3> DEFINE sorted == SortChildren(Append(array, key))
    <3>1. after = [node EXCEPT !.childrenArray = sorted, !.storeSize = @ + 1]
      BY <2>1, <2>2 DEF AddChild
    <3>2. /\ Ascending(array) /\ Len(array) = node.storeSize
          /\ node.childrenMap = {} /\ key \notin Held(array)
      BY <1>2, <2>2 DEF NodeOK, Children, arrayLengthLimit
    <3>3. /\ sorted \in Seq(Char) /\ Len(sorted) = Len(array) + 1
          /\ Ascending(sorted) /\ Held(sorted) = Held(array) \cup {key}
      BY <2>2, <3>2, SortSorts
    <3> HIDE DEF sorted
    <3>4. after \in Node /\ after.nodeState = node.nodeState
          /\ after.childrenArray = sorted /\ after.childrenMap = {}
          /\ after.storeSize = node.storeSize + 1
      <4>1. after = [childrenArray |-> sorted, childrenMap |-> node.childrenMap,
                     storeSize |-> node.storeSize + 1, nodeState |-> node.nodeState]
        BY <3>1, <3>3, NodeWithArray
      <4> QED
        BY <3>2, <3>3, <4>1 DEF Node
    <3>5. after.storeSize <= arrayLengthLimit
      BY <2>2, <3>4 DEF arrayLengthLimit
    <3> QED
      BY <3>2, <3>3, <3>4, <3>5 DEF NodeOK, Children
  <2>3. CASE node.storeSize = arrayLengthLimit
    <3>1. after = [node EXCEPT !.childrenMap = Held(array) \cup {key},
                               !.childrenArray = <<>>, !.storeSize = @ + 1]
      BY <2>1, <2>3 DEF AddChild, arrayLengthLimit
    <3>2. node.childrenMap = {} /\ Held(array) \in SUBSET Char
      BY <2>3, HeldIsRange DEF NodeOK, arrayLengthLimit
    <3>3. after \in Node /\ after.nodeState = node.nodeState
          /\ after.childrenArray = <<>> /\ after.childrenMap = Held(array) \cup {key}
          /\ after.storeSize = node.storeSize + 1
      <4> DEFINE map == Held(array) \cup {key}
      <4>1. map \in SUBSET Char
        BY <3>2
      <4> HIDE DEF map
      <4>2. [node EXCEPT !.childrenMap = map, !.childrenArray = <<>>, !.storeSize = @ + 1]
               = [childrenArray |-> <<>>, childrenMap |-> map,
                  storeSize |-> node.storeSize + 1, nodeState |-> node.nodeState]
        BY <4>1, NodeWithBoth
      <4>3. after = [childrenArray |-> <<>>, childrenMap |-> map,
                     storeSize |-> node.storeSize + 1, nodeState |-> node.nodeState]
        BY <3>1, <4>2 DEF map
      <4> QED
        BY <4>1, <4>3 DEF Node, map
    <3>4. ~(after.storeSize <= arrayLengthLimit)
      BY <2>3, <3>3 DEF arrayLengthLimit
    <3>5. Ascending(<<>>) /\ Held(<<>>) = {}
      BY DEF Ascending, Held
    <3> QED
      BY <3>2, <3>3, <3>4, <3>5 DEF NodeOK, Children
  <2>4. CASE node.storeSize > arrayLengthLimit
    <3>1. after = [node EXCEPT !.childrenMap = @ \cup {key}, !.storeSize = @ + 1]
      BY <2>1, <2>4 DEF AddChild, arrayLengthLimit
    <3>2. array = <<>> /\ Held(array) = {}
      BY <2>4, HeldIsRange DEF NodeOK, arrayLengthLimit
    <3>3. after \in Node /\ after.nodeState = node.nodeState
          /\ after.childrenArray = <<>> /\ after.childrenMap = node.childrenMap \cup {key}
          /\ after.storeSize = node.storeSize + 1
      <4> DEFINE map == node.childrenMap \cup {key}
      <4>1. map \in SUBSET Char
        OBVIOUS
      <4> HIDE DEF map
      <4>2. [node EXCEPT !.childrenMap = map, !.storeSize = @ + 1]
               = [childrenArray |-> array, childrenMap |-> map,
                  storeSize |-> node.storeSize + 1, nodeState |-> node.nodeState]
        BY <4>1, NodeWithMap
      <4>3. after = [childrenArray |-> array, childrenMap |-> map,
                     storeSize |-> node.storeSize + 1, nodeState |-> node.nodeState]
        BY <3>1, <4>2 DEF map
      <4> QED
        BY <3>2, <4>1, <4>3 DEF Node, map
    <3>4. ~(after.storeSize <= arrayLengthLimit)
      BY <2>4, <3>3 DEF arrayLengthLimit
    <3>5. Ascending(<<>>) /\ Held(<<>>) = {}
      BY DEF Ascending, Held
    <3> QED
      BY <3>2, <3>3, <3>4, <3>5 DEF NodeOK, Children
  <2> QED
    BY <2>2, <2>3, <2>4 DEF arrayLengthLimit
<1> QED
  BY <1>1, <1>2

-----------------------------------------------------------------------------
(* Paths.                                                                  *)

LEMMA PrefixFacts ==
  ASSUME NEW word \in Seq(Char), NEW i \in 0..Len(word)
  PROVE  /\ Prefix(word, i) \in Seq(Char) /\ Len(Prefix(word, i)) = i
         /\ \A j \in 1..i : Prefix(word, i)[j] = word[j]
         /\ Prefix(word, i) \in Prefixes(word)
<1>1. \A j \in 1..i : word[j] \in Char
  OBVIOUS
<1> QED
  BY <1>1, SubSeqProperties DEF Prefix, Prefixes

LEMMA PrefixEnds ==
  ASSUME NEW word \in Seq(Char)
  PROVE  Prefix(word, 0) = <<>> /\ Prefix(word, Len(word)) = word
<1>1. Len(word) \in 0..Len(word) /\ 0 \in 0..Len(word)
  OBVIOUS
<1>2. Prefix(word, 0) \in Seq(Char) /\ Len(Prefix(word, 0)) = 0
  BY <1>1, PrefixFacts
<1> QED
  BY <1>2, SubSeqFull DEF Prefix

LEMMA PrefixOfPrefix ==
  ASSUME NEW word \in Seq(Char), NEW i \in 0..Len(word), NEW j \in 0..i
  PROVE  Prefix(Prefix(word, i), j) = Prefix(word, j)
<1> DEFINE path == Prefix(word, i)
<1>1. path \in Seq(Char) /\ Len(path) = i /\ \A k \in 1..i : path[k] = word[k]
  BY PrefixFacts
<1> HIDE DEF path
<1>2. j \in 0..Len(path) /\ j \in 0..Len(word)
  BY <1>1
<1>3. /\ Prefix(path, j) \in Seq(Char) /\ Len(Prefix(path, j)) = j
      /\ \A k \in 1..j : Prefix(path, j)[k] = path[k]
  BY <1>1, <1>2, PrefixFacts
<1>4. /\ Prefix(word, j) \in Seq(Char) /\ Len(Prefix(word, j)) = j
      /\ \A k \in 1..j : Prefix(word, j)[k] = word[k]
  BY <1>2, PrefixFacts
<1>5. \A k \in 1..j : Prefix(path, j)[k] = Prefix(word, j)[k]
  BY <1>1, <1>3, <1>4
<1>6. Prefix(path, j) = Prefix(word, j)
  BY <1>3, <1>4, <1>5, SeqEqual
<1> QED
  BY <1>6 DEF path

(* The next node on the path of a word.                                    *)
LEMMA NextPrefix ==
  ASSUME NEW word \in Seq(Char), NEW i \in 1..Len(word)
  PROVE  Prefix(word, i) = Append(Prefix(word, i - 1), word[i])
<1> DEFINE path == Prefix(word, i - 1)
           next == Append(path, word[i])
<1>1. i - 1 \in 0..Len(word) /\ i \in 0..Len(word) /\ word[i] \in Char
  OBVIOUS
<1>2. /\ path \in Seq(Char) /\ Len(path) = i - 1
      /\ \A k \in 1..(i - 1) : path[k] = word[k]
  BY <1>1, PrefixFacts
<1> HIDE DEF path
<1>3. next \in Seq(Char) /\ Len(next) = i /\ \A k \in 1..i : next[k] = word[k]
  BY <1>1, <1>2
<1>4. /\ Prefix(word, i) \in Seq(Char) /\ Len(Prefix(word, i)) = i
      /\ \A k \in 1..i : Prefix(word, i)[k] = word[k]
  BY <1>1, PrefixFacts
<1>5. Prefix(word, i) = next
  BY <1>3, <1>4, SeqEqual
<1> QED
  BY <1>5 DEF path

LEMMA AppendPath ==
  ASSUME NEW path \in Seq(Char), NEW key \in Char
  PROVE  /\ Append(path, key) \in Seq(Char) /\ Append(path, key) # <<>>
         /\ Len(Append(path, key)) = Len(path) + 1
         /\ Append(path, key)[Len(path) + 1] = key
         /\ Prefix(Append(path, key), Len(path)) = path
<1> DEFINE next == Append(path, key)
<1>1. /\ next \in Seq(Char) /\ Len(next) = Len(path) + 1 /\ next[Len(path) + 1] = key
      /\ \A k \in 1..Len(path) : next[k] = path[k]
  OBVIOUS
<1> HIDE DEF next
<1>2. Len(path) \in 0..Len(next)
  BY <1>1
<1>3. /\ Prefix(next, Len(path)) \in Seq(Char) /\ Len(Prefix(next, Len(path))) = Len(path)
      /\ \A k \in 1..Len(path) : Prefix(next, Len(path))[k] = next[k]
  BY <1>1, <1>2, PrefixFacts
<1>4. Prefix(next, Len(path)) = path
  BY <1>1, <1>3, SeqEqual
<1>5. next # <<>>
  BY <1>1
<1> QED
  BY <1>1, <1>4, <1>5 DEF next

(* The paths on the way to a word are told apart by their lengths.         *)
LEMMA ProperPrefix ==
  ASSUME NEW word \in Seq(Char), NEW path
  PROVE  /\ path \in Prefixes(word) <=>
               path \in Seq(Char) /\ Len(path) <= Len(word) /\ path = Prefix(word, Len(path))
         /\ path \in Prefixes(word) /\ path # word => Len(path) < Len(word)
         /\ word \in Prefixes(word) /\ <<>> \in Prefixes(word)
<1>1. \A i \in 0..Len(word) : Prefix(word, i) \in Seq(Char) /\ Len(Prefix(word, i)) = i
                                /\ Prefix(word, i) \in Prefixes(word)
  BY PrefixFacts
<1>2. path \in Prefixes(word) <=> \E i \in 0..Len(word) : path = Prefix(word, i)
  BY DEF Prefixes
<1>3. path \in Prefixes(word) =>
         path \in Seq(Char) /\ Len(path) <= Len(word) /\ path = Prefix(word, Len(path))
  BY <1>1, <1>2
<1>4. path \in Seq(Char) => Len(path) \in Nat
  OBVIOUS
<1>5. path \in Seq(Char) /\ Len(path) <= Len(word) => Len(path) \in 0..Len(word)
  BY <1>4
<1>6. path \in Seq(Char) /\ Len(path) = Len(word) /\ path = Prefix(word, Len(path)) => path = word
  BY PrefixEnds
<1>7. Len(word) \in Nat
  OBVIOUS
<1>8. path \in Prefixes(word) /\ path # word => Len(path) < Len(word)
  BY <1>3, <1>4, <1>6, <1>7
<1>9. word \in Prefixes(word) /\ <<>> \in Prefixes(word)
  BY <1>1, <1>7, PrefixEnds
<1> QED
  BY <1>2, <1>3, <1>5, <1>8, <1>9

-----------------------------------------------------------------------------
(* A whole trie.                                                           *)

LEMMA TrieFacts ==
  ASSUME NEW trie, TrieOK(trie)
  PROVE  /\ <<>> \in DOMAIN trie /\ DOMAIN trie \subseteq Seq(Char)
         /\ \A path \in DOMAIN trie : /\ trie[path] \in Node /\ NodeOK(trie[path])
                                       /\ Children(trie[path]) \in SUBSET Char
         /\ WordsOf(trie) \subseteq Seq(Char) \ {<<>>}
<1>1. \A path \in DOMAIN trie : trie[path] \in Node /\ NodeOK(trie[path]) /\ path \in Seq(Char)
  BY DEF TrieOK
<1>2. <<>> \in DOMAIN trie /\ trie[<<>>].nodeState = 0
  BY DEF TrieOK
<1> QED
  BY <1>1, <1>2, NodeFacts DEF WordsOf

(* A new trie is whole and holds nothing.                                  *)
LEMMA NewTrieIsEmpty ==
  /\ TrieOK(NewTrie) /\ DOMAIN NewTrie = {<<>>}
  /\ WordsOf(NewTrie) = {} /\ PrefixesOf(NewTrie) = {}
<1>1. DOMAIN NewTrie = {<<>>} /\ NewTrie[<<>>] = newDictSegment
      /\ NewTrie \in [DOMAIN NewTrie -> Node]
  BY NewNode DEF NewTrie
<1>2. <<>> \in Seq(Char) /\ Len(<<>>) = 0
  OBVIOUS
<1>3. TrieOK(NewTrie)
  BY <1>1, <1>2, NewNode DEF TrieOK
<1> QED
  BY <1>1, <1>3, NewNode DEF WordsOf, PrefixesOf

(* A child is where its parent says, and nowhere else.                     *)
LEMMA ChildIsThere ==
  ASSUME NEW trie, TrieOK(trie), NEW path \in DOMAIN trie, NEW key \in Char
  PROVE  key \in Children(trie[path]) <=> Append(path, key) \in DOMAIN trie
<1> DEFINE next == Append(path, key)
<1>1. path \in Seq(Char) /\ Len(path) \in Nat
  BY TrieFacts
<1>2. Len(next) = Len(path) + 1 /\ next[Len(path) + 1] = key /\ Prefix(next, Len(path)) = path
  BY <1>1, AppendPath
<1>3. key \in Children(trie[path]) => next \in DOMAIN trie
  BY DEF TrieOK
<1> HIDE DEF next
<1>4. ASSUME next \in DOMAIN trie PROVE key \in Children(trie[path])
  <2>1. \A i \in 1..Len(next) : next[i] \in Children(trie[Prefix(next, i - 1)])
    BY <1>4 DEF TrieOK
  <2>2. Len(path) + 1 \in 1..Len(next) /\ (Len(path) + 1) - 1 = Len(path)
    BY <1>1, <1>2
  <2> QED
    BY <1>2, <2>1, <2>2
<1> QED
  BY <1>3, <1>4 DEF next

(* The way to a word, over nodes that are there and children they know.    *)
LEMMA WayToWord ==
  ASSUME NEW trie, TrieOK(trie), NEW word \in Seq(Char)
  PROVE  (\A i \in 1..Len(word) : /\ Prefix(word, i - 1) \in DOMAIN trie
                                   /\ word[i] \in Children(trie[Prefix(word, i - 1)]))
            <=> word \in DOMAIN trie
<1> DEFINE Way == \A i \in 1..Len(word) :
                     /\ Prefix(word, i - 1) \in DOMAIN trie
                     /\ word[i] \in Children(trie[Prefix(word, i - 1)])
<1>1. ASSUME Way PROVE word \in DOMAIN trie
  <2>1. CASE Len(word) = 0
    <3>1. word = <<>>
      BY <2>1
    <3> QED
      BY <3>1, TrieFacts
  <2>2. CASE Len(word) # 0
    <3> DEFINE n == Len(word)
    <3>1. n \in 1..Len(word) /\ word[n] \in Char
      BY <2>2
    <3>2. Prefix(word, n - 1) \in DOMAIN trie /\ word[n] \in Children(trie[Prefix(word, n - 1)])
      BY <1>1, <3>1
    <3>3. Append(Prefix(word, n - 1), word[n]) = word
      BY <3>1, NextPrefix, PrefixEnds
    <3> HIDE DEF n
    <3> QED
      BY <3>1, <3>2, <3>3, ChildIsThere
  <2> QED
    BY <2>1, <2>2
<1>2. word \in DOMAIN trie => Way
  BY DEF TrieOK
<1> QED
  BY <1>1, <1>2

(* The trie has the node of a word exactly if fillSegment and match find   *)
(* the way there.                                                          *)
LEMMA FoundIsThere ==
  ASSUME NEW trie, TrieOK(trie), NEW word \in Seq(Char)
  PROVE  Found(trie, word) <=> word \in DOMAIN trie
<1>1. \A path \in DOMAIN trie : \A key \in Char :
         FindSegment(trie[path], key) <=> key \in Children(trie[path])
  BY TrieFacts, ChildFound
<1>2. \A i \in 1..Len(word) : word[i] \in Char
  OBVIOUS
<1>3. Found(trie, word) <=>
         \A i \in 1..Len(word) : /\ Prefix(word, i - 1) \in DOMAIN trie
                                  /\ word[i] \in Children(trie[Prefix(word, i - 1)])
  BY <1>1, <1>2 DEF Found
<1> QED
  BY <1>3, WayToWord

(* match answers by membership: in the words, and in the paths that go on. *)
LEMMA MatchIsMembership ==
  ASSUME NEW trie, TrieOK(trie), NEW word \in Seq(Char)
  PROVE  /\ Match(trie, word).isMatch <=> word \in WordsOf(trie)
         /\ Match(trie, word).isPrefix <=> word \in PrefixesOf(trie)
<1> DEFINE reached == \A i \in 1..Len(word) :
                       /\ Prefix(word, i - 1) \in DOMAIN trie
                       /\ MatchChild(trie[Prefix(word, i - 1)], word[i])
<1>1. \A path \in DOMAIN trie : \A key \in Char :
         MatchChild(trie[path], key) <=> key \in Children(trie[path])
  BY TrieFacts, ChildFound
<1>2. \A i \in 1..Len(word) : word[i] \in Char
  OBVIOUS
<1>3. reached <=> \A i \in 1..Len(word) :
                   /\ Prefix(word, i - 1) \in DOMAIN trie
                   /\ word[i] \in Children(trie[Prefix(word, i - 1)])
  BY <1>1, <1>2
<1>4. reached <=> word \in DOMAIN trie
  BY <1>3, WayToWord
<1>5. word \in DOMAIN trie => (trie[word].storeSize > 0 <=> Children(trie[word]) # {})
  BY TrieFacts, SizeTells
<1>6. /\ Match(trie, word).isMatch <=> reached /\ trie[word].nodeState = 1
      /\ Match(trie, word).isPrefix <=> reached /\ trie[word].storeSize > 0
  BY DEF Match
<1> QED
  BY <1>4, <1>5, <1>6 DEF WordsOf, PrefixesOf

(* So does match from a hit, on the way that the hit has come.             *)
LEMMA MatchFromIsMembership ==
  ASSUME NEW trie, TrieOK(trie), NEW path \in DOMAIN trie, NEW key \in Char
  PROVE  /\ MatchFrom(trie, path, key).isMatch <=> Append(path, key) \in WordsOf(trie)
         /\ MatchFrom(trie, path, key).isPrefix <=> Append(path, key) \in PrefixesOf(trie)
<1> DEFINE next == Append(path, key)
<1>1. MatchChild(trie[path], key) <=> next \in DOMAIN trie
  BY TrieFacts, ChildFound, ChildIsThere
<1>2. next \in DOMAIN trie => (trie[next].storeSize > 0 <=> Children(trie[next]) # {})
  BY TrieFacts, SizeTells
<1>3. /\ MatchFrom(trie, path, key).isMatch <=>
            MatchChild(trie[path], key) /\ trie[next].nodeState = 1
      /\ MatchFrom(trie, path, key).isPrefix <=>
            MatchChild(trie[path], key) /\ trie[next].storeSize > 0
  BY DEF MatchFrom
<1> HIDE DEF next
<1> QED
  BY <1>1, <1>2, <1>3 DEF WordsOf, PrefixesOf, next

-----------------------------------------------------------------------------
(* Adding a word.                                                          *)

Before(trie, path) == IF path \in DOMAIN trie THEN trie[path] ELSE newDictSegment

LEMMA BeforeFacts ==
  ASSUME NEW trie, TrieOK(trie), NEW path
  PROVE  /\ Before(trie, path) \in Node /\ NodeOK(Before(trie, path))
         /\ Children(Before(trie, path)) \in SUBSET Char
BY TrieFacts, NewNode DEF Before

(* What becomes of each node: the last of the path is a word, those above  *)
(* it have the next among their children, and no other changes.            *)
LEMMA FilledNode ==
  ASSUME NEW trie, TrieOK(trie), NEW word \in Seq(Char), NEW path,
         path \in DOMAIN trie \cup Prefixes(word)
  PROVE  LET after == FillNode(trie, word, path)
         IN  /\ after \in Node /\ NodeOK(after)
             /\ after.nodeState = IF path = word THEN 1 ELSE Before(trie, path).nodeState
             /\ path \in Prefixes(word) \ {word} =>
                   /\ word[Len(path) + 1] \in Char
                   /\ Children(after) = Children(Before(trie, path)) \cup {word[Len(path) + 1]}
             /\ path \notin Prefixes(word) \ {word} =>
                   Children(after) = Children(Before(trie, path))
<1> DEFINE node == Before(trie, path)
           after == FillNode(trie, word, path)
<1> SUFFICES /\ after \in Node /\ NodeOK(after)
             /\ after.nodeState = IF path = word THEN 1 ELSE node.nodeState
             /\ path \in Prefixes(word) \ {word} =>
                   /\ word[Len(path) + 1] \in Char
                   /\ Children(after) = Children(node) \cup {word[Len(path) + 1]}
             /\ path \notin Prefixes(word) \ {word} => Children(after) = Children(node)
  OBVIOUS
<1>1. node \in Node /\ NodeOK(node)
  BY BeforeFacts
<1>2. after = IF path = word THEN [node EXCEPT !.nodeState = 1]
              ELSE IF path \in Prefixes(word)
              THEN LookforSegment(node, word[Len(path) + 1])
              ELSE node
  BY DEF FillNode, Before
<1> HIDE DEF node, after
<1>3. CASE path = word
  <2>1. after = [node EXCEPT !.nodeState = 1]
    BY <1>2, <1>3
  <2>2. /\ after \in Node /\ after.nodeState = 1
        /\ after.childrenArray = node.childrenArray /\ after.childrenMap = node.childrenMap
        /\ after.storeSize = node.storeSize
    BY <1>1, <2>1 DEF Node
  <2>3. NodeOK(after) /\ Children(after) = Children(node)
    BY <1>1, <2>2 DEF NodeOK, Children
  <2> QED
    BY <1>3, <2>2, <2>3
<1>4. CASE path # word /\ path \in Prefixes(word)
  <2> DEFINE key == word[Len(path) + 1]
  <2>1. path \in Seq(Char) /\ Len(path) < Len(word)
    BY <1>4, ProperPrefix
  <2>2. Len(path) + 1 \in 1..Len(word)
    BY <2>1
  <2>3. key \in Char
    BY <2>2
  <2>4. after = LookforSegment(node, key)
    BY <1>2, <1>4
  <2> HIDE DEF key
  <2>5. /\ after \in Node /\ NodeOK(after) /\ after.nodeState = node.nodeState
        /\ Children(after) = Children(node) \cup {key}
    BY <1>1, <2>3, <2>4, ChildAdded
  <2> QED
    BY <1>4, <2>3, <2>5 DEF key
<1>5. CASE path \notin Prefixes(word)
  <2>1. path # word
    BY <1>5, ProperPrefix
  <2> QED
    BY <1>1, <1>2, <1>5, <2>1
<1> QED
  BY <1>3, <1>4, <1>5

(* The trie stays whole, and what it holds is what it held and the word    *)
(* with its prefixes.                                                      *)
THEOREM FillAddsOneWord ==
  ASSUME NEW trie, TrieOK(trie), NEW word \in Seq(Char) \ {<<>>}
  PROVE  LET after == FillSegment(trie, word)
         IN  /\ TrieOK(after)
             /\ WordsOf(after) = WordsOf(trie) \cup {word}
             /\ PrefixesOf(after) = PrefixesOf(trie) \cup (Prefixes(word) \ {word})
             /\ DOMAIN after = DOMAIN trie \cup Prefixes(word)
<1> DEFINE after == FillSegment(trie, word)
           proper == Prefixes(word) \ {word}
           next(path) == word[Len(path) + 1]
           old(path) == Before(trie, path)
<1> SUFFICES /\ TrieOK(after)
             /\ WordsOf(after) = WordsOf(trie) \cup {word}
             /\ PrefixesOf(after) = PrefixesOf(trie) \cup proper
             /\ DOMAIN after = DOMAIN trie \cup Prefixes(word)
  OBVIOUS
<1>1. DOMAIN after = DOMAIN trie \cup Prefixes(word)
      /\ after = [path \in DOMAIN after |-> FillNode(trie, word, path)]
  BY DEF FillSegment
<1> HIDE DEF after
<1>2. \A path \in DOMAIN after :
         /\ after[path] \in Node /\ NodeOK(after[path])
         /\ after[path].nodeState = IF path = word THEN 1 ELSE old(path).nodeState
         /\ path \in proper =>
               next(path) \in Char /\ Children(after[path]) = Children(old(path)) \cup {next(path)}
         /\ path \notin proper => Children(after[path]) = Children(old(path))
  <2> SUFFICES ASSUME NEW path \in DOMAIN after
               PROVE  /\ after[path] \in Node /\ NodeOK(after[path])
                      /\ after[path].nodeState = IF path = word THEN 1 ELSE old(path).nodeState
                      /\ path \in proper =>
                            /\ next(path) \in Char
                            /\ Children(after[path]) = Children(old(path)) \cup {next(path)}
                      /\ path \notin proper => Children(after[path]) = Children(old(path))
    OBVIOUS
  <2>1. after[path] = FillNode(trie, word, path)
    BY <1>1
  <2> QED
    BY <1>1, <2>1, FilledNode
<1>3. \A path \in DOMAIN trie : old(path) = trie[path]
  BY DEF Before
<1>4. \A path : path \notin DOMAIN trie =>
         Children(old(path)) = {} /\ old(path).nodeState = 0
  BY NewNode DEF Before
<1> HIDE DEF old
<1>5. /\ word \in Seq(Char) /\ word # <<>> /\ word \in Prefixes(word) /\ <<>> \in Prefixes(word)
      /\ DOMAIN trie \subseteq Seq(Char) /\ Prefixes(word) \subseteq Seq(Char)
  BY ProperPrefix, TrieFacts
<1>6. TrieOK(after)
  <2>1. after \in [DOMAIN after -> Node]
    BY <1>1, <1>2
  <2>2. <<>> \in DOMAIN after /\ after[<<>>].nodeState = 0
    <3>1. <<>> \in DOMAIN trie /\ trie[<<>>].nodeState = 0
      BY DEF TrieOK
    <3> QED
      BY <1>1, <1>2, <1>3, <1>5, <3>1
  <2>3. \A path \in DOMAIN after : path \in Seq(Char) /\ NodeOK(after[path])
    BY <1>1, <1>2, <1>5
  <2>4. ASSUME NEW path \in DOMAIN after, NEW i \in 1..Len(path)
        PROVE  /\ Prefix(path, i - 1) \in DOMAIN after
               /\ path[i] \in Children(after[Prefix(path, i - 1)])
    <3> DEFINE above == Prefix(path, i - 1)
    <3>1. CASE path \in DOMAIN trie
      <4>1. above \in DOMAIN trie /\ path[i] \in Children(trie[above])
        BY <3>1 DEF TrieOK
      <4>2. path[i] \in Children(old(above)) /\ above \in DOMAIN after
        BY <1>1, <1>3, <4>1
      <4> HIDE DEF above
      <4>3. path[i] \in Children(after[above])
        BY <1>2, <4>2
      <4> QED
        BY <4>2, <4>3 DEF above
    <3>2. CASE path \in Prefixes(word)
      <4>1. /\ path \in Seq(Char) /\ Len(path) \in 0..Len(word)
            /\ path = Prefix(word, Len(path)) /\ Len(word) \in Nat
        BY <3>2, ProperPrefix, LenProperties
      <4>2. i - 1 \in 0..Len(path) /\ i - 1 \in 0..Len(word) /\ i - 1 < Len(word)
        BY <4>1
      <4>3. above = Prefix(word, i - 1)
        BY <4>1, <4>2, PrefixOfPrefix
      <4>4. Len(above) = i - 1 /\ above \in Prefixes(word)
        BY <4>2, <4>3, PrefixFacts
      <4>5. above \in proper
        BY <4>2, <4>4
      <4>6. next(above) = word[i] /\ path[i] = word[i]
        <5>1. \A j \in 1..Len(path) : Prefix(word, Len(path))[j] = word[j]
          BY <4>1, PrefixFacts
        <5>2. (i - 1) + 1 = i
          OBVIOUS
        <5> QED
          BY <4>1, <4>4, <5>1, <5>2
      <4>7. above \in DOMAIN after
        BY <1>1, <4>4
      <4> HIDE DEF above
      <4> QED
        BY <1>2, <4>5, <4>6, <4>7 DEF above
    <3> QED
      BY <1>1, <3>1, <3>2
  <2>5. ASSUME NEW path \in DOMAIN after, NEW key \in Children(after[path])
        PROVE  Append(path, key) \in DOMAIN after
    <3>1. CASE key \in Children(old(path))
      <4>1. path \in DOMAIN trie /\ key \in Children(trie[path])
        BY <1>3, <1>4, <3>1
      <4>2. Append(path, key) \in DOMAIN trie
        BY <4>1 DEF TrieOK
      <4> QED
        BY <1>1, <4>2
    <3>2. CASE path \in proper /\ key = next(path)
      <4>1. path \in Seq(Char) /\ Len(path) < Len(word) /\ path = Prefix(word, Len(path))
        BY <3>2, ProperPrefix
      <4>2. Len(path) + 1 \in 1..Len(word) /\ (Len(path) + 1) - 1 = Len(path)
            /\ Len(path) + 1 \in 0..Len(word)
        BY <4>1
      <4>3. Prefix(word, Len(path) + 1) = Append(path, key)
        BY <3>2, <4>1, <4>2, NextPrefix
      <4>4. Prefix(word, Len(path) + 1) \in Prefixes(word)
        BY <4>2, PrefixFacts
      <4> QED
        BY <1>1, <4>3, <4>4
    <3> QED
      BY <1>2, <3>1, <3>2
  <2> QED
    BY <2>1, <2>2, <2>3, <2>4, <2>5 DEF TrieOK
<1>7. WordsOf(after) = WordsOf(trie) \cup {word}
  <2>1. \A path \in DOMAIN after : path # word =>
           (after[path].nodeState = 1 <=> path \in DOMAIN trie /\ trie[path].nodeState = 1)
    BY <1>2, <1>3, <1>4
  <2>2. word \in DOMAIN after /\ after[word].nodeState = 1
    BY <1>1, <1>2, <1>5
  <2> QED
    BY <1>1, <2>1, <2>2 DEF WordsOf
<1>8. PrefixesOf(after) = PrefixesOf(trie) \cup proper
  <2>1. \A path \in DOMAIN after : path \in proper => Children(after[path]) # {}
    BY <1>2
  <2>2. \A path \in DOMAIN after : path \notin proper =>
           (Children(after[path]) # {} <=> path \in DOMAIN trie /\ Children(trie[path]) # {})
    BY <1>2, <1>3, <1>4
  <2> QED
    BY <1>1, <2>1, <2>2 DEF PrefixesOf
<1> QED
  BY <1>1, <1>6, <1>7, <1>8

-----------------------------------------------------------------------------
(* Disabling a word takes away that word, if it is there, and nothing      *)
(* else: the way to it remains, and so do the prefixes.                    *)
THEOREM DisableTakesOneWord ==
  ASSUME NEW trie, TrieOK(trie), NEW word \in Seq(Char) \ {<<>>}
  PROVE  LET after == DisableSegment(trie, word)
         IN  /\ TrieOK(after)
             /\ WordsOf(after) = WordsOf(trie) \ {word}
             /\ PrefixesOf(after) = PrefixesOf(trie)
             /\ DOMAIN after = DOMAIN trie
<1> DEFINE after == DisableSegment(trie, word)
<1> SUFFICES /\ TrieOK(after)
             /\ WordsOf(after) = WordsOf(trie) \ {word}
             /\ PrefixesOf(after) = PrefixesOf(trie)
             /\ DOMAIN after = DOMAIN trie
  OBVIOUS
<1>1. CASE ~Found(trie, word)
  <2>1. after = trie /\ word \notin DOMAIN trie
    BY <1>1, FoundIsThere DEF DisableSegment
  <2> QED
    BY <2>1 DEF WordsOf
<1>2. CASE Found(trie, word)
  <2>1. word \in DOMAIN trie /\ trie \in [DOMAIN trie -> Node]
    BY <1>2, FoundIsThere DEF TrieOK
  <2>2. after = [trie EXCEPT ![word].nodeState = 0]
    BY <1>2 DEF DisableSegment
  <2> DEFINE node == [trie[word] EXCEPT !.nodeState = 0]
  <2>3. trie[word] \in Node /\ NodeOK(trie[word])
    BY <2>1, TrieFacts
  <2>4. /\ node \in Node /\ node.nodeState = 0
        /\ node.childrenArray = trie[word].childrenArray
        /\ node.childrenMap = trie[word].childrenMap
        /\ node.storeSize = trie[word].storeSize
    BY <2>3 DEF Node
  <2>5. after = [trie EXCEPT ![word] = node]
    BY <2>2
  <2> HIDE DEF node, after
  <2>6. NodeOK(node) /\ Children(node) = Children(trie[word])
    BY <2>3, <2>4 DEF NodeOK, Children
  <2>7. /\ DOMAIN after = DOMAIN trie /\ after \in [DOMAIN after -> Node]
        /\ after[word] = node
        /\ \A path \in DOMAIN trie \ {word} : after[path] = trie[path]
    BY <2>1, <2>4, <2>5
  <2>8. \A path \in DOMAIN trie : NodeOK(after[path]) /\ Children(after[path]) = Children(trie[path])
    BY <2>6, <2>7, TrieFacts
  <2>9. TrieOK(after)
    <3>1. <<>> \in DOMAIN after /\ after[<<>>].nodeState = 0
      BY <2>7 DEF TrieOK
    <3>2. ASSUME NEW path \in DOMAIN after
          PROVE  /\ path \in Seq(Char) /\ NodeOK(after[path])
                 /\ \A i \in 1..Len(path) :
                       /\ Prefix(path, i - 1) \in DOMAIN after
                       /\ path[i] \in Children(after[Prefix(path, i - 1)])
                 /\ \A key \in Children(after[path]) : Append(path, key) \in DOMAIN after
      <4>1. /\ path \in DOMAIN trie /\ path \in Seq(Char)
            /\ \A i \in 1..Len(path) :
                  /\ Prefix(path, i - 1) \in DOMAIN trie
                  /\ path[i] \in Children(trie[Prefix(path, i - 1)])
            /\ \A key \in Children(trie[path]) : Append(path, key) \in DOMAIN trie
        BY <2>7 DEF TrieOK
      <4> QED
        BY <2>7, <2>8, <4>1
    <3> QED
      BY <2>7, <3>1, <3>2 DEF TrieOK
  <2>10. WordsOf(after) = WordsOf(trie) \ {word} /\ PrefixesOf(after) = PrefixesOf(trie)
    BY <2>1, <2>4, <2>7, <2>8 DEF WordsOf, PrefixesOf
  <2> QED
    BY <2>7, <2>9, <2>10
<1> QED
  BY <1>1, <1>2

-----------------------------------------------------------------------------
(* The tries of a load: one of each kind, whole, and of the words there    *)
(* are.                                                                    *)
Whole(dict) ==
    /\ dict = [kind \in Kinds |-> dict[kind]]
    /\ \A kind \in Kinds : TrieOK(dict[kind]) /\ WordsOf(dict[kind]) \subseteq Words

TypeInv ==
    /\ DictTypeOK
    /\ tries = [generation \in DOMAIN tries |-> tries[generation]]
    /\ DOMAIN tries \subseteq 1..live
    /\ \A generation \in DOMAIN tries : Whole(tries[generation])
    /\ Loading => Whole(tmpDict) /\ live < MaxLoads
    /\ ~Unlocked => live # 0
    /\ cursor # 0 => live # 0

(* The words of a kind that there will be when the update that holds the   *)
(* lock is done with its list.                                             *)
Pending(kind, words) ==
    IF Unlocked \/ KindOf(update.op) # kind THEN words
    ELSE After(update.op, words, update.words)

(* Words in force are not forgotten by an update that is halfway, and the  *)
(* tries being filled hold what was loaded so far, and its prefixes.       *)
WordsInv ==
    /\ live # 0 => \A kind \in Kinds :
          inForce[kind] = Pending(kind, WordsOf(tries[live][kind]))
    /\ Loading => \A kind \in Kinds :
          /\ WordsOf(tmpDict[kind]) = loaded[kind]
          /\ PrefixesOf(tmpDict[kind]) \cap Words
                = UNION {MainWordSet!ProperPrefixes(word) : word \in loaded[kind]}

(* A hit stands on a node of the tries it began in, and all words of these *)
(* have been in force since it began; starts are noted as the text is      *)
(* walked over.                                                            *)
StartsInv == cursor # 0 => DOMAIN seen \subseteq 1..(cursor - 1)

HitsInv ==
    \A begin \in DOMAIN hits :
       /\ begin \in DOMAIN seen
       /\ WordsOf(tries[hits[begin]]["main"]) \subseteq seen[begin]
       /\ SubSeq(text, begin, IF begin \in todo THEN cursor - 1 ELSE cursor)
             \in DOMAIN tries[hits[begin]]["main"]

ReportInv == StartsInv /\ HitsInv /\ MatchesWereInForce

DInv == TypeInv /\ WordsInv /\ ReportInv

-----------------------------------------------------------------------------
(* Words, and what a step does to the tries.                               *)

LEMMA WordsAreTexts ==
  /\ Words \subseteq Seq(Char) \ {<<>>}
  /\ "main" \in Kinds /\ "stop" \in Kinds /\ MaxLoads \in Nat
  /\ \A op : KindOf(op) \in Kinds
BY DictionaryAssumption DEF Kinds, KindOf

LEMMA WholeFacts ==
  ASSUME NEW dict, Whole(dict), NEW kind \in Kinds
  PROVE  DOMAIN dict = Kinds /\ TrieOK(dict[kind]) /\ WordsOf(dict[kind]) \subseteq Words
BY DEF Whole

(* Two tries that hold nothing.                                            *)
LEMMA NewDict ==
  Whole([kind \in Kinds |-> NewTrie])
BY NewTrieIsEmpty DEF Whole

(* One word added to one trie of a load, or taken out of it.               *)
LEMMA WholeAfterFill ==
  ASSUME NEW dict, Whole(dict), NEW kind \in Kinds, NEW word \in Words
  PROVE  LET after == [dict EXCEPT ![kind] = FillSegment(@, word)]
         IN  /\ Whole(after) /\ after[kind] = FillSegment(dict[kind], word)
             /\ \A other \in Kinds \ {kind} : after[other] = dict[other]
<1> DEFINE trie == FillSegment(dict[kind], word)
           after == [dict EXCEPT ![kind] = trie]
<1>1. TrieOK(trie) /\ WordsOf(trie) = WordsOf(dict[kind]) \cup {word}
  BY WholeFacts, WordsAreTexts, FillAddsOneWord
<1>2. DOMAIN dict = Kinds
  BY WholeFacts
<1> HIDE DEF trie
<1>3. /\ after = [other \in Kinds |-> after[other]]
      /\ after[kind] = trie /\ \A other \in Kinds \ {kind} : after[other] = dict[other]
  BY <1>2
<1>4. Whole(after)
  <2> HIDE DEF after
  <2> QED
    BY <1>1, <1>3, WholeFacts DEF Whole
<1> QED
  BY <1>3, <1>4 DEF trie

LEMMA WholeAfterDisable ==
  ASSUME NEW dict, Whole(dict), NEW kind \in Kinds, NEW word \in Words
  PROVE  LET after == [dict EXCEPT ![kind] = DisableSegment(@, word)]
         IN  /\ Whole(after) /\ after[kind] = DisableSegment(dict[kind], word)
             /\ \A other \in Kinds \ {kind} : after[other] = dict[other]
<1> DEFINE trie == DisableSegment(dict[kind], word)
           after == [dict EXCEPT ![kind] = trie]
<1>1. TrieOK(trie) /\ WordsOf(trie) = WordsOf(dict[kind]) \ {word}
  BY WholeFacts, WordsAreTexts, DisableTakesOneWord
<1>2. DOMAIN dict = Kinds
  BY WholeFacts
<1> HIDE DEF trie
<1>3. /\ after = [other \in Kinds |-> after[other]]
      /\ after[kind] = trie /\ \A other \in Kinds \ {kind} : after[other] = dict[other]
  BY <1>2
<1>4. Whole(after)
  <2> HIDE DEF after
  <2> QED
    BY <1>1, <1>3, WholeFacts DEF Whole
<1> QED
  BY <1>3, <1>4 DEF trie

(* A line that is loaded goes into the trie of its kind.                   *)
LEMMA LoadWordEffect ==
  ASSUME TypeInv, LoadWord
  PROVE  LET line == Head(toLoad)
         IN  /\ line.kind \in Kinds /\ line.word \in Words \cup {<<>>}
             /\ Whole(tmpDict') /\ Loading'
             /\ line.word = <<>> => tmpDict' = tmpDict /\ loaded' = loaded
             /\ line.word # <<>> =>
                   /\ tmpDict'[line.kind] = FillSegment(tmpDict[line.kind], line.word)
                   /\ \A kind \in Kinds \ {line.kind} : tmpDict'[kind] = tmpDict[kind]
                   /\ loaded' = [loaded EXCEPT ![line.kind] = @ \cup {line.word}]
             /\ loaded' \in [Kinds -> SUBSET Words]
             /\ toLoad' \in Seq([kind : Kinds, word : Words \cup {<<>>}])
             /\ UNCHANGED <<tries, live, writing, reading, inForce, seen>>
<1> DEFINE line == Head(toLoad)
           Line == [kind : Kinds, word : Words \cup {<<>>}]
<1>1. /\ toLoad \in Seq(Line) /\ toLoad # <<>> /\ Whole(tmpDict) /\ Loading
      /\ loaded \in [Kinds -> SUBSET Words]
  BY DEF TypeInv, DictTypeOK, LoadWord
<1>2. line \in Line /\ Tail(toLoad) \in Seq(Line)
  BY <1>1, HeadTailProperties
<1>3. line.kind \in Kinds /\ line.word \in Words \cup {<<>>}
  BY <1>2
<1>4. /\ toLoad' = Tail(toLoad)
      /\ UNCHANGED <<tries, live, writing, reading, inForce, seen>>
      /\ line.word = <<>> => tmpDict' = tmpDict /\ loaded' = loaded
      /\ line.word # <<>> =>
            /\ tmpDict' = [tmpDict EXCEPT ![line.kind] = FillSegment(@, line.word)]
            /\ loaded' = [loaded EXCEPT ![line.kind] = @ \cup {line.word}]
  BY DEF LoadWord
<1> HIDE DEF line
<1>5. loaded' \in [Kinds -> SUBSET Words]
  <2>1. line.word # <<>> => loaded[line.kind] \cup {line.word} \in SUBSET Words
    BY <1>1, <1>3
  <2> QED
    BY <1>1, <1>3, <1>4, <2>1
<1>6. CASE line.word = <<>>
  BY <1>1, <1>2, <1>3, <1>4, <1>6, <1>5 DEF line, Loading
<1>7. CASE line.word # <<>>
  <2>1. line.word \in Words
    BY <1>3, <1>7
  <2>2. /\ Whole(tmpDict') /\ tmpDict'[line.kind] = FillSegment(tmpDict[line.kind], line.word)
        /\ \A kind \in Kinds \ {line.kind} : tmpDict'[kind] = tmpDict[kind]
    <3> DEFINE dict == [tmpDict EXCEPT ![line.kind] = FillSegment(@, line.word)]
    <3>1. /\ Whole(dict) /\ dict[line.kind] = FillSegment(tmpDict[line.kind], line.word)
          /\ \A kind \in Kinds \ {line.kind} : dict[kind] = tmpDict[kind]
      BY <1>1, <1>3, <2>1, WholeAfterFill
    <3>2. tmpDict' = dict
      BY <1>4, <1>7
    <3> HIDE DEF dict
    <3> QED
      BY <3>1, <3>2
  <2>3. Loading'
    <3>1. "main" \in Kinds /\ DOMAIN (tmpDict') = Kinds
      BY <2>2 DEF Whole, Kinds
    <3> QED
      BY <3>1 DEF Loading
  <2> QED
    BY <1>2, <1>3, <1>4, <1>7, <2>2, <2>3, <1>5 DEF line
<1> QED
  BY <1>6, <1>7

(* A word that is added or disabled changes one trie of those in force.    *)
LEMMA UpdateWordEffect ==
  ASSUME TypeInv, UpdateWord
  PROVE  LET word == Head(update.words)
             kind == KindOf(update.op)
             trie == tries[live][kind]
         IN  /\ live \in DOMAIN tries /\ live # 0 /\ Whole(tries[live])
             /\ word \in Words /\ kind \in Kinds
             /\ DOMAIN tries' = DOMAIN tries
             /\ tries' = [generation \in DOMAIN tries' |-> tries'[generation]]
             /\ \A generation \in DOMAIN tries \ {live} : tries'[generation] = tries[generation]
             /\ Whole(tries'[live])
             /\ tries'[live][kind] = IF update.op = "DisableWords" THEN DisableSegment(trie, word)
                                     ELSE FillSegment(trie, word)
             /\ \A other \in Kinds \ {kind} : tries'[live][other] = tries[live][other]
             /\ update' = [op |-> update.op, words |-> Tail(update.words)]
             /\ Tail(update.words) \in Seq(Words \cup {<<>>})
             /\ Unlocked' = Unlocked
             /\ UNCHANGED <<live, tmpDict, toLoad, updates, reading, inForce, loaded>>
<1> DEFINE word == Head(update.words)
           kind == KindOf(update.op)
           trie == IF update.op = "DisableWords" THEN DisableSegment(tries[live][kind], word)
                   ELSE FillSegment(tries[live][kind], word)
           dict == [tries[live] EXCEPT ![kind] = trie]
<1>1. /\ update.words \in Seq(Words \cup {<<>>}) /\ update.words # <<>> /\ word # <<>>
      /\ update \in [op : {"AddWords", "DisableWords", "AddStopWords", None},
                      words : Seq(Words \cup {<<>>})]
  BY DEF TypeInv, DictTypeOK, UpdateWord
<1>2. word \in Words /\ Tail(update.words) \in Seq(Words \cup {<<>>})
  BY <1>1, HeadTailProperties
<1>3. live # 0 /\ live \in DOMAIN tries /\ Whole(tries[live])
      /\ tries = [generation \in DOMAIN tries |-> tries[generation]]
  BY DEF TypeInv, DictTypeOK, UpdateWord
<1>4. kind \in Kinds
  BY WordsAreTexts
<1>5. tries' = [tries EXCEPT ![live] = dict]
      /\ UNCHANGED <<live, tmpDict, toLoad, updates, reading, inForce, loaded>>
  BY DEF UpdateWord
<1>6. update' = [op |-> update.op, words |-> Tail(update.words)]
  BY <1>1 DEF UpdateWord
<1>7. Unlocked' = Unlocked
  BY <1>6 DEF Unlocked
<1> HIDE DEF word, kind
<1>8. /\ Whole(dict) /\ dict[kind] = trie
      /\ \A other \in Kinds \ {kind} : dict[other] = tries[live][other]
  BY <1>2, <1>3, <1>4, WholeAfterFill, WholeAfterDisable
<1> HIDE DEF dict, trie
<1>9. /\ DOMAIN tries' = DOMAIN tries
      /\ tries' = [generation \in DOMAIN tries' |-> tries'[generation]]
      /\ \A generation \in DOMAIN tries \ {live} : tries'[generation] = tries[generation]
      /\ tries'[live] = dict
  BY <1>3, <1>5
<1> QED
  BY <1>2, <1>3, <1>4, <1>5, <1>6, <1>7, <1>8, <1>9 DEF word, kind, trie

(* What comes into force, and what remains of what was.                    *)
LEMMA PublishEffect ==
  ASSUME TypeInv, Publish
  PROVE  /\ live' = live + 1 /\ live' # 0 /\ live' \in 0..MaxLoads /\ live' \in DOMAIN tries'
         /\ Unlocked /\ Whole(tmpDict) /\ tries'[live'] = tmpDict
         /\ tries' = [generation \in DOMAIN tries' |-> tries'[generation]]
         /\ DOMAIN tries' \subseteq 1..live'
         /\ \A begin \in DOMAIN hits : hits[begin] \in DOMAIN tries' /\ hits[begin] # live'
         /\ \A generation \in DOMAIN tries' \ {live'} :
               generation \in DOMAIN tries /\ tries'[generation] = tries[generation]
         /\ ~Loading' /\ inForce' = loaded
         /\ UNCHANGED <<toLoad, writing, reading, loaded>>
<1> DEFINE used == {hits[begin] : begin \in DOMAIN hits}
<1>1. live \in 0..MaxLoads /\ live < MaxLoads /\ Whole(tmpDict) /\ Unlocked
  BY DEF TypeInv, DictTypeOK, Publish
<1>2. live' = live + 1 /\ live' # 0 /\ live' \in 0..MaxLoads
  BY <1>1, WordsAreTexts DEF Publish, Swap
<1>3. used \subseteq DOMAIN tries
  BY DEF TypeInv, DictTypeOK
<1>4. tries' = [generation \in used \cup {live + 1} |->
                  IF generation = live + 1 THEN tmpDict ELSE tries[generation]]
  BY DEF Publish, Swap
<1>5. ~Loading' /\ inForce' = loaded /\ UNCHANGED <<toLoad, writing, reading, loaded>>
  BY DEF Publish, NoDict, Loading
<1>6. \A begin \in DOMAIN hits : hits[begin] \in used
  OBVIOUS
<1> HIDE DEF used
<1>7. DOMAIN tries \subseteq 1..live /\ live \in Nat
  BY <1>1, WordsAreTexts DEF TypeInv
<1>8. DOMAIN tries' = used \cup {live + 1} /\ used \subseteq 1..live
  BY <1>3, <1>4, <1>7
<1>9. DOMAIN tries' \subseteq 1..(live + 1) /\ live + 1 \notin used
  BY <1>7, <1>8
<1> QED
  BY <1>1, <1>2, <1>3, <1>4, <1>5, <1>6, <1>8, <1>9

-----------------------------------------------------------------------------
(* The types.                                                              *)

LEMMA TypeInvInit == DictInit => TypeInv
<1> SUFFICES ASSUME DictInit PROVE TypeInv
  OBVIOUS
<1>1. /\ DOMAIN tries = {} /\ DOMAIN tries \subseteq 1..live /\ tries = [generation \in DOMAIN tries |-> tries[generation]]
      /\ DOMAIN hits = {} /\ DOMAIN tmpDict = {} /\ live = 0 /\ cursor = 0 /\ todo = {}
      /\ toLoad = <<>> /\ text = <<>>
      /\ update = [op |-> None, words |-> <<>>]
      /\ inForce = NoWords /\ loaded = NoWords
  BY DEF DictInit, Nowhere, NoDict
<1>2. live \in 0..MaxLoads /\ Len(text) = 0 /\ text \in Seq(Char)
  BY <1>1, WordsAreTexts
<1>3. NoWords \in [Kinds -> SUBSET Words]
  BY DEF NoWords
<1>4. toLoad \in Seq([kind : Kinds, word : Words \cup {<<>>}])
      /\ update \in [op : {"AddWords", "DisableWords", "AddStopWords", None},
                     words : Seq(Words \cup {<<>>})]
  BY <1>1
<1> QED
  BY <1>1, <1>2, <1>3, <1>4 DEF TypeInv, DictTypeOK, Loading, Unlocked

LEMMA EffectiveWords ==
  ASSUME NEW list \in Seq(Words \cup {<<>>})
  PROVE  Effective(list) \in SUBSET Words
<1>1. \A i \in 1..Len(list) : list[i] \in Words \cup {<<>>} /\ i \in 1..i
  OBVIOUS
<1> QED
  BY <1>1 DEF Effective

(* The three actions that replace or change tries, and the rest.           *)
LEMMA TypeInvLoad ==
  ASSUME TypeInv, StartLoad \/ (\E lines \in Loads : ReadLines(lines)) \/ DropLoad \/ LoadWord
  PROVE  TypeInv'
<1> USE DEF TypeInv, DictTypeOK
<1>1. CASE StartLoad
  <2>1. tmpDict' = [kind \in Kinds |-> NewTrie] /\ loaded' = NoWords /\ live < MaxLoads
        /\ UNCHANGED <<tries, live, toLoad, writing, reading, inForce, seen>>
    BY <1>1 DEF StartLoad
  <2>2. Whole(tmpDict')
    BY <2>1, NewDict
  <2>3. NoWords \in [Kinds -> SUBSET Words]
    BY DEF NoWords
  <2>4. \A kind \in Kinds : TrieOK(tmpDict'[kind])
    BY <2>2 DEF Whole
  <2> QED
    BY <2>1, <2>2, <2>3, <2>4 DEF writing, reading, Unlocked
<1>2. CASE \E lines \in Loads : ReadLines(lines)
  <2>1. PICK lines \in Loads : ReadLines(lines)
    BY <1>2
  <2>2. toLoad' = lines /\ lines \in Seq([kind : Kinds, word : Words \cup {<<>>}])
        /\ UNCHANGED <<tries, live, tmpDict, writing, reading, inForce, loaded, seen>>
    BY <2>1, DictionaryAssumption DEF ReadLines
  <2> QED
    BY <2>2 DEF writing, reading, Unlocked, Loading
<1>3. CASE DropLoad
  <2>1. ~Loading' /\ UNCHANGED <<tries, live, toLoad, writing, reading, inForce, loaded, seen>>
    BY <1>3 DEF DropLoad, NoDict, Loading
  <2> QED
    BY <2>1 DEF writing, reading, Unlocked
<1>4. CASE LoadWord
  <2>1. /\ Whole(tmpDict') /\ Loading' /\ Loading
        /\ toLoad' \in Seq([kind : Kinds, word : Words \cup {<<>>}])
        /\ UNCHANGED <<tries, live, writing, reading, inForce, seen>>
    BY <1>4, LoadWordEffect DEF LoadWord
  <2>2. loaded' \in [Kinds -> SUBSET Words]
    BY <1>4, LoadWordEffect
  <2>3. \A kind \in Kinds : TrieOK(tmpDict'[kind])
    BY <2>1 DEF Whole
  <2> QED
    BY <2>1, <2>2, <2>3 DEF writing, reading, Unlocked
<1> QED
  BY <1>1, <1>2, <1>3, <1>4

LEMMA TypeInvPublish ==
  ASSUME TypeInv, Publish
  PROVE  TypeInv'
<1>1. /\ \A generation \in DOMAIN tries' : Whole(tries'[generation])
      /\ live' \in 0..MaxLoads /\ live' \in DOMAIN tries' /\ live' # 0
      /\ tries' = [generation \in DOMAIN tries' |-> tries'[generation]]
      /\ \A begin \in DOMAIN hits' : hits'[begin] \in DOMAIN tries'
      /\ DOMAIN tries' \subseteq 1..live' /\ ~Loading'
  BY PublishEffect DEF TypeInv, reading
<1>2. \A generation \in DOMAIN tries' : \A kind \in Kinds : TrieOK(tries'[generation][kind])
  BY <1>1 DEF Whole
<1>3. UNCHANGED <<toLoad, update, text, cursor, hits, todo, loaded>> /\ inForce' = loaded
  BY PublishEffect DEF reading, writing
<1> QED
  BY <1>1, <1>2, <1>3 DEF TypeInv, DictTypeOK, Unlocked

LEMMA TypeInvUpdate ==
  ASSUME TypeInv, Update
  PROVE  TypeInv'
<1>1. CASE \E op \in {"AddWords", "DisableWords", "AddStopWords"}, list \in Batches :
               LockForUpdate(op, list)
  <2>1. PICK op \in {"AddWords", "DisableWords", "AddStopWords"}, list \in Batches :
               LockForUpdate(op, list)
    BY <1>1
  <2>2. list \in Seq(Words \cup {<<>>})
    BY DictionaryAssumption
  <2>3. /\ live # 0 /\ update' = [op |-> op, words |-> list]
        /\ inForce' = [inForce EXCEPT ![KindOf(op)] = After(op, @, list)]
        /\ UNCHANGED <<tables, reading, loaded, seen>>
    BY <2>1 DEF LockForUpdate
  <2>4. \A words \in SUBSET Words : After(op, words, list) \in SUBSET Words
    BY <2>2, EffectiveWords DEF After
  <2>5. inForce' \in [Kinds -> SUBSET Words]
    BY <2>3, <2>4, WordsAreTexts DEF TypeInv, DictTypeOK
  <2> QED
    BY <2>2, <2>3, <2>5 DEF TypeInv, DictTypeOK, tables, reading, Unlocked, Loading
<1>2. CASE UpdateWord
  <2>1. /\ \A generation \in DOMAIN tries' : Whole(tries'[generation])
        /\ DOMAIN tries' = DOMAIN tries /\ live # 0
        /\ tries' = [generation \in DOMAIN tries' |-> tries'[generation]]
    BY <1>2, UpdateWordEffect DEF TypeInv
  <2>2. \A generation \in DOMAIN tries' : \A kind \in Kinds : TrieOK(tries'[generation][kind])
    BY <2>1 DEF Whole
  <2>3. /\ update' = [op |-> update.op, words |-> Tail(update.words)]
        /\ Tail(update.words) \in Seq(Words \cup {<<>>})
        /\ UNCHANGED <<live, tmpDict, toLoad, text, cursor, hits, todo, inForce, loaded>>
    BY <1>2, UpdateWordEffect DEF reading
  <2>4. update' \in [op : {"AddWords", "DisableWords", "AddStopWords", None},
                     words : Seq(Words \cup {<<>>})]
    BY <2>3 DEF TypeInv, DictTypeOK
  <2> QED
    BY <2>1, <2>2, <2>3, <2>4 DEF TypeInv, DictTypeOK, Loading
<1>3. CASE Unlock
  <2>1. update' = [op |-> None, words |-> <<>>]
        /\ UNCHANGED <<tables, updates, reading, inForce, loaded, seen>>
    BY <1>3 DEF Unlock
  <2>2. update' \in [op : {"AddWords", "DisableWords", "AddStopWords", None},
                     words : Seq(Words \cup {<<>>})] /\ Unlocked'
    BY <2>1 DEF Unlocked
  <2> QED
    BY <2>1, <2>2 DEF TypeInv, DictTypeOK, tables, reading, Loading
<1> QED
  BY <1>1, <1>2, <1>3 DEF Update

LEMMA TypeInvSegment ==
  ASSUME TypeInv, Segment
  PROVE  TypeInv'
<1>1. UNCHANGED <<tables, writing, inForce, loaded>>
  BY DEF Segment, BeginText, ExtendHit, MatchInMainDict, EndText
<1>2. /\ text \in Seq(Char) /\ Len(text) \in Nat /\ cursor \in 0..(Len(text) + 1)
      /\ DOMAIN hits \subseteq 1..cursor /\ todo \subseteq DOMAIN hits
      /\ \A begin \in DOMAIN hits : hits[begin] \in DOMAIN tries
      /\ (live # 0 => live \in DOMAIN tries) /\ (cursor # 0 => live # 0)
  BY DEF TypeInv, DictTypeOK
<1> SUFFICES /\ text' \in Seq(Char) /\ cursor' \in 0..(Len(text') + 1)
             /\ DOMAIN hits' \subseteq 1..cursor' /\ todo' \subseteq DOMAIN hits'
             /\ \A begin \in DOMAIN hits' : hits'[begin] \in DOMAIN tries
             /\ cursor' # 0 => live # 0
  BY <1>1 DEF TypeInv, DictTypeOK, tables, writing, Loading, Unlocked
<1>3. CASE \E newText \in Texts : BeginText(newText)
  <2>1. PICK newText \in Texts : BeginText(newText)
    BY <1>3
  <2>2. newText \in Seq(Char)
    BY DictionaryAssumption
  <2>3. text' = newText /\ cursor' = 1 /\ DOMAIN hits' = {} /\ todo' = {} /\ live # 0
    BY <2>1 DEF BeginText, Nowhere
  <2>4. Len(newText) \in Nat
    BY <2>2
  <2> QED
    BY <2>2, <2>3, <2>4
<1>4. CASE ExtendHit
  <2>1. PICK begin \in todo : /\ hits' \in {hits, Without(hits, begin)}
                              /\ todo' = todo \ {begin}
    BY <1>4 DEF ExtendHit
  <2>2. UNCHANGED <<text, cursor>> /\ cursor \in 1..Len(text)
    BY <1>4 DEF ExtendHit
  <2>3. /\ DOMAIN hits' \subseteq DOMAIN hits /\ todo \ {begin} \subseteq DOMAIN hits'
        /\ \A other \in DOMAIN hits' : hits'[other] = hits[other]
    BY <1>2, <2>1 DEF Without
  <2> QED
    BY <1>2, <2>1, <2>2, <2>3
<1>5. CASE MatchInMainDict
  <2>1. /\ cursor \in 1..Len(text) /\ cursor' = cursor + 1 /\ text' = text
        /\ todo' = DOMAIN hits'
        /\ hits' \in {hits, [begin \in DOMAIN hits \cup {cursor} |->
                              IF begin = cursor THEN live ELSE hits[begin]]}
    BY <1>5 DEF MatchInMainDict
  <2>2. live # 0 /\ live \in DOMAIN tries
    BY <1>2, <2>1
  <2>3. DOMAIN hits' \subseteq DOMAIN hits \cup {cursor}
        /\ \A begin \in DOMAIN hits' : hits'[begin] \in DOMAIN tries
    BY <1>2, <2>1, <2>2
  <2>4. DOMAIN hits' \subseteq 1..(cursor + 1)
    BY <1>2, <2>1, <2>3
  <2> QED
    BY <1>2, <2>1, <2>2, <2>3, <2>4
<1>6. CASE EndText
  <2>1. cursor' = 0 /\ DOMAIN hits' = {} /\ todo' = {} /\ text' = text
    BY <1>6 DEF EndText, Nowhere
  <2> QED
    BY <1>2, <2>1
<1> QED
  BY <1>3, <1>4, <1>5, <1>6 DEF Segment

LEMMA TypeInvNext ==
  ASSUME TypeInv, [DictNext]_dvars
  PROVE  TypeInv'
<1>1. CASE UNCHANGED dvars
  BY <1>1 DEF TypeInv, DictTypeOK, dvars, tables, writing, reading, Loading, Unlocked
<1> QED
  BY <1>1, TypeInvLoad, TypeInvPublish, TypeInvUpdate, TypeInvSegment DEF DictNext

(* Every variable has its type, and every trie is whole, on either side of *)
(* the step from array to map, whatever is loaded, added and disabled, and *)
(* in what order (dict_segment.go:88-149).                                 *)
THEOREM DictTypes == DictSpec => []DictTypeOK
<1>1. DictInit => TypeInv
  BY TypeInvInit
<1>2. TypeInv /\ [DictNext]_dvars => TypeInv'
  BY TypeInvNext
<1>3. TypeInv => DictTypeOK
  BY DEF TypeInv
<1> QED
  BY <1>1, <1>2, <1>3, PTL DEF DictSpec

-----------------------------------------------------------------------------
(* The words in force.                                                     *)

(* What a list is worth, word by word: nothing more from an empty one on.  *)
LEMMA EffectiveList ==
  ASSUME NEW list \in Seq(Words \cup {<<>>})
  PROVE  /\ list = <<>> \/ Head(list) = <<>> => Effective(list) = {}
         /\ list # <<>> /\ Head(list) # <<>> =>
               Effective(list) = {Head(list)} \cup Effective(Tail(list))
<1> DEFINE Good(i) == i \in 1..Len(list) /\ \A j \in 1..i : list[j] # <<>>
<1>1. \A w : w \in Effective(list) <=> \E i \in 1..Len(list) : Good(i) /\ w = list[i]
  BY DEF Effective
<1>2. ASSUME list = <<>> \/ Head(list) = <<>> PROVE Effective(list) = {}
  <2>1. \A i \in 1..Len(list) : 1 \in 1..i /\ list # <<>> /\ Head(list) = list[1]
    OBVIOUS
  <2> QED
    BY <1>1, <1>2, <2>1
<1>3. ASSUME list # <<>>, Head(list) # <<>>
      PROVE  Effective(list) = {Head(list)} \cup Effective(Tail(list))
  <2> DEFINE rest == Tail(list)
             GoodRest(i) == i \in 1..Len(rest) /\ \A j \in 1..i : rest[j] # <<>>
  <2>1. /\ Len(list) \in Nat /\ Len(rest) \in Nat /\ Len(list) = Len(rest) + 1
        /\ \A i \in 1..Len(rest) : rest[i] = list[i + 1]
        /\ list[1] # <<>> /\ Head(list) = list[1]
    BY <1>3
  <2>2. \A w : w \in Effective(rest) <=> \E i \in 1..Len(rest) : GoodRest(i) /\ w = rest[i]
    BY DEF Effective
  <2> HIDE DEF rest
  <2>3. ASSUME NEW i \in 1..Len(rest)
        PROVE  GoodRest(i) <=> Good(i + 1)
    <3>1. i + 1 \in 1..Len(list)
      BY <2>1
    <3>2. ASSUME GoodRest(i), NEW j \in 1..(i + 1) PROVE list[j] # <<>>
      <4>1. CASE j = 1
        BY <2>1, <4>1
      <4>2. CASE j # 1
        <5>1. j - 1 \in 1..i /\ j - 1 \in 1..Len(rest) /\ (j - 1) + 1 = j
          BY <4>2, <2>1
        <5> QED
          BY <2>1, <3>2, <5>1
      <4> QED
        BY <4>1, <4>2
    <3>3. ASSUME Good(i + 1), NEW j \in 1..i PROVE rest[j] # <<>>
      <4>1. j + 1 \in 1..(i + 1) /\ j \in 1..Len(rest)
        BY <2>1
      <4> QED
        BY <2>1, <3>3, <4>1
    <3> QED
      BY <3>1, <3>2, <3>3
  <2>4. Good(1) /\ 1 \in 1..Len(list)
    BY <2>1
  <2>5. Effective(list) \subseteq {Head(list)} \cup Effective(rest)
    <3> SUFFICES ASSUME NEW i \in 1..Len(list), Good(i), i # 1
                 PROVE  list[i] \in Effective(rest)
      BY <1>1, <2>1
    <3>1. i - 1 \in 1..Len(rest) /\ (i - 1) + 1 = i
      BY <2>1
    <3>2. GoodRest(i - 1) /\ rest[i - 1] = list[i]
      BY <2>1, <2>3, <3>1
    <3> HIDE DEF GoodRest
    <3> QED
      BY <2>2, <3>1, <3>2
  <2>6. {Head(list)} \cup Effective(rest) \subseteq Effective(list)
    <3>1. Head(list) \in Effective(list)
      BY <1>1, <2>1, <2>4
    <3>2. ASSUME NEW i \in 1..Len(rest), GoodRest(i)
          PROVE  rest[i] \in Effective(list)
      <4>1. Good(i + 1) /\ i + 1 \in 1..Len(list) /\ rest[i] = list[i + 1]
        BY <2>1, <2>3, <3>2
      <4> HIDE DEF Good
      <4> QED
        BY <1>1, <4>1
    <3> QED
      BY <2>2, <3>1, <3>2
  <2> QED
    BY <2>5, <2>6 DEF rest
<1> QED
  BY <1>2, <1>3

LEMMA AfterList ==
  ASSUME NEW op, NEW words, NEW list \in Seq(Words \cup {<<>>})
  PROVE  /\ list = <<>> \/ Head(list) = <<>> => After(op, words, list) = words
         /\ list # <<>> /\ Head(list) # <<>> =>
               After(op, words, list) =
                  After(op, IF op = "DisableWords" THEN words \ {Head(list)}
                            ELSE words \cup {Head(list)}, Tail(list))
BY EffectiveList DEF After

(* Of the paths to a word those are words that are not the root.           *)
LEMMA PrefixesAreWords ==
  ASSUME NEW word \in Words
  PROVE  (Prefixes(word) \ {word}) \cap Words = MainWordSet!ProperPrefixes(word)
<1>1. word \in Seq(Char) /\ Len(word) \in Nat
      /\ \A i \in 1..Len(word) : Prefix(word, i) \in Words
  BY DictionaryAssumption
<1>2. /\ \A i \in 0..Len(word) : Len(Prefix(word, i)) = i
      /\ Prefix(word, 0) = <<>> /\ Prefix(word, Len(word)) = word
  BY <1>1, PrefixFacts, PrefixEnds
<1>3. \A path : path \in Prefixes(word) <=> \E i \in 0..Len(word) : path = Prefix(word, i)
  BY DEF Prefixes
<1>4. MainWordSet!ProperPrefixes(word) = {Prefix(word, i) : i \in 1..(Len(word) - 1)}
  BY DEF MainWordSet!ProperPrefixes, Prefix
<1>5. ASSUME NEW path \in (Prefixes(word) \ {word}) \cap Words
      PROVE  path \in {Prefix(word, i) : i \in 1..(Len(word) - 1)}
  <2>1. PICK i \in 0..Len(word) : path = Prefix(word, i)
    BY <1>3
  <2>2. i # 0 /\ i # Len(word)
    BY <1>2, <2>1, WordsAreTexts
  <2>3. i \in 1..(Len(word) - 1)
    BY <1>1, <2>2
  <2> QED
    BY <2>1, <2>3
<1>6. ASSUME NEW i \in 1..(Len(word) - 1)
      PROVE  Prefix(word, i) \in (Prefixes(word) \ {word}) \cap Words
  <2>1. i \in 0..Len(word) /\ i \in 1..Len(word) /\ i # Len(word)
    BY <1>1
  <2>2. Prefix(word, i) # word
    BY <1>2, <2>1
  <2> QED
    BY <1>1, <1>3, <2>1, <2>2
<1> QED
  BY <1>4, <1>5, <1>6

LEMMA WordsInvInit == DictInit => WordsInv
BY DEF DictInit, WordsInv, Loading, NoDict

(* What the tries in force are to hold does not depend on the loads.       *)
LEMMA PendingUnchanged ==
  ASSUME WordsInv, UNCHANGED <<tries, live, update, inForce>>
  PROVE  (live # 0 => \A kind \in Kinds :
             inForce[kind] = Pending(kind, WordsOf(tries[live][kind])))'
BY DEF WordsInv, Pending, Unlocked

LEMMA WordsInvLoad ==
  ASSUME TypeInv, WordsInv,
         StartLoad \/ (\E lines \in Loads : ReadLines(lines)) \/ DropLoad \/ LoadWord
  PROVE  WordsInv'
<1>1. UNCHANGED <<tries, live, update, inForce>>
  BY DEF StartLoad, ReadLines, DropLoad, LoadWord, writing
<1> DEFINE Filled(dict, done) ==
              \A kind \in Kinds :
                /\ WordsOf(dict[kind]) = done[kind]
                /\ PrefixesOf(dict[kind]) \cap Words
                      = UNION {MainWordSet!ProperPrefixes(word) : word \in done[kind]}
<1>2. Loading => Filled(tmpDict, loaded)
  BY DEF WordsInv
<1> SUFFICES Loading' => Filled(tmpDict', loaded')
  BY <1>1, PendingUnchanged DEF WordsInv
<1>3. CASE StartLoad
  <2>1. \A kind \in Kinds : tmpDict'[kind] = NewTrie /\ loaded'[kind] = {}
    BY <1>3 DEF StartLoad, NoWords
  <2> QED
    BY <2>1, NewTrieIsEmpty
<1>4. CASE \E lines \in Loads : ReadLines(lines)
  <2>1. UNCHANGED <<tmpDict, loaded>>
    BY <1>4 DEF ReadLines
  <2> QED
    BY <1>2, <2>1 DEF Loading
<1>5. CASE DropLoad
  BY <1>5 DEF DropLoad, NoDict, Loading
<1>6. CASE LoadWord
  <2> DEFINE line == Head(toLoad)
             word == line.word
  <2>1. /\ line.kind \in Kinds /\ word \in Words \cup {<<>>} /\ Loading /\ Whole(tmpDict)
        /\ word = <<>> => tmpDict' = tmpDict /\ loaded' = loaded
        /\ word # <<>> =>
              /\ tmpDict'[line.kind] = FillSegment(tmpDict[line.kind], word)
              /\ \A kind \in Kinds \ {line.kind} : tmpDict'[kind] = tmpDict[kind]
              /\ loaded' = [loaded EXCEPT ![line.kind] = @ \cup {word}]
    BY <1>6, LoadWordEffect DEF TypeInv, LoadWord
  <2>2. DOMAIN loaded = Kinds
    BY DEF TypeInv, DictTypeOK
  <2> HIDE DEF line
  <2>3. CASE word = <<>>
    BY <1>2, <2>1, <2>3
  <2>4. CASE word # <<>>
    <3> DEFINE trie == tmpDict[line.kind]
    <3>1. word \in Words /\ word \in Seq(Char) \ {<<>>} /\ TrieOK(trie)
      BY <2>1, <2>4, WordsAreTexts, WholeFacts
    <3>2. /\ WordsOf(FillSegment(trie, word)) = WordsOf(trie) \cup {word}
          /\ PrefixesOf(FillSegment(trie, word)) = PrefixesOf(trie) \cup (Prefixes(word) \ {word})
      BY <3>1, FillAddsOneWord
    <3>3. (Prefixes(word) \ {word}) \cap Words = MainWordSet!ProperPrefixes(word)
      BY <3>1, PrefixesAreWords
    <3>4. /\ tmpDict'[line.kind] = FillSegment(trie, word)
          /\ loaded'[line.kind] = loaded[line.kind] \cup {word}
          /\ \A kind \in Kinds \ {line.kind} :
                tmpDict'[kind] = tmpDict[kind] /\ loaded'[kind] = loaded[kind]
      BY <2>1, <2>2, <2>4
    <3>5. /\ WordsOf(trie) = loaded[line.kind]
          /\ PrefixesOf(trie) \cap Words
                = UNION {MainWordSet!ProperPrefixes(w) : w \in loaded[line.kind]}
      BY <1>2, <2>1
    <3>6. PrefixesOf(FillSegment(trie, word)) \cap Words
             = (PrefixesOf(trie) \cap Words) \cup MainWordSet!ProperPrefixes(word)
      BY <3>2, <3>3
    <3>7. UNION {MainWordSet!ProperPrefixes(w) : w \in loaded[line.kind] \cup {word}}
             = (UNION {MainWordSet!ProperPrefixes(w) : w \in loaded[line.kind]})
               \cup MainWordSet!ProperPrefixes(word)
      OBVIOUS
    <3> HIDE DEF trie, word
    <3> SUFFICES ASSUME NEW kind \in Kinds
                 PROVE  /\ WordsOf(tmpDict'[kind]) = loaded'[kind]
                        /\ PrefixesOf(tmpDict'[kind]) \cap Words
                              = UNION {MainWordSet!ProperPrefixes(w) : w \in loaded'[kind]}
      OBVIOUS
    <3>8. CASE kind = line.kind
      BY <3>2, <3>4, <3>5, <3>6, <3>7, <3>8
    <3>9. CASE kind # line.kind
      BY <1>2, <2>1, <3>4, <3>9
    <3> QED
      BY <3>8, <3>9
  <2> QED
    BY <2>3, <2>4
<1> QED
  BY <1>3, <1>4, <1>5, <1>6

LEMMA WordsInvPublish ==
  ASSUME TypeInv, WordsInv, Publish
  PROVE  WordsInv'
<1>1. tries'[live'] = tmpDict /\ inForce' = loaded /\ ~Loading' /\ Unlocked /\ update' = update
  BY PublishEffect DEF writing
<1>2. Loading
  BY DEF Publish
<1>3. \A kind \in Kinds : WordsOf(tmpDict[kind]) = loaded[kind]
  BY <1>2 DEF WordsInv
<1>4. Unlocked'
  BY <1>1 DEF Unlocked
<1> QED
  BY <1>1, <1>3, <1>4 DEF WordsInv, Pending

LEMMA WordsInvUpdate ==
  ASSUME TypeInv, WordsInv, Update
  PROVE  WordsInv'
<1> DEFINE Filled == Loading => \A kind \in Kinds :
                        /\ WordsOf(tmpDict[kind]) = loaded[kind]
                        /\ PrefixesOf(tmpDict[kind]) \cap Words
                              = UNION {MainWordSet!ProperPrefixes(word) : word \in loaded[kind]}
           Stored(kind) == WordsOf(tries[live][kind])
<1>1. Filled'
  <2>1. Filled /\ UNCHANGED <<tmpDict, loaded>>
    BY UpdateWordEffect DEF WordsInv, Update, LockForUpdate, Unlock, tables
  <2> QED
    BY <2>1 DEF Loading
<1>2. live' = live
  BY UpdateWordEffect DEF Update, LockForUpdate, Unlock, tables
<1> SUFFICES ASSUME live # 0, NEW kind \in Kinds
             PROVE  inForce'[kind] = Pending(kind, WordsOf(tries[live][kind]))'
  BY <1>1, <1>2 DEF WordsInv
<1>3. inForce[kind] = Pending(kind, Stored(kind))
  BY DEF WordsInv
<1>4. CASE \E op \in {"AddWords", "DisableWords", "AddStopWords"}, list \in Batches :
               LockForUpdate(op, list)
  <2>1. PICK op \in {"AddWords", "DisableWords", "AddStopWords"}, list \in Batches :
               LockForUpdate(op, list)
    BY <1>4
  <2>2. /\ Unlocked /\ update' = [op |-> op, words |-> list] /\ tries' = tries
        /\ inForce' = [inForce EXCEPT ![KindOf(op)] = After(op, @, list)]
    BY <2>1 DEF LockForUpdate, tables
  <2>3. inForce[kind] = Stored(kind)
    BY <1>3, <2>2 DEF Pending
  <2>4. DOMAIN inForce = Kinds
    BY DEF TypeInv, DictTypeOK
  <2>5. update'.op = op /\ update'.words = list /\ ~Unlocked'
    BY <2>2 DEF Unlocked, None
  <2> HIDE DEF Stored
  <2>6. inForce'[kind] = IF KindOf(op) # kind THEN Stored(kind) ELSE After(op, Stored(kind), list)
    BY <2>2, <2>3, <2>4
  <2> QED
    BY <1>2, <2>2, <2>5, <2>6 DEF Pending, Stored
<1>5. CASE UpdateWord
  <2> DEFINE word == Head(update.words)
             trie == tries[live][KindOf(update.op)]
             after == tries'[live][KindOf(update.op)]
             rest == Tail(update.words)
  <2>1. /\ ~Unlocked /\ word # <<>> /\ update.words # <<>>
        /\ update.words \in Seq(Words \cup {<<>>})
    BY <1>5 DEF TypeInv, DictTypeOK, UpdateWord
  <2>2. /\ word \in Words /\ KindOf(update.op) \in Kinds /\ Whole(tries[live])
        /\ after = IF update.op = "DisableWords" THEN DisableSegment(trie, word)
                   ELSE FillSegment(trie, word)
        /\ \A other \in Kinds \ {KindOf(update.op)} : tries'[live][other] = tries[live][other]
        /\ update'.op = update.op /\ update'.words = rest /\ ~Unlocked' /\ inForce' = inForce
    BY <1>5, <2>1, UpdateWordEffect
  <2>3. TrieOK(trie) /\ word \in Seq(Char) \ {<<>>}
    BY <2>2, WholeFacts, WordsAreTexts
  <2>4. WordsOf(after) = IF update.op = "DisableWords" THEN WordsOf(trie) \ {word}
                         ELSE WordsOf(trie) \cup {word}
    <3>1. /\ WordsOf(DisableSegment(trie, word)) = WordsOf(trie) \ {word}
          /\ WordsOf(FillSegment(trie, word)) = WordsOf(trie) \cup {word}
      BY <2>3, FillAddsOneWord, DisableTakesOneWord
    <3> QED
      BY <2>2, <3>1
  <2>5. After(update.op, WordsOf(trie), update.words)
           = After(update.op, IF update.op = "DisableWords" THEN WordsOf(trie) \ {word}
                              ELSE WordsOf(trie) \cup {word}, rest)
    BY <2>1, AfterList
  <2>6. CASE KindOf(update.op) = kind
    <3>1. inForce[kind] = After(update.op, WordsOf(trie), update.words)
      BY <1>3, <2>1, <2>6 DEF Pending
    <3>2. Pending(kind, WordsOf(tries[live][kind]))' = After(update.op, WordsOf(after), rest)
      BY <1>2, <2>2, <2>6 DEF Pending
    <3> HIDE DEF word, trie, after, rest
    <3> QED
      BY <2>2, <2>4, <2>5, <3>1, <3>2
  <2>7. CASE KindOf(update.op) # kind
    <3>1. inForce[kind] = Stored(kind)
      BY <1>3, <2>1, <2>7 DEF Pending
    <3>2. Pending(kind, WordsOf(tries[live][kind]))' = Stored(kind)
      BY <1>2, <2>2, <2>7 DEF Pending
    <3> QED
      BY <2>2, <3>1, <3>2
  <2> QED
    BY <2>6, <2>7
<1>6. CASE Unlock
  <2>1. /\ ~Unlocked /\ (update.words = <<>> \/ Head(update.words) = <<>>)
        /\ update.words \in Seq(Words \cup {<<>>})
        /\ update'.op = None /\ UNCHANGED <<tries, inForce>>
    BY <1>6 DEF Unlock, tables, TypeInv, DictTypeOK
  <2>2. After(update.op, Stored(kind), update.words) = Stored(kind)
    BY <2>1, AfterList
  <2>3. inForce[kind] = Stored(kind)
    BY <1>3, <2>2 DEF Pending
  <2>4. Pending(kind, WordsOf(tries[live][kind]))' = Stored(kind)
    BY <1>2, <2>1 DEF Pending, Unlocked
  <2> QED
    BY <2>1, <2>3, <2>4
<1> QED
  BY <1>4, <1>5, <1>6 DEF Update

LEMMA WordsInvNext ==
  ASSUME TypeInv, WordsInv, [DictNext]_dvars
  PROVE  WordsInv'
<1>1. CASE Segment \/ UNCHANGED dvars
  <2>1. UNCHANGED <<tries, live, tmpDict, update, inForce, loaded>>
    BY <1>1 DEF Segment, BeginText, ExtendHit, MatchInMainDict, EndText, tables, writing, dvars
  <2> QED
    BY <2>1, PendingUnchanged DEF WordsInv, Loading
<1> QED
  BY <1>1, WordsInvLoad, WordsInvPublish, WordsInvUpdate DEF DictNext

(* Whenever a lookup can run, the words in force are those loaded last     *)
(* and, on top of them, every update since as a whole, up to an empty word *)
(* that made it panic; no swap loses or keeps a part of one                *)
(* (dictionary.go:307-333, 451-464).                                       *)
THEOREM WordsAccounted == DictSpec => []WordsAccountedFor
<1>1. DictInit => TypeInv /\ WordsInv
  BY TypeInvInit, WordsInvInit
<1>2. TypeInv /\ WordsInv /\ [DictNext]_dvars => (TypeInv /\ WordsInv)'
  BY TypeInvNext, WordsInvNext
<1>3. WordsInv => WordsAccountedFor
  BY DEF WordsInv, WordsAccountedFor, Pending
<1> QED
  BY <1>1, <1>2, <1>3, PTL DEF DictSpec

-----------------------------------------------------------------------------
(* Words in progress.                                                      *)

LEMMA ReportInvInit == DictInit => ReportInv
BY DEF DictInit, ReportInv, StartsInv, HitsInv, MatchesWereInForce, Nowhere

(* A change of the tries leaves a hit where it stands, or lets the words   *)
(* it can now come to be seen.                                             *)
LEMMA ReportInvTries ==
  ASSUME TypeInv, ReportInv, UpdateWord \/ Publish
  PROVE  ReportInv'
<1> USE DEF ReportInv
<1>1. UNCHANGED <<text, cursor, hits, todo, found>>
  BY PublishEffect, UpdateWordEffect DEF reading
<1>2. seen' = [begin \in DOMAIN seen |-> seen[begin] \cup WordsOf(tries'[live']["main"])]
  BY DEF UpdateWord, Publish, Seen
<1>3. ASSUME NEW begin \in DOMAIN hits
      PROVE  \/ hits[begin] = live'
             \/ tries'[hits[begin]] = tries[hits[begin]]
  <2>1. hits[begin] \in DOMAIN tries
    BY DEF TypeInv, DictTypeOK
  <2>2. CASE UpdateWord
    BY <2>1, <2>2, UpdateWordEffect
  <2>3. CASE Publish
    BY <2>1, <2>3, PublishEffect
  <2> QED
    BY <2>2, <2>3
<1>4. \A begin \in DOMAIN hits :
         DOMAIN (tries[hits[begin]]["main"]) \subseteq DOMAIN (tries'[hits[begin]]["main"])
  <2> SUFFICES ASSUME NEW begin \in DOMAIN hits
               PROVE  DOMAIN (tries[hits[begin]]["main"])
                         \subseteq DOMAIN (tries'[hits[begin]]["main"])
    OBVIOUS
  <2>1. CASE UpdateWord
    <3> DEFINE word == Head(update.words)
               kind == KindOf(update.op)
               trie == tries[live][kind]
    <3>1. /\ live' = live /\ Whole(tries[live]) /\ kind \in Kinds /\ word \in Words
          /\ tries'[live][kind] = IF update.op = "DisableWords" THEN DisableSegment(trie, word)
                                  ELSE FillSegment(trie, word)
          /\ \A other \in Kinds \ {kind} : tries'[live][other] = tries[live][other]
      BY <2>1, UpdateWordEffect
    <3>2. TrieOK(trie) /\ word \in Seq(Char) \ {<<>>}
      BY <3>1, WholeFacts, WordsAreTexts
    <3>3. DOMAIN trie \subseteq DOMAIN (tries'[live][kind])
      <4>1. DOMAIN FillSegment(trie, word) = DOMAIN trie \cup Prefixes(word)
        BY <3>2, FillAddsOneWord
      <4>2. DOMAIN DisableSegment(trie, word) = DOMAIN trie
        BY <3>2, DisableTakesOneWord
      <4> HIDE DEF trie, word
      <4> QED
        BY <3>1, <4>1, <4>2
    <3>4. DOMAIN (tries[live]["main"]) \subseteq DOMAIN (tries'[live]["main"])
      BY <3>1, <3>3, WordsAreTexts
    <3> QED
      BY <1>3, <3>1, <3>4
  <2>2. CASE Publish
    <3>1. hits[begin] \in DOMAIN tries'
          /\ \A generation \in DOMAIN tries' \ {live'} : tries'[generation] = tries[generation]
      BY <2>2, PublishEffect
    <3>2. hits[begin] # live'
      BY <2>2, PublishEffect
    <3> QED
      BY <3>1, <3>2
  <2> QED
    BY <2>1, <2>2
<1> QED
  BY <1>1, <1>2, <1>3, <1>4 DEF StartsInv, HitsInv, MatchesWereInForce

(* A word and the character that follows it.                               *)
LEMMA SubSeqGrows ==
  ASSUME NEW t \in Seq(Char), NEW b \in 1..Len(t), NEW c \in b..Len(t)
  PROVE  /\ SubSeq(t, b, c - 1) \in Seq(Char) /\ t[c] \in Char
         /\ SubSeq(t, b, c) = Append(SubSeq(t, b, c - 1), t[c])
<1> DEFINE path == SubSeq(t, b, c - 1)
           next == Append(path, t[c])
           whole == SubSeq(t, b, c)
<1>1. /\ \A i \in b..(c - 1) : t[i] \in Char
      /\ \A i \in b..c : t[i] \in Char
      /\ b \in Int /\ c \in Int /\ b <= c /\ t[c] \in Char
  OBVIOUS
<1>2. /\ path \in Seq(Char) /\ Len(path) = c - b
      /\ \A i \in 1..(c - b) : path[i] = t[b + i - 1]
  <2>1. c - 1 \in Int /\ (c - 1) - b + 1 = c - b /\ (~(b <= c - 1) => c - b = 0)
    BY <1>1
  <2>2. /\ path \in Seq(Char) /\ Len(path) = IF b <= c - 1 THEN (c - 1) - b + 1 ELSE 0
        /\ \A i \in 1..((c - 1) - b + 1) : path[i] = t[b + i - 1]
    BY <1>1, <2>1, SubSeqProperties
  <2> HIDE DEF path
  <2> QED
    BY <1>1, <2>1, <2>2
<1>3. /\ whole \in Seq(Char) /\ Len(whole) = c - b + 1
      /\ \A i \in 1..(c - b + 1) : whole[i] = t[b + i - 1]
  BY <1>1, SubSeqProperties
<1> HIDE DEF path, whole
<1>4. /\ next \in Seq(Char) /\ Len(next) = c - b + 1
      /\ \A i \in 1..(c - b + 1) : next[i] = t[b + i - 1]
  <2>1. next \in Seq(Char) /\ Len(next) = c - b + 1
    BY <1>1, <1>2
  <2>2. \A i \in 1..(c - b) : next[i] = t[b + i - 1]
    BY <1>1, <1>2
  <2>3. next[c - b + 1] = t[c] /\ b + (c - b + 1) - 1 = c
    BY <1>1, <1>2
  <2> QED
    BY <1>1, <2>1, <2>2, <2>3
<1>5. whole = next
  BY <1>3, <1>4, SeqEqual
<1> QED
  BY <1>1, <1>2, <1>5 DEF path, whole

LEMMA ReportInvExtend ==
  ASSUME TypeInv, ReportInv, ExtendHit
  PROVE  ReportInv'
<1>1. PICK begin \in todo :
         LET hit == MatchWithHit(begin)
         IN  /\ found' = Reported(hit, begin)
             /\ hits' = IF hit.isPrefix THEN hits ELSE Without(hits, begin)
             /\ todo' = todo \ {begin}
  BY DEF ExtendHit
<1>2. cursor \in 1..Len(text) /\ UNCHANGED <<tries, text, cursor, seen>>
  BY DEF ExtendHit, tables
<1>3. text \in Seq(Char) /\ begin \in DOMAIN hits /\ begin \in 1..cursor
      /\ hits[begin] \in DOMAIN tries /\ Whole(tries[hits[begin]])
  BY DEF TypeInv, DictTypeOK
<1> DEFINE trie == tries[hits[begin]]["main"]
           path == SubSeq(text, begin, cursor - 1)
           word == SubSeq(text, begin, cursor)
           hit == MatchFrom(trie, path, text[cursor])
<1>4. /\ TrieOK(trie) /\ path \in DOMAIN trie
      /\ begin \in DOMAIN seen /\ WordsOf(trie) \subseteq seen[begin]
  BY <1>1, <1>3, WholeFacts, WordsAreTexts DEF ReportInv, HitsInv
<1>5. text[cursor] \in Char /\ word = Append(path, text[cursor])
  <2>1. begin \in 1..Len(text) /\ cursor \in begin..Len(text)
    BY <1>2, <1>3
  <2> QED
    BY <1>3, <2>1, SubSeqGrows
<1>6. (hit.isMatch <=> word \in WordsOf(trie)) /\ (hit.isPrefix <=> word \in PrefixesOf(trie))
  BY <1>4, <1>5, MatchFromIsMembership
<1>7. PrefixesOf(trie) \subseteq DOMAIN trie
  BY DEF PrefixesOf
<1>8. /\ found' = IF hit.isMatch THEN found \cup {<<begin, cursor>>} ELSE found
      /\ hits' = IF hit.isPrefix THEN hits ELSE Without(hits, begin)
      /\ todo' = todo \ {begin}
  BY <1>1 DEF MatchWithHit, Reported
<1> HIDE DEF hit
<1>9. MatchesWereInForce'
  <2>1. \A span \in found : /\ span[1] \in DOMAIN seen
                            /\ SubSeq(text, span[1], span[2]) \in seen[span[1]]
    BY DEF ReportInv, MatchesWereInForce
  <2>2. hit.isMatch => word \in seen[begin]
    BY <1>4, <1>6
  <2> QED
    BY <1>2, <1>4, <1>8, <2>1, <2>2 DEF MatchesWereInForce
<1>10. HitsInv'
  <2> SUFFICES ASSUME NEW other \in DOMAIN hits'
               PROVE  /\ other \in DOMAIN seen
                      /\ WordsOf(tries[hits'[other]]["main"]) \subseteq seen[other]
                      /\ SubSeq(text, other, IF other \in todo' THEN cursor - 1 ELSE cursor)
                            \in DOMAIN tries[hits'[other]]["main"]
    BY <1>2 DEF HitsInv
  <2>1. other \in DOMAIN hits /\ hits'[other] = hits[other] /\ (other = begin => hit.isPrefix)
    BY <1>8 DEF Without
  <2>2. CASE other = begin
    BY <1>4, <1>6, <1>7, <1>8, <2>1, <2>2
  <2>3. CASE other # begin
    BY <1>8, <2>1, <2>3 DEF ReportInv, HitsInv
  <2> QED
    BY <2>2, <2>3
<1>11. StartsInv'
  BY <1>2 DEF ReportInv, StartsInv
<1> QED
  BY <1>9, <1>10, <1>11 DEF ReportInv

LEMMA ReportInvMatch ==
  ASSUME TypeInv, ReportInv, MatchInMainDict
  PROVE  ReportInv'
<1> DEFINE trie == tries[live]["main"]
           word == <<text[cursor]>>
           hit == Match(trie, word)
<1>1. /\ cursor \in 1..Len(text) /\ todo = {}
      /\ found' = IF hit.isMatch THEN found \cup {<<cursor, cursor>>} ELSE found
      /\ hits' = IF hit.isPrefix
                 THEN [begin \in DOMAIN hits \cup {cursor} |->
                          IF begin = cursor THEN live ELSE hits[begin]]
                 ELSE hits
      /\ seen' = [begin \in DOMAIN seen \cup {cursor} |->
                    IF begin = cursor THEN WordsOf(trie) ELSE seen[begin]]
      /\ cursor' = cursor + 1 /\ todo' = DOMAIN hits'
      /\ UNCHANGED <<tries, live, text>>
  BY DEF MatchInMainDict, Reported, MainWords, tables
<1>2. text \in Seq(Char) /\ Whole(tries[live]) /\ cursor \in Nat /\ cursor # 0
  <2>1. text \in Seq(Char) /\ live # 0 /\ live \in DOMAIN tries
        /\ \A generation \in DOMAIN tries : Whole(tries[generation])
    BY <1>1 DEF TypeInv, DictTypeOK
  <2> QED
    BY <1>1, <2>1
<1>3. text[cursor] \in Char /\ word \in Seq(Char) /\ TrieOK(trie)
  BY <1>1, <1>2, WholeFacts, WordsAreTexts
<1>4. (hit.isMatch <=> word \in WordsOf(trie)) /\ (hit.isPrefix <=> word \in PrefixesOf(trie))
  BY <1>3, MatchIsMembership
<1>5. PrefixesOf(trie) \subseteq DOMAIN trie
  BY DEF PrefixesOf
<1>6. SubSeq(text, cursor, cursor) = word
  <2>1. /\ SubSeq(text, cursor, cursor) \in Seq(Char) /\ Len(SubSeq(text, cursor, cursor)) = 1
        /\ SubSeq(text, cursor, cursor)[1] = text[cursor]
    <3>1. cursor \in Int /\ (cursor - cursor) + 1 = 1 /\ cursor + 1 - 1 = cursor /\ 1 \in 1..1
      BY <1>2
    <3>2. \A i \in cursor..cursor : text[i] \in Char
      BY <1>2, <1>3
    <3> QED
      BY <3>1, <3>2, SubSeqProperties
  <2>2. word \in Seq(Char) /\ Len(word) = 1 /\ word[1] = text[cursor]
    BY <1>3
  <2> HIDE DEF word
  <2>3. \A i \in 1..Len(word) : SubSeq(text, cursor, cursor)[i] = word[i]
    BY <2>1, <2>2
  <2> QED
    BY <2>1, <2>2, <2>3, SeqEqual
<1> HIDE DEF hit, trie, word
<1>7. DOMAIN seen \subseteq 1..(cursor - 1)
  BY <1>2 DEF ReportInv, StartsInv
<1>8. cursor \notin DOMAIN seen
  BY <1>2, <1>7
<1>9. /\ DOMAIN seen' = DOMAIN seen \cup {cursor} /\ seen'[cursor] = WordsOf(trie)
      /\ \A begin \in DOMAIN seen : seen'[begin] = seen[begin]
  BY <1>1, <1>8
<1>10. MatchesWereInForce'
  <2>1. \A span \in found : /\ span[1] \in DOMAIN seen
                            /\ SubSeq(text, span[1], span[2]) \in seen[span[1]]
    BY DEF ReportInv, MatchesWereInForce
  <2> SUFFICES ASSUME NEW span \in found'
               PROVE  /\ span[1] \in DOMAIN seen'
                      /\ SubSeq(text, span[1], span[2]) \in seen'[span[1]]
    BY <1>1 DEF MatchesWereInForce
  <2>2. CASE span \in found
    BY <1>9, <2>1, <2>2
  <2>3. CASE hit.isMatch /\ span = <<cursor, cursor>>
    <3>1. span[1] = cursor /\ span[2] = cursor
      BY <2>3
    <3>2. SubSeq(text, span[1], span[2]) = word
      BY <1>6, <3>1
    <3> QED
      BY <1>4, <1>9, <2>3, <3>1, <3>2
  <2> QED
    BY <1>1, <2>2, <2>3
<1>11. HitsInv'
  <2> SUFFICES ASSUME NEW begin \in DOMAIN hits'
               PROVE  /\ begin \in DOMAIN seen'
                      /\ WordsOf(tries[hits'[begin]]["main"]) \subseteq seen'[begin]
                      /\ SubSeq(text, begin, (cursor + 1) - 1)
                            \in DOMAIN tries[hits'[begin]]["main"]
    BY <1>1 DEF HitsInv
  <2>1. (cursor + 1) - 1 = cursor
    BY <1>2
  <2>2. CASE begin = cursor
    <3>1. cursor \notin DOMAIN hits
      BY <1>8 DEF ReportInv, HitsInv
    <3>2. hit.isPrefix /\ hits'[begin] = live
      BY <1>1, <2>2, <3>1
    <3> QED
      BY <1>4, <1>5, <1>6, <1>9, <2>1, <2>2, <3>2 DEF trie
  <2>3. CASE begin # cursor
    <3>1. begin \in DOMAIN hits /\ hits'[begin] = hits[begin] /\ begin \notin todo
      BY <1>1, <2>3
    <3>2. /\ begin \in DOMAIN seen
          /\ WordsOf(tries[hits[begin]]["main"]) \subseteq seen[begin]
          /\ SubSeq(text, begin, cursor) \in DOMAIN tries[hits[begin]]["main"]
      BY <3>1 DEF ReportInv, HitsInv
    <3> QED
      BY <1>9, <2>1, <3>1, <3>2
  <2> QED
    BY <2>2, <2>3
<1>12. StartsInv'
  <2>1. DOMAIN seen' \subseteq 1..((cursor + 1) - 1)
    BY <1>2, <1>7, <1>9
  <2> QED
    BY <1>1, <2>1 DEF StartsInv
<1> QED
  BY <1>10, <1>11, <1>12 DEF ReportInv

LEMMA ReportInvNext ==
  ASSUME TypeInv, ReportInv, [DictNext]_dvars
  PROVE  ReportInv'
<1> USE DEF ReportInv, StartsInv, HitsInv, MatchesWereInForce
<1>1. ASSUME UNCHANGED <<tries, text, cursor, hits, todo, found, seen>> PROVE ReportInv'
  BY <1>1
<1>2. CASE \/ UNCHANGED dvars \/ StartLoad \/ (\E lines \in Loads : ReadLines(lines))
           \/ DropLoad \/ LoadWord \/ Unlock
           \/ \E op \in {"AddWords", "DisableWords", "AddStopWords"}, list \in Batches :
                 LockForUpdate(op, list)
  <2>1. UNCHANGED <<tries, text, cursor, hits, todo, found, seen>>
    BY <1>2 DEF dvars, tables, reading, StartLoad, ReadLines, DropLoad, LoadWord, Unlock,
                LockForUpdate
  <2> QED
    BY <1>1, <2>1
<1>3. CASE \E newText \in Texts : BeginText(newText)
  <2>1. cursor' = 1 /\ DOMAIN hits' = {} /\ found' = {} /\ DOMAIN seen' = {}
    BY <1>3 DEF BeginText, Nowhere
  <2> QED
    BY <2>1
<1>4. CASE EndText
  <2>1. cursor' = 0 /\ DOMAIN hits' = {} /\ UNCHANGED <<text, found, seen>>
    BY <1>4 DEF EndText, Nowhere
  <2> QED
    BY <2>1
<1> QED
  BY <1>2, <1>3, <1>4, ReportInvTries, ReportInvExtend, ReportInvMatch
     DEF DictNext, Update, Segment

(* A word is reported only if it was in force at some moment since its     *)
(* first character was looked at, whatever was swapped, added and disabled *)
(* meanwhile (dictionary.go:359-363, cjk_segmenter.go:22-49).              *)
THEOREM MatchesInForce == DictSpec => []MatchesWereInForce
<1>1. DictInit => TypeInv /\ ReportInv
  BY TypeInvInit, ReportInvInit
<1>2. TypeInv /\ ReportInv /\ [DictNext]_dvars => (TypeInv /\ ReportInv)'
  BY TypeInvNext, ReportInvNext
<1>3. ReportInv => MatchesWereInForce
  BY DEF ReportInv
<1> QED
  BY <1>1, <1>2, <1>3, PTL DEF DictSpec

-----------------------------------------------------------------------------
(* A set of words.                                                         *)

(* What lookups answer is what the tries hold.                             *)
AnswersInv ==
    \A kind \in Kinds :
       /\ live = 0 => Matched(kind) = {} /\ Prefixed(kind) = {}
       /\ live # 0 => /\ Matched(kind) = WordsOf(tries[live][kind])
                      /\ Prefixed(kind) = PrefixesOf(tries[live][kind]) \cap Words

LEMMA AnswersAreWords == TypeInv => AnswersInv
<1> SUFFICES ASSUME TypeInv, NEW kind \in Kinds
             PROVE  /\ live = 0 => Matched(kind) = {} /\ Prefixed(kind) = {}
                    /\ live # 0 => /\ Matched(kind) = WordsOf(tries[live][kind])
                                   /\ Prefixed(kind) = PrefixesOf(tries[live][kind]) \cap Words
  BY DEF AnswersInv
<1>1. CASE live = 0
  BY <1>1 DEF Matched, Prefixed, Answers
<1>2. CASE live # 0
  <2> DEFINE trie == tries[live][kind]
  <2>1. TrieOK(trie) /\ WordsOf(trie) \subseteq Words
    BY <1>2, WholeFacts DEF TypeInv, DictTypeOK
  <2>2. \A word \in Words : Answers(kind, word) = Match(trie, word)
    BY <1>2 DEF Answers
  <2> HIDE DEF trie
  <2>3. \A word \in Words : /\ Match(trie, word).isMatch <=> word \in WordsOf(trie)
                            /\ Match(trie, word).isPrefix <=> word \in PrefixesOf(trie)
    BY <2>1, MatchIsMembership, WordsAreTexts
  <2>4. Matched(kind) = WordsOf(trie) /\ Prefixed(kind) = PrefixesOf(trie) \cap Words
    BY <2>1, <2>2, <2>3 DEF Matched, Prefixed
  <2> QED
    BY <1>2, <2>4 DEF trie
<1> QED
  BY <1>1, <1>2

(* What a step may do to the words and prefixes of one kind.               *)
WordSetStep(kind) ==
    \/ \E word \in Words :
          /\ Matched(kind)' = Matched(kind) \cup {word}
          /\ Prefixed(kind)' = Prefixed(kind) \cup MainWordSet!ProperPrefixes(word)
    \/ \E word \in Words :
          /\ Matched(kind)' = Matched(kind) \ {word}
          /\ Prefixed(kind)' = Prefixed(kind)
    \/ /\ Matched(kind)' \in SUBSET Words
       /\ Prefixed(kind)' = UNION {MainWordSet!ProperPrefixes(word) : word \in Matched(kind)'}
    \/ Matched(kind)' = Matched(kind) /\ Prefixed(kind)' = Prefixed(kind)

LEMMA PublishReplaces ==
  ASSUME TypeInv, AnswersInv', WordsInv, Publish, NEW kind \in Kinds
  PROVE  WordSetStep(kind)
<1>1. live' # 0 /\ tries'[live'] = tmpDict /\ Whole(tmpDict)
  BY PublishEffect
<1>2. /\ WordsOf(tmpDict[kind]) = loaded[kind] /\ WordsOf(tmpDict[kind]) \subseteq Words
      /\ PrefixesOf(tmpDict[kind]) \cap Words
            = UNION {MainWordSet!ProperPrefixes(word) : word \in loaded[kind]}
  BY <1>1, WholeFacts DEF WordsInv, Publish
<1>3. Matched(kind)' = WordsOf(tries'[live'][kind])
      /\ Prefixed(kind)' = PrefixesOf(tries'[live'][kind]) \cap Words
  BY <1>1 DEF AnswersInv
<1> QED
  BY <1>1, <1>2, <1>3 DEF WordSetStep

LEMMA UpdateAddsOrDisables ==
  ASSUME TypeInv, AnswersInv, AnswersInv', UpdateWord, NEW kind \in Kinds
  PROVE  WordSetStep(kind)
<1> DEFINE word == Head(update.words)
           trie == tries[live][kind]
           after == tries'[live][kind]
<1>1. /\ live # 0 /\ live' = live /\ word \in Words /\ Whole(tries[live])
      /\ KindOf(update.op) # kind => after = trie
      /\ KindOf(update.op) = kind =>
            after = IF update.op = "DisableWords" THEN DisableSegment(trie, word)
                    ELSE FillSegment(trie, word)
  BY UpdateWordEffect
<1>2. /\ Matched(kind) = WordsOf(trie) /\ Prefixed(kind) = PrefixesOf(trie) \cap Words
      /\ Matched(kind)' = WordsOf(after) /\ Prefixed(kind)' = PrefixesOf(after) \cap Words
  BY <1>1 DEF AnswersInv
<1>3. TrieOK(trie) /\ word \in Seq(Char) \ {<<>>}
  BY <1>1, WholeFacts, WordsAreTexts
<1> HIDE DEF word, trie, after
<1>4. CASE KindOf(update.op) # kind
  BY <1>1, <1>2, <1>4 DEF WordSetStep
<1>5. CASE KindOf(update.op) = kind /\ update.op = "DisableWords"
  <2>1. WordsOf(after) = WordsOf(trie) \ {word} /\ PrefixesOf(after) = PrefixesOf(trie)
    BY <1>1, <1>3, <1>5, DisableTakesOneWord
  <2> QED
    BY <1>1, <1>2, <2>1 DEF WordSetStep
<1>6. CASE KindOf(update.op) = kind /\ update.op # "DisableWords"
  <2>1. /\ WordsOf(after) = WordsOf(trie) \cup {word}
        /\ PrefixesOf(after) = PrefixesOf(trie) \cup (Prefixes(word) \ {word})
    BY <1>1, <1>3, <1>6, FillAddsOneWord
  <2>2. (Prefixes(word) \ {word}) \cap Words = MainWordSet!ProperPrefixes(word)
    BY <1>1, PrefixesAreWords
  <2>3. PrefixesOf(after) \cap Words
           = (PrefixesOf(trie) \cap Words) \cup MainWordSet!ProperPrefixes(word)
    BY <2>1, <2>2
  <2> QED
    BY <1>1, <1>2, <2>1, <2>3 DEF WordSetStep
<1> QED
  BY <1>4, <1>5, <1>6

LEMMA NextIsWordSetStep ==
  ASSUME TypeInv, AnswersInv, AnswersInv', WordsInv, [DictNext]_dvars, NEW kind \in Kinds
  PROVE  WordSetStep(kind)
<1>1. CASE UNCHANGED <<tries, live>>
  <2>1. Matched(kind)' = Matched(kind) /\ Prefixed(kind)' = Prefixed(kind)
    BY <1>1 DEF Matched, Prefixed, Answers
  <2> QED
    BY <2>1 DEF WordSetStep
<1>2. UNCHANGED <<tries, live>> \/ Publish \/ UpdateWord
  BY DEF DictNext, Update, Segment, dvars, tables, StartLoad, ReadLines, DropLoad, LoadWord,
         LockForUpdate, Unlock, BeginText, ExtendHit, MatchInMainDict, EndText
<1> QED
  BY <1>1, <1>2, PublishReplaces, UpdateAddsOrDisables

(* Both dictionaries are sets of words with their prefixes, as far as      *)
(* lookups can tell: a word is added with its prefixes, or disabled and    *)
(* they remain, or all are replaced at once (dict_segment.go:34-149,       *)
(* dictionary.go:307-364, 451-464).                                        *)
THEOREM DictionaryIsWordSet == DictSpec => ImplementsWordSet
<1>1. DictInit => TypeInv /\ WordsInv /\ live = 0
  BY TypeInvInit, WordsInvInit DEF DictInit
<1>2. TypeInv /\ WordsInv /\ [DictNext]_dvars => (TypeInv /\ WordsInv)'
  BY TypeInvNext, WordsInvNext
<1>3. DictInit => MainWordSet!Init /\ StopWordSet!Init
  <2> SUFFICES ASSUME DictInit PROVE MainWordSet!Init /\ StopWordSet!Init
    OBVIOUS
  <2>1. \A kind \in Kinds : Matched(kind) = {} /\ Prefixed(kind) = {}
    BY <1>1, AnswersAreWords DEF AnswersInv
  <2> QED
    BY <2>1, WordsAreTexts DEF MainWordSet!Init, StopWordSet!Init
<1>4. TypeInv => AnswersInv
  BY AnswersAreWords
<1>5. TypeInv /\ AnswersInv /\ AnswersInv' /\ WordsInv /\ [DictNext]_dvars =>
         /\ [MainWordSet!Next]_<<Matched("main"), Prefixed("main")>>
         /\ [StopWordSet!Next]_<<Matched("stop"), Prefixed("stop")>>
  <2> SUFFICES ASSUME TypeInv, AnswersInv, AnswersInv', WordsInv, [DictNext]_dvars
               PROVE  /\ [MainWordSet!Next]_<<Matched("main"), Prefixed("main")>>
                      /\ [StopWordSet!Next]_<<Matched("stop"), Prefixed("stop")>>
    OBVIOUS
  <2>1. WordSetStep("main") /\ WordSetStep("stop")
    BY NextIsWordSetStep, WordsAreTexts
  <2>2. [MainWordSet!Next]_<<Matched("main"), Prefixed("main")>>
    BY <2>1 DEF WordSetStep, MainWordSet!Next, MainWordSet!Add, MainWordSet!Disable,
                MainWordSet!Replace
  <2>3. \A word : StopWordSet!ProperPrefixes(word) = MainWordSet!ProperPrefixes(word)
    BY DEF StopWordSet!ProperPrefixes, MainWordSet!ProperPrefixes
  <2>4. [StopWordSet!Next]_<<Matched("stop"), Prefixed("stop")>>
    BY <2>1, <2>3 DEF WordSetStep, StopWordSet!Next, StopWordSet!Add, StopWordSet!Disable,
                      StopWordSet!Replace
  <2> QED
    BY <2>2, <2>4
<1> QED
  BY <1>1, <1>2, <1>3, <1>4, <1>5, PTL DEF DictSpec, ImplementsWordSet, MainWordSet!Spec, StopWordSet!Spec
=============================================================================
