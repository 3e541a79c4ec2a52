------------------------------ MODULE DictSegment ------------------------------
(***************************************************************************)
(* The dictionary trie of src/dic/dict_segment.go.                         *)
(*                                                                         *)
(* A trie is a function from the paths that lead to its nodes to the nodes:*)
(* a path is the sequence of characters from the root, <<>> the root, and  *)
(* a node knows its children by their characters.  A node keeps up to      *)
(* arrayLengthLimit children in a sorted array and more of them in a map;  *)
(* an array that is nil, or empty, is <<>>.                                *)
(***************************************************************************)
EXTENDS CharacterUtil, Sequences

arrayLengthLimit == 3

newDictSegment == [childrenArray |-> <<>>, childrenMap |-> {},
                   storeSize |-> 0, nodeState |-> 0]

NewTrie == [path \in {<<>>} |-> newDictSegment]

(* The path to the node where the first i characters of word end.          *)
Prefix(word, i) == SubSeq(word, 1, i)
Prefixes(word)  == {Prefix(word, i) : i \in 0..Len(word)}

Held(children) == {children[i] : i \in 1..Len(children)}

-----------------------------------------------------------------------------
(* The binary search looks at two places of an array of at most three: the *)
(* middle, and the middle of the half that remains.                        *)
Middle(children) == (Len(children) + 1) \div 2

HalfMiddle(children, key) ==
    IF children[Middle(children)] < key
    THEN (Middle(children) + 1 + Len(children)) \div 2
    ELSE Middle(children) \div 2

SearchChildren(children, key) ==
    \E i \in 1..Len(children) :
       /\ children[i] = key
       /\ i \in {Middle(children), HalfMiddle(children, key)}

(* Faulty: the children stay in the order in which they came.              *)
SortChildrenNot(children) == children

Ascending(children) ==
    \A i, j \in 1..Len(children) : i < j => children[i] < children[j]

(* The children in ascending order.                                        *)
SortChildren(children) ==
    CHOOSE sorted \in [1..Len(children) -> Held(children)] :
       Held(sorted) = Held(children) /\ Ascending(sorted)

-----------------------------------------------------------------------------
(* The child that match follows, and the one that lookforSegment finds:    *)
(* the first goes by which container there is, the second by storeSize.    *)
MatchChild(node, key) == IF node.childrenArray # <<>>
                         THEN SearchChildren(node.childrenArray, key)
                         ELSE key \in node.childrenMap

FindSegment(node, key) == IF node.storeSize <= arrayLengthLimit
                          THEN SearchChildren(node.childrenArray, key)
                          ELSE key \in node.childrenMap

(* Faulty: the fourth child goes into the map and the first three are let  *)
(* go with the array.                                                      *)
AddChildForgets(node, key) ==
    CASE node.storeSize < arrayLengthLimit ->
            [node EXCEPT !.childrenArray = SortChildren(Append(@, key)),
                         !.storeSize = @ + 1]
      [] node.storeSize = arrayLengthLimit ->
            [node EXCEPT !.childrenMap = {key}, !.childrenArray = <<>>,
                         !.storeSize = @ + 1]
      [] OTHER -> [node EXCEPT !.childrenMap = @ \cup {key}, !.storeSize = @ + 1]

(* A new child.  The fourth makes the array a map.                         *)
AddChild(node, key) ==
    CASE node.storeSize < arrayLengthLimit ->
            [node EXCEPT !.childrenArray = SortChildren(Append(@, key)),
                         !.storeSize = @ + 1]
      [] node.storeSize = arrayLengthLimit ->
            [node EXCEPT !.childrenMap = Held(node.childrenArray) \cup {key},
                         !.childrenArray = <<>>,
                         !.storeSize = @ + 1]
      [] OTHER -> [node EXCEPT !.childrenMap = @ \cup {key}, !.storeSize = @ + 1]

LookforSegment(node, key) ==
    IF FindSegment(node, key) THEN node ELSE AddChild(node, key)

-----------------------------------------------------------------------------
(* Adding a word creates the nodes of its path that are missing, and tells *)
(* each about the next; disabling one that is not there changes nothing.   *)
FillNode(trie, word, path) ==
    LET node == IF path \in DOMAIN trie THEN trie[path] ELSE newDictSegment
    IN  IF path = word THEN [node EXCEPT !.nodeState = 1]
        ELSE IF path \in Prefixes(word)
        THEN LookforSegment(node, word[Len(path) + 1])
        ELSE node

FillSegment(trie, word) ==
    [path \in DOMAIN trie \cup Prefixes(word) |-> FillNode(trie, word, path)]

Found(trie, word) ==
    \A i \in 1..Len(word) : /\ Prefix(word, i - 1) \in DOMAIN trie
                            /\ FindSegment(trie[Prefix(word, i - 1)], word[i])

DisableSegment(trie, word) ==
    IF Found(trie, word) THEN [trie EXCEPT ![word].nodeState = 0] ELSE trie

-----------------------------------------------------------------------------
(* One level of match: from the node at path along key.  The hit is a      *)
(* match, a prefix, both or neither; and a prefix although all that lies   *)
(* below it has been disabled.                                             *)
MatchFrom(trie, path, key) ==
    LET found == MatchChild(trie[path], key)
        ds    == trie[Append(path, key)]
    IN  [isMatch  |-> found /\ ds.nodeState = 1,
         isPrefix |-> found /\ ds.storeSize > 0]

(* match from the root over the whole word.                                *)
Match(trie, word) ==
    LET found == \A i \in 1..Len(word) :
                    /\ Prefix(word, i - 1) \in DOMAIN trie
                    /\ MatchChild(trie[Prefix(word, i - 1)], word[i])
    IN  [isMatch  |-> found /\ trie[word].nodeState = 1,
         isPrefix |-> found /\ trie[word].storeSize > 0]

WordsOf(trie) == {path \in DOMAIN trie : trie[path].nodeState = 1}

(* The trie is whole: with a node it has the nodes above it, a node knows  *)
(* as its children exactly the nodes below it, and keeps them sorted in    *)
(* the array or, if there are more than it holds, in the map.              *)
Children(node) == Held(node.childrenArray) \cup node.childrenMap

Node == [childrenArray : Seq(Char), childrenMap : SUBSET Char,
         storeSize : Nat, nodeState : {0, 1}]

NodeOK(node) ==
    /\ Ascending(node.childrenArray)
    /\ IF node.storeSize <= arrayLengthLimit
       THEN Len(node.childrenArray) = node.storeSize /\ node.childrenMap = {}
       ELSE node.childrenArray = <<>> /\ node.childrenMap # {}

TrieOK(trie) ==
    /\ trie \in [DOMAIN trie -> Node]
    /\ <<>> \in DOMAIN trie
    /\ trie[<<>>].nodeState = 0
    /\ \A path \in DOMAIN trie :
          /\ path \in Seq(Char)
          /\ NodeOK(trie[path])
          /\ \A i \in 1..Len(path) :
                /\ Prefix(path, i - 1) \in DOMAIN trie
                /\ path[i] \in Children(trie[Prefix(path, i - 1)])
          /\ \A key \in Children(trie[path]) : Append(path, key) \in DOMAIN trie
=============================================================================
