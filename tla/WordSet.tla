-------------------------------- MODULE WordSet --------------------------------
(***************************************************************************)
(* What a dictionary of src/dic promises: a set of words, and the prefixes *)
(* that are worth going on from.  A lookup answers by membership in the    *)
(* two.  A prefix stays one when its words have been disabled, and goes    *)
(* when the dictionary is replaced.                                        *)
(***************************************************************************)
EXTENDS Integers, Sequences

CONSTANT Words        \* the words that can be stored, their prefixes included

VARIABLES words, prefixes

ProperPrefixes(word) == {SubSeq(word, 1, i) : i \in 1..(Len(word) - 1)}

Init == words = {} /\ prefixes = {}

Add(word) == /\ words' = words \cup {word}
             /\ prefixes' = prefixes \cup ProperPrefixes(word)

Disable(word) == words' = words \ {word} /\ UNCHANGED prefixes

Replace == /\ words' \in SUBSET Words
           /\ prefixes' = UNION {ProperPrefixes(word) : word \in words'}

Next == \/ \E word \in Words : Add(word) \/ Disable(word)
        \/ Replace

Spec == Init /\ [][Next]_<<words, prefixes>>
=============================================================================
