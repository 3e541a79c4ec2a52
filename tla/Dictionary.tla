------------------------------ MODULE Dictionary ------------------------------
(***************************************************************************)
(* What the segmenters ask of the dictionary of src/dic: whether a span of *)
(* the buffer is a word, and whether a longer word starts with it.  The    *)
(* main dictionary and the stop words are replaced by a reload, at any     *)
(* time, and a word in progress goes on in the dictionary it was begun in. *)
(* The dictionaries are given by their words; how tries store them, and    *)
(* what a reload reads, is the matter of LiveDictionary and Monitor.       *)
(***************************************************************************)
EXTENDS AnalyzeContext

CONSTANTS Dictionaries,     \* loaded one after the other: [main, stop]
          QuantifierWords   \* loaded once

ASSUME DictionaryAssumption ==
    /\ Dictionaries \in Seq([main : SUBSET (Seq(Char) \ {<<>>}),
                            stop : SUBSET (Seq(Char) \ {<<>>})]) \ {<<>>}
    /\ QuantifierWords \subseteq Seq(Char) \ {<<>>}

VARIABLE generation         \* the dictionary in force

MainWords(g) == Dictionaries[g].main
StopWords    == Dictionaries[generation].stop

(* A reload swaps the main dictionary and the stop words in one step.      *)
Swapped == /\ generation < Len(Dictionaries)
           /\ generation' = generation + 1

-----------------------------------------------------------------------------
(* length characters of the buffer from begin on.                          *)
Span(begin, length) == [i \in 1..length |-> segmentBuff[begin + i - 1]]

(* Hit.IsMatch and Hit.IsPrefix: a span can be both, either or neither.    *)
IsMatch(words, begin, length) == Span(begin, length) \in words

IsPrefixOf(words, begin, length) ==
    \E w \in words : /\ Len(w) > length
                     /\ SubSeq(w, 1, length) = Span(begin, length)

(* The words still being spelled out are known by where they begin: the    *)
(* hit of a start in hits goes on from the node it stopped at, which one   *)
(* reaches from the root by the characters read since.                     *)
HitLength(begin) == cursor - begin + 1

Matched(words, hits) == {b \in hits : IsMatch(words, b, HitLength(b))}
Pending(words, hits) == {b \in hits : IsPrefixOf(words, b, HitLength(b))}

IsStopWord(begin, length) == IsMatch(StopWords, begin, length)
=============================================================================
