---------------------------- MODULE LiveDictionary ----------------------------
(***************************************************************************)
(* The dictionary of src/dic/dictionary.go while it changes: a load fills  *)
(* new tries behind the scenes and swaps them in under the write lock,     *)
(* callers add and disable words in the tries in force, and a segmentation *)
(* (the lookups of core/cjk_segmenter.go) goes on meanwhile, with hits into*)
(* the tries it began in.                                                  *)
(*                                                                         *)
(* A lookup holds the read lock for its whole length and is one step.  The *)
(* write lock is held for a list of words, one word a step.  What is       *)
(* loaded, from files and servers, is left open here; Monitor.tla says it. *)
(***************************************************************************)
EXTENDS DictSegment

CONSTANTS Words,        \* the words, with their prefixes, that may be stored
          Texts,        \* the texts that are segmented
          Batches,      \* the lists of words given to AddWords and the others
          Loads,        \* the lists a load may read, of [kind, word]
          MaxUpdates,   \* bound: calls of AddWords, DisableWords, AddStopWords
          MaxLoads      \* bound: loads, the first of them by Initial

Kinds == {"main", "stop"}
None  == "none"

ASSUME DictionaryAssumption ==
    /\ Words \subseteq Seq(Char) \ {<<>>}
    /\ \A word \in Words : \A i \in 1..Len(word) : Prefix(word, i) \in Words
    /\ Texts \subseteq Seq(Char)
    /\ Batches \subseteq Seq(Words \cup {<<>>})
    /\ Loads \subseteq Seq([kind : Kinds, word : Words \cup {<<>>}])
    /\ MaxUpdates \in Nat /\ MaxLoads \in Nat

VARIABLES
    tries,     \* generation |-> the tries of a load, as long as they are in use
    live,      \* the generation in force; 0 before there is a dictionary
    tmpDict,   \* the tries being filled, or NoDict
    toLoad,    \* the lines still to be filled into them
    update,    \* the update that holds the write lock, and its words left
    updates,   \* how many there have been
    text,      \* what is being segmented
    cursor,    \* the character looked at; 0 between texts
    hits,      \* where words in progress begin |-> whose tries they are in
    todo,      \* the hits still to be extended over this character
    found,     \* history: the spans reported as words
    inForce,   \* history: the words of each kind that ought to be in force
    loaded,    \* history: those that the tries being filled ought to have
    seen       \* history: the words in force at any time since a start

tables  == <<tries, live, tmpDict, toLoad>>
writing == <<update, updates>>
reading == <<text, cursor, hits, todo, found>>
dvars   == <<tables, writing, reading, inForce, loaded, seen>>

NoDict     == [kind \in {} |-> NewTrie]
Loading    == DOMAIN tmpDict # {}
Unlocked   == update.op = None
MainWords(generation) == WordsOf(tries[generation]["main"])
KindOf(op) == IF op = "AddStopWords" THEN "stop" ELSE "main"
Nowhere    == [begin \in {} |-> 0]
NoWords    == [kind \in Kinds |-> {}]

DictInit ==
    /\ tries = Nowhere /\ live = 0 /\ tmpDict = NoDict /\ toLoad = <<>>
    /\ update = [op |-> None, words |-> <<>>] /\ updates = 0
    /\ text = <<>> /\ cursor = 0 /\ hits = Nowhere /\ todo = {} /\ found = {}
    /\ inForce = NoWords /\ loaded = NoWords /\ seen = Nowhere

(* What has been in force since each start, after a change of the tries.   *)
Seen == seen' = [begin \in DOMAIN seen |->
                    seen[begin] \cup WordsOf(tries'[live']["main"])]

-----------------------------------------------------------------------------
(* reLoadMainDict, and what Initial does before it stores the singleton:   *)
(* new tries are filled from one list of words after the other.            *)
StartLoad ==
    /\ ~Loading /\ live < MaxLoads
    /\ tmpDict' = [kind \in Kinds |-> NewTrie]
    /\ loaded' = NoWords
    /\ UNCHANGED <<tries, live, toLoad, writing, reading, inForce, seen>>

ReadLines(lines) ==
    /\ Loading /\ toLoad = <<>>
    /\ toLoad' = lines
    /\ UNCHANGED <<tries, live, tmpDict, writing, reading, inForce, loaded, seen>>

(* Initial panics and what it had loaded is forgotten; a reload reads no   *)
(* file that it cannot do without.                                         *)
DropLoad ==
    /\ Loading /\ toLoad = <<>> /\ live = 0
    /\ tmpDict' = NoDict
    /\ UNCHANGED <<tries, live, toLoad, writing, reading, inForce, loaded, seen>>

(* A line of a dictionary; an empty one is left out.                       *)
LoadWord ==
    /\ Loading /\ toLoad # <<>>
    /\ LET line == Head(toLoad)
       IN  IF line.word = <<>> THEN UNCHANGED <<tmpDict, loaded>>
           ELSE /\ tmpDict' = [tmpDict EXCEPT ![line.kind] = FillSegment(@, line.word)]
                /\ loaded' = [loaded EXCEPT ![line.kind] = @ \cup {line.word}]
    /\ toLoad' = Tail(toLoad)
    /\ UNCHANGED <<tries, live, writing, reading, inForce, seen>>

(* The new tries come into force, and of the old ones those remain that a  *)
(* hit is still in; the others are garbage.                                *)
Swap ==
    /\ live' = live + 1
    /\ tries' = [generation \in {hits[begin] : begin \in DOMAIN hits} \cup {live + 1} |->
                    IF generation = live + 1 THEN tmpDict ELSE tries[generation]]

(* Faulty: the tries are swapped without the lock.                         *)
PublishUnlocked ==
    /\ Loading /\ toLoad = <<>>
    /\ Swap
    /\ tmpDict' = NoDict
    /\ inForce' = loaded
    /\ Seen
    /\ UNCHANGED <<toLoad, writing, reading, loaded>>

(* Both tries change hands in one step: under the write lock, or with the  *)
(* singleton when there was none before.                                   *)
Publish ==
    /\ Loading /\ toLoad = <<>> /\ Unlocked
    /\ Swap
    /\ tmpDict' = NoDict
    /\ inForce' = loaded
    /\ Seen
    /\ UNCHANGED <<toLoad, writing, reading, loaded>>

-----------------------------------------------------------------------------
(* The words of a list that take effect: those before an empty one.        *)
Effective(list) ==
    {list[i] : i \in {i \in 1..Len(list) : \A j \in 1..i : list[j] # <<>>}}

After(op, wordsBefore, list) ==
    IF op = "DisableWords" THEN wordsBefore \ Effective(list)
                           ELSE wordsBefore \cup Effective(list)

(* AddWords, DisableWords or AddStopWords takes the write lock.            *)
LockForUpdate(op, list) ==
    /\ live # 0 /\ Unlocked /\ updates < MaxUpdates
    /\ update' = [op |-> op, words |-> list]
    /\ updates' = updates + 1
    /\ inForce' = [inForce EXCEPT ![KindOf(op)] = After(op, @, list)]
    /\ UNCHANGED <<tables, reading, loaded, seen>>

UpdateWord ==
    /\ ~Unlocked /\ update.words # <<>> /\ Head(update.words) # <<>>
    /\ LET word == Head(update.words)
       IN  tries' = [tries EXCEPT ![live][KindOf(update.op)] =
                        IF update.op = "DisableWords"
                        THEN DisableSegment(@, word) ELSE FillSegment(@, word)]
    /\ update' = [update EXCEPT !.words = Tail(@)]
    /\ UNCHANGED <<live, tmpDict, toLoad, updates, reading, inForce, loaded>>
    /\ Seen

(* The list is done, or an empty word panics: either way the deferred      *)
(* unlock runs, and the rest of the list is dropped.                       *)
Unlock ==
    /\ ~Unlocked
    /\ update.words # <<>> => Head(update.words) = <<>>
    /\ update' = [op |-> None, words |-> <<>>]
    /\ UNCHANGED <<tables, updates, reading, inForce, loaded, seen>>

-----------------------------------------------------------------------------
(* A segmentation: over each character the words in progress are extended  *)
(* from the earliest on, each in the tries it began in, and then a new one *)
(* is tried in the tries in force.                                         *)
BeginText(newText) ==
    /\ cursor = 0 /\ live # 0
    /\ text' = newText /\ cursor' = 1
    /\ hits' = Nowhere /\ todo' = {} /\ found' = {} /\ seen' = Nowhere
    /\ UNCHANGED <<tables, writing, inForce, loaded>>

Without(f, begin) == [other \in DOMAIN f \ {begin} |-> f[other]]

MatchWithHit(begin) ==
    MatchFrom(tries[hits[begin]]["main"], SubSeq(text, begin, cursor - 1), text[cursor])

Reported(hit, begin) == IF hit.isMatch THEN found \cup {<<begin, cursor>>} ELSE found

(* Faulty: the hit goes on in the tries now in force, from the root.       *)
ExtendHitAnew ==
    /\ cursor \in 1..Len(text) /\ Unlocked
    /\ \E begin \in todo :
          /\ \A other \in todo : begin <= other
          /\ LET hit == Match(tries[live]["main"], <<text[cursor]>>)
             IN  /\ found' = Reported(hit, begin)
                 /\ hits' = IF hit.isPrefix THEN hits ELSE Without(hits, begin)
          /\ todo' = todo \ {begin}
    /\ UNCHANGED <<tables, writing, text, cursor, inForce, loaded, seen>>

ExtendHit ==
    /\ cursor \in 1..Len(text) /\ Unlocked
    /\ \E begin \in todo :
          /\ \A other \in todo : begin <= other
          /\ LET hit == MatchWithHit(begin)
             IN  /\ found' = Reported(hit, begin)
                 /\ hits' = IF hit.isPrefix THEN hits ELSE Without(hits, begin)
          /\ todo' = todo \ {begin}
    /\ UNCHANGED <<tables, writing, text, cursor, inForce, loaded, seen>>

MatchInMainDict ==
    /\ cursor \in 1..Len(text) /\ Unlocked /\ todo = {}
    /\ LET hit == Match(tries[live]["main"], <<text[cursor]>>)
       IN  /\ found' = Reported(hit, cursor)
           /\ hits' = IF hit.isPrefix
                      THEN [begin \in DOMAIN hits \cup {cursor} |->
                               IF begin = cursor THEN live ELSE hits[begin]]
                      ELSE hits
    /\ seen' = [begin \in DOMAIN seen \cup {cursor} |->
                   IF begin = cursor THEN MainWords(live) ELSE seen[begin]]
    /\ cursor' = cursor + 1
    /\ todo' = DOMAIN hits'
    /\ UNCHANGED <<tables, writing, text, inForce, loaded>>

EndText ==
    /\ cursor > Len(text)
    /\ cursor' = 0 /\ hits' = Nowhere /\ todo' = {}
    /\ UNCHANGED <<tables, writing, text, found, inForce, loaded, seen>>

Update  == \/ \E op \in {"AddWords", "DisableWords", "AddStopWords"},
                 list \in Batches : LockForUpdate(op, list)
           \/ UpdateWord
           \/ Unlock

Segment == \/ \E newText \in Texts : BeginText(newText)
           \/ ExtendHit
           \/ MatchInMainDict
           \/ EndText

DictNext == \/ StartLoad
            \/ \E lines \in Loads : ReadLines(lines)
            \/ DropLoad
            \/ LoadWord
            \/ Publish
            \/ Update
            \/ Segment

DictSpec == DictInit /\ [][DictNext]_dvars

-----------------------------------------------------------------------------
(* Every variable has its type, and every trie is whole: its nodes hold    *)
(* together whatever words were added and disabled, on either side of the  *)
(* step from array to map (dict_segment.go:113-149).                       *)
DictTypeOK ==
    /\ live \in 0..MaxLoads /\ (live # 0 => live \in DOMAIN tries)
    /\ \A generation \in DOMAIN tries : \A kind \in Kinds : TrieOK(tries[generation][kind])
    /\ Loading => \A kind \in Kinds : TrieOK(tmpDict[kind])
    /\ toLoad \in Seq([kind : Kinds, word : Words \cup {<<>>}])
    /\ update \in [op    : {"AddWords", "DisableWords", "AddStopWords", None},
                   words : Seq(Words \cup {<<>>})]
    /\ text \in Seq(Char)
    /\ cursor \in 0..(Len(text) + 1)
    /\ DOMAIN hits \subseteq 1..cursor /\ todo \subseteq DOMAIN hits
    /\ \A begin \in DOMAIN hits : hits[begin] \in DOMAIN tries
    /\ inForce \in [Kinds -> SUBSET Words] /\ loaded \in [Kinds -> SUBSET Words]

(* Whenever a lookup can run, the words in force are those that were       *)
(* loaded last and, on top of them, every update since, each of them as a  *)
(* whole: no lookup comes between two words of a list, a swap neither      *)
(* loses a part of an update nor keeps one from before it, and a list that *)
(* panics at an empty word leaves what came before it                      *)
(* (dictionary.go:307-333, 451-464).                                       *)
WordsAccountedFor ==
    Unlocked /\ live # 0 =>
       \A kind \in Kinds : WordsOf(tries[live][kind]) = inForce[kind]

(* A word is reported only if it was in force at some moment since its     *)
(* first character was looked at, though the tries were swapped and words  *)
(* disabled under it (dictionary.go:359-363, cjk_segmenter.go:22-49).      *)
MatchesWereInForce ==
    \A span \in found : /\ span[1] \in DOMAIN seen
                        /\ SubSeq(text, span[1], span[2]) \in seen[span[1]]

(* Both dictionaries in force are sets of words with their prefixes, as    *)
(* far as lookups can tell.                                                *)
Answers(kind, word) == IF live = 0 THEN [isMatch |-> FALSE, isPrefix |-> FALSE]
                       ELSE Match(tries[live][kind], word)

Matched(kind)  == {word \in Words : Answers(kind, word).isMatch}
Prefixed(kind) == {word \in Words : Answers(kind, word).isPrefix}

MainWordSet == INSTANCE WordSet WITH words <- Matched("main"), prefixes <- Prefixed("main")
StopWordSet == INSTANCE WordSet WITH words <- Matched("stop"), prefixes <- Prefixed("stop")

ImplementsWordSet == MainWordSet!Spec /\ StopWordSet!Spec
=============================================================================
