# The IK analyzer in TLA+

TLA+ specifications of the Go port of the IK analyzer (`src/`): the engine that
cuts Chinese text into lexemes, the token stream around it, and the dictionary
underneath with the monitors that keep it up to date. The modules are checked by TLC on small instances; the results that matter most are proved by
TLAPS for every value of the constants.

## 1. The system

| part | source | state | operations |
|---|---|---|---|
| sorted lexeme list | `core/quick_sort_set.go` | `head`, `tail`, `size`, and the `prev`/`next` of every cell | `addLexeme`, `pollFirst`, `pollLast` |
| lexeme | `core/lexeme.go` | offset, begin, length, type | `CompareTo`, `Append` |
| character classes | `core/character_util.go`, `jdk/char.go` | none | `identifyCharType`, `regularize` |
| analysis context | `core/analyze_context.go` | the buffer of 4096 code units, character types, cursor, offset, locks, candidates, paths, results, three counters | `fillBuffer`, `initCursor`, `moveCursor`, `needRefillBuffer`, `outputToResult`, `getNextLexeme`, `compound`, `reset` |
| four sub-segmenters | `core/letter_…`, `surrogate_pair_…`, `cn_quantifier_…`, `cjk_segmenter.go` | runs and hits in progress | `analyze`, `reset` |
| lexeme path | `core/lexeme_path.go` | the list, begin, end, payload | `addCrossLexeme`, `addNotCrossLexeme`, `removeTail`, `compareTo` |
| arbitrator | `core/ik_arbitrator.go` | none between calls | `process`, `judge` |
| engine | `core/ik_segmenter.go` | the context, the sub-segmenters, two saved counters, a mutex | `Next`, `Reset` |
| tokenizer | `lucene/ik_tokenizer.go`, `lucene/token_stream.go` | reader, staged reader, attributes, two counters | `SetReader`, `Reset`, `IncrementToken`, `End`, `Close` |
| readers and text | `jdk/reader.go`, `jdk/text.go` | position, closed | `Read`, `Close`; code units to Go strings and back |
| dictionary | `dic/dictionary.go`, `dict_segment.go`, `hit.go` | three tries behind a read-write lock, the singleton | lookups, `AddWords`, `DisableWords`, `AddStopWords`, `Initial`, `reLoadMainDict` |
| monitor, scheduler | `dic/monitor.go` | `lastModified`, `eTags`, the task list | `Run`, the loop of the single worker |
| configuration, plugins | `cfg/`, `elasticsearch/`, `opensearch/` | three booleans and paths | factories |
| helpers | `help/`, `jdk/properties.go` | none that the engine reads | logging, sleeping, XML |

How they interact. A caller stages a reader at the **tokenizer** and installs it
with Reset. IncrementToken calls `Next` of the **engine**, which loops: it takes
a result out of the **context** if there is one; else it fills the buffer,
lets the four **sub-segmenters** see each character in turn, has the
**arbitrator** group the candidates they added to the **sorted list** into paths
and, in smart mode, choose among them, and turns paths and uncovered characters
into results. Sub-segmenters talk to the context by locks, which forbid a refill
in the middle of a token, and to each other by the candidates: the quantifier
segmenter looks at the last one. All of them ask the **dictionary** singleton.
Whoever builds an analyzer or a tokenizer calls `Initial`; the first to get its
lock loads the dictionary from files and servers, stores it, and starts a
**monitor** for each remote list. One worker polls the monitors in turn; one that
sees new headers has the dictionary loaded again from everything and swapped in
under its write lock, while segmentations hold hits into the tries it replaces.

What is hard here: the buffer slides, and everything that is remembered by
position (results whose text is read later, character types, locks, words in
progress) must survive or be dropped at each refill; reads fail and return
early; the final offset and the position increments are put together from
counters kept in three places; the list is walked past its end after removals;
the stream's calls may come in any order; the dictionary changes under a
segmentation, by a reload or by `AddWords` and `DisableWords`; requests fail,
lists change between the HEAD and the GET, and what was seen is remembered
separately from what was read. What each hazard is and which property answers for it is listed
with its line in `PROJECT.json`.

What makes each part correct:

* list — it is a sorted set, whatever removals left behind, and insertion ends;
* context — the buffer is a faithful window on the input, the text given to a
  result is the input's text at its offsets, a call of `Next` ends;
* sub-segmenters — between them they lose no CJK character, and a refill cuts
  nothing that a lock protects;
* arbitrator — with arbitration the lexemes of a stretch do not overlap and
  carry as much as any one candidate, without it every candidate survives;
* engine — tokens come in order, every CJK character is covered, the final
  offset is the length of the text;
* tokenizer — a term is the installed text at the token's offsets, whatever
  happened before, and survives the Go strings it passes through;
* trie — lookups answer as a set of words and prefixes would, on either side of
  the change from array to map;
* dictionary — what is in force is what was loaded last with every update since,
  each of them whole, and a word is reported only if it was in force;
* monitors — there is one dictionary, they never believe in a version later than
  the one in force, and when the servers rest the lists are in force as they are.

## 2. The modules

| module | models | composes |
|---|---|---|
| `SortedLexemes` | what the list promises: a set in `CompareTo` order | |
| `QuickSortSet` | the list itself: cells are numbers, never reused, so that a removed cell keeps its pointers as the garbage-collected original does | |
| `Lexeme`, `CharacterUtil` | the data, and the pure functions on it | |
| `AnalyzeContext` | the context driven by the loop of `Next`, with the choices of sub-segmenters and arbitrator left open | `Lexeme`, `CharacterUtil` |
| `CharacterRun` | the run automaton that four passes repeat | `AnalyzeContext` |
| `LetterSegmenter`, `SurrogatePairSegmenter`, `CNQuantifierSegmenter`, `CJKSegmenter` | one `analyze` each, as an operator from the state before to the state after and the lexemes added | `CharacterRun`, `Dictionary` |
| `Dictionary` | what lookups answer the segmenters, from dictionaries given by their words, of which the next one may come into force at any time | `AnalyzeContext` |
| `LexemePath`, `IKArbitrator` | paths and arbitration, as operators; the list is a sequence here, which `QuickSortSet` justifies | |
| `IKSegmenter` | `Next` and `Reset`; every action is an action of `AnalyzeContext` with its choices made | all of the above |
| `JavaText` | code units to the bytes of a Go string and back, `Trim`, `ToLower` | `CharacterUtil` |
| `IKTokenizer` | the token stream | `IKSegmenter`, `JavaText` |
| `WordSet` | what a dictionary promises: a set of words, and the prefixes worth going on from | |
| `DictSegment` | the trie, as operators: sorted array with its binary search, map, `fillSegment`, `disableSegment`, `match` | `CharacterUtil` |
| `LiveDictionary` | the tries while they change: a load, updates under the write lock word by word, a segmentation with hits into old tries | `DictSegment`, `WordSet` |
| `Monitor` | `NewConfigurationSub` and `Initial` with their callers, the loads from files and servers, the monitors and the worker; every change of a trie is an action of `LiveDictionary` | `LiveDictionary`, `JavaText` |
| `…Proofs` | theorems about the module they are named after; those about `DictSegment` are in `LiveDictionaryProofs`, those about `LexemePath` in `IKArbitratorProofs`, and `MCIKArbitratorProofs` is about every text and number of candidates, not the instance | `TLAPS` |
| `MC…` | instances for TLC | |

One call of `Next` is a sequence of actions, told apart by `pc`: `poll` (inside
`getNextLexeme`), `fill` (before `fillBuffer`), `analyze` (the loop over the
characters, one action per character) and `arbitrate`. The engine holds its
mutex from `poll` to `idle`, so no other call of `Next` or `Reset` comes
between; accessors without the mutex (`LastUselessCharNum`,
`SavedMaxConsumedEndPosition`) are called by the tokenizer between calls.
A character is one action although each of its lookups takes the read lock on
its own, and a reload may come between two of them. Nothing is lost by that: all
lookups of a character but the last one go on from hits, in the tries these began
in, and only the last one, which tries a new start, asks for the tries in force
(`cjk_segmenter.go:22-49`); a reload between two lookups is a reload before the
character. Stop words are asked for one at a time, as results are taken.
`LiveDictionary` has an action per lookup and does not lean on this. A hit names
the tries it is in by their generation, there and in `CJKSegmenter`; of the old
tries `LiveDictionary` keeps those some hit is in.

In the list, `addLexeme` is one call of several actions, so that its walk can be
shown to end.

The candidates and the path map live in `orgLexemes` and inside `Arbitrate`:
the map is filled and emptied within one pass of the loop. The trie position of
a `Hit` is named by where its word begins, because the node is the one reached
from the root by the characters read since. The text of a lexeme is read out of
the buffer when the lexeme is handed out (`analyze_context.go:239`), so a
lexeme carries no text here.

Operators whose comment begins with *Faulty* are deliberate mistakes. No
specification uses them: put in the place of the definition that follows, each
one makes TLC refute the property named beside it in `PROJECT.json`, which shows
that the property does watch that line of the code.

## 3. What TLC checks

| run (`.cfg`) | properties | bounds |
|---|---|---|
| `MCQuickSortSet` | `TypeOK`, `WellLinked`, `ImplementsSortedSet`, `AddReturns`, `AppendRepairsTheWalk` | 4 cells, the 6 spans of 3 units and one of them again under another type |
| `MCAnalyzeContext` | `ContextTypeOK`, `BufferWindow`, `TextsFaithful`, `ConsumedWasRead`, `NextReturns` | buffer of 4, texts up to 7, at most 2 results at a time |
| `MCIKArbitrator` | `EveryCandidateSurvives`, `SmartChoosesSegmentations`, `NoCandidateOutweighs`, `CoveringWordWins`, `FallbackCoversTheStretch` | every set of at most 7 candidates on 5 units; fallback at 2 extra paths, 2 words at one start, 6 candidates, span 5, depth 2 |
| `MCIKSegmenterMaxWord` | `EngineTypeOK`, `TokensInOrder`, `CharactersCovered` | buffer of 4, critical zone 4; all texts of up to 4 letters, digits and connectors and up to 5 units of words, two longer ones; short and failing reads, `Reset` and one reload at any time, max-word mode |
| `MCIKSegmenterSmart` | `TokensInOrder`, `RefillCutsNothing`, `CharactersCovered`, `QuantitiesJoined`, `PairsStayTogether`, `FinalOffsetExact` | buffer of 5, critical zone 4; all texts of up to 6 units of words, quantities, surrogate halves (up to 5 of letters) and two longer ones, 6 overlapping words, 2 quantifiers, 2 stop words, one reload at any time, smart mode |
| `MCIKTokenizer` | `TokenizerTypeOK`, `TermsFollowTheText`, `TermsSurviveStrings`, `IncrementsCountStopWords`, `FinalOffsetIsLength`, `PlaceholderGivesNoToken` | buffer of 4, critical zone 3, texts up to 6, with whole and broken surrogate pairs, smart mode, all calls in any order, one reload at any time |
| `MCLiveDictionary` | `DictTypeOK`, `WordsAccountedFor`, `MatchesWereInForce`, `ImplementsWordSet` | 7 words over 4 characters, 2 loads that read 2 lists in any order and as often as they like, 2 updates of 2 lists, one of them with an empty word; the text `abc` again and again |
| `MCMonitor` | `MonitorTypeOK`, `OneDictionary`, `MonitorsTrail`, `ReloadIsWhole`, `InitialReturns`, `EveryChangeSettles` | 2 callers with 3 kinds of request (files complete, a file missing, polling disabled), 2 remote lists of 2 versions (one told apart by its ETag alone, one by its date), 2 requests that fail, 9 loads |

Why the bounds are enough. The buffer has 4096 units and its critical zone 100;
here 4 and 4 (5 and 4 in smart mode, 4 and 3 for the tokenizer), so that every
text longer than that crosses refills both inside the critical zone and at the
end of the buffer, in every alignment with a word, a number or a pair. Two longer texts
(`MCStale`) have the buffer used up whole and then topped up early, so that the character types
of the first round still stand behind the cursor when the walk ends there. The model requires
`2 * BuffExhaustCritical <= BuffSize + 4`, which the code's values satisfy and
which makes the moved tail no longer than the place it leaves. The characters
are one of each class the code tells apart, plus those that only `regularize`
tells apart in `MCAnalyzeContext`. Dictionaries hold a word that is a prefix of
another, a word inside another, words that overlap at either end, and a word
that two shorter ones beat although they leave a character between them; the
reload takes some of them away, brings a longer one and changes the stop words, and
one reload is enough for a hit to outlive its dictionary, since a third
dictionary would treat those hits no differently. The ranking
of `compareTo` and the backtracking need a chain of three or four candidates and
their alternatives to become interesting: five units give fifteen candidates.
A node turns its array into a map at its fourth child, and the root of the live
dictionary gets four. Two loads give a swap over tries that are in use; a second
update meets the effects of the first. Nine loads are more than two lists with two
versions, two failures and two callers can cause, so the bound never holds a
load up.

Deadlock is checked in the runs of the context, the engine, the tokenizer and the
live dictionary: no call may get stuck. It is not checked in `MCQuickSortSet`,
where the cells run out, nor in the arbitrator's run, where adding ends at the
bound, nor in `MCMonitor`, where all callers may have panicked or polling may be
disabled, and then nothing runs any more.

Fairness. `addLexeme` (`WF_vars(InsideAdd)`) and `Next` (`WF_cvars(InsideNext)`,
in `MCAnalyzeContext`) are straight-line code on the caller's goroutine, blocking
on nothing but the reader: once entered they run on. That a reader returns, with
a character, the end or an error, is what `ReadCounts` and `ReadFails` say. No
fairness is assumed of callers. `Monitor` assumes weak fairness of the caller inside
`Initial`, of the reading of a load, and of the worker: they are goroutines that
wait for a lock, a timer or a request and for nothing else; whoever holds one of the locks runs on
(a panic releases it), and requests end, with an answer or
with an error, by the clients' timeouts. The assumption that the body of an
answer ends is ours: no timeout covers it. Nothing is assumed of servers: that
they change only so often, and fail only so often, is in the bounds, and
`EveryChangeSettles` is about the time after. `NextReturns` is shown of the context with
every choice open, so that it holds whatever the sub-segmenters do; the engine's
runs show that none of its actions is ever blocked.

### Where code and comments disagree

Each of these is a run that TLC refutes.

* `MCIKSegmenterOffset`, `FinalOffsetExact`: in max-word mode the final offset
  of `a-` is 3. `outputToResult` continues after the last lexeme of the path in
  `CompareTo` order (`a`), finds the connector that the mixed token `a-` covers,
  and counts it as useless once more; `End` adds it to the end of `a-`. This
  shifts every later value of a multi-valued field, the symptom of issue #921.
* `MCIKSegmenterSkipped`, `SkipsBecomePositions`: stop words skipped before a
  refill are not counted, because `getNextLexeme` starts its count again. The
  passing `IncrementsCountStopWords` is the same statement for texts that were
  never refilled.
* `MCIKSegmenterNumerals`, `NumeralsTakeQuantifiers`: behind a number with a
  separator (`1,1`) no quantifier is looked for, because `needCountScan` asks for
  the last candidate in `CompareTo` order, which is the mixed token `1` after the
  separator. The passing `QuantitiesJoined` is the same statement for numbers
  without separators.
* `MCMonitorLost`, `EveryChangeArrives`: a monitor records the new headers after
  the reload whether or not the downloads succeeded. If the GET fails, the words of
  the list are missing from the new dictionary, and stay so until some list
  changes again. The passing `EveryChangeSettles` and `MonitorsTrail` say what does
  hold: with downloads that succeed no change is missed, although lists change
  between HEAD and GET and one monitor's reload also reads the others' lists.

Others, which the models follow but no run is spent on: `Reset` keeps
`lastUselessCharNum` (`ik_segmenter.go:96`); a second `Next` after the end
saves the positions of a context that was just reset (`ik_segmenter.go:113`);
`judge` tries one chain per skipped candidate, not every combination, and so can
miss the best (`ik_arbitrator.go:116-117` and `133`); after `Close` the tokens that
wait in the engine still come out (`ik_tokenizer.go:20-22` and `98`).

## 4. What is proved

All theorems hold for every text, every buffer size and critical zone that
`BufferAssumption` admits, every set of lexemes, every sequence of dictionaries
and wherever in a segmentation one replaces another; those of the arbitrator for
stretches of any length and all thresholds; those of the dictionary for any words,
characters, loads and updates; those of the monitors for any number of callers,
files, lists, versions and failures.

| theorem | of | states |
|---|---|---|
| `ListIsTyped`, `ListIsWellLinked`, `ListImplementsSortedSet`, `AppendsRepairTheWalk` | `QuickSortSet` | `[]TypeOK`, `[]WellLinked`, that the list refines `SortedLexemes`, `AppendRepairsTheWalk` |
| `ContextIsTyped`, `BufferIsAWindow`, `LexemeTextsAreFaithful`, `ConsumptionFollowsReading` | `AnalyzeContext` | `[]ContextTypeOK`, `[]BufferWindow`, `[]TextsFaithful`, `[]ConsumedWasRead` |
| `CandidatesSurvive`, `ChoicesAreSegmentations`, `ChoicesOutweigh`, `CoversWin`, `FallbacksCover` | `MCIKArbitrator` (the operators of `LexemePath` and `IKArbitrator` over any candidates) | all five invariants of its run |
| `EngineKeepsBufferWindow`, `EngineTextsAreFaithful`, `RefillsCutNothing` | `IKSegmenter` | the same window and texts for the engine, `[]RefillCutsNothing` |
| `EngineIsTyped`, `ArbitrationAlwaysFits` | `IKSegmenter` | `[]EngineTypeOK`, and that the guard `Output` puts on what the arbitrator leaves never stops the engine |
| `TokensComeInOrder`, `NoCharacterIsLost` | `IKSegmenter` | `[]TokensInOrder`, `[]CharactersCovered` |
| `PairsComeTogether` | `IKSegmenter` | `[]PairsStayTogether`: in max-word mode for any dictionaries, in smart mode for those that satisfy `WordsKeepPairs` |
| `QuantifiersAreJoined` | `IKSegmenter` | `[]CountsJoined`: in smart mode no numeral has the quantifier that was recognised right behind it handed out apart |
| `FinalOffsetOfPlainTexts` | `IKSegmenter` | `PlainTextsEndExactly`: what `FinalOffsetExact` says, of every text that ends plainly, whatever other texts come before and after it |
| `TokensReadTheirInput`, `PlaceholderIsEmpty` | `IKTokenizer` | `[]TermsFollowTheText`, `PlaceholderGivesNoToken` |
| `StreamKeepsEngine`, `StreamKeepsPairs`, `StreamJoinsQuantifiers`, `StreamIsTyped` | `IKTokenizer` | the engine's order, coverage, whole words, pairs and quantities under any sequence of the stream's calls, `[]TokenizerTypeOK` |
| `StopWordsAreCounted`, `TermsComeBack` | `IKTokenizer` | `[]IncrementsCountStopWords`, `[]TermsSurviveStrings` |
| `PlainTextsEndAtTheirLength` | `IKTokenizer` | `PlainTextsPublishLength`: the same of `FinalOffsetIsLength` |
| `FillAddsOneWord`, `DisableTakesOneWord` | `DictSegment` | what `fillSegment` and `disableSegment` do to any well-formed trie, in words |
| `DictTypes`, `WordsAccounted`, `MatchesInForce`, `DictionaryIsWordSet` | `LiveDictionary` | `[]DictTypeOK`, `[]WordsAccountedFor`, `[]MatchesWereInForce`, and that each dictionary refines `WordSet` |
| `MonitorDrivesDictionary`, `MonitorKeepsDictionary` | `Monitor` | that it refines `LiveDictionary`, whose theorems therefore hold of the whole |
| `MonitorIsTyped`, `OneDictionaryIsMade`, `MonitorsTrailInForce`, `ReloadsAreWhole` | `Monitor` | `[]MonitorTypeOK`, `[]OneDictionary`, `[]MonitorsTrail`, `ReloadIsWhole` |

**The list.** `WellLinked` is inductive with `TypeOK`. It speaks of the members
of the list (a history variable), not of the pointers of cells that were left
out, and of the members it says that `next` leads to the successor and that
`next[prev[c]] = c` — except at the two ends, whose outer pointers dangle after
a removal. The part about the walk (everything after `index` is after the
newcomer, which lies strictly before the tail) is what makes `index.next` non-nil
where the code dereferences it. The refinement maps the list to the set of its
members' lexemes, and a call to the moment it takes effect.

`AppendRepairsTheWalk` needs one thing more: a cell not yet linked points nowhere
(`FreshInv`), so that the new tail ends the walk. That the walk then meets every member
follows from `next[prev[c]] = c`: were some members missed, the first of them in the order
would be the next of one that was met. That it ends follows from counting, since
every step of it meets a cell not met before (`WalkEnds`).

**The context.** `CInv` is `ContextTypeOK`, `BufferWindow` and `ConsumedWasRead`
with what relates them. `TextsFaithful` alone is not inductive: it says nothing
of characters not yet walked over. `BufferWindow` says where the buffer's first
cell comes from (`Origin`), that what lies past the cursor is the raw input,
that what lies before it is the input regularised once, that results lie in the
part walked over, and that no result waits while the buffer is filled. Its
`MoveIsRepeatable` carries a failed read: the tail has been moved although the
cursor has not, and moving it again is harmless because the two places do not
overlap, which follows from where `needRefillBuffer` stops.

**The arbitrator** (`IKArbitratorProofs`). The loops of the code are folds in the
model. The library's induction theorems cannot be used, since they take an
operator; `UpTo` states induction over a set instead, and `FoldExists` and
`IterationExists` turn a fold into the sequence of the values it goes through, about
which lemmas can be proved position by position. The argument: a list of
candidates is in order (`InOrder`, the inductive invariant of the run's
specification), and adding to it keeps that (`AddLexemeFacts`). A lexeme that fits into
a segmentation fits at one of its two ends, so the list inserts it there
(`AddFits`), and taking one off the end leaves the fields agreeing with what
remains (`RemoveTailFacts`): the sums that `pathBegin`, `pathEnd` and
`payloadLength` cache are never stale. Each turn of `judge` ends with a way that
contains the lexeme it went back for, and the best kept never loses payload
(`TurnFacts`); every candidate is taken by the first pass or comes to such a turn
(`FirstWay`), so the outcome carries at least what any candidate carries. A
candidate that spans its stretch is polled first; no other way through carries as much
in as few lexemes (`NothingBeatsTheCover`). The stretches that `process` gathers hold the candidates in
order and end before the next begins (`StretchesGrow`), so the paths filed under
their begins do not meet (`ProcessFacts`); the mode decides only what becomes of a
stretch, not where it ends (`SmartFollowsMaxWord`).

**The engine.** Every action of `IKSegmenter` implies one of `AnalyzeContext`
(`Arbitrate` implies `Output`, whose guard demands that lexemes lie in the part
walked over), so the context's lemmas apply action by action. For
`RefillsCutNothing` the context is not enough: what makes a refill safe is that
whatever could be cut holds a lock. `LInv` says of the sub-segmenters that what is
open began in this buffer (`SegmentersOK`), that a hit is kept for every lasting
word the text has spelled so far (`InProgress`), through every reload, and that
where the buffer is left before its end nothing goes on after the cursor
(`NothingOpen`). The last is what "no lock is held" means in the text. The proof
made the statement exact: hits are dropped at a useless character, so a dictionary
word that contains one is never found, and a refill may cut it. `LastingWords`
leaves such words out.

The rest of the engine's proofs follow a character through a buffer. `OInv` says that the
candidates are a list in order of lexemes of the part looked at (`Lists`), that what is open
began with a character that is not useless (`OpenOK`), and that each letter or digit looked at
is in the mixed run or in a candidate; with `HistoryOK` it types all of the engine
(`EInv`). `outputToResult` is then taken apart: a list of results *lays out* a part of
the buffer (`Lays`) when it is in line, lies in that part and holds every character that comes
out alone; a path does (`PathLays`), and the walk over the paths does from each place to the
end, which is proved from the end backwards (`DownTo`, the induction that the recursive function
asks for). The paths of max-word mode lie apart, so that the walk steps into none of them and
nothing of them is left out (`WalkMeetsPaths`). `OrderOK` and `CoverOK` carry this to the tokens:
what waits comes after the last token, no token reaches beyond what was walked over, and
what was walked over and has to come out is in a token or waits. `compound` keeps both
(`JoinedKeepsLine`). `ArbitrationFits` closes a gap that the layering opens:
`AnalyzeContext` demands of its caller that lexemes lie in the part walked over, and
`Arbitrate` takes that demand over as a guard, which would hide a failure
instead of showing it; the theorem says that the guard is always true.

*Pairs.* That a surrogate pair comes out in one token is an agreement of all parts, and so is the
proof of `PairsStayTogether`. `HalvesOK` follows the pair while the buffer is looked at: no run of
letters or numerals and no quantifier in progress holds a half (`RunsPlain`; they are of letters,
digits and Chinese characters, and a half is neither), the surrogate pair segmenter remembers a
first half exactly when it is the character before (`Remembered`), so every pair is a
candidate of its own (`PairsListed`), and in smart mode every candidate is *neat* about every
pair (`ListedWhole`): it does not begin at the second half, and if it covers the first it ends with
the second. The arbitrator then has to be followed once more. In max-word mode nothing is left
out. In smart mode the paths of the stretches lie apart as well (`SmartLiesApart`), and
`ResolvedCovers` (`IKArbitratorProofs`) shows that a stretch of neat candidates with the pair
among them is resolved, by the fallback or by `judge`, to a path that has the pair within one
lexeme: in a path that has it not, the place of the pair is free, and every forward pass takes
whatever fits a free place. `compound` keeps together what it is given together, a refill
does not come between two halves, and a buffer used up whole may (`cuts`), which the property
allows. `PairsOK` carries the result to the tokens.

`WordsKeepPairs`, which smart mode needs, says that in the words of the main dictionaries a
character outside the BMP is the last one. No word of the dictionaries in `src/config` holds such
a character at all, and `MCIKSegmenter` assumes it of the dictionaries of its runs, whose words
end with one. It is not there for convenience: with the words *hl*中国 (*hl* one character outside the
BMP), 中国 and 国个个个个, smart mode cuts *hl*中国个个个个 into 中 and 国个个个个, and the pair is
in no token. The first word loses to the third, and `judge`, which tries one way for each
candidate left out, does not come to the pair with the third (TLC finds this in a few steps).

*Quantities.* `compound` looks at two or three results that wait, and a numeral could be the last
of one buffer with its quantifier the first of the next. `CountsJoined` says of any dictionary
that this does not happen: a token of type `TypeArabic` or `TypeCNum` never has one of type
`TypeCount` right behind it. A quantifier is looked for only where a candidate of the same
buffer ends or another quantifier goes on, so that none begins with the buffer
(`CountsListed`); the arbitrator and the walk make up words and single characters, but no
quantifiers (`ResolvedFrom`, `ArbitratedIsLate`); so the first result of a buffer is none that
touches the last token (`CountsOK`), and two results of one buffer that touch are joined. What is
left of `QuantitiesJoined` is what the sub-segmenters recognise and the arbitrator chooses, and
that is where the dictionary comes in. Quantifiers do come out alone in smart mode: 国一个 with the
word 国一 is 国一 and 个.

`EndOK` adds the final offset: nothing is consumed beyond the text's last character that is
not useless, and past it the useless ones are counted one by one, from one buffer to the next.
The walk counts exactly the cells behind its last result (`WalkCounts`), and candidates *end
tidily*: with a character that is not useless, or with a connector inside a run of letters and
digits (`EndsTidily`, part of `OInv`). That the last character is consumed is `CoverOK`. What
remains is a condition on the text at hand, which the theorems state as part of the property and
not as an assumption about the texts there are: its last character that is not
useless is Chinese or another CJK character or, in max-word mode, a letter or digit without a
connector behind it (`EndsPlainly`). Otherwise the property may fail: a connector after the
last letter counts twice (`MCIKSegmenterOffset`: 16 of its 156 texts do not end plainly), and in
smart mode a word that holds letters may win over the run that ends a text, whose last letter
is then dropped. Of the texts of `MCIKSegmenterSmart` two thirds end plainly, of those of
`MCIKTokenizer` all but the two that end with a surrogate.

**The tokenizer.** `TInv` adds to `CInv` that staged texts are texts. A term is
`Span` of the buffer at the moment of return; the window turns it into the
subsequence of the input. `PlaceholderInv` says that over the placeholder nothing
is read and nothing waits. `EngineInv` is the whole invariant of the engine, which a reset
establishes anew from wherever it finds it (`ResetStartsOver`), so that what is proved of the
engine alone holds under the stream (`StreamKeepsEngine`). `CountInv` says of a first buffer that
holds the text that the stop words since the last token are those that `poll` has counted.
`OffsetInv` carries the final offset from the end of the text to `End`: what `Exhausted` saves
stays until the next call, and the last token's end is not beyond it; a text none of which was
ever in the buffer is empty.
`TermsSurviveStrings` is arithmetic and two loops: decoding the UTF-16 of a term and encoding it again
goes from the end of the text to its beginning, the bytes of a code point are its
digits to base 64.

**The trie and the live dictionary** (both in `LiveDictionaryProofs`). A trie is
well formed (`TrieOK`) when paths are closed under prefixes and every node's array is
sorted or handed over to its map. `FillSegment` is a loop over the characters;
its theorem comes from the path it lays, by induction on its length. `DInv` has three parts. `TypeInv`
adds to the types that every trie in use or being filled is well formed. `WordsInv`
is what makes `WordsAccountedFor` inductive: an update takes the write lock once and goes on word by
word, so in the middle of one the words in force are those the tries hold with the words
still to come (`Pending`); and the tries of a load hold what was loaded so far, prefixes included.
`ReportInv` adds to `MatchesWereInForce` that a hit stands on a node of the tries it
began in and that their words have been in force since (`HitsInv`). The refinement to
`WordSet` needs `AnswersInv` too: prefixes that lookups answer are those of words that were
added.

**The monitors.** Each step of callers, servers and worker is one of
`LiveDictionary` or leaves it alone, which needs the types and which of them holds what
(`MTypeInv`: `Initial`'s lock belongs to the one that loads or schedules, the worker and a caller
never load both). `ScheduleInv` says that the tasks made and those still to be made are the remote lists, which gives
`OneDictionary`. `MonitorsTrail` is not inductive: between the HEAD and the recording the
answer must not be newer than what the reload reads, so `TrailInv` says that of the answer
for the lists already read. `LeftInv` and `FilledInv` say that what is loaded with the lines
still to be filled is what the sources read so far hold, which at the swap is
`ReloadIsWhole`. `MonitorAssumption` names what is needed of the constants: no two sources have one name, and
what files and lists hold is among the loads that `LiveDictionary` allows for.

Not proved, and only checked:

* the liveness properties (`AddReturns`, `NextReturns`, `InitialReturns`,
  `EveryChangeSettles`), which need fairness and ENABLED;
* `QuantitiesJoined`, but for the part that `compound` is responsible for (`CountsJoined`): it
  holds for the dictionaries of the runs and not for all. A word that
  competes with a quantity takes part in the arbitration, which looks for length and knows
  nothing of quantities: with 中国一 as the only word, 中国一一个 is cut into 中国一, 一 and 个.
  A condition that excludes it would have to keep numerals out of the words, and the words of
  `src/config/main.dic` are full of them;
* `FinalOffsetExact` and `FinalOffsetIsLength` as they stand: their theorems cover a text that
  ends plainly. The smart runs hold others, those that end with a letter, and there the property
  depends on the dictionary.

## 5. What is not modelled

* Finding the configuration file, walking directories, parsing XML: files are
  symbols that are there or not. A reload reads the configured paths again; that
  they change meanwhile is left out, and so is the quantifier dictionary (loaded
  once by `Initial`) and the dictionaries of surnames, suffixes and prepositions, which
  no lookup asks (that their files must be there is modelled).
* Decoding the body of an answer (charset, gzip): it gives lines, or the request
  counts as failed. A list cut short at a line longer than a megabyte, where the scanner
  gives up and its error is not asked for (`dictionary.go:538`). A body that never
  ends. Headers are compared as symbols:
  neither their case nor the resolution of a date of one second is in the model.
* Polling disabled does not mean that remote words are not loaded: `Initial`
  downloads them all the same, and so does the model; only the monitors are missing.
* Lower-casing and trimming beyond ASCII.
* `AddWords` and the others are in `LiveDictionary` only: `Monitor` and the engine's
  dictionaries change by reloads. That a reload forgets what was added at run
  time is what `WordsAccountedFor` says of `Publish`.
* Switching `UseSmart` or `EnableLowercase` in the middle of a text: the code reads
  them afresh from a configuration that streams share, but sets them only before it
  hands a stream out.
* The capacity of the term buffer, which no caller can see; the factories that choose the
  mode by the name they are registered under; `String` methods and logging.
* Overflow: positions are 64-bit integers in the code; a text would have to be
  longer than 2^62 units. `getXWeight` saturates, and so does the model.

## 6. Plan

1. Done: the list, the context, the arbitrator, the sub-segmenters, the engine,
   the tokenizer; the theorems above.
2. Done: the trie with its abstract specification, the live dictionary, `Initial` and
   the monitors, the engine and the tokenizer over a dictionary that is reloaded,
   the conversions of text.
3. Done: the trie and the live dictionary, the monitors as a refinement of it with their
   invariants, the arbitrator over any candidates, `RefillCutsNothing`.
4. Done: the list's walk, the types of the engine and the tokenizer, the order of
   the tokens, the coverage of the characters, the positions of stop words, terms and
   strings, the final offset.
5. Done: the surrogate pairs, from the segmenters through the arbitration to the stream;
   quantifiers and their numerals.
6. Factories: which mode and which configuration an analyzer gets.
