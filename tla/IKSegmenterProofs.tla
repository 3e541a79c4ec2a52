--------------------------- MODULE IKSegmenterProofs ---------------------------
(***************************************************************************)
(* What the whole engine keeps, for every text, dictionary, buffer size    *)
(* and reload, in this order:                                              *)
(*   - the window of AnalyzeContextProofs: every step of the engine is one *)
(*     of the context, or leaves the context alone;                        *)
(*   - the locks: where a buffer is left before its end nothing is open;   *)
(*   - the candidates: a list in order, of lexemes of this buffer, from    *)
(*     which the types of all the variables follow;                        *)
(*   - what the walk over the arbitrated paths puts out: results in line   *)
(*     that leave out no character that must come out;                     *)
(*   - the order of the tokens, and that no character is lost;             *)
(*   - the surrogate pairs: each is a candidate, no candidate cuts one,    *)
(*     and the arbitration and compound leave it within one result;        *)
(*   - numerals and quantifiers: none begins a buffer, so that compound,   *)
(*     which joins results of one buffer, leaves none behind its numeral;  *)
(*   - the final offset of a text whose last character comes out for       *)
(*     certain.                                                            *)
(* CInv, LInv, OInv, HistoryOK, OrderOK, CoverOK and EndOK are the parts   *)
(* of the inductive invariant, each of which uses the ones before it;      *)
(* HalvesOK and PairsOK are those of the pairs and CountsOK that of the    *)
(* quantifiers, beside them.                                               *)
(***************************************************************************)
EXTENDS IKSegmenter, AnalyzeContextProofs, IKArbitratorProofs

(* The engine starts with its context in its first state.                  *)
LEMMA EngineInitEstablishesCInv == EngineInit => CInv
BY InitEstablishesCInv DEF EngineInit

(* The locks the sub-segmenters hold are among their names.                *)
LEMMA AnalyzeCharacterPreservesCInv ==
  ASSUME CInv, AnalyzeCharacter
  PROVE  CInv'
<1>1. \E locks \in SUBSET SubSegmenters : Analyze(locks)
  BY DEF AnalyzeCharacter
<1> QED
  BY <1>1, AnalyzePreservesCInv

(* What the arbitrator leaves is put out as it is: Output asks for         *)
(* lexemes of the part walked over, and a count.                           *)
LEMMA ArbitratePreservesCInv ==
  ASSUME CInv, Arbitrate
  PROVE  CInv'
<1>1. \E rs, trailing : Output(rs, trailing)
  BY DEF Arbitrate
<1>2. ASSUME NEW rs, NEW trailing, Output(rs, trailing)
      PROVE  trailing \in Nat
  BY <1>2 DEF Output
<1> QED
  BY <1>1, <1>2, OutputPreservesCInv

(* Taking a result is Consume with the stop word looked up.                *)
LEMMA TakeResultPreservesCInv ==
  ASSUME CInv, TakeResult
  PROVE  CInv'
<1> DEFINE l == Head(Compound(results))
           stopWord == IsStopWord(l.begin, l.length)
<1>1. Consume(stopWord)
  BY DEF TakeResult
<1>2. stopWord \in BOOLEAN
  BY DEF IsStopWord, IsMatch
<1> HIDE DEF stopWord
<1> QED
  BY <1>1, <1>2, ConsumePreservesCInv

(* A step that leaves the context as it is.                                *)
LEMMA StutterPreservesCInv ==
  ASSUME CInv, UNCHANGED cvars
  PROVE  CInv'
<1>1. [ContextNext]_cvars
  OBVIOUS
<1> QED
  BY <1>1, NextPreservesCInv

(* Every step of the engine preserves the invariant of its context.        *)
LEMMA EngineNextPreservesCInv == CInv /\ [EngineNext]_engine => CInv'
<1> SUFFICES ASSUME CInv, [EngineNext]_engine PROVE CInv'
  OBVIOUS
<1>1. ASSUME NEW text \in LaterInputs, EngineReset(text) PROVE CInv'
  BY <1>1, SegmenterAssumption, ResetPreservesCInv DEF EngineReset
<1>2. CASE NextCalled
  BY <1>2, CallNextPreservesCInv DEF NextCalled
<1>3. CASE TakeResult
  BY <1>3, TakeResultPreservesCInv
<1>4. CASE NoMoreResults
  BY <1>4, NoResultPreservesCInv DEF NoMoreResults
<1>5. ASSUME NEW n \in ReadCounts, FillBuffer(n) PROVE CInv'
  BY <1>5, FillPreservesCInv DEF FillBuffer
<1>6. CASE Exhausted
  BY <1>6, EndOfInputPreservesCInv DEF Exhausted
<1>7. CASE FillFails
  BY <1>7, ReadFailsPreservesCInv DEF FillFails
<1>8. CASE AnalyzeCharacter
  BY <1>8, AnalyzeCharacterPreservesCInv
<1>9. CASE Arbitrate
  BY <1>9, ArbitratePreservesCInv
<1>10. CASE DictionaryReloaded
  BY <1>10, StutterPreservesCInv DEF DictionaryReloaded
<1>11. CASE UNCHANGED engine
  BY <1>11, StutterPreservesCInv DEF engine
<1> QED
  BY <1>1, <1>2, <1>3, <1>4, <1>5, <1>6, <1>7, <1>8, <1>9, <1>10, <1>11
  DEF EngineNext, InsideCall

(* It holds throughout.                                                    *)
LEMMA EngineCInvAlways == EngineSpec => []CInv
<1>1. EngineInit => CInv
  BY EngineInitEstablishesCInv
<1>2. CInv /\ [EngineNext]_engine => CInv'
  BY EngineNextPreservesCInv
<1> QED
  BY <1>1, <1>2, PTL DEF EngineSpec

(* The engine, with its real locks and its real results, never loses, reads *)
(* twice or regularises twice a character of the input.                     *)
THEOREM EngineKeepsBufferWindow == EngineSpec => []BufferWindow
<1>1. CInv => BufferWindow
  BY DEF CInv
<1> QED
  BY <1>1, EngineCInvAlways, PTL

(* The text the engine gives a token, stop words and compounds included, is *)
(* the text of the input at the token's offsets.                            *)
THEOREM EngineTextsAreFaithful == EngineSpec => []TextsFaithful
<1>1. CInv => TextsFaithful
  BY CInvGivesFaithfulTexts
<1> QED
  BY <1>1, EngineCInvAlways, PTL

-----------------------------------------------------------------------------
(* What the sub-segmenters keep from one character of a buffer to the next,*)
(* and what it means that they hold no lock.                               *)

(* The characters of the buffer that they have seen.                       *)
Looked == IF pc = "analyze" THEN cursor ELSE IF pc = "arbitrate" THEN cursor + 1 ELSE 0

(* A run of characters within the first n of the buffer.                   *)
RunsBefore(n) == {NoRun} \cup {run \in [start : Nat, end : Nat] :
                                  run.start <= run.end /\ run.end < n}

(* What is open was opened in this buffer.                                 *)
SegmentersOK(n) ==
    /\ letter \in [english : RunsBefore(n), arabic : RunsBefore(n), mix : RunsBefore(n)]
    /\ surrogate \in [start : (-1)..(n - 1), end : (-1)..(n - 1), hasHighSurrogate : BOOLEAN]
    /\ surrogate.hasHighSurrogate => surrogate.start # -1
    /\ quantifier \in [number : RunsBefore(n), countHits : SUBSET (0..(n - 1))]
    /\ cjk \subseteq [begin : 0..(n - 1), generation : DOMAIN Dictionaries]

(* The first n characters of w are those from the k-th of the buffer on,   *)
(* and w goes on.                                                          *)
Spelled(w, k, n) == Len(w) > n /\ \A j \in 1..n : segmentBuff[k + j - 1] = w[j]

(* A hit is kept for every lasting word that could still be found.         *)
InProgress(n) ==
    \A w \in LastingWords, k \in 0..(n - 1) :
       Spelled(w, k, n - k) => \E h \in cjk : h.begin = k

(* No lasting word, no run, no numeral and no pair goes on after the       *)
(* character under the cursor.                                             *)
NothingOpen ==
    /\ \A w \in LastingWords, k \in 0..cursor : ~Spelled(w, k, cursor + 1 - k)
    /\ charTypes[cursor] \notin {charArabic, charEnglish}
    /\ segmentBuff[cursor] \notin chnNumberChars
    /\ ~IsHighSurrogate(segmentBuff[cursor])

(* The invariant of the locks: what the segmenters hold was met in this    *)
(* buffer, each lasting word that may go on keeps its hit, and nothing is  *)
(* open where a buffer is left before its end.                             *)
LInv == /\ generation \in DOMAIN Dictionaries
        /\ SegmentersOK(Looked)
        /\ pc = "analyze" => InProgress(cursor)
        /\ pc = "arbitrate" /\ cursor < available - 1 => NothingOpen

(* A run that goes on, and one that ended.                                 *)
LEMMA PassFacts ==
  ASSUME cursor \in Nat, NEW run \in RunsBefore(cursor), NEW opens, NEW extends, NEW holds
  PROVE  /\ Pass(run, opens, extends, holds).run \in RunsBefore(cursor + 1)
         /\ opens /\ extends /\ ~IsBufferConsumed => Pass(run, opens, extends, holds).run # NoRun
<1> DEFINE grown == IF run = NoRun /\ opens THEN [start |-> cursor, end |-> cursor]
                    ELSE IF run # NoRun /\ extends THEN [run EXCEPT !.end = cursor]
                    ELSE IF run # NoRun /\ holds THEN run
                    ELSE NoRun
<1>1. NoRun.end = -1 /\ RunsBefore(cursor) \subseteq RunsBefore(cursor + 1)
      /\ NoRun \in RunsBefore(cursor + 1)
  BY DEF NoRun, RunsBefore
<1>2. run # NoRun => /\ [run EXCEPT !.end = cursor] \in RunsBefore(cursor + 1)
                     /\ [run EXCEPT !.end = cursor].end = cursor
  BY DEF RunsBefore
<1>3. [start |-> cursor, end |-> cursor] \in RunsBefore(cursor + 1)
      /\ [start |-> cursor, end |-> cursor].end = cursor
  BY DEF RunsBefore
<1>4. grown \in RunsBefore(cursor + 1) /\ (opens /\ extends => grown.end = cursor)
  BY <1>1, <1>2, <1>3
<1>5. Pass(run, opens, extends, holds).run = IF IsBufferConsumed THEN NoRun ELSE grown
  BY DEF Pass
<1> HIDE DEF grown
<1> QED
  BY <1>1, <1>4, <1>5

(* The letter segmenter: its runs lie within what was looked at, and it    *)
(* locks the buffer on a letter or a digit that is not the last in it.     *)
LEMMA LetterFacts ==
  ASSUME cursor \in Nat, SegmentersOK(cursor)
  PROVE  LET s == LetterAnalyze(letter).state
         IN  /\ s \in [english : RunsBefore(cursor + 1), arabic : RunsBefore(cursor + 1),
                       mix : RunsBefore(cursor + 1)]
             /\ ~IsBufferConsumed /\ CurrentCharType \in {charArabic, charEnglish}
                   => LetterLocks(s)
<1>1. /\ letter.english \in RunsBefore(cursor) /\ letter.arabic \in RunsBefore(cursor)
      /\ letter.mix \in RunsBefore(cursor)
  BY DEF SegmentersOK
<1>2. EnglishPass(letter.english).run \in RunsBefore(cursor + 1)
  BY <1>1, PassFacts DEF EnglishPass
<1>3. ArabicPass(letter.arabic).run \in RunsBefore(cursor + 1)
  BY <1>1, PassFacts DEF ArabicPass
<1>4. /\ MixPass(letter.mix).run \in RunsBefore(cursor + 1)
      /\ ~IsBufferConsumed /\ CurrentCharType \in {charArabic, charEnglish}
            => MixPass(letter.mix).run # NoRun
  BY <1>1, PassFacts DEF MixPass
<1>5. LetterAnalyze(letter).state = [english |-> EnglishPass(letter.english).run,
                                     arabic  |-> ArabicPass(letter.arabic).run,
                                     mix     |-> MixPass(letter.mix).run]
  BY DEF LetterAnalyze
<1> QED
  BY <1>2, <1>3, <1>4, <1>5 DEF LetterLocks, NoLetters

(* The surrogate pair segmenter: it remembers a place that was looked at,  *)
(* and it locks the buffer on a high surrogate that is not the last.       *)
LEMMA SurrogateFacts ==
  ASSUME cursor \in Nat, SegmentersOK(cursor)
  PROVE  LET s == SurrogateAnalyze(surrogate).state
         IN  /\ s \in [start : (-1)..cursor, end : (-1)..cursor, hasHighSurrogate : BOOLEAN]
             /\ s.hasHighSurrogate => s.start # -1
             /\ ~IsBufferConsumed /\ IsHighSurrogate(CurrentChar) => SurrogateLocks(s)
<1> DEFINE high == IsHighSurrogate(CurrentChar)
           pair == IsLowSurrogate(CurrentChar) /\ surrogate.hasHighSurrogate
<1>1. /\ surrogate \in [start : (-1)..(cursor - 1), end : (-1)..(cursor - 1),
                        hasHighSurrogate : BOOLEAN]
      /\ (-1)..(cursor - 1) \subseteq (-1)..cursor
  BY DEF SegmentersOK
<1>2. SurrogateAnalyze(surrogate).state
         = IF high /\ ~IsBufferConsumed
           THEN [start |-> cursor, end |-> surrogate.end, hasHighSurrogate |-> TRUE]
           ELSE IF pair
           THEN [start |-> surrogate.start, end |-> cursor, hasHighSurrogate |-> FALSE]
           ELSE NoSurrogate
  BY <1>1 DEF SurrogateAnalyze
<1> QED
  BY <1>1, <1>2 DEF SurrogateLocks, NoSurrogate

(* The quantifier segmenter: its runs and hits lie within what was looked  *)
(* at, and it locks the buffer on a numeral that is not the last.          *)
LEMMA QuantifierFacts ==
  ASSUME cursor \in Nat, SegmentersOK(cursor), NEW org
  PROVE  LET s == QuantifierAnalyze(quantifier, org).state
         IN  /\ s \in [number : RunsBefore(cursor + 1), countHits : SUBSET (0..cursor)]
             /\ /\ ~IsBufferConsumed /\ CurrentCharType = charChinese
                /\ CurrentChar \in chnNumberChars
                => QuantifierLocks(s)
<1> DEFINE number == CNumberPass(quantifier.number)
           starts == quantifier.countHits
<1>1. quantifier.number \in RunsBefore(cursor) /\ starts \subseteq 0..cursor
  BY DEF SegmentersOK
<1>2. /\ number.run \in RunsBefore(cursor + 1)
      /\ /\ ~IsBufferConsumed /\ CurrentCharType = charChinese /\ CurrentChar \in chnNumberChars
         => number.run # NoRun
  BY <1>1, PassFacts DEF CNumberPass
<1> HIDE DEF number
<1>3. ASSUME NEW q PROVE ProcessCount(number.run, starts, q).hits \subseteq 0..cursor
  <2>1. \A hits : Pending(QuantifierWords, hits) \subseteq hits
    BY DEF Pending
  <2> QED
    BY <1>1, <2>1 DEF ProcessCount
<1>4. \E q : QuantifierAnalyze(quantifier, org).state
                = [number |-> number.run, countHits |-> ProcessCount(number.run, starts, q).hits]
  BY DEF QuantifierAnalyze, number
<1> HIDE DEF starts
<1> QED
  BY <1>2, <1>3, <1>4 DEF QuantifierLocks, NoQuantity

(* The dictionaries in force, one after the other, and their words.        *)
LEMMA DictionaryFacts ==
  /\ Len(Dictionaries) \in Nat \ {0} /\ DOMAIN Dictionaries = 1..Len(Dictionaries)
  /\ \A g \in DOMAIN Dictionaries : MainWords(g) \subseteq Seq(Char) \ {<<>>}
<1> DEFINE WordSets == SUBSET (Seq(Char) \ {<<>>})
           Pair == [main : WordSets, stop : WordSets]
<1>1. Dictionaries \in Seq(Pair) /\ Dictionaries # <<>>
  BY DictionaryAssumption
<1>2. \A d \in Pair : d.main \in WordSets
  OBVIOUS
<1> HIDE DEF Pair
<1>3. Len(Dictionaries) \in Nat \ {0} /\ DOMAIN Dictionaries = 1..Len(Dictionaries)
  BY <1>1, EmptySeq
<1>4. \A g \in DOMAIN Dictionaries : Dictionaries[g] \in Pair
  BY <1>1, <1>3
<1> QED
  BY <1>2, <1>3, <1>4 DEF MainWords

(* The lasting words are the words of every dictionary that hold no        *)
(* useless character.                                                      *)
LEMMA LastingWordsFacts ==
  ASSUME generation \in DOMAIN Dictionaries
  PROVE  /\ LastingWords \subseteq Seq(Char)
         /\ \A w : w \in LastingWords
                     <=> /\ \A g \in DOMAIN Dictionaries : w \in MainWords(g)
                         /\ \A i \in DOMAIN w : IdentifyCharType(w[i]) # charUseless
BY DictionaryFacts DEF LastingWords

(* Each lasting word that may still go on after the character under the    *)
(* cursor keeps its hit.                                                   *)
LEMMA CJKFacts ==
  ASSUME cursor \in Nat, generation \in DOMAIN Dictionaries, SegmentersOK(cursor),
         InProgress(cursor), charTypes[cursor] = IdentifyCharType(segmentBuff[cursor])
  PROVE  /\ CJKAnalyze(cjk).hits \subseteq [begin : 0..cursor, generation : DOMAIN Dictionaries]
         /\ ~IsBufferConsumed =>
               \A w \in LastingWords, k \in 0..cursor :
                  Spelled(w, k, cursor + 1 - k) => \E h \in CJKAnalyze(cjk).hits : h.begin = k
<1> DEFINE here == [begin |-> cursor, generation |-> generation]
           tried == IF CurrentCharType = charUseless THEN {} ELSE cjk \cup {here}
           longer(h) == IsPrefixOf(MainWords(h.generation), h.begin, HitLength(h.begin))
<1>1. CJKAnalyze(cjk).hits = IF IsBufferConsumed THEN {} ELSE {h \in tried : longer(h)}
  BY DEF CJKAnalyze
<1>2. cjk \subseteq [begin : 0..(cursor - 1), generation : DOMAIN Dictionaries]
  BY DEF SegmentersOK
<1>3. here \in [begin : 0..cursor, generation : DOMAIN Dictionaries] /\ here.begin = cursor
  OBVIOUS
<1>4. \A h \in cjk : h \in [begin : 0..cursor, generation : DOMAIN Dictionaries]
  BY <1>2
<1>5. tried \subseteq [begin : 0..cursor, generation : DOMAIN Dictionaries]
  BY <1>3, <1>4
<1>6. ASSUME ~IsBufferConsumed, NEW w \in LastingWords, NEW k \in 0..cursor,
             Spelled(w, k, cursor + 1 - k)
      PROVE  \E h \in CJKAnalyze(cjk).hits : h.begin = k
  <2> DEFINE n == cursor + 1 - k
  <2>1. /\ w \in Seq(Char) /\ Len(w) \in Nat /\ DOMAIN w = 1..Len(w)
        /\ \A g \in DOMAIN Dictionaries : w \in MainWords(g)
        /\ \A i \in DOMAIN w : IdentifyCharType(w[i]) # charUseless
    BY LastingWordsFacts
  <2>2. n \in Nat \ {0} /\ Len(w) > n /\ \A j \in 1..n : segmentBuff[k + j - 1] = w[j]
    BY <1>6 DEF Spelled
  <2>3. tried = cjk \cup {here}
    <3>1. n \in 1..n /\ k + n - 1 = cursor /\ n \in DOMAIN w
      BY <2>1, <2>2
    <3>2. segmentBuff[cursor] = w[n]
      BY <2>2, <3>1
    <3> QED
      BY <2>1, <3>1, <3>2 DEF CurrentCharType
  <2>4. PICK h \in tried : h.begin = k
    <3>1. CASE k = cursor
      BY <2>3, <3>1, <1>3
    <3>2. CASE k # cursor
      <4>1. k \in 0..(cursor - 1) /\ cursor - k \in Nat /\ cursor - k <= n
        BY <3>2
      <4>2. Spelled(w, k, cursor - k)
        BY <2>1, <2>2, <4>1 DEF Spelled
      <4> QED
        BY <2>3, <4>1, <4>2 DEF InProgress
    <3> QED
      BY <3>1, <3>2
  <2>5. w \in MainWords(h.generation)
    BY <1>5, <2>1, <2>4
  <2>6. SubSeq(w, 1, n) = Span(k, n)
    <3>1. /\ SubSeq(w, 1, n) \in Seq(Char) /\ Len(SubSeq(w, 1, n)) = n
          /\ \A j \in 1..n : SubSeq(w, 1, n)[j] = w[j]
      <4>1. \A j \in 1..n : w[j] \in Char
        BY <2>1, <2>2
      <4> HIDE DEF n
      <4> QED
        BY <2>1, <2>2, <4>1, SubSeqProperties
    <3>2. SubSeq(w, 1, n) = [j \in 1..n |-> SubSeq(w, 1, n)[j]]
      <4> HIDE DEF n
      <4> QED
        BY <2>2, <3>1
    <3> HIDE DEF n
    <3> QED
      BY <2>2, <3>1, <3>2 DEF Span
  <2>7. longer(h)
    <3>1. HitLength(h.begin) = n
      BY <2>4 DEF HitLength
    <3> HIDE DEF n
    <3> QED
      BY <2>2, <2>4, <2>5, <2>6, <3>1 DEF IsPrefixOf
  <2> HIDE DEF longer, tried
  <2> QED
    BY <1>1, <1>6, <2>4, <2>7
<1> HIDE DEF tried, longer
<1> QED
  BY <1>1, <1>5, <1>6

(* At the start nothing is open.                                           *)
LEMMA LInvInit == EngineInit => LInv
<1> SUFFICES ASSUME EngineInit PROVE LInv
  OBVIOUS
<1>1. generation \in DOMAIN Dictionaries /\ pc = "idle" /\ Looked = 0
  BY DictionaryFacts DEF EngineInit, ContextInit, Looked
<1>2. SegmentersOK(0)
  BY DEF EngineInit, SegmentersOK, RunsBefore, NoLetters, NoSurrogate, NoQuantity, NoRun
<1> QED
  BY <1>1, <1>2 DEF LInv

(* The sub-segmenters see a character: what they keep, or, when they hold  *)
(* no lock, that nothing is open.                                          *)
LEMMA AnalyzeCharacterKeepsLInv ==
  ASSUME CInv, LInv, AnalyzeCharacter
  PROVE  LInv'
<1>1. /\ pc = "analyze" /\ cursor \in Nat /\ available \in Nat /\ cursor < available
      /\ segmentBuff \in [Index -> Char] /\ available <= BuffSize
  BY DEF AnalyzeCharacter, Analyze, CInv, ContextTypeOK, BufferWindow, ReadContiguously, Loaded
<1>2. charTypes[cursor] = IdentifyCharType(segmentBuff[cursor])
  BY <1>1 DEF CInv, BufferWindow, ProcessedIsRegular, Loaded, Needed
<1>3. /\ generation \in DOMAIN Dictionaries /\ SegmentersOK(cursor) /\ InProgress(cursor)
  BY <1>1 DEF LInv, Looked
<1>4. PICK org, locks :
         /\ letter' = LetterAnalyze(letter).state
         /\ surrogate' = SurrogateAnalyze(surrogate).state
         /\ quantifier' = QuantifierAnalyze(quantifier, org).state
         /\ cjk' = CJKAnalyze(cjk).hits
         /\ Analyze(locks)
         /\ locks = {name \in SubSegmenters :
                       \/ name = letterSegmenterName /\ LetterLocks(letter')
                       \/ name = surrogatePairSegmenterName /\ SurrogateLocks(surrogate')
                       \/ name = quanSegmenterName /\ QuantifierLocks(quantifier')
                       \/ name = cjkSegmenterName /\ CJKLocks(cjk')}
         /\ generation' = generation
  BY DEF AnalyzeCharacter
<1>5. /\ letter' \in [english : RunsBefore(cursor + 1), arabic : RunsBefore(cursor + 1),
                      mix : RunsBefore(cursor + 1)]
      /\ ~IsBufferConsumed /\ CurrentCharType \in {charArabic, charEnglish} => LetterLocks(letter')
  BY <1>1, <1>3, <1>4, LetterFacts
<1>6. /\ surrogate' \in [start : (-1)..cursor, end : (-1)..cursor, hasHighSurrogate : BOOLEAN]
      /\ surrogate'.hasHighSurrogate => surrogate'.start # -1
      /\ ~IsBufferConsumed /\ IsHighSurrogate(CurrentChar) => SurrogateLocks(surrogate')
  BY <1>1, <1>3, <1>4, SurrogateFacts
<1>7. /\ quantifier' \in [number : RunsBefore(cursor + 1), countHits : SUBSET (0..cursor)]
      /\ /\ ~IsBufferConsumed /\ CurrentCharType = charChinese
         /\ CurrentChar \in chnNumberChars
         => QuantifierLocks(quantifier')
  BY <1>1, <1>3, <1>4, QuantifierFacts
<1>8. /\ cjk' \subseteq [begin : 0..cursor, generation : DOMAIN Dictionaries]
      /\ ~IsBufferConsumed =>
            \A w \in LastingWords, k \in 0..cursor :
               Spelled(w, k, cursor + 1 - k) => \E h \in cjk' : h.begin = k
  BY <1>1, <1>2, <1>3, <1>4, CJKFacts
<1>9. LastingWords' = LastingWords
  BY <1>4 DEF LastingWords
<1>10. ASSUME Looked' = cursor + 1 PROVE SegmentersOK(Looked)'
  <2>1. Looked' - 1 = cursor /\ (-1)..(Looked' - 1) = (-1)..cursor /\ 0..(Looked' - 1) = 0..cursor
    BY <1>1, <1>10
  <2>2. RunsBefore(Looked') = RunsBefore(cursor + 1)
    BY <1>10
  <2>3. /\ letter' \in [english : RunsBefore(Looked'), arabic : RunsBefore(Looked'),
                        mix : RunsBefore(Looked')]
        /\ quantifier' \in [number : RunsBefore(Looked'), countHits : SUBSET (0..(Looked' - 1))]
    BY <1>5, <1>7, <2>1, <2>2
  <2>4. /\ surrogate' \in [start : (-1)..(Looked' - 1), end : (-1)..(Looked' - 1),
                          hasHighSurrogate : BOOLEAN]
        /\ surrogate'.hasHighSurrogate => surrogate'.start # -1
        /\ cjk' \subseteq [begin : 0..(Looked' - 1), generation : DOMAIN Dictionaries]
    BY <1>6, <1>8, <2>1
  <2> QED
    BY <2>3, <2>4 DEF SegmentersOK
<1>11. CASE NeedRefillBuffer(locks) \/ cursor >= available - 1
  <2>1. /\ pc' = "arbitrate" /\ UNCHANGED <<cursor, available, segmentBuff, charTypes>>
    BY <1>4, <1>11 DEF Analyze
  <2>2. Looked' = cursor + 1
    BY <2>1 DEF Looked
  <2>3. ASSUME cursor < available - 1 PROVE NothingOpen'
    <3>1. locks = {} /\ ~IsBufferConsumed
      BY <1>1, <1>11, <2>3 DEF NeedRefillBuffer, IsBufferConsumed
    <3>2. /\ ~LetterLocks(letter') /\ ~SurrogateLocks(surrogate')
          /\ ~QuantifierLocks(quantifier') /\ ~CJKLocks(cjk')
      BY <1>4, <3>1, SegmenterAssumption
    <3>3. CurrentCharType \notin {charArabic, charEnglish} /\ ~IsHighSurrogate(CurrentChar)
          /\ ~(CurrentCharType = charChinese /\ CurrentChar \in chnNumberChars)
      BY <1>5, <1>6, <1>7, <3>1, <3>2
    <3>4. \A c \in chnNumberChars : IdentifyCharType(c) = charChinese
      BY DEF chnNumberChars, IdentifyCharType, ChineseBlocks
    <3>5. CurrentChar \notin chnNumberChars
      BY <1>2, <3>3, <3>4 DEF CurrentChar, CurrentCharType
    <3>6. \A w \in LastingWords, k \in 0..cursor : ~Spelled(w, k, cursor + 1 - k)
      BY <1>8, <3>1, <3>2 DEF CJKLocks
    <3>7. NothingOpen
      BY <3>3, <3>5, <3>6 DEF NothingOpen, CurrentChar, CurrentCharType
    <3> QED
      BY <1>9, <2>1, <3>7 DEF NothingOpen, Spelled
  <2> QED
    BY <1>3, <1>4, <1>10, <2>1, <2>2, <2>3 DEF LInv
<1>12. CASE ~(NeedRefillBuffer(locks) \/ cursor >= available - 1)
  <2>1. /\ pc' = "analyze" /\ cursor' = cursor + 1
        /\ segmentBuff' = [segmentBuff EXCEPT ![cursor + 1] =
                              Regularize(segmentBuff[cursor + 1], EnableLowercase)]
    BY <1>1, <1>4, <1>12 DEF Analyze
  <2>2. Looked' = cursor + 1
    BY <2>1 DEF Looked
  <2>3. InProgress(cursor)'
    <3>1. ~IsBufferConsumed
      BY <1>1, <1>12 DEF IsBufferConsumed
    <3>2. \A i \in 0..cursor : segmentBuff'[i] = segmentBuff[i]
      BY <1>1, <2>1 DEF Index
    <3>3. ASSUME NEW w \in LastingWords, NEW k \in 0..cursor, NEW n \in Nat, n = cursor + 1 - k,
                 Len(w) > n, \A j \in 1..n : segmentBuff'[k + j - 1] = w[j]
          PROVE  \E h \in cjk' : h.begin = k
      <4>1. \A j \in 1..n : segmentBuff[k + j - 1] = w[j]
        BY <1>1, <3>2, <3>3
      <4>2. Spelled(w, k, cursor + 1 - k)
        BY <3>3, <4>1 DEF Spelled
      <4> QED
        BY <1>8, <3>1, <4>2
    <3>4. 0..(cursor' - 1) = 0..cursor
      BY <1>1, <2>1
    <3>5. ASSUME NEW w \in LastingWords', NEW k \in 0..(cursor' - 1),
                 Len(w) > cursor' - k,
                 \A j \in 1..(cursor' - k) : segmentBuff'[k + j - 1] = w[j]
          PROVE  \E h \in cjk' : h.begin = k
      <4>1. w \in LastingWords /\ k \in 0..cursor /\ cursor' - k = cursor + 1 - k
            /\ cursor' - k \in Nat
        BY <1>1, <1>9, <2>1, <3>4, <3>5
      <4> QED
        BY <3>3, <3>5, <4>1
    <3> QED
      BY <3>5 DEF InProgress, Spelled
  <2> QED
    BY <1>3, <1>4, <1>10, <2>1, <2>2, <2>3 DEF LInv
<1> QED
  BY <1>11, <1>12

(* Every step keeps the invariant of the locks.                            *)
LEMMA LInvNext ==
  ASSUME CInv, LInv, [EngineNext]_engine
  PROVE  LInv'
<1>1. ASSUME pc \notin {"analyze", "arbitrate"}, pc' \notin {"analyze", "arbitrate"},
             UNCHANGED <<segmenters, generation>>
      PROVE  LInv'
  <2>1. Looked = 0 /\ Looked' = 0 /\ SegmentersOK(0)
    BY <1>1 DEF Looked, LInv
  <2> QED
    BY <1>1, <2>1 DEF LInv, SegmentersOK, segmenters
<1>2. ASSUME pc' \notin {"analyze", "arbitrate"}, SegmentersReset, UNCHANGED generation
      PROVE  LInv'
  <2>1. Looked' = 0
    BY <1>2 DEF Looked
  <2> QED
    BY <1>2, <2>1 DEF LInv, SegmentersOK, SegmentersReset, RunsBefore, NoLetters, NoSurrogate,
                      NoQuantity, NoRun
<1>3. ASSUME NEW text \in LaterInputs, EngineReset(text) PROVE LInv'
  <2>1. pc = "idle" /\ pc' = pc /\ SegmentersReset /\ UNCHANGED generation
    BY <1>3 DEF EngineReset, Reset
  <2> QED
    BY <1>2, <2>1
<1>4. CASE Arbitrate
  <2>1. pc' = "poll" /\ SegmentersReset /\ UNCHANGED generation
    BY <1>4 DEF Arbitrate, Output
  <2> QED
    BY <1>2, <2>1
<1>5. CASE NextCalled \/ TakeResult \/ NoMoreResults \/ Exhausted \/ FillFails
  <2>1. /\ pc \notin {"analyze", "arbitrate"} /\ pc' \notin {"analyze", "arbitrate"}
        /\ UNCHANGED <<segmenters, generation>>
    BY <1>5 DEF NextCalled, CallNext, TakeResult, Consume, NoMoreResults, NoResult, Exhausted,
                EndOfInput, FillFails, ReadFails
  <2> QED
    BY <1>1, <2>1
<1>6. ASSUME NEW n \in ReadCounts, FillBuffer(n) PROVE LInv'
  <2>1. pc = "fill" /\ pc' = "analyze" /\ cursor' = 0 /\ UNCHANGED <<segmenters, generation>>
    BY <1>6 DEF FillBuffer, Fill
  <2>2. Looked = 0 /\ Looked' = 0 /\ SegmentersOK(0)
    BY <2>1 DEF Looked, LInv
  <2>3. InProgress(cursor)'
    BY <2>1 DEF InProgress
  <2> QED
    BY <2>1, <2>2, <2>3 DEF LInv, SegmentersOK, segmenters
<1>7. CASE AnalyzeCharacter
  BY <1>7, AnalyzeCharacterKeepsLInv
<1>8. CASE DictionaryReloaded \/ UNCHANGED engine
  <2>1. /\ UNCHANGED <<pc, cursor, available, segmentBuff, charTypes, letter, surrogate,
                       quantifier, cjk>>
        /\ generation' \in DOMAIN Dictionaries
    <3>1. CASE DictionaryReloaded
      BY <3>1, DictionaryFacts DEF DictionaryReloaded, Swapped, LInv, cvars, buffer, segmenters
    <3>2. CASE UNCHANGED engine
      BY <3>2 DEF engine, LInv, cvars, buffer, segmenters
    <3> QED
      BY <1>8, <3>1, <3>2
  <2>2. LastingWords' = LastingWords
    BY <2>1 DEF LastingWords, LInv
  <2>3. Looked' = Looked
    BY <2>1 DEF Looked
  <2>4. NothingOpen => NothingOpen'
    BY <2>1, <2>2 DEF NothingOpen, Spelled
  <2>5. InProgress(cursor) => InProgress(cursor)'
    BY <2>1, <2>2 DEF InProgress, Spelled
  <2> QED
    BY <2>1, <2>3, <2>4, <2>5 DEF LInv, SegmentersOK
<1> QED
  BY <1>3, <1>4, <1>5, <1>6, <1>7, <1>8 DEF EngineNext, InsideCall

(* A cell walked over holds the character of the text.                     *)
LEMMA CellsAreText ==
  ASSUME CInv, Loaded, Needed, NEW i \in 0..cursor
  PROVE  /\ Origin + i + 1 \in DOMAIN input
         /\ segmentBuff[i] = Text[Origin + i + 1]
         /\ charTypes[i] = TypeAt(Origin + i + 1)
<1>1. /\ input \in Seq(Char) /\ Origin \in Nat /\ cursor \in Nat /\ available \in Nat
      /\ cursor < available /\ Origin + available = read /\ read <= Len(input)
  BY DEF CInv, ContextTypeOK, BufferWindow, ReadContiguously
<1>2. Origin + i + 1 \in DOMAIN input
  <2>1. DOMAIN input = 1..Len(input) /\ Len(input) \in Nat
    BY <1>1
  <2> QED
    BY <1>1, <2>1
<1>3. /\ segmentBuff[i] = Regularize(input[Origin + i + 1], EnableLowercase)
      /\ charTypes[i] = IdentifyCharType(segmentBuff[i])
  BY DEF CInv, BufferWindow, ProcessedIsRegular
<1> QED
  BY <1>2, <1>3 DEF Text, TypeAt

(* What is not open is not cut.                                            *)
LEMMA NothingOpenIsCut == CInv /\ LInv => RefillCutsNothing
<1> SUFFICES ASSUME CInv, LInv, pc = "arbitrate", cursor < available - 1
             PROVE  LET b == buffOffset + cursor + 1
                    IN  /\ \A w \in LastingWords : \A i \in (buffOffset + 1)..b :
                              ~ /\ CutAt(b, i, i + Len(w) - 1)
                                /\ i + Len(w) - 1 <= Len(input)
                                /\ SubSeq(Text, i, i + Len(w) - 1) = w
                        /\ ~({TypeAt(b), TypeAt(b + 1)} \subseteq {charArabic, charEnglish})
                        /\ ~(Text[b] \in chnNumberChars /\ Text[b + 1] \in chnNumberChars)
                        /\ ~(IsHighSurrogate(Text[b]) /\ IsLowSurrogate(Text[b + 1]))
  BY DEF RefillCutsNothing
<1> DEFINE b == buffOffset + cursor + 1
<1>1. /\ NothingOpen /\ Loaded /\ Needed /\ Origin = buffOffset
      /\ cursor \in Nat /\ buffOffset \in Nat /\ generation \in DOMAIN Dictionaries
  BY DEF LInv, Loaded, Needed, Origin, CInv, ContextTypeOK
<1>2. /\ segmentBuff[cursor] = Text[b] /\ charTypes[cursor] = TypeAt(b)
  BY <1>1, CellsAreText
<1>3. /\ TypeAt(b) \notin {charArabic, charEnglish} /\ Text[b] \notin chnNumberChars
      /\ ~IsHighSurrogate(Text[b])
  BY <1>1, <1>2 DEF NothingOpen
<1>4. ASSUME NEW w \in LastingWords, NEW i \in (buffOffset + 1)..b,
             CutAt(b, i, i + Len(w) - 1), i + Len(w) - 1 <= Len(input),
             SubSeq(Text, i, i + Len(w) - 1) = w
      PROVE  FALSE
  <2> DEFINE k == i - 1 - buffOffset
             n == cursor + 1 - k
  <2>1. w \in Seq(Char) /\ Len(w) \in Nat
    BY <1>1, LastingWordsFacts
  <2>2. k \in 0..cursor /\ n \in Nat \ {0} /\ Len(w) > n
    BY <1>1, <1>4, <2>1 DEF CutAt
  <2>3. ASSUME NEW j \in 1..n PROVE segmentBuff[k + j - 1] = w[j]
    <3>1. k + j - 1 \in 0..cursor /\ Origin + (k + j - 1) + 1 = i + j - 1
      BY <1>1, <2>2
    <3>2. segmentBuff[k + j - 1] = Text[i + j - 1]
      BY <1>1, <3>1, CellsAreText
    <3>3. SubSeq(Text, i, i + Len(w) - 1)[j] = Text[i + j - 1]
      <4>1. /\ i \in Int /\ i + Len(w) - 1 \in Int /\ (i + Len(w) - 1) - i + 1 = Len(w)
            /\ j \in 1..Len(w) /\ 1 <= i
        BY <1>1, <2>1, <2>2
      <4>2. SubSeq(Text, i, i + Len(w) - 1) = [m \in 1..Len(w) |-> Text[i + m - 1]]
        BY <4>1
      <4> QED
        BY <4>1, <4>2
    <3> QED
      BY <1>4, <3>2, <3>3
  <2>4. Spelled(w, k, n)
    BY <2>2, <2>3 DEF Spelled
  <2> HIDE DEF k
  <2> QED
    BY <1>1, <2>2, <2>4 DEF NothingOpen
<1> QED
  BY <1>3, <1>4

(* Where the buffer is topped up before its end, no word that both sides   *)
(* of every reload know, no run of letters and digits, no numeral and no   *)
(* surrogate pair is cut in two, for every text, dictionary, buffer size   *)
(* and critical zone (analyze_context.go:123, 136-137).                    *)
THEOREM RefillsCutNothing == EngineSpec => []RefillCutsNothing
BY NothingOpenIsCut, LInvInit, LInvNext, EngineInitEstablishesCInv,
   EngineNextPreservesCInv, PTL DEF EngineSpec

-----------------------------------------------------------------------------
(* What the sub-segmenters add.                                            *)

(* What additions one by one keep, the additions of a set keep.            *)
LEMMA AllAdded ==
  ASSUME NEW S, IsFiniteSet(S), NEW G, NEW q \in G, \A r \in G, l \in S : AddLexeme(r, l) \in G
  PROVE  AddAll(q, S) \in G
<1> DEFINE n == Cardinality(S)
           c(s) == CHOOSE x \in s : TRUE
           Eq(g) == g = [s \in SUBSET S |-> IF s = {} THEN q ELSE AddLexeme(g[s \ {c(s)}], c(s))]
           fold == CHOOSE g : Eq(g)
           Folds(m, g) == \A s \in SUBSET S : Cardinality(s) <= m =>
                             g[s] = IF s = {} THEN q ELSE AddLexeme(g[s \ {c(s)}], c(s))
           Folded == {m \in 0..n : \E g \in [SUBSET S -> G] : Folds(m, g)}
           Kept == {m \in 0..n : \A s \in SUBSET S : Cardinality(s) <= m => fold[s] \in G}
<1>1. AddAll(q, S) = fold[S]
  BY DEF AddAll, FoldSet, MapThenFoldSet
<1>2. n \in Nat /\ \A s \in SUBSET S : /\ Cardinality(s) \in 0..n
                                       /\ Cardinality(s) = 0 <=> s = {}
  <2>1. \A s \in SUBSET S : IsFiniteSet(s) /\ Cardinality(s) <= Cardinality(S)
    BY FS_Subset
  <2> QED
    BY <2>1, FS_CardinalityType, FS_EmptySet
<1>3. ASSUME NEW s \in SUBSET S, s # {}
      PROVE  c(s) \in s /\ c(s) \in S /\ s \ {c(s)} \in SUBSET S
             /\ Cardinality(s \ {c(s)}) = Cardinality(s) - 1
  <2>1. c(s) \in s
    BY <1>3
  <2> HIDE DEF c
  <2>2. IsFiniteSet(s)
    BY FS_Subset
  <2> QED
    BY <2>1, <2>2, FS_RemoveElement
<1> HIDE DEF c
<1>4. 0 \in Folded
  <2>1. [s \in SUBSET S |-> q] \in [SUBSET S -> G] /\ Folds(0, [s \in SUBSET S |-> q])
    BY <1>2
  <2> HIDE DEF Folds, n
  <2> QED
    BY <1>2, <2>1
<1>5. ASSUME NEW m \in 0..(n - 1), m \in Folded PROVE m + 1 \in Folded
  <2>1. PICK g \in [SUBSET S -> G] : Folds(m, g)
    BY <1>5
  <2> DEFINE h == [s \in SUBSET S |-> IF s = {} THEN q ELSE AddLexeme(g[s \ {c(s)}], c(s))]
  <2>2. h \in [SUBSET S -> G]
    <3>1. \A s \in SUBSET S : s # {} => AddLexeme(g[s \ {c(s)}], c(s)) \in G
      BY <1>3
    <3> QED
      BY <3>1
  <2>3. ASSUME NEW s \in SUBSET S, Cardinality(s) <= m + 1
        PROVE  h[s] = IF s = {} THEN q ELSE AddLexeme(h[s \ {c(s)}], c(s))
    <3>1. CASE s = {}
      BY <3>1
    <3>2. CASE s # {}
      <4> DEFINE r == s \ {c(s)}
      <4>1. r \in SUBSET S /\ Cardinality(r) <= m
        <5> HIDE DEF n
        <5> QED
          BY <1>2, <1>3, <2>3, <3>2
      <4>2. g[r] = IF r = {} THEN q ELSE AddLexeme(g[r \ {c(r)}], c(r))
        BY <2>1, <4>1
      <4>3. h[r] = g[r]
        BY <4>1, <4>2
      <4> QED
        BY <3>2, <4>3
    <3> QED
      BY <3>1, <3>2
  <2> HIDE DEF h, n
  <2>4. Folds(m + 1, h)
    BY <2>3
  <2>5. m + 1 \in 0..n
    BY <1>2
  <2> QED
    BY <2>2, <2>4, <2>5
<1>6. n \in Folded
  <2>1. n \in 0..n
    BY <1>2
  <2> HIDE DEF n, Folded
  <2> QED
    BY <1>2, <1>4, <1>5, <2>1, UpTo
<1>7. \E g : Eq(g)
  <2>1. PICK g \in [SUBSET S -> G] : Folds(n, g)
    BY <1>6
  <2>2. ASSUME NEW s \in SUBSET S
        PROVE  g[s] = IF s = {} THEN q ELSE AddLexeme(g[s \ {c(s)}], c(s))
    <3> HIDE DEF n
    <3>1. Cardinality(s) <= n
      BY <1>2
    <3> QED
      BY <2>1, <3>1
  <2>3. g = [s \in SUBSET S |-> IF s = {} THEN q ELSE AddLexeme(g[s \ {c(s)}], c(s))]
    BY <2>2
  <2> QED
    BY <2>3 DEF Eq
<1> HIDE DEF fold, Eq
<1>8. Eq(fold)
  BY <1>7 DEF fold
<1>9. \A s \in SUBSET S : fold[s] = IF s = {} THEN q ELSE AddLexeme(fold[s \ {c(s)}], c(s))
  BY <1>8 DEF Eq
<1>10. 0 \in Kept
  <2>1. ASSUME NEW s \in SUBSET S, Cardinality(s) <= 0 PROVE fold[s] \in G
    <3> HIDE DEF n
    <3>1. s = {}
      BY <1>2, <2>1
    <3> QED
      BY <1>9, <3>1
  <2> HIDE DEF n
  <2> QED
    BY <1>2, <2>1
<1>11. ASSUME NEW m \in 0..(n - 1), m \in Kept PROVE m + 1 \in Kept
  <2>1. ASSUME NEW s \in SUBSET S, Cardinality(s) <= m + 1 PROVE fold[s] \in G
    <3>1. CASE s = {}
      BY <1>9, <3>1
    <3>2. CASE s # {}
      <4>1. s \ {c(s)} \in SUBSET S /\ Cardinality(s \ {c(s)}) <= m /\ c(s) \in S
        <5> HIDE DEF n
        <5> QED
          BY <1>2, <1>3, <2>1, <3>2
      <4>2. fold[s \ {c(s)}] \in G
        BY <1>11, <4>1
      <4> QED
        BY <1>9, <3>2, <4>1, <4>2
    <3> QED
      BY <3>1, <3>2
  <2>2. m + 1 \in 0..n
    <3> HIDE DEF n
    <3> QED
      BY <1>2
  <2> QED
    BY <2>1, <2>2
<1>12. n \in Kept
  <2>1. n \in 0..n
    BY <1>2
  <2> HIDE DEF n, Kept
  <2> QED
    BY <1>2, <1>10, <1>11, <2>1, UpTo
<1> QED
  BY <1>1, <1>2, <1>12

(* f goes through the additions of a sequence.                             *)
IsAdding(f, q, ls) ==
    f[0] = q /\ \A m \in 1..Len(ls) : f[m] = AddLexeme(f[m - 1], ls[m])

(* AddLexemes adds one after the other.                                    *)
LEMMA AddingSteps ==
  ASSUME NEW S, NEW ls \in Seq(S), NEW G, NEW q \in G, \A r \in G, l \in S : AddLexeme(r, l) \in G
  PROVE  \E f \in [0..Len(ls) -> G] : IsAdding(f, q, ls) /\ f[Len(ls)] = AddLexemes(q, ls)
<1> DEFINE n == Len(ls)
           step == [x \in G \X (1..n) |-> AddLexeme(x[1], ls[x[2]])]
           Eq(g) == g = [s \in SUBSET DOMAIN ls |->
                           IF s = {} THEN q ELSE AddLexeme(g[s \ {Max(s)}], ls[Max(s)])]
           fold == CHOOSE g : Eq(g)
           f == [m \in 0..n |-> fold[1..m]]
           Kept == {m \in 0..n : f[m] \in G}
<1>1. n \in Nat /\ DOMAIN ls = 1..n /\ \A i \in 1..n : ls[i] \in S
  OBVIOUS
<1>2. AddLexemes(q, ls) = fold[DOMAIN ls]
  BY DEF AddLexemes, FoldLeft, MapThenFoldSet
<1>3. \E h : Eq(h)
  <2>1. step \in [G \X (1..n) -> G]
    BY <1>1
  <2> HIDE DEF Eq, fold, step, n, f
  <2>2. PICK h \in [SUBSET (1..n) -> G] : IsFold(h, n, q, step)
    BY <1>1, <2>1, FoldExists
  <2>3. ASSUME NEW s \in SUBSET (1..n), s # {}
        PROVE  Max(s) \in 1..n /\ step[<<h[s \ {Max(s)}], Max(s)>>] = AddLexeme(h[s \ {Max(s)}], ls[Max(s)])
    <3>1. Max(s) \in 1..n /\ s \ {Max(s)} \in SUBSET (1..n)
      BY <1>1, <2>3, SubsetMax DEF n
    <3>2. h[s \ {Max(s)}] \in G
      BY <2>2, <3>1
    <3> QED
      BY <3>1, <3>2 DEF step
  <2>4. \A s \in SUBSET (1..n) :
           h[s] = IF s = {} THEN q ELSE AddLexeme(h[s \ {Max(s)}], ls[Max(s)])
    BY <2>2, <2>3 DEF IsFold
  <2> QED
    BY <1>1, <2>2, <2>4 DEF Eq
<1> HIDE DEF fold, Eq
<1>4. Eq(fold)
  BY <1>3 DEF fold
<1>5. \A s \in SUBSET (1..n) : fold[s] = IF s = {} THEN q ELSE AddLexeme(fold[s \ {Max(s)}], ls[Max(s)])
  BY <1>1, <1>4 DEF Eq
<1>6. f[0] = q /\ f[n] = AddLexemes(q, ls)
  <2>1. 1..0 = {} /\ 1..0 \in SUBSET (1..n)
    OBVIOUS
  <2>2. f[0] = fold[1..0] /\ f[n] = fold[1..n]
    BY <1>1
  <2> HIDE DEF f, n
  <2> QED
    BY <1>1, <1>2, <1>5, <2>1, <2>2
<1>7. ASSUME NEW m \in 1..n PROVE f[m] = AddLexeme(f[m - 1], ls[m])
  <2>1. Max(1..m) = m /\ (1..m) \ {m} = 1..(m - 1) /\ 1..m # {}
    BY <1>1, PrefixMax
  <2>2. 1..m \in SUBSET (1..n) /\ m \in 0..n /\ m - 1 \in 0..n
    BY <1>1
  <2> QED
    BY <1>5, <2>1, <2>2
<1>8. DOMAIN f = 0..n /\ f = [m \in 0..n |-> f[m]]
  OBVIOUS
<1> HIDE DEF f
<1>9. 0 \in Kept
  <2> HIDE DEF n
  <2> QED
    BY <1>1, <1>6
<1>10. ASSUME NEW m \in 0..(n - 1), m \in Kept PROVE m + 1 \in Kept
  <2> HIDE DEF n
  <2>1. m + 1 \in 1..n /\ (m + 1) - 1 = m /\ m + 1 \in 0..n
    BY <1>1
  <2> QED
    BY <1>1, <1>7, <1>10, <2>1
<1>11. \A m \in 0..n : m \in Kept
  <2> HIDE DEF n, Kept
  <2> QED
    BY <1>1, <1>9, <1>10, UpTo
<1> HIDE DEF n
<1>12. f \in [0..n -> G]
  BY <1>8, <1>11
<1> QED
  BY <1>6, <1>7, <1>12 DEF IsAdding, n

(* The characters of which the letter segmenter makes runs, and those that *)
(* it mixes: a candidate ends with a character that is not useless, unless *)
(* it is made of such characters only.                                     *)
Alphanumeric(i) == charTypes[i] \in {charArabic, charEnglish}

Mixes(i) == Alphanumeric(i) \/ (charTypes[i] = charUseless /\ segmentBuff[i] \in letterConnectors)

EndsTidily(l) == \/ charTypes[End(l) - 1] # charUseless
                 \/ \A i \in l.begin..(End(l) - 1) : Mixes(i)

(* The lexemes of the first n characters, the candidates that may be made  *)
(* of them, and the characters of an open run.                             *)
Fits(n) == {l \in Lexeme : /\ l.offset = buffOffset /\ End(l) <= n
                           /\ charTypes[l.begin] # charUseless
                           /\ EndsTidily(l)}

(* The ordered lists of such lexemes.                                      *)
Lists(n) == {q \in Seq(Lexeme) : Ordered(q) /\ ToSet(q) \subseteq Fits(n)}

InRun(run, i)   == run.start <= i /\ i <= run.end
Spans(l, i)     == l.begin <= i /\ i < End(l)
Spanned(ls, i)  == \E k \in DOMAIN ls : Spans(ls[k], i)

(* What is open began with a character that is not useless, and if it is   *)
(* not a mixed run it goes up to one.                                      *)
OpensInText(run, mixed) ==
    run # NoRun => /\ charTypes[run.start] # charUseless
                   /\ ~mixed => charTypes[run.end] # charUseless
                   /\ mixed => \A i \in run.start..run.end : Mixes(i)

(* The lexemes of no run and of one.                                       *)
LEMMA LexemesOfFew ==
  ASSUME NEW lexemeType
  PROVE  /\ LexemesOf(<<>>, lexemeType) = <<>>
         /\ \A run : LexemesOf(<<run>>, lexemeType)
                        = <<NewLexeme(buffOffset, run.start, run.end - run.start + 1, lexemeType)>>
BY DEF LexemesOf

(* The lexemes that are no quantifiers, as those of the runs are.          *)
NoCount == {l \in Lexeme : l.lexemeType # TypeCount}

LEMMA RunsAreNoCounts ==
  ASSUME NEW runs, NEW t \in LexemeType \ {TypeCount}, NEW n, LexemesOf(runs, t) \in Seq(Fits(n))
  PROVE  LexemesOf(runs, t) \in Seq(NoCount \cap Fits(n))
<1> DEFINE ls == LexemesOf(runs, t)
<1>1. \A k \in DOMAIN ls : ls[k].lexemeType = t
  BY DEF LexemesOf, NewLexeme
<1> HIDE DEF ls
<1>2. ls \in Seq(Fits(n))
  BY DEF ls
<1>3. DOMAIN ls = 1..Len(ls) /\ \A k \in 1..Len(ls) : ls[k] \in Fits(n)
  BY <1>2
<1>4. Fits(n) \subseteq Lexeme
  BY DEF Fits
<1>5. \A k \in 1..Len(ls) : ls[k] \in NoCount \cap Fits(n)
  BY <1>1, <1>3, <1>4 DEF NoCount
<1> HIDE DEF NoCount
<1>6. ls \in Seq(NoCount \cap Fits(n))
  BY <1>2, <1>5
<1> QED
  BY <1>6 DEF ls

(* What fits in front of a character fits in front of the next.            *)
LEMMA FitsGrow ==
  ASSUME NEW n \in Nat
  PROVE  Fits(n) \subseteq Fits(n + 1) /\ Lists(n) \subseteq Lists(n + 1)
<1>1. \A l \in Lexeme : End(l) \in Nat
  BY OrderFacts
<1>2. Fits(n) \subseteq Fits(n + 1)
  BY <1>1 DEF Fits
<1> QED
  BY <1>2 DEF Lists

(* An addition of what fits keeps the list.                                *)
LEMMA ListGrows ==
  ASSUME NEW n \in Nat, NEW q \in Lists(n), NEW l \in Fits(n)
  PROVE  /\ AddLexeme(q, l) \in Lists(n)
         /\ \A i : Spanned(q, i) => Spanned(AddLexeme(q, l), i)
         /\ \A i : Spans(l, i) => Spanned(AddLexeme(q, l), i)
<1>1. q \in Seq(Lexeme) /\ Ordered(q) /\ l \in Lexeme /\ ToSet(q) \subseteq Fits(n)
  BY DEF Lists, Fits
<1>2. CASE \E k \in DOMAIN q : SameSpan(q[k], l)
  <2>1. AddLexeme(q, l) = q
    BY <1>2 DEF AddLexeme
  <2>2. PICK k \in DOMAIN q : q[k].begin = l.begin /\ q[k].length = l.length
    BY <1>2 DEF SameSpan
  <2> QED
    BY <2>1, <2>2 DEF Spanned, Spans, End
<1>3. CASE \A k \in DOMAIN q : ~SameSpan(q[k], l)
  <2> DEFINE r == AddLexeme(q, l)
  <2>1. /\ r \in Seq(Lexeme) /\ Ordered(r) /\ ToSet(r) = ToSet(q) \cup {l}
    BY <1>1, <1>3, AddLexemeFacts
  <2> HIDE DEF r
  <2>2. r \in Lists(n)
    BY <1>1, <2>1 DEF Lists
  <2>3. \A m \in ToSet(q) \cup {l} : \E k \in DOMAIN r : r[k] = m
    BY <2>1 DEF ToSet
  <2>4. \A k \in DOMAIN q : q[k] \in ToSet(q)
    BY DEF ToSet
  <2>5. \A i : Spanned(q, i) => Spanned(r, i)
    BY <2>3, <2>4 DEF Spanned
  <2>6. \A i : Spans(l, i) => Spanned(r, i)
    BY <2>3 DEF Spanned
  <2> QED
    BY <2>2, <2>5, <2>6 DEF r
<1> QED
  BY <1>2, <1>3

(* Nor do those of a sequence lose a character that was covered.           *)
LEMMA ListTakesEach ==
  ASSUME NEW n \in Nat, NEW q \in Lists(n), NEW ls \in Seq(Fits(n))
  PROVE  /\ AddLexemes(q, ls) \in Lists(n)
         /\ \A i : Spanned(q, i) \/ Spanned(ls, i) => Spanned(AddLexemes(q, ls), i)
<1> DEFINE k == Len(ls)
<1>1. k \in Nat /\ DOMAIN ls = 1..k /\ \A m \in 1..k : ls[m] \in Fits(n)
  OBVIOUS
<1>2. PICK f \in [0..k -> Lists(n)] : IsAdding(f, q, ls) /\ f[k] = AddLexemes(q, ls)
  BY ListGrows, AddingSteps
<1> HIDE DEF k
<1>3. \A m \in 1..k : f[m] = AddLexeme(f[m - 1], ls[m]) /\ m - 1 \in 0..k
  BY <1>1, <1>2 DEF IsAdding, k
<1>4. ASSUME NEW i, NEW d \in 0..k, d = 0 => Spanned(q, i), d # 0 => Spans(ls[d], i)
      PROVE  Spanned(f[k], i)
  <2> DEFINE G == {m \in 0..k : m >= d => Spanned(f[m], i)}
  <2>1. 0 \in G
    BY <1>1, <1>2, <1>4 DEF IsAdding
  <2>2. ASSUME NEW m \in 0..(k - 1), m \in G PROVE m + 1 \in G
    <3>1. m + 1 \in 1..k /\ (m + 1) - 1 = m /\ m \in 0..k
      BY <1>1
    <3>2. f[m + 1] = AddLexeme(f[m], ls[m + 1]) /\ f[m] \in Lists(n) /\ ls[m + 1] \in Fits(n)
      BY <1>1, <1>2, <1>3, <3>1
    <3>3. CASE m >= d
      BY <2>2, <3>1, <3>2, <3>3, ListGrows
    <3>4. CASE m + 1 = d
      <4>1. Spans(ls[m + 1], i)
        BY <1>1, <1>4, <3>1, <3>4
      <4> QED
        BY <3>1, <3>2, <4>1, ListGrows
    <3>5. CASE m + 1 < d
      BY <3>1, <3>5
    <3> QED
      BY <1>1, <3>3, <3>4, <3>5
  <2>3. k \in G
    <3>1. k \in 0..k
      BY <1>1
    <3> HIDE DEF G
    <3> QED
      BY <1>1, <2>1, <2>2, <3>1, UpTo
  <2>4. k >= d
    BY <1>1
  <2> QED
    BY <2>3, <2>4
<1>5. k \in 0..k /\ 0 \in 0..k /\ \A m \in 1..k : m \in 0..k /\ m # 0
  BY <1>1
<1>6. ASSUME NEW i, Spanned(ls, i) PROVE Spanned(f[k], i)
  BY <1>1, <1>4, <1>5, <1>6 DEF Spanned
<1>7. ASSUME NEW i, Spanned(q, i) PROVE Spanned(f[k], i)
  <2>1. PICK d \in 0..k : d = 0
    BY <1>5
  <2> QED
    BY <1>4, <1>7, <2>1
<1> QED
  BY <1>2, <1>5, <1>6, <1>7

(* The additions of a set come one by one.                                 *)
LEMMA ListTakesAll ==
  ASSUME NEW n \in Nat, NEW q \in Lists(n), NEW S \in SUBSET Fits(n), IsFiniteSet(S)
  PROVE  /\ AddAll(q, S) \in Lists(n)
         /\ \A i \in Nat : Spanned(q, i) => Spanned(AddAll(q, S), i)
<1> DEFINE G == {r \in Lists(n) : \A i \in Nat : Spanned(q, i) => Spanned(r, i)}
<1>1. q \in G
  OBVIOUS
<1>2. ASSUME NEW r \in G, NEW l \in S PROVE AddLexeme(r, l) \in G
  <2>1. r \in Lists(n) /\ l \in Fits(n)
    OBVIOUS
  <2> QED
    BY <2>1, ListGrows
<1>3. AddAll(q, S) \in G
  <2> HIDE DEF G
  <2> QED
    BY <1>1, <1>2, AllAdded
<1> QED
  BY <1>3

(* A character is held by the run or by one of the lexemes; all that one   *)
(* run held is held by the next or by the lexemes.                         *)
Holds(run, ls, i)       == InRun(run, i) \/ Spanned(ls, i)
Handed(before, now, ls) == \A i \in Nat : InRun(before, i) => Holds(now, ls, i)

(* What a pass makes of a character: what its run held is still held, or   *)
(* put among the candidates.                                               *)
LEMMA PassAdds ==
  ASSUME cursor \in Nat, buffOffset \in Nat, NEW run \in RunsBefore(cursor),
         NEW mixed \in BOOLEAN, OpensInText(run, mixed),
         NEW opens, NEW extends, NEW holds, opens => CurrentCharType # charUseless,
         ~mixed /\ extends => CurrentCharType # charUseless,
         mixed /\ (opens \/ extends) => Mixes(cursor),
         mixed => ~holds /\ (run # NoRun => run.end = cursor - 1),
         NEW t \in LexemeType
  PROVE  LET p == Pass(run, opens, extends, holds)
         IN  /\ OpensInText(p.run, mixed)
             /\ mixed /\ p.run # NoRun => p.run.end = cursor
             /\ LexemesOf(p.ended, t) \in Seq(Fits(cursor + 1))
             /\ IsBufferConsumed => p.run = NoRun
             /\ Handed(run, p.run, LexemesOf(p.ended, t))
             /\ opens /\ extends => Holds(p.run, LexemesOf(p.ended, t), cursor)
<1> DEFINE grown == IF run = NoRun /\ opens THEN [start |-> cursor, end |-> cursor]
                    ELSE IF run # NoRun /\ extends THEN [run EXCEPT !.end = cursor]
                    ELSE IF run # NoRun /\ holds THEN run
                    ELSE NoRun
           ended == IF grown = NoRun THEN run ELSE IF IsBufferConsumed THEN grown ELSE NoRun
           p == Pass(run, opens, extends, holds)
<1>1. /\ p.run = IF IsBufferConsumed THEN NoRun ELSE grown
      /\ p.ended = IF ended = NoRun THEN <<>> ELSE <<ended>>
  BY DEF Pass
<1>2. NoRun.start = -1 /\ NoRun.end = -1
  BY DEF NoRun
<1>3. run # NoRun => /\ run.start \in Nat /\ run.end \in Nat /\ run.start <= run.end /\ run.end < cursor
                     /\ charTypes[run.start] # charUseless
                     /\ ~mixed => charTypes[run.end] # charUseless
                     /\ mixed => \A i \in run.start..(cursor - 1) : Mixes(i)
  BY DEF RunsBefore, OpensInText
<1>4. [start |-> cursor, end |-> cursor].start = cursor /\ [start |-> cursor, end |-> cursor].end = cursor
  OBVIOUS
<1>5. run # NoRun => /\ [run EXCEPT !.end = cursor].start = run.start
                     /\ [run EXCEPT !.end = cursor].end = cursor
  BY DEF RunsBefore
<1>6. grown # NoRun => /\ grown.start \in Nat /\ grown.end \in Nat /\ grown.start <= grown.end
                       /\ grown.end <= cursor /\ charTypes[grown.start] # charUseless
                       /\ ~mixed => charTypes[grown.end] # charUseless
                       /\ mixed => /\ grown.end = cursor
                                   /\ \A i \in grown.start..grown.end : Mixes(i)
  <2>1. CASE run = NoRun /\ opens
    <3>1. grown = [start |-> cursor, end |-> cursor]
      BY <2>1
    <3> HIDE DEF grown
    <3>2. grown.start = cursor /\ grown.end = cursor /\ charTypes[cursor] # charUseless
      BY <2>1, <3>1 DEF CurrentCharType
    <3> QED
      BY <2>1, <3>2
  <2>2. CASE run # NoRun /\ extends
    <3>1. grown.start = run.start /\ grown.end = cursor
      BY <1>5, <2>2
    <3> HIDE DEF grown
    <3>2. \A i \in run.start..cursor : i \in run.start..(cursor - 1) \/ i = cursor
      BY <1>3, <2>2
    <3> QED
      BY <1>3, <2>2, <3>1, <3>2 DEF CurrentCharType
  <2>3. CASE ~(run = NoRun /\ opens) /\ ~(run # NoRun /\ extends)
    <3>1. grown = NoRun \/ (grown = run /\ ~mixed)
      BY <2>3
    <3> HIDE DEF grown
    <3> QED
      BY <1>3, <3>1
  <2> QED
    BY <2>1, <2>2, <2>3
<1>7. /\ grown # NoRun => \A i \in Nat : InRun(run, i) => InRun(grown, i)
      /\ opens /\ extends => InRun(grown, cursor)
  BY <1>2, <1>3, <1>4, <1>5 DEF InRun
<1>8. opens /\ extends => grown # NoRun
  <2>1. opens /\ extends => grown.end = cursor
    BY <1>4, <1>5
  <2> HIDE DEF grown
  <2> QED
    BY <1>2, <2>1
<1>9. \A i \in Nat : ~InRun(NoRun, i)
  BY <1>2 DEF InRun
<1> HIDE DEF grown
<1>10. ended # NoRun => /\ ended.start \in Nat /\ ended.end \in Nat /\ ended.start <= ended.end
                        /\ ended.end <= cursor /\ charTypes[ended.start] # charUseless
                        /\ ~mixed => charTypes[ended.end] # charUseless
                        /\ mixed => \A i \in ended.start..ended.end : Mixes(i)
  <2>1. ended = NoRun \/ ended = grown \/ ended = run
    OBVIOUS
  <2>2. mixed /\ run # NoRun => run.start..run.end = run.start..(cursor - 1)
    BY <1>3
  <2> HIDE DEF ended
  <2> QED
    BY <1>3, <1>6, <2>1, <2>2
<1> HIDE DEF p
<1>11. /\ OpensInText(p.run, mixed) /\ (IsBufferConsumed => p.run = NoRun)
       /\ mixed /\ p.run # NoRun => p.run.end = cursor
  BY <1>1, <1>6 DEF OpensInText
<1>12. CASE ended = NoRun
  <2>1. LexemesOf(p.ended, t) = <<>> /\ <<>> \in Seq(Fits(cursor + 1))
    BY <1>1, <1>12, LexemesOfFew
  <2>2. ASSUME NEW i \in Nat, InRun(run, i) PROVE InRun(p.run, i)
    <3>1. grown # NoRun
      BY <1>9, <1>12, <2>2
    <3>2. ~IsBufferConsumed
      BY <1>12, <3>1
    <3> QED
      BY <1>1, <1>7, <2>2, <3>1, <3>2
  <2>3. opens /\ extends => InRun(p.run, cursor)
    <3>1. opens /\ extends => ~IsBufferConsumed
      BY <1>8, <1>12
    <3> QED
      BY <1>1, <1>7, <3>1
  <2> QED
    BY <1>11, <2>1, <2>2, <2>3 DEF p, Holds, Handed
<1>13. CASE ended # NoRun
  <2> DEFINE l == NewLexeme(buffOffset, ended.start, ended.end - ended.start + 1, t)
  <2>1. LexemesOf(p.ended, t) = <<l>>
    BY <1>1, <1>13, LexemesOfFew
  <2> HIDE DEF ended
  <2>2. l \in Lexeme /\ l.offset = buffOffset /\ l.begin = ended.start /\ End(l) = ended.end + 1
    BY <1>10, <1>13 DEF NewLexeme, Lexeme, End
  <2>3. l \in Fits(cursor + 1)
    <3> HIDE DEF l
    <3>1. End(l) - 1 = ended.end
      BY <1>10, <1>13, <2>2
    <3>2. EndsTidily(l)
      BY <1>10, <1>13, <2>2, <3>1 DEF EndsTidily
    <3> QED
      BY <1>10, <1>13, <2>2, <3>2 DEF Fits
  <2>4. \A i \in Nat : InRun(ended, i) => Spans(l, i)
    <3> HIDE DEF l
    <3> QED
      BY <1>10, <1>13, <2>2 DEF InRun, Spans
  <2> HIDE DEF l
  <2>5. <<l>> \in Seq(Fits(cursor + 1)) /\ \A i \in Nat : Spans(l, i) => Spanned(<<l>>, i)
    BY <2>3 DEF Spanned
  <2>6. ASSUME NEW i \in Nat, InRun(run, i) PROVE InRun(p.run, i) \/ InRun(ended, i)
    BY <1>1, <1>7, <2>6 DEF ended
  <2>7. opens /\ extends => InRun(p.run, cursor) \/ InRun(ended, cursor)
    BY <1>1, <1>7, <1>8 DEF ended
  <2> QED
    BY <1>11, <2>1, <2>4, <2>5, <2>6, <2>7 DEF p, Holds, Handed
<1> QED
  BY <1>12, <1>13

(* What is open began with a character that is not useless, as every       *)
(* candidate does.                                                         *)
OpenOK ==
    /\ OpensInText(letter.english, FALSE) /\ OpensInText(letter.arabic, FALSE)
    /\ OpensInText(letter.mix, TRUE) /\ OpensInText(quantifier.number, FALSE)
    /\ surrogate.hasHighSurrogate => charTypes[surrogate.start] # charUseless
    /\ \A b \in quantifier.countHits : charTypes[b] # charUseless
    /\ \A h \in cjk : charTypes[h.begin] # charUseless

(* The classes of characters are all different, and a character has        *)
(* exactly one.                                                            *)
LEMMA CharTypesDiffer ==
  /\ charUseless # charArabic /\ charUseless # charEnglish /\ charUseless # charChinese
  /\ charUseless # charOtherCJK /\ charUseless # charSurrogate
  /\ \A c \in Char : IsHighSurrogate(c) \/ IsLowSurrogate(c)
                       => IdentifyCharType(c) = charSurrogate
<1>1. ASSUME NEW c \in Char, IsHighSurrogate(c) \/ IsLowSurrogate(c)
      PROVE  IdentifyCharType(c) = charSurrogate
  <2>1. c \in Int /\ 55296 <= c /\ c <= 57343
    BY <1>1 DEF IsHighSurrogate, IsLowSurrogate
  <2>2. c \notin 48..57 /\ c \notin (97..122) \cup (65..90) /\ c \in SurrogateBlocks
    BY <2>1 DEF SurrogateBlocks
  <2>3. \A d \in ChineseBlocks : d < 55296 \/ d > 57343
    BY DEF ChineseBlocks
  <2>4. \A d \in OtherCJKBlocks : d < 55296 \/ d > 57343
    BY DEF OtherCJKBlocks
  <2>5. c \notin ChineseBlocks /\ c \notin OtherCJKBlocks
    BY <2>1, <2>3, <2>4
  <2> QED
    BY <2>2, <2>5 DEF IdentifyCharType
<1> QED
  BY <1>1 DEF charUseless, charArabic, charEnglish, charChinese, charOtherCJK, charSurrogate

(* Three sequences behind one another.                                     *)
LEMMA SeqOfThree ==
  ASSUME NEW S, NEW q \in Seq(S), NEW r \in Seq(S), NEW s \in Seq(S)
  PROVE  /\ (q \o r) \o s \in Seq(S)
         /\ ToSet(s) \subseteq ToSet((q \o r) \o s)
<1> DEFINE t == q \o r
<1>1. t \in Seq(S)
  OBVIOUS
<1> HIDE DEF t
<1>2. /\ t \o s \in Seq(S) /\ Len(t \o s) = Len(t) + Len(s)
      /\ \A i \in 1..Len(t) + Len(s) : (t \o s)[i] = IF i <= Len(t) THEN t[i] ELSE s[i - Len(t)]
  BY <1>1, ConcatProperties
<1>3. ASSUME NEW k \in DOMAIN s PROVE \E j \in DOMAIN (t \o s) : (t \o s)[j] = s[k]
  <2>1. /\ Len(t) \in Nat /\ Len(s) \in Nat /\ DOMAIN s = 1..Len(s)
        /\ DOMAIN (t \o s) = 1..(Len(t) + Len(s))
    BY <1>1, <1>2
  <2>2. /\ Len(t) + k \in 1..(Len(t) + Len(s)) /\ ~(Len(t) + k <= Len(t)) /\ Len(t) + k - Len(t) = k
    BY <2>1
  <2>3. (t \o s)[Len(t) + k] = s[k]
    BY <1>2, <2>2
  <2> QED
    BY <2>1, <2>2, <2>3
<1> QED
  BY <1>2, <1>3 DEF t, ToSet

(* The letter segmenter: every letter and digit stays in the mixed run     *)
(* until it is put among the candidates.                                   *)
LEMMA LetterAdds ==
  ASSUME cursor \in Nat, buffOffset \in Nat, SegmentersOK(cursor), OpenOK,
         letter.mix # NoRun => letter.mix.end = cursor - 1
  PROVE  LET l == LetterAnalyze(letter)
         IN  /\ OpensInText(l.state.english, FALSE) /\ OpensInText(l.state.arabic, FALSE)
             /\ OpensInText(l.state.mix, TRUE)
             /\ l.state.mix # NoRun => l.state.mix.end = cursor
             /\ l.added \in Seq(Fits(cursor + 1)) /\ ToSet(l.added) \subseteq NoCount
             /\ IsBufferConsumed => l.state.mix = NoRun
             /\ Handed(letter.mix, l.state.mix, l.added)
             /\ Alphanumeric(cursor) => Holds(l.state.mix, l.added, cursor)
<1> DEFINE e == EnglishPass(letter.english)
           a == ArabicPass(letter.arabic)
           m == MixPass(letter.mix)
           qe == LexemesOf(e.ended, TypeEnglish)
           qa == LexemesOf(a.ended, TypeArabic)
           qm == LexemesOf(m.ended, TypeLetter)
           l == LetterAnalyze(letter)
<1>1. /\ letter.english \in RunsBefore(cursor) /\ letter.arabic \in RunsBefore(cursor)
      /\ letter.mix \in RunsBefore(cursor)
      /\ OpensInText(letter.english, FALSE) /\ OpensInText(letter.arabic, FALSE)
      /\ OpensInText(letter.mix, TRUE)
  BY DEF SegmentersOK, OpenOK
<1>2. TypeEnglish \in LexemeType /\ TypeArabic \in LexemeType /\ TypeLetter \in LexemeType
  BY DEF LexemeType
<1>3. OpensInText(e.run, FALSE) /\ qe \in Seq(Fits(cursor + 1))
  BY <1>1, <1>2, PassAdds, CharTypesDiffer DEF EnglishPass
<1>4. OpensInText(a.run, FALSE) /\ qa \in Seq(Fits(cursor + 1))
  BY <1>1, <1>2, PassAdds, CharTypesDiffer DEF ArabicPass
<1>5. /\ OpensInText(m.run, TRUE) /\ (m.run # NoRun => m.run.end = cursor) /\ qm \in Seq(Fits(cursor + 1))
      /\ IsBufferConsumed => m.run = NoRun
      /\ Handed(letter.mix, m.run, qm)
      /\ Alphanumeric(cursor) => Holds(m.run, qm, cursor)
  <2> DEFINE alphanumeric == CurrentCharType \in {charArabic, charEnglish}
             connector == CurrentCharType = charUseless /\ CurrentChar \in letterConnectors
             extended == alphanumeric \/ connector
  <2>1. m = Pass(letter.mix, alphanumeric, extended, FALSE)
    BY DEF MixPass
  <2>2. alphanumeric => CurrentCharType # charUseless
    BY CharTypesDiffer
  <2>3. Alphanumeric(cursor) => alphanumeric /\ extended
    BY DEF Alphanumeric, CurrentCharType
  <2>5. alphanumeric \/ extended => Mixes(cursor)
    BY DEF Mixes, Alphanumeric, CurrentCharType, CurrentChar
  <2> HIDE DEF alphanumeric, connector, extended, m
  <2>4. /\ OpensInText(m.run, TRUE) /\ (m.run # NoRun => m.run.end = cursor)
        /\ LexemesOf(m.ended, TypeLetter) \in Seq(Fits(cursor + 1))
        /\ IsBufferConsumed => m.run = NoRun
        /\ Handed(letter.mix, m.run, LexemesOf(m.ended, TypeLetter))
        /\ alphanumeric /\ extended => Holds(m.run, LexemesOf(m.ended, TypeLetter), cursor)
    <3>1. PICK mixed \in BOOLEAN : mixed = TRUE
      OBVIOUS
    <3>2. OpensInText(letter.mix, mixed)
      BY <1>1, <3>1
    <3>3. LET p == Pass(letter.mix, alphanumeric, extended, FALSE)
          IN  /\ OpensInText(p.run, mixed)
              /\ p.run # NoRun => p.run.end = cursor
              /\ LexemesOf(p.ended, TypeLetter) \in Seq(Fits(cursor + 1))
              /\ IsBufferConsumed => p.run = NoRun
              /\ Handed(letter.mix, p.run, LexemesOf(p.ended, TypeLetter))
              /\ alphanumeric /\ extended => Holds(p.run, LexemesOf(p.ended, TypeLetter), cursor)
      <4>1. PICK holds \in BOOLEAN : holds = FALSE
        OBVIOUS
      <4>2. mixed => ~holds /\ (letter.mix # NoRun => letter.mix.end = cursor - 1)
        BY <4>1
      <4>3. ~mixed /\ extended => CurrentCharType # charUseless
        BY <3>1
      <4>4. mixed /\ (alphanumeric \/ extended) => Mixes(cursor)
        BY <2>5
      <4>5. mixed
        BY <3>1
      <4>6. LET p == Pass(letter.mix, alphanumeric, extended, holds)
            IN  /\ OpensInText(p.run, mixed)
                /\ mixed /\ p.run # NoRun => p.run.end = cursor
                /\ LexemesOf(p.ended, TypeLetter) \in Seq(Fits(cursor + 1))
                /\ IsBufferConsumed => p.run = NoRun
                /\ Handed(letter.mix, p.run, LexemesOf(p.ended, TypeLetter))
                /\ alphanumeric /\ extended => Holds(p.run, LexemesOf(p.ended, TypeLetter), cursor)
        BY <1>1, <1>2, <2>2, <3>2, <4>2, <4>3, <4>4, PassAdds
      <4> QED
        BY <4>1, <4>5, <4>6
    <3> QED
      BY <2>1, <3>1, <3>3
  <2> QED
    BY <2>3, <2>4
<1>6. /\ l.state.english = e.run /\ l.state.arabic = a.run /\ l.state.mix = m.run
      /\ l.added = (qe \o qa) \o qm
  BY DEF LetterAnalyze
<1>7. /\ qe \in Seq(NoCount \cap Fits(cursor + 1)) /\ qa \in Seq(NoCount \cap Fits(cursor + 1))
      /\ qm \in Seq(NoCount \cap Fits(cursor + 1))
  <2>1. {TypeEnglish, TypeArabic, TypeLetter} \subseteq LexemeType \ {TypeCount}
    BY DEF LexemeType, TypeEnglish, TypeArabic, TypeLetter, TypeCount
  <2> QED
    BY <1>3, <1>4, <1>5, <2>1, RunsAreNoCounts
<1> HIDE DEF e, a, m, qe, qa, qm
<1>8. ToSet((qe \o qa) \o qm) \subseteq NoCount
  <2> DEFINE F == NoCount \cap Fits(cursor + 1)
  <2>1. qe \in Seq(F) /\ qa \in Seq(F) /\ qm \in Seq(F)
    BY <1>7
  <2> HIDE DEF F
  <2>2. (qe \o qa) \o qm \in Seq(F)
    BY <2>1, SeqOfThree
  <2>3. ToSet((qe \o qa) \o qm) \subseteq F
    BY <2>2 DEF ToSet
  <2> QED
    BY <2>3 DEF F
<1>9. /\ (qe \o qa) \o qm \in Seq(Fits(cursor + 1))
      /\ \A i \in Nat : Spanned(qm, i) => Spanned((qe \o qa) \o qm, i)
  <2>1. /\ (qe \o qa) \o qm \in Seq(Fits(cursor + 1))
        /\ ToSet(qm) \subseteq ToSet((qe \o qa) \o qm)
    <3> DEFINE F == Fits(cursor + 1)
    <3>1. qe \in Seq(F) /\ qa \in Seq(F) /\ qm \in Seq(F)
      BY <1>3, <1>4, <1>5
    <3> HIDE DEF F
    <3>2. /\ (qe \o qa) \o qm \in Seq(F)
          /\ ToSet(qm) \subseteq ToSet((qe \o qa) \o qm)
      BY <3>1, SeqOfThree
    <3> QED
      BY <3>2 DEF F
  <2> QED
    BY <2>1 DEF Spanned, ToSet
<1> HIDE DEF l
<1> QED
  BY <1>3, <1>4, <1>5, <1>6, <1>9, <1>8 DEF l, Handed, Holds

(* The surrogate pair segmenter.                                           *)
LEMMA SurrogateAdds ==
  ASSUME cursor \in Nat, buffOffset \in Nat, SegmentersOK(cursor), OpenOK,
         segmentBuff[cursor] \in Char, charTypes[cursor] = IdentifyCharType(segmentBuff[cursor])
  PROVE  LET p == SurrogateAnalyze(surrogate)
         IN  /\ p.state.hasHighSurrogate => charTypes[p.state.start] # charUseless
             /\ p.added \in Seq(Fits(cursor + 1))
<1> DEFINE high == IsHighSurrogate(CurrentChar)
           pair == IsLowSurrogate(CurrentChar) /\ surrogate.hasHighSurrogate
           alone == \/ ~high /\ ~pair /\ surrogate.hasHighSurrogate
                    \/ high /\ IsBufferConsumed
           position == IF high THEN cursor ELSE surrogate.start
           p == SurrogateAnalyze(surrogate)
           both == NewLexeme(buffOffset, surrogate.start, cursor - surrogate.start + 1, TypeCNChar)
           half == NewLexeme(buffOffset, position, 1, TypeCNWord)
<1>1. /\ surrogate.hasHighSurrogate =>
           /\ surrogate.start \in Nat /\ surrogate.start < cursor
           /\ charTypes[surrogate.start] # charUseless
  BY DEF SegmentersOK, OpenOK
<1>2. high => charTypes[cursor] # charUseless
  BY CharTypesDiffer DEF CurrentChar
<1>3. /\ p.state = IF high /\ ~IsBufferConsumed
                   THEN [start |-> cursor, end |-> surrogate.end, hasHighSurrogate |-> TRUE]
                   ELSE IF pair
                   THEN [start |-> surrogate.start, end |-> cursor, hasHighSurrogate |-> FALSE]
                   ELSE NoSurrogate
      /\ p.added = IF pair THEN <<both>> ELSE IF alone THEN <<half>> ELSE <<>>
  BY DEF SurrogateAnalyze
<1>4. p.state.hasHighSurrogate => charTypes[p.state.start] # charUseless
  BY <1>2, <1>3 DEF NoSurrogate
<1>5. TypeCNChar \in LexemeType /\ TypeCNWord \in LexemeType
  BY DEF LexemeType
<1>6. CASE pair
  <2>1. both \in Lexeme /\ both.offset = buffOffset /\ both.begin = surrogate.start
        /\ End(both) = cursor + 1
    BY <1>1, <1>5, <1>6 DEF NewLexeme, Lexeme, End
  <2> HIDE DEF both
  <2>2. both \in Fits(cursor + 1)
    <3>1. charTypes[cursor] # charUseless /\ (cursor + 1) - 1 = cursor
      BY <1>6, CharTypesDiffer DEF CurrentChar
    <3>2. EndsTidily(both)
      BY <2>1, <3>1 DEF EndsTidily
    <3> QED
      BY <1>1, <1>6, <2>1, <3>2 DEF Fits
  <2>3. p.added = <<both>>
    BY <1>3, <1>6
  <2> HIDE DEF p
  <2> QED
    BY <1>4, <2>2, <2>3 DEF p
<1>7. CASE ~pair /\ alone
  <2>1. position \in 0..cursor /\ charTypes[position] # charUseless
    BY <1>1, <1>2, <1>7
  <2>2. p.added = <<half>>
    BY <1>3, <1>7
  <2> HIDE DEF position
  <2>3. half \in Lexeme /\ half.offset = buffOffset /\ half.begin = position /\ End(half) = position + 1
    BY <1>5, <2>1 DEF NewLexeme, Lexeme, End
  <2> HIDE DEF half
  <2>4. half \in Fits(cursor + 1)
    <3>1. End(half) - 1 = position
      BY <2>1, <2>3
    <3>2. EndsTidily(half)
      BY <2>1, <3>1 DEF EndsTidily
    <3> QED
      BY <2>1, <2>3, <3>2 DEF Fits
  <2> HIDE DEF p
  <2> QED
    BY <1>4, <2>2, <2>4 DEF p
<1>8. CASE ~pair /\ ~alone
  <2>1. p.added = <<>>
    BY <1>3, <1>8
  <2> HIDE DEF p
  <2> QED
    BY <1>4, <2>1 DEF p
<1> QED
  BY <1>6, <1>7, <1>8

(* The lexemes of hits that end with the character under the cursor.       *)
LEMMA HitsFit ==
  ASSUME cursor \in Nat, buffOffset \in Nat, NEW B \in SUBSET (0..cursor),
         \A b \in B : charTypes[b] # charUseless, CurrentCharType # charUseless,
         NEW t \in LexemeType,
         NEW T \in SUBSET {NewLexeme(buffOffset, b, HitLength(b), t) : b \in B}
  PROVE  T \in SUBSET Fits(cursor + 1) /\ IsFiniteSet(T)
<1> DEFINE word(b) == NewLexeme(buffOffset, b, HitLength(b), t)
           U == {word(b) : b \in B}
           f == [b \in B |-> word(b)]
<1>1. ASSUME NEW b \in B PROVE word(b) \in Fits(cursor + 1)
  <2>1. HitLength(b) \in Nat \ {0} /\ b + HitLength(b) = cursor + 1
    BY DEF HitLength
  <2>2. word(b) = [offset |-> buffOffset, begin |-> b, length |-> HitLength(b), lexemeType |-> t]
    BY DEF NewLexeme
  <2>3. b \in Nat
    OBVIOUS
  <2> HIDE DEF word
  <2>4. word(b) \in Lexeme /\ word(b).offset = buffOffset /\ word(b).begin = b /\ word(b).length = HitLength(b)
    BY <2>1, <2>2, <2>3 DEF Lexeme
  <2>5. End(word(b)) = cursor + 1
    BY <2>1, <2>4 DEF End
  <2>6. EndsTidily(word(b))
    <3>1. End(word(b)) - 1 = cursor
      BY <2>5
    <3> QED
      BY <3>1 DEF EndsTidily, CurrentCharType
  <2> QED
    BY <2>4, <2>5, <2>6 DEF Fits
<1> HIDE DEF word
<1>2. IsFiniteSet(B)
  <2>1. IsFiniteSet(0..cursor)
    BY FS_Interval
  <2> QED
    BY <2>1, FS_Subset
<1>3. f \in Surjection(B, U)
  BY DEF Surjection
<1>4. IsFiniteSet(U)
  <2> HIDE DEF f, U
  <2> QED
    BY <1>2, <1>3, FS_Surjection
<1>5. U \subseteq Fits(cursor + 1)
  BY <1>1
<1>6. T \in SUBSET U
  BY DEF word
<1> HIDE DEF U
<1> QED
  BY <1>4, <1>5, <1>6, FS_Subset

(* Every character that the candidates q span, r spans as well.            *)
SpansAll(q, r) == \A i \in Nat : Spanned(q, i) => Spanned(r, i)

(* The Chinese quantifier segmenter.                                       *)
LEMMA QuantifierAdds ==
  ASSUME cursor \in Nat, buffOffset \in Nat, SegmentersOK(cursor), OpenOK,
         NEW org \in Lists(cursor + 1)
  PROVE  LET q == QuantifierAnalyze(quantifier, org)
         IN  /\ OpensInText(q.state.number, FALSE)
             /\ \A b \in q.state.countHits : charTypes[b] # charUseless
             /\ q.org \in Lists(cursor + 1) /\ SpansAll(org, q.org)
<1> DEFINE number == CNumberPass(quantifier.number)
           numerals == LexemesOf(number.ended, TypeCNum)
           starts == quantifier.countHits
           given == AddLexemes(org, numerals)
           count == ProcessCount(number.run, starts, given)
           q == QuantifierAnalyze(quantifier, org)
           n == cursor + 1
<1>1. /\ quantifier.number \in RunsBefore(cursor) /\ starts \in SUBSET (0..cursor)
      /\ OpensInText(quantifier.number, FALSE) /\ \A b \in starts : charTypes[b] # charUseless
  <2>1. quantifier.number \in RunsBefore(cursor) /\ starts \in SUBSET (0..cursor)
    BY DEF SegmentersOK
  <2>2. OpensInText(quantifier.number, FALSE) /\ \A b \in starts : charTypes[b] # charUseless
    BY DEF OpenOK
  <2> QED
    BY <2>1, <2>2
<1>2. TypeCNum \in LexemeType /\ TypeCount \in LexemeType
  BY DEF LexemeType
<1>3. OpensInText(number.run, FALSE) /\ numerals \in Seq(Fits(n))
  BY <1>1, <1>2, PassAdds, CharTypesDiffer DEF CNumberPass
<1>4. q.state.number = number.run /\ q.state.countHits = count.hits /\ q.org = count.org
  BY DEF QuantifierAnalyze
<1> HIDE DEF number, numerals, q
<1>5. given \in Lists(n) /\ SpansAll(org, given)
  BY <1>3, ListTakesEach DEF SpansAll
<1> HIDE DEF given, starts
<1> DEFINE ended == Counts(Matched(QuantifierWords, starts))
           extended == AddAll(given, ended)
           pending == Pending(QuantifierWords, starts)
           starting == IF AfterNumeral(extended) \/ pending # {} THEN {cursor} ELSE {}
           hits == pending \cup Pending(QuantifierWords, starting)
           at == Counts(Matched(QuantifierWords, starting))
<1>6. ASSUME CurrentCharType = charChinese
      PROVE  extended \in Lists(n) /\ SpansAll(given, extended)
  <2>0. CurrentCharType # charUseless
    BY <1>6, CharTypesDiffer
  <2>1. ended \in SUBSET {NewLexeme(buffOffset, b, HitLength(b), TypeCount) : b \in starts}
    BY DEF Counts, Matched
  <2>2. ended \in SUBSET Fits(n) /\ IsFiniteSet(ended)
    <3> HIDE DEF ended
    <3> QED
      BY <1>1, <1>2, <2>0, <2>1, HitsFit
  <2> HIDE DEF ended
  <2> QED
    BY <1>5, <2>2, ListTakesAll DEF SpansAll
<1>7. ASSUME CurrentCharType = charChinese
      PROVE  AddAll(extended, at) \in Lists(n) /\ SpansAll(extended, AddAll(extended, at))
  <2>1. {cursor} \in SUBSET (0..cursor) /\ \A b \in {cursor} : charTypes[b] # charUseless
    BY <1>7, CharTypesDiffer DEF CurrentCharType
  <2>2. at \in SUBSET {NewLexeme(buffOffset, b, HitLength(b), TypeCount) : b \in {cursor}}
    BY DEF Counts, Matched
  <2>3. at \in SUBSET Fits(n) /\ IsFiniteSet(at)
    <3> HIDE DEF at
    <3>1. PICK B \in SUBSET (0..cursor) : B = {cursor}
      BY <2>1
    <3>2. \A b \in B : charTypes[b] # charUseless
      BY <2>1, <3>1
    <3>3. at \in SUBSET {NewLexeme(buffOffset, b, HitLength(b), TypeCount) : b \in B}
      BY <2>2, <3>1
    <3> QED
      BY <1>2, <1>7, <3>2, <3>3, HitsFit, CharTypesDiffer
  <2> HIDE DEF at, extended
  <2> QED
    BY <1>6, <1>7, <2>3, ListTakesAll DEF SpansAll
<1>8. CurrentCharType = charChinese => \A b \in hits : charTypes[b] # charUseless
  <2>1. pending \subseteq starts /\ Pending(QuantifierWords, starting) \subseteq {cursor}
    BY DEF Pending
  <2> HIDE DEF pending, starting
  <2> QED
    BY <1>1, <2>1, CharTypesDiffer DEF CurrentCharType
<1>9. \/ count.hits = starts /\ count.org = given
      \/ count.hits = {} /\ count.org = given
      \/ /\ CurrentCharType = charChinese
         /\ count.hits = {} \/ count.hits = hits
         /\ count.org = AddAll(extended, at)
  BY DEF ProcessCount
<1> HIDE DEF count, hits, at, extended
<1>10. count.org \in Lists(n) /\ SpansAll(org, count.org)
  BY <1>5, <1>6, <1>7, <1>9 DEF SpansAll
<1>11. \A b \in count.hits : charTypes[b] # charUseless
  BY <1>1, <1>8, <1>9
<1> QED
  BY <1>3, <1>4, <1>10, <1>11 DEF q

(* The CJK segmenter.                                                      *)
LEMMA CJKAdds ==
  ASSUME cursor \in Nat, buffOffset \in Nat, SegmentersOK(cursor), OpenOK
  PROVE  LET c == CJKAnalyze(cjk)
         IN  /\ \A h \in c.hits : charTypes[h.begin] # charUseless
             /\ c.words \in SUBSET Fits(cursor + 1) /\ IsFiniteSet(c.words)
<1> DEFINE c == CJKAnalyze(cjk)
           tried == IF CurrentCharType = charUseless THEN {}
                    ELSE cjk \cup {[begin |-> cursor, generation |-> generation]}
           longer(h) == IsPrefixOf(MainWords(h.generation), h.begin, HitLength(h.begin))
           found(h)  == IsMatch(MainWords(h.generation), h.begin, HitLength(h.begin))
           B == {h.begin : h \in tried}
<1>1. ASSUME NEW h \in tried PROVE h.begin \in 0..cursor /\ charTypes[h.begin] # charUseless
  BY DEF SegmentersOK, OpenOK, CurrentCharType
<1>2. /\ c.hits = IF IsBufferConsumed THEN {} ELSE {h \in tried : longer(h)}
      /\ c.words = {NewLexeme(buffOffset, h.begin, HitLength(h.begin), TypeCNWord) :
                       h \in {h \in tried : found(h)}}
  BY DEF CJKAnalyze
<1> HIDE DEF c, tried, longer, found
<1>3. c.words \in SUBSET {NewLexeme(buffOffset, b, HitLength(b), TypeCNWord) : b \in B}
  BY <1>2
<1>4. B \in SUBSET (0..cursor) /\ \A b \in B : charTypes[b] # charUseless
  BY <1>1
<1>5. TypeCNWord \in LexemeType
  BY DEF LexemeType
<1> HIDE DEF B
<1>6. c.words \in SUBSET Fits(cursor + 1) /\ IsFiniteSet(c.words)
  <2>1. CASE CurrentCharType = charUseless
    <3>1. c.words = {}
      BY <1>2, <2>1 DEF tried
    <3> QED
      BY <3>1, FS_EmptySet
  <2>2. CASE CurrentCharType # charUseless
    BY <1>3, <1>4, <1>5, <2>2, HitsFit
  <2> QED
    BY <2>1, <2>2
<1> QED
  BY <1>1, <1>2, <1>6 DEF c

(* The candidates of the part of the buffer that the sub-segmenters have   *)
(* seen, and the letters and digits that are not lost.                     *)
OInv == /\ orgLexemes \in Lists(Looked)
        /\ OpenOK
        /\ \A i \in 0..(Looked - 1) : Alphanumeric(i) => Holds(letter.mix, orgLexemes, i)
        /\ letter.mix # NoRun => letter.mix.end = Looked - 1
        /\ pc = "arbitrate" => letter.mix = NoRun

(* A list of candidates depends on the part of the buffer it is of.        *)
LEMMA ListsStay ==
  ASSUME NEW n \in Nat, buffOffset' = buffOffset,
         \A i \in 0..(n - 1) : charTypes'[i] = charTypes[i] /\ segmentBuff'[i] = segmentBuff[i]
  PROVE  Lists(n) \subseteq Lists(n)'
<1>1. ASSUME NEW l \in Fits(n) PROVE l \in Fits(n)'
  <2>1. l \in Lexeme /\ l.offset = buffOffset /\ End(l) <= n /\ charTypes[l.begin] # charUseless
    BY DEF Fits
  <2>2. l.begin \in 0..(n - 1) /\ End(l) - 1 \in 0..(n - 1)
    BY <2>1, OrderFacts
  <2>3. \A i \in l.begin..(End(l) - 1) : i \in 0..(n - 1)
    BY <2>2
  <2>4. \A i \in l.begin..(End(l) - 1) : Mixes(i) => Mixes(i)'
    BY <2>3 DEF Mixes, Alphanumeric
  <2>5. EndsTidily(l)'
    BY <2>1, <2>2, <2>4 DEF Fits, EndsTidily
  <2> QED
    BY <2>1, <2>2, <2>5 DEF Fits
<1> QED
  BY <1>1 DEF Lists

(* Nothing fits in front of the first character.                           *)
LEMMA NothingListed ==
  /\ <<>> \in Lists(0) /\ (<<>> \in Lists(0))'
  /\ \A q \in Lists(0) : q = <<>>
<1>1. ASSUME NEW q \in Lists(0), q # <<>> PROVE FALSE
  <2>1. q \in Seq(Lexeme) /\ ToSet(q) \subseteq Fits(0) /\ q[1] \in ToSet(q)
    BY <1>1 DEF Lists, ToSet
  <2>2. q[1] \in Lexeme /\ End(q[1]) <= 0
    BY <2>1 DEF Fits
  <2> QED
    BY <2>2, OrderFacts
<1>2. <<>> \in Seq(Lexeme) /\ Ordered(<<>>) /\ ToSet(<<>>) = {}
  BY DEF Ordered, ToSet
<1> QED
  BY <1>1, <1>2 DEF Lists

(* At the start there are no candidates.                                   *)
LEMMA OInvInit == EngineInit => OInv
<1> SUFFICES ASSUME EngineInit PROVE OInv
  OBVIOUS
<1>1. pc = "idle" /\ Looked = 0 /\ orgLexemes = <<>>
  BY DEF EngineInit, ContextInit, Looked
<1>2. OpenOK
  BY DEF EngineInit, OpenOK, OpensInText, NoLetters, NoSurrogate, NoQuantity
<1>3. letter.mix = NoRun
  BY DEF EngineInit, NoLetters
<1> QED
  BY <1>1, <1>2, <1>3, NothingListed DEF OInv

(* Two sequences behind one another.                                       *)
LEMMA SeqOfTwo ==
  ASSUME NEW S, NEW q \in Seq(S), NEW r \in Seq(S)
  PROVE  q \o r \in Seq(S) /\ ToSet(q) \subseteq ToSet(q \o r)
<1>1. /\ q \o r \in Seq(S) /\ Len(q \o r) = Len(q) + Len(r)
      /\ \A i \in 1..Len(q) + Len(r) : (q \o r)[i] = IF i <= Len(q) THEN q[i] ELSE r[i - Len(q)]
  BY ConcatProperties
<1>2. /\ Len(q) \in Nat /\ Len(r) \in Nat /\ DOMAIN q = 1..Len(q)
      /\ DOMAIN (q \o r) = 1..(Len(q) + Len(r))
  BY <1>1
<1>3. ASSUME NEW k \in 1..Len(q) PROVE k \in DOMAIN (q \o r) /\ (q \o r)[k] = q[k]
  <2>1. k \in 1..(Len(q) + Len(r)) /\ k <= Len(q)
    BY <1>2
  <2> QED
    BY <1>1, <1>2, <2>1
<1> QED
  BY <1>1, <1>2, <1>3 DEF ToSet

(* The sub-segmenters see a character.                                     *)
LEMMA AnalyzeCharacterKeepsOInv ==
  ASSUME CInv, LInv, OInv, AnalyzeCharacter
  PROVE  OInv'
<1>1. /\ pc = "analyze" /\ cursor \in Nat /\ available \in Nat /\ cursor < available
      /\ buffOffset \in Nat /\ available <= BuffSize
      /\ segmentBuff[cursor] \in Char /\ charTypes \in [Index -> CharType]
      /\ segmentBuff \in [Index -> Char]
  <2>1. pc = "analyze" /\ Loaded
    BY DEF AnalyzeCharacter, Analyze, Loaded
  <2>2. /\ cursor \in Nat /\ available \in Nat /\ cursor < available /\ buffOffset \in Nat
        /\ available <= BuffSize /\ segmentBuff \in [Index -> Char] /\ charTypes \in [Index -> CharType]
    BY <2>1 DEF CInv, ContextTypeOK, BufferWindow, ReadContiguously
  <2>3. cursor \in Index
    BY <2>2, BufferAssumption DEF Index
  <2> QED
    BY <2>1, <2>2, <2>3
<1>2. charTypes[cursor] = IdentifyCharType(segmentBuff[cursor])
  BY <1>1 DEF CInv, BufferWindow, ProcessedIsRegular, Loaded, Needed
<1>3. /\ SegmentersOK(cursor) /\ OpenOK /\ orgLexemes \in Lists(cursor)
      /\ \A i \in 0..(cursor - 1) : Alphanumeric(i) => Holds(letter.mix, orgLexemes, i)
      /\ letter.mix # NoRun => letter.mix.end = cursor - 1
  BY <1>1 DEF LInv, OInv, Looked
<1> DEFINE l == LetterAnalyze(letter)
           p == SurrogateAnalyze(surrogate)
           given == AddLexemes(orgLexemes, l.added \o p.added)
           q == QuantifierAnalyze(quantifier, given)
           c == CJKAnalyze(cjk)
<1>16. PICK n \in Nat : n = cursor + 1
  BY <1>1
<1>4. PICK locks :
         /\ Analyze(locks)
         /\ letter' = l.state /\ surrogate' = p.state /\ quantifier' = q.state /\ cjk' = c.hits
         /\ orgLexemes' = AddAll(q.org, c.words)
         /\ LetterLocks(letter') => letterSegmenterName \in locks
  BY SegmenterAssumption DEF AnalyzeCharacter
<1>5. /\ OpensInText(letter'.english, FALSE) /\ OpensInText(letter'.arabic, FALSE)
      /\ OpensInText(letter'.mix, TRUE) /\ (letter'.mix # NoRun => letter'.mix.end = cursor)
      /\ l.added \in Seq(Fits(n))
      /\ IsBufferConsumed => letter'.mix = NoRun
      /\ Handed(letter.mix, letter'.mix, l.added)
      /\ Alphanumeric(cursor) => Holds(letter'.mix, l.added, cursor)
  BY <1>1, <1>16, <1>3, <1>4, LetterAdds
<1>6. /\ surrogate'.hasHighSurrogate => charTypes[surrogate'.start] # charUseless
      /\ p.added \in Seq(Fits(n))
  BY <1>1, <1>16, <1>2, <1>3, <1>4, SurrogateAdds
<1> HIDE DEF l, p
<1>7. /\ given \in Lists(n)
      /\ SpansAll(orgLexemes, given) /\ SpansAll(l.added, given)
  <2> DEFINE ls == l.added \o p.added
             F == Fits(n)
  <2>1. ls \in Seq(F) /\ SpansAll(l.added, ls)
    <3>1. l.added \in Seq(F) /\ p.added \in Seq(F)
      BY <1>5, <1>6
    <3>2. PICK x \in Seq(F), y \in Seq(F) : x = l.added /\ y = p.added
      BY <3>1
    <3> HIDE DEF F
    <3>3. x \o y \in Seq(F) /\ ToSet(x) \subseteq ToSet(x \o y)
      BY SeqOfTwo
    <3>4. ls = x \o y
      BY <3>2
    <3> HIDE DEF ls
    <3> QED
      BY <3>2, <3>3, <3>4 DEF SpansAll, Spanned, ToSet
  <2>2. orgLexemes \in Lists(n)
    BY <1>1, <1>16, <1>3, FitsGrow
  <2> HIDE DEF ls
  <2>3. given = AddLexemes(orgLexemes, ls)
    BY DEF ls
  <2> HIDE DEF given
  <2>4. given \in Lists(n) /\ \A i : Spanned(orgLexemes, i) \/ Spanned(ls, i) => Spanned(given, i)
    BY <1>1, <1>16, <2>1, <2>2, <2>3, ListTakesEach
  <2> QED
    BY <2>1, <2>4 DEF SpansAll
<1> HIDE DEF given
<1>8. /\ OpensInText(quantifier'.number, FALSE)
      /\ \A b \in quantifier'.countHits : charTypes[b] # charUseless
      /\ q.org \in Lists(n) /\ SpansAll(given, q.org)
  BY <1>1, <1>16, <1>3, <1>4, <1>7, QuantifierAdds
<1>9. /\ \A h \in cjk' : charTypes[h.begin] # charUseless
      /\ c.words \in SUBSET Fits(n) /\ IsFiniteSet(c.words)
  BY <1>1, <1>16, <1>3, <1>4, CJKAdds
<1> HIDE DEF q, c
<1>10. orgLexemes' \in Lists(n) /\ SpansAll(q.org, orgLexemes')
  BY <1>4, <1>8, <1>9, ListTakesAll DEF SpansAll
<1>11. /\ Looked' = n /\ buffOffset' = buffOffset
       /\ \A i \in 0..cursor : charTypes'[i] = charTypes[i] /\ segmentBuff'[i] = segmentBuff[i]
       /\ pc' = "arbitrate" => letter'.mix = NoRun
  <2>1. CASE NeedRefillBuffer(locks) \/ cursor >= available - 1
    <3>1. /\ pc' = "arbitrate" /\ cursor' = cursor /\ charTypes' = charTypes /\ buffOffset' = buffOffset
          /\ segmentBuff' = segmentBuff
      BY <1>4, <2>1 DEF Analyze
    <3>2. CASE IsBufferConsumed
      BY <1>16, <1>5, <3>1, <3>2 DEF Looked
    <3>3. CASE ~IsBufferConsumed
      <4>1. locks = {}
        BY <1>1, <1>16, <2>1, <3>3 DEF NeedRefillBuffer, IsBufferConsumed
      <4>2. letter' = NoLetters
        BY <1>4, <4>1 DEF LetterLocks
      <4> QED
        BY <1>16, <3>1, <4>2 DEF Looked, NoLetters
    <3> QED
      BY <3>2, <3>3
  <2>2. CASE ~(NeedRefillBuffer(locks) \/ cursor >= available - 1)
    <3>1. /\ pc' = "analyze" /\ cursor' = cursor + 1 /\ buffOffset' = buffOffset
          /\ \E t : charTypes' = [charTypes EXCEPT ![cursor + 1] = t]
          /\ \E x : segmentBuff' = [segmentBuff EXCEPT ![cursor + 1] = x]
      BY <1>1, <1>16, <1>4, <2>2 DEF Analyze
    <3>2. \A i \in 0..cursor : charTypes'[i] = charTypes[i] /\ segmentBuff'[i] = segmentBuff[i]
      BY <1>1, <1>16, <3>1 DEF Index
    <3> QED
      BY <1>16, <3>1, <3>2 DEF Looked
  <2> QED
    BY <2>1, <2>2
<1>12. orgLexemes' \in Lists(n)'
  <2>1. \A i \in 0..(n - 1) : charTypes'[i] = charTypes[i] /\ segmentBuff'[i] = segmentBuff[i]
    BY <1>1, <1>16, <1>11
  <2>3. Lists(n) \subseteq Lists(n)'
    BY <1>11, <2>1, ListsStay
  <2> QED
    BY <1>10, <2>3
<1>13. OpenOK'
  <2>1. SegmentersOK(Looked)'
    BY AnalyzeCharacterKeepsLInv DEF LInv
  <2>2. /\ letter'.english \in RunsBefore(n) /\ letter'.arabic \in RunsBefore(n)
        /\ letter'.mix \in RunsBefore(n) /\ quantifier'.number \in RunsBefore(n)
        /\ surrogate'.start \in (-1)..cursor
        /\ surrogate'.hasHighSurrogate => surrogate'.start # -1
        /\ quantifier'.countHits \subseteq 0..cursor /\ \A h \in cjk' : h.begin \in 0..cursor
    <3>1. Looked' - 1 = cursor
      BY <1>1, <1>16, <1>11
    <3> QED
      BY <1>16, <1>11, <2>1, <3>1 DEF SegmentersOK
  <2>8. \A i \in 0..cursor : Mixes(i) => Mixes(i)'
    BY <1>11 DEF Mixes, Alphanumeric
  <2>3. ASSUME NEW run \in RunsBefore(n), NEW mixed \in BOOLEAN, OpensInText(run, mixed), run # NoRun
        PROVE  /\ charTypes'[run.start] # charUseless
               /\ ~mixed => charTypes'[run.end] # charUseless
               /\ mixed => \A i \in run.start..run.end : Mixes(i)'
    <3>1. run.start \in 0..cursor /\ run.end \in 0..cursor /\ run.start..run.end \subseteq 0..cursor
      BY <1>1, <1>16, <2>3 DEF RunsBefore
    <3> QED
      BY <1>11, <2>3, <2>8, <3>1 DEF OpensInText
  <2>4. /\ OpensInText(letter.english, FALSE)' /\ OpensInText(letter.arabic, FALSE)'
        /\ OpensInText(letter.mix, TRUE)' /\ OpensInText(quantifier.number, FALSE)'
    BY <1>16, <1>5, <1>8, <2>2, <2>3 DEF OpensInText
  <2>5. surrogate'.hasHighSurrogate => charTypes'[surrogate'.start] # charUseless
    BY <1>1, <1>16, <1>6, <1>11, <2>2
  <2>6. \A b \in quantifier'.countHits : charTypes'[b] # charUseless
    BY <1>8, <1>11, <2>2
  <2>7. \A h \in cjk' : charTypes'[h.begin] # charUseless
    BY <1>9, <1>11, <2>2
  <2> QED
    BY <2>4, <2>5, <2>6, <2>7 DEF OpenOK
<1>14. ASSUME NEW i \in 0..cursor, charTypes'[i] \in {charArabic, charEnglish}
       PROVE  Holds(letter'.mix, orgLexemes', i)
  <2>1. Alphanumeric(i) /\ i \in Nat
    BY <1>1, <1>16, <1>11, <1>14 DEF Alphanumeric
  <2>2. Spanned(orgLexemes, i) \/ Spanned(l.added, i) => Spanned(orgLexemes', i)
    BY <1>7, <1>8, <1>10, <2>1 DEF SpansAll
  <2>3. CASE i = cursor
    BY <1>5, <2>1, <2>2, <2>3 DEF Holds
  <2>4. CASE i # cursor
    <3>1. i \in 0..(cursor - 1)
      BY <1>1, <1>16, <2>4
    <3>2. Holds(letter.mix, orgLexemes, i)
      BY <1>3, <2>1, <3>1
    <3> QED
      BY <1>5, <2>1, <2>2, <3>2 DEF Holds, Handed
  <2> QED
    BY <2>3, <2>4
<1>15. 0..(Looked' - 1) = 0..cursor /\ Looked' - 1 = cursor
  BY <1>1, <1>16, <1>11
<1> QED
  BY <1>5, <1>11, <1>12, <1>13, <1>14, <1>15 DEF OInv, Alphanumeric

(* Between two buffers there are no candidates and nothing is open.        *)
LEMMA OInvBetween ==
  ASSUME LInv', Looked' = 0, orgLexemes' = <<>>, pc' # "arbitrate"
  PROVE  OInv'
<1>1. SegmentersOK(0)'
  BY DEF LInv
<1>2. RunsBefore(0) = {NoRun} /\ 0..(0 - 1) = {} /\ (-1)..(0 - 1) = {-1}
  BY DEF RunsBefore
<1>3. /\ letter'.english = NoRun /\ letter'.arabic = NoRun /\ letter'.mix = NoRun
      /\ quantifier'.number = NoRun /\ quantifier'.countHits = {} /\ cjk' = {}
      /\ ~surrogate'.hasHighSurrogate
  BY <1>1, <1>2 DEF SegmentersOK
<1>4. OpenOK'
  BY <1>3 DEF OpenOK, OpensInText
<1>5. orgLexemes' \in Lists(0)'
  BY NothingListed
<1> QED
  BY <1>2, <1>3, <1>4, <1>5 DEF OInv

(* Every step keeps the invariant of the candidates.                       *)
LEMMA OInvNext ==
  ASSUME CInv, LInv, OInv, [EngineNext]_engine
  PROVE  OInv'
<1>0. LInv'
  BY LInvNext
<1>1. ASSUME pc \notin {"analyze", "arbitrate"}, pc' # "arbitrate", Looked' = 0,
             orgLexemes' \in {orgLexemes, <<>>}
      PROVE  OInv'
  <2>1. Looked = 0
    BY <1>1 DEF Looked
  <2>2. orgLexemes = <<>>
    BY <2>1, NothingListed DEF OInv
  <2> QED
    BY <1>0, <1>1, <2>2, OInvBetween
<1>2. ASSUME NEW text \in LaterInputs, EngineReset(text) PROVE OInv'
  <2>1. pc = "idle" /\ pc' = pc /\ orgLexemes' = <<>>
    BY <1>2 DEF EngineReset, Reset
  <2> QED
    BY <1>1, <2>1 DEF Looked
<1>3. CASE Arbitrate
  <2>1. pc' = "poll" /\ orgLexemes' = <<>>
    BY <1>3 DEF Arbitrate, Output
  <2>2. Looked' = 0
    BY <2>1 DEF Looked
  <2> QED
    BY <1>0, <2>1, <2>2, OInvBetween
<1>4. CASE NextCalled \/ TakeResult \/ NoMoreResults \/ Exhausted \/ FillFails
  <2>1. /\ pc \notin {"analyze", "arbitrate"} /\ pc' \notin {"analyze", "arbitrate"}
        /\ orgLexemes' \in {orgLexemes, <<>>}
    BY <1>4 DEF NextCalled, CallNext, TakeResult, Consume, NoMoreResults, NoResult, Exhausted,
                EndOfInput, FillFails, ReadFails
  <2> QED
    BY <1>1, <2>1 DEF Looked
<1>5. ASSUME NEW n \in ReadCounts, FillBuffer(n) PROVE OInv'
  <2>1. pc = "fill" /\ pc' = "analyze" /\ cursor' = 0 /\ orgLexemes' = orgLexemes
    BY <1>5 DEF FillBuffer, Fill
  <2> QED
    BY <1>1, <2>1 DEF Looked
<1>6. CASE AnalyzeCharacter
  BY <1>6, AnalyzeCharacterKeepsOInv
<1>7. CASE DictionaryReloaded \/ UNCHANGED engine
  <2>1. UNCHANGED <<pc, cursor, buffOffset, charTypes, segmentBuff, letter, surrogate, quantifier,
                    cjk, orgLexemes>>
    BY <1>7 DEF DictionaryReloaded, engine, cvars, buffer, segmenters
  <2>2. Looked' = Looked
    BY <2>1 DEF Looked
  <2>3. orgLexemes' \in Lists(Looked)'
    BY <2>1, <2>2 DEF OInv, Lists, Fits, EndsTidily, Mixes, Alphanumeric
  <2>4. OpenOK'
    BY <2>1 DEF OInv, OpenOK, OpensInText, Mixes, Alphanumeric
  <2> QED
    BY <2>1, <2>2, <2>3, <2>4 DEF OInv, Alphanumeric, Holds, InRun, Spanned
<1> QED
  BY <1>2, <1>3, <1>4, <1>5, <1>6, <1>7 DEF EngineNext, InsideCall

-----------------------------------------------------------------------------
(* Types.                                                                  *)
Tokens == [begin: Nat, end: Nat, lexemeType: LexemeType, stop: BOOLEAN]

(* What the engine remembers; a hit is in a dictionary that was in force.  *)
HistoryOK == /\ savedMaxConsumedEndPosition \in Nat /\ savedSkippedCount \in Nat
             /\ tokens \in Seq(Tokens) /\ skipped \in Nat /\ cuts \subseteq Nat
             /\ \A h \in cjk : h.generation \in 1..generation

(* The lexeme that TakeResult takes, what it leaves and the token it makes *)
(* of it.                                                                  *)
LEMMA TakenFacts ==
  ASSUME CInv, TakeResult
  PROVE  LET q == Compound(results)
             l == Head(q)
         IN  /\ results # <<>> /\ InWindow(results, Origin, cursor + 1)
             /\ InWindow(q, Origin, cursor + 1) /\ q # <<>>
             /\ l \in Lexeme /\ l.offset = Origin /\ End(l) <= cursor + 1 /\ Origin \in Nat
             /\ results' = Tail(q)
             /\ \E t \in Tokens : /\ tokens' = Append(tokens, t)
                                  /\ t.begin = l.offset + l.begin
                                  /\ t.end = l.offset + End(l)
             /\ pc = "poll" /\ pc' \in {"poll", "idle"}
             /\ UNCHANGED <<reader, buffer, generation, segmenters, orgLexemes, cuts>>
<1> DEFINE q == Compound(results)
           l == Head(q)
           stopWord == IsStopWord(l.begin, l.length)
           t == [begin |-> BeginPosition(l), end |-> EndPosition(l),
                 lexemeType |-> l.lexemeType, stop |-> stopWord]
<1>1. /\ pc = "poll" /\ results # <<>> /\ results' = Tail(q) /\ pc' \in {"poll", "idle"}
      /\ UNCHANGED <<reader, buffer, generation, segmenters, orgLexemes, cuts>>
      /\ tokens' = Append(tokens, t)
  BY DEF TakeResult, Consume
<1>2. InWindow(results, Origin, cursor + 1)
  BY ResultsWindow
<1>3. Origin \in Nat /\ cursor + 1 \in Nat
  BY <1>1 DEF CInv, ContextTypeOK, BufferWindow, ReadContiguously
<1>4. InWindow(q, Origin, cursor + 1) /\ q # <<>>
  BY <1>1, <1>2, <1>3, CompoundInWindow
<1> HIDE DEF q
<1>5. l \in Lexeme /\ l.offset = Origin /\ End(l) <= cursor + 1
  BY <1>3, <1>4, HeadAndTailInWindow
<1>6. stopWord \in BOOLEAN
  BY DEF IsStopWord, IsMatch
<1> HIDE DEF l, stopWord
<1>7. t \in Tokens /\ t.begin = l.offset + l.begin /\ t.end = l.offset + End(l)
  <2>1. l.begin \in Nat /\ l.length \in Nat \ {0} /\ l.offset \in Nat /\ l.lexemeType \in LexemeType
        /\ End(l) = l.begin + l.length
    BY <1>5 DEF Lexeme, End
  <2>2. BeginPosition(l) = l.offset + l.begin /\ EndPosition(l) = l.offset + End(l)
        /\ BeginPosition(l) \in Nat /\ EndPosition(l) \in Nat
    BY <2>1 DEF BeginPosition, EndPosition
  <2> QED
    BY <1>6, <2>1, <2>2 DEF Tokens
<1> HIDE DEF t
<1> QED
  BY <1>1, <1>2, <1>3, <1>4, <1>5, <1>7 DEF q, l

(* At the start there are no tokens.                                       *)
LEMMA HistoryInit == EngineInit => HistoryOK
<1> SUFFICES ASSUME EngineInit PROVE HistoryOK
  OBVIOUS
<1> QED
  BY DEF EngineInit, HistoryOK

(* Every step keeps the types of what was handed out.                      *)
LEMMA HistoryNext ==
  ASSUME CInv, LInv, HistoryOK, [EngineNext]_engine
  PROVE  HistoryOK'
<1>1. ASSUME NEW text \in LaterInputs, EngineReset(text) PROVE HistoryOK'
  BY <1>1 DEF EngineReset, SegmentersReset, HistoryOK
<1>2. CASE NextCalled \/ NoMoreResults \/ FillFails \/ Exhausted
  <2>1. maxConsumedEndPosition \in Nat
    BY DEF CInv, ContextTypeOK
  <2>2. /\ UNCHANGED <<cjk, tokens, skipped, cuts, generation>>
        /\ savedMaxConsumedEndPosition' \in {savedMaxConsumedEndPosition, maxConsumedEndPosition}
        /\ savedSkippedCount' \in {savedSkippedCount, 0}
    <3>1. CASE NextCalled
      BY <3>1 DEF NextCalled, segmenters, history
    <3>2. CASE NoMoreResults \/ FillFails
      BY <3>2 DEF NoMoreResults, FillFails, segmenters, saved, history
    <3>3. CASE Exhausted
      BY <3>3 DEF Exhausted, segmenters, history
    <3> QED
      BY <1>2, <3>1, <3>2, <3>3
  <2> QED
    BY <2>1, <2>2 DEF HistoryOK
<1>3. ASSUME NEW n \in ReadCounts, FillBuffer(n) PROVE HistoryOK'
  BY <1>3 DEF FillBuffer, HistoryOK, segmenters, saved, history
<1>4. CASE TakeResult
  <2>1. PICK t \in Tokens : tokens' = Append(tokens, t)
    BY <1>4, TakenFacts
  <2>2. tokens' \in Seq(Tokens)
    BY <2>1 DEF HistoryOK
  <2>3. /\ skipped' \in {skipped + 1, 0} /\ savedSkippedCount' \in {savedSkippedCount, savedSkippedCount + lastSkippedCount}
        /\ UNCHANGED <<cjk, savedMaxConsumedEndPosition, cuts, generation>>
    BY <1>4 DEF TakeResult, segmenters
  <2>4. lastSkippedCount \in Nat
    BY DEF CInv, ContextTypeOK
  <2> QED
    BY <2>2, <2>3, <2>4 DEF HistoryOK
<1>5. CASE AnalyzeCharacter
  <2>1. cjk' = CJKAnalyze(cjk).hits /\ UNCHANGED <<saved, history, generation>>
    BY <1>5 DEF AnalyzeCharacter
  <2>2. \A h \in cjk' : h \in cjk \cup {[begin |-> cursor, generation |-> generation]}
    BY <2>1 DEF CJKAnalyze
  <2>3. generation \in 1..generation
    BY DictionaryFacts DEF LInv
  <2> QED
    BY <2>1, <2>2, <2>3 DEF HistoryOK, saved, history
<1>6. CASE Arbitrate
  <2>1. /\ cuts' \in {cuts, cuts \cup {buffOffset'}} /\ buffOffset' = buffOffset + cursor + 1 /\ cjk' = {}
        /\ UNCHANGED <<saved, tokens, skipped, generation>>
    BY <1>6 DEF Arbitrate, Output, SegmentersReset
  <2>2. buffOffset' \in Nat
    BY <2>1 DEF CInv, ContextTypeOK
  <2> QED
    BY <2>1, <2>2 DEF HistoryOK, saved
<1>7. CASE DictionaryReloaded \/ UNCHANGED engine
  <2>1. /\ UNCHANGED <<cjk, saved, history>> /\ generation' \in {generation, generation + 1}
    BY <1>7 DEF DictionaryReloaded, Swapped, engine, segmenters
  <2>2. generation \in Nat
    BY DictionaryFacts DEF LInv
  <2>3. 1..generation \subseteq 1..generation'
    BY <2>1, <2>2
  <2> QED
    BY <2>1, <2>3 DEF HistoryOK, saved, history
<1> QED
  BY <1>1, <1>2, <1>3, <1>4, <1>5, <1>6, <1>7 DEF EngineNext, InsideCall

(* The inductive invariant of the engine.                                  *)
EInv == CInv /\ LInv /\ OInv /\ HistoryOK

(* It holds throughout.                                                    *)
LEMMA EInvAlways == EngineSpec => []EInv
<1>1. EngineInit => EInv
  BY EngineInitEstablishesCInv, LInvInit, OInvInit, HistoryInit DEF EInv
<1>2. EInv /\ [EngineNext]_engine => EInv'
  BY EngineNextPreservesCInv, LInvNext, OInvNext, HistoryNext DEF EInv
<1> QED
  BY <1>1, <1>2, PTL DEF EngineSpec

(* It types every variable.                                                *)
LEMMA EInvIsTyped == EInv => EngineTypeOK
<1> SUFFICES ASSUME EInv PROVE EngineTypeOK
  OBVIOUS
<1>1. CInv /\ LInv /\ OInv /\ HistoryOK /\ ContextTypeOK
  BY DEF EInv, CInv
<1>2. Looked \in Nat /\ 0..(Looked - 1) \subseteq Index
  <2>1. cursor \in Nat /\ BuffSize \in Nat
    BY <1>1, BufferAssumption DEF ContextTypeOK
  <2>2. pc \in {"analyze", "arbitrate"} => cursor < available /\ available <= BuffSize /\ available \in Nat
    BY <1>1 DEF CInv, BufferWindow, ReadContiguously, Loaded, ContextTypeOK
  <2> QED
    BY <2>1, <2>2 DEF Looked, Index
<1>3. RunsBefore(Looked) \subseteq Runs
  <2>1. NoRun \in Runs
    BY DEF NoRun, Runs
  <2>2. \A run \in RunsBefore(Looked) : run = NoRun \/ run \in [start : Nat, end : Nat]
    BY DEF RunsBefore
  <2> QED
    BY <2>1, <2>2 DEF Runs
<1>4. SegmentersOK(Looked) /\ generation \in DOMAIN Dictionaries
  BY <1>1 DEF LInv
<1>5. letter \in [english: Runs, arabic: Runs, mix: Runs]
  BY <1>3, <1>4 DEF SegmentersOK
<1>6. surrogate \in [start: Int, end: Int, hasHighSurrogate: BOOLEAN]
  <2>1. (-1)..(Looked - 1) \subseteq Int
    BY <1>2
  <2> QED
    BY <1>4, <2>1 DEF SegmentersOK
<1>7. quantifier \in [number: Runs, countHits: SUBSET Index]
  BY <1>2, <1>3, <1>4 DEF SegmentersOK
<1>8. cjk \subseteq [begin: Index, generation: 1..generation]
  BY <1>1, <1>2, <1>4 DEF SegmentersOK, HistoryOK
<1>9. orgLexemes \in Seq(Lexeme)
  BY <1>1 DEF OInv, Lists
<1> QED
  BY <1>1, <1>4, <1>5, <1>6, <1>7, <1>8, <1>9 DEF EngineTypeOK, HistoryOK, Tokens

(* Every variable of the engine has its type.                              *)
THEOREM EngineIsTyped == EngineSpec => []EngineTypeOK
BY EInvAlways, EInvIsTyped, PTL

-----------------------------------------------------------------------------
(* What the walk puts out.                                                 *)

(* Of two results in line the first comes first: in smart mode it ends     *)
(* where the second begins, or before.                                     *)
InLine(l, m) == IF UseSmart THEN End(l) <= m.begin ELSE Before(l, m)

(* A sequence in line, and two sets of which one is in line before the     *)
(* other.                                                                  *)
Lined(r) == \A i, j \in DOMAIN r : i < j => InLine(r[i], r[j])

AllInLine(S, T) == \A l \in S, m \in T : InLine(l, m)

(* To be in line is transitive, keeps the order of the starts and is       *)
(* implied by lying apart.                                                 *)
LEMMA InLineFacts ==
  /\ \A l, m \in Lexeme : InLine(l, m) => l.begin <= m.begin
  /\ \A l, m, n \in Lexeme : InLine(l, m) /\ InLine(m, n) => InLine(l, n)
  /\ \A l, m \in Lexeme : End(l) <= m.begin => InLine(l, m)
<1>1. \A l, m \in Lexeme : InLine(l, m) => l.begin <= m.begin
  BY OrderFacts DEF InLine, Before
<1>2. ASSUME NEW l \in Lexeme, NEW m \in Lexeme, NEW n \in Lexeme, InLine(l, m), InLine(m, n)
      PROVE  InLine(l, n)
  <2>1. CASE UseSmart
    <3>1. m.begin <= End(m) /\ m.begin \in Nat /\ End(m) \in Nat /\ End(l) \in Nat /\ n.begin \in Nat
      BY OrderFacts
    <3> QED
      BY <1>2, <2>1, <3>1 DEF InLine
  <2>2. CASE ~UseSmart
    BY <1>2, <2>2, OrderFacts DEF InLine
  <2> QED
    BY <2>1, <2>2
<1>3. ASSUME NEW l \in Lexeme, NEW m \in Lexeme, End(l) <= m.begin PROVE InLine(l, m)
  <2>1. l.begin \in Nat /\ l.length \in Nat \ {0} /\ End(l) = l.begin + l.length /\ m.begin \in Nat
    BY OrderFacts
  <2>2. Before(l, m)
    BY <1>3, <2>1 DEF Before
  <2> QED
    BY <1>3, <2>2 DEF InLine
<1> QED
  BY <1>1, <1>2, <1>3

(* Sequences in line stay so behind one another when the first is in line  *)
(* before the second.                                                      *)
LEMMA TwoTogether ==
  ASSUME NEW S, NEW q \in Seq(S), NEW r \in Seq(S)
  PROVE  /\ q \o r \in Seq(S) /\ ToSet(q \o r) = ToSet(q) \cup ToSet(r)
         /\ Lined(q) /\ Lined(r) /\ AllInLine(ToSet(q), ToSet(r)) => Lined(q \o r)
<1> DEFINE c == q \o r
           a == Len(q)
           b == Len(r)
<1>1. /\ c \in Seq(S) /\ Len(c) = a + b
      /\ \A i \in 1..(a + b) : c[i] = IF i <= a THEN q[i] ELSE r[i - a]
  BY ConcatProperties
<1>2. /\ a \in Nat /\ b \in Nat /\ DOMAIN q = 1..a /\ DOMAIN r = 1..b
      /\ DOMAIN c = 1..(a + b)
  BY <1>1
<1> HIDE DEF c, a, b
<1>3. ASSUME NEW i \in 1..a PROVE i \in DOMAIN c /\ c[i] = q[i]
  BY <1>1, <1>2
<1>4. ASSUME NEW i \in 1..b PROVE a + i \in DOMAIN c /\ c[a + i] = r[i]
  <2>1. a + i \in 1..(a + b) /\ ~(a + i <= a) /\ (a + i) - a = i
    BY <1>2
  <2> QED
    BY <1>1, <1>2, <2>1
<1>5. ASSUME NEW i \in DOMAIN c
      PROVE  \/ i \in 1..a /\ c[i] = q[i]
             \/ i > a /\ i - a \in 1..b /\ c[i] = r[i - a]
  <2>1. i \in 1..(a + b)
    BY <1>2
  <2>2. CASE i <= a
    BY <1>1, <1>2, <2>1, <2>2
  <2>3. CASE ~(i <= a)
    <3>1. i > a /\ i - a \in 1..b
      BY <1>2, <2>1, <2>3
    <3> QED
      BY <1>1, <2>1, <2>3, <3>1
  <2> QED
    BY <2>2, <2>3
<1>6. ToSet(c) = ToSet(q) \cup ToSet(r)
  <2>1. ASSUME NEW x \in ToSet(c) PROVE x \in ToSet(q) \cup ToSet(r)
    BY <1>2, <1>5 DEF ToSet
  <2>2. ASSUME NEW x \in ToSet(q) PROVE x \in ToSet(c)
    BY <1>2, <1>3 DEF ToSet
  <2>3. ASSUME NEW x \in ToSet(r) PROVE x \in ToSet(c)
    BY <1>2, <1>4 DEF ToSet
  <2> QED
    BY <2>1, <2>2, <2>3
<1>7. ASSUME Lined(q), Lined(r), AllInLine(ToSet(q), ToSet(r)), NEW i \in DOMAIN c, NEW j \in DOMAIN c, i < j
      PROVE  InLine(c[i], c[j])
  <2>1. i \in 1..(a + b) /\ j \in 1..(a + b)
    BY <1>2
  <2>2. CASE i \in 1..a /\ c[i] = q[i] /\ j \in 1..a /\ c[j] = q[j]
    BY <1>2, <1>7, <2>2 DEF Lined
  <2>3. CASE i \in 1..a /\ c[i] = q[i] /\ j - a \in 1..b /\ c[j] = r[j - a]
    <3>1. q[i] \in ToSet(q) /\ r[j - a] \in ToSet(r)
      BY <1>2, <2>3 DEF ToSet
    <3> QED
      BY <1>7, <2>3, <3>1 DEF AllInLine
  <2>4. CASE i - a \in 1..b /\ c[i] = r[i - a] /\ j - a \in 1..b /\ c[j] = r[j - a]
    <3>1. i - a < j - a
      BY <1>2, <1>7, <2>1
    <3> QED
      BY <1>2, <1>7, <2>4, <3>1 DEF Lined
  <2>5. ~(i > a /\ j <= a)
    BY <1>2, <1>7, <2>1
  <2>6. j \in 1..a => j <= a
    OBVIOUS
  <2> QED
    BY <1>5, <2>2, <2>3, <2>4, <2>5, <2>6
<1>8. Lined(q) /\ Lined(r) /\ AllInLine(ToSet(q), ToSet(r)) => Lined(c)
  BY <1>7 DEF Lined
<1> QED
  BY <1>1, <1>6, <1>8 DEF c

(* FlattenSeq puts one sequence behind the other.                          *)
IsFlattening(f, ss) == f[0] = <<>> /\ \A k \in 1..Len(ss) : f[k] = f[k - 1] \o ss[k]

(* FlattenSeq takes one sequence after the other.                          *)
LEMMA FlattenSteps ==
  ASSUME NEW S, NEW ss \in Seq(Seq(S))
  PROVE  \E f \in [0..Len(ss) -> Seq(S)] : IsFlattening(f, ss) /\ f[Len(ss)] = FlattenSeq(ss)
<1> DEFINE n == Len(ss)
           V == Seq(S)
           step == [x \in V \X (1..n) |-> x[1] \o ss[x[2]]]
           Eq(g) == g = [i \in 1..n |-> IF i = 1 THEN ss[i] ELSE g[i - 1] \o ss[i]]
           flatten == CHOOSE g : Eq(g)
           f == [k \in 0..n |-> IF k = 0 THEN <<>> ELSE flatten[k]]
<1>1. n \in Nat /\ \A k \in 1..n : ss[k] \in V
  OBVIOUS
<1>2. <<>> \in V /\ \A q \in V, r \in V : q \o r \in V
  OBVIOUS
<1>3. \A q \in V : <<>> \o q = q
  OBVIOUS
<1>4. CASE n = 0
  <2> DEFINE g == [k \in 0..0 |-> <<>>]
  <2>1. FlattenSeq(ss) = ss /\ ss = <<>>
    BY <1>4 DEF FlattenSeq
  <2>2. g \in [0..0 -> V] /\ g[0] = <<>>
    OBVIOUS
  <2>3. IsFlattening(g, ss)
    BY <1>4, <2>2 DEF IsFlattening
  <2> QED
    BY <1>4, <2>1, <2>2, <2>3
<1>5. CASE n # 0
  <2>1. FlattenSeq(ss) = flatten[n]
    BY <1>5 DEF FlattenSeq
  <2>2. \E g : Eq(g)
    <3>1. step \in [V \X (1..n) -> V]
      BY <1>1, <1>2
    <3> HIDE DEF Eq, step, n, V
    <3>2. PICK h \in [0..n -> V] : IsIteration(h, n, <<>>, step)
      BY <1>1, <1>2, <3>1, IterationExists
    <3> DEFINE g == [i \in 1..n |-> h[i]]
    <3>3. ASSUME NEW i \in 1..n PROVE h[i] = h[i - 1] \o ss[i]
      <4>1. i - 1 \in 0..n
        BY <1>1
      <4>2. h[i] = step[<<h[i - 1], i>>] /\ h[i - 1] \in V
        BY <3>2, <4>1 DEF IsIteration
      <4> QED
        BY <4>2 DEF step
    <3>4. ASSUME NEW i \in 1..n PROVE g[i] = IF i = 1 THEN ss[i] ELSE g[i - 1] \o ss[i]
      <4>1. CASE i = 1
        <5>1. h[0] = <<>> /\ i - 1 = 0
          BY <3>2, <4>1 DEF IsIteration
        <5> QED
          BY <1>1, <1>3, <3>3, <4>1, <5>1
      <4>2. CASE i # 1
        <5>1. i - 1 \in 1..n
          BY <1>1, <4>2
        <5> QED
          BY <3>3, <4>2, <5>1
      <4> QED
        BY <4>1, <4>2
    <3>5. g = [i \in 1..n |-> IF i = 1 THEN ss[i] ELSE g[i - 1] \o ss[i]]
      BY <3>4
    <3> QED
      BY <3>5 DEF Eq
  <2> HIDE DEF flatten, Eq
  <2>3. Eq(flatten)
    BY <2>2 DEF flatten
  <2>4. \A i \in 1..n : flatten[i] = IF i = 1 THEN ss[i] ELSE flatten[i - 1] \o ss[i]
    BY <2>3 DEF Eq
  <2> HIDE DEF n, V
  <2>5. f[0] = <<>>
    BY <1>1
  <2>6. ASSUME NEW k \in 1..n PROVE f[k] = f[k - 1] \o ss[k]
    <3>1. f[k] = flatten[k]
      BY <1>1
    <3>2. CASE k = 1
      <4>1. f[k - 1] = <<>>
        BY <1>1, <3>2
      <4>2. flatten[k] = ss[k]
        BY <2>4, <3>2
      <4> HIDE DEF f
      <4> QED
        BY <1>1, <1>3, <3>1, <4>1, <4>2
    <3>3. CASE k # 1
      <4>1. f[k - 1] = flatten[k - 1]
        BY <1>1, <3>3
      <4> HIDE DEF f
      <4> QED
        BY <2>4, <3>1, <3>3, <4>1
    <3> QED
      BY <3>2, <3>3
  <2>7. f[n] = flatten[n]
    BY <1>1, <1>5
  <2>8. DOMAIN f = 0..n /\ f = [k \in 0..n |-> f[k]]
    OBVIOUS
  <2> HIDE DEF f
  <2> DEFINE G == {k \in 0..n : f[k] \in V}
  <2>9. 0 \in G
    BY <1>1, <1>2, <2>5
  <2>10. ASSUME NEW k \in 0..(n - 1), k \in G PROVE k + 1 \in G
    <3>1. k + 1 \in 1..n /\ (k + 1) - 1 = k /\ k + 1 \in 0..n
      BY <1>1
    <3> QED
      BY <1>1, <1>2, <2>6, <2>10, <3>1
  <2>11. \A k \in 0..n : k \in G
    <3> HIDE DEF G
    <3> QED
      BY <1>1, <2>9, <2>10, UpTo
  <2>12. f \in [0..n -> V]
    BY <2>8, <2>11
  <2> QED
    BY <2>1, <2>5, <2>6, <2>7, <2>12 DEF IsFlattening, n, V
<1> QED
  BY <1>4, <1>5

(* What the arbitrator makes of a stretch: candidates, and a made-up word  *)
(* from the same buffer.                                                   *)
LEMMA ResolvedFrom ==
  ASSUME NEW p, IsStretch(p)
  PROVE  \A l \in ToSet(Resolved(p, TRUE).lexemes) :
            \/ l \in ToSet(p.lexemes)
            \/ l \in Lexeme /\ l.lexemeType = TypeCNWord /\ l.offset = p.lexemes[1].offset
<1> DEFINE q == p.lexemes
           r == Resolved(p, TRUE)
<1>1. /\ q \in Seq(Lexeme) /\ Len(q) \in Nat \ {0} /\ q[1] \in Lexeme /\ q[1] \in ToSet(q)
      /\ Head(q) = q[1] /\ p.pathEnd \in Nat /\ ~IsEmpty(p)
      /\ \A l \in ToSet(q) : End(l) <= p.pathEnd
  BY StretchFacts DEF IsStretch, IsEmpty
<1>2. r = IF Len(q) = 1 THEN p ELSE Judge(p)
  BY DEF Resolved
<1>3. CASE Len(q) = 1
  BY <1>2, <1>3
<1>4. CASE Len(q) # 1 /\ ShouldFallback(p)
  <2> DEFINE first == q[1]
             remain == p.pathEnd - End(first)
             word == NewLexeme(first.offset, End(first), remain, TypeCNWord)
             s == AddNotCrossLexeme(PathOf(first), word)
  <2>1. r = FallbackPath(p)
    BY <1>1, <1>2, <1>4 DEF Judge
  <2>2. FallbackPath(p) = IF remain > 0 THEN s ELSE PathOf(first)
    BY <1>1 DEF FallbackPath
  <2>3. first \in Lexeme /\ first \in ToSet(q) /\ End(first) \in Nat
    BY <1>1, OrderFacts
  <2> HIDE DEF first
  <2>4. /\ PathOf(first) \in Path /\ IsSegmentation(PathOf(first)) /\ ToSet(PathOf(first).lexemes) = {first}
        /\ PathOf(first).pathBegin = first.begin /\ PathOf(first).pathEnd = End(first)
    BY <2>3, PathOfFacts
  <2>5. CASE remain > 0
    <3>1. /\ word \in Lexeme /\ word.begin = End(first) /\ End(word) = p.pathEnd
          /\ word.offset = first.offset /\ word.lexemeType = TypeCNWord /\ remain \in Nat
      <4>1. remain \in Nat \ {0} /\ End(first) + remain = p.pathEnd
        BY <1>1, <2>3, <2>5
      <4>2. first.offset \in Nat /\ TypeCNWord \in LexemeType
        BY <2>3 DEF Lexeme, LexemeType
      <4> HIDE DEF remain
      <4> QED
        BY <2>3, <4>1, <4>2 DEF NewLexeme, Lexeme, End
    <3> HIDE DEF word
    <3>2. MayAddNotCross(PathOf(first), word)
      <4>1. first.begin < End(first) /\ first.begin \in Nat
        BY <2>3, OrderFacts
      <4> QED
        BY <2>3, <2>4, <3>1, <4>1 DEF MayAddNotCross, CheckCross
    <3>3. ToSet(s.lexemes) = {first} \cup {word}
      BY <2>4, <3>1, <3>2, AddFits
    <3> QED
      BY <2>1, <2>2, <2>3, <2>5, <3>1, <3>3 DEF first
  <2>6. CASE ~(remain > 0)
    BY <2>1, <2>2, <2>3, <2>4, <2>6
  <2> QED
    BY <2>5, <2>6
<1>5. CASE Len(q) # 1 /\ ~ShouldFallback(p)
  <2>1. r = Judge(p)
    BY <1>2, <1>5
  <2>2. r \in Ways(q)
    BY <1>1, <1>5, <2>1, JudgeFacts
  <2> QED
    BY <2>2 DEF Ways
<1> QED
  BY <1>3, <1>4, <1>5

(* So what it makes comes from the buffer that the candidates come from.   *)
LEMMA ResolvedOffsets ==
  ASSUME NEW p, IsStretch(p), NEW o, \A l \in ToSet(p.lexemes) : l.offset = o
  PROVE  \A l \in ToSet(Resolved(p, TRUE).lexemes) : l.offset = o
<1>1. p.lexemes[1] \in ToSet(p.lexemes)
  BY StretchFacts
<1> QED
  BY <1>1, ResolvedFrom

(* What may be put out of the first n characters, and a path that may be.  *)
Put(n) == {l \in Lexeme : l.offset = buffOffset /\ End(l) <= n}

MayPut(p, n) == /\ p.lexemes \in Seq(Put(n)) /\ (p.lexemes # <<>>) /\ Lined(p.lexemes)
                /\ p.pathBegin = p.lexemes[1].begin

(* What the arbitrator leaves may be put out.                              *)
LEMMA ProcessedMayBePut ==
  ASSUME NEW n \in Nat, NEW q \in Lists(n), NEW p \in Process(q, UseSmart)
  PROVE  p.pathBegin = -1 \/ MayPut(p, n)
<1> DEFINE F == Put(n)
<1>1. /\ q \in Seq(Lexeme) /\ Ordered(q)
      /\ \A j \in 1..Len(q) : q[j] \in Lexeme /\ q[j].offset = buffOffset /\ End(q[j]) <= n
  <2>1. q \in Seq(Lexeme) /\ Ordered(q) /\ ToSet(q) \subseteq Fits(n)
    BY DEF Lists
  <2>2. \A j \in 1..Len(q) : q[j] \in ToSet(q)
    BY <2>1 DEF ToSet
  <2> QED
    BY <2>1, <2>2 DEF Fits
<1>2. CASE q = <<>>
  <2>1. Process(q, FALSE) = {newLexemePath}
    BY <1>1, <1>2, ProcessFacts
  <2>2. Resolved(newLexemePath, TRUE) = newLexemePath
    <3>1. newLexemePath.lexemes = <<>> /\ Len(newLexemePath.lexemes) = 0
      BY DEF newLexemePath
    <3>2. Judge(newLexemePath) \in Ways(<<>>)
      <4>1. <<>> \in Seq(Lexeme) /\ IsEmpty(newLexemePath)
        BY <3>1 DEF IsEmpty
      <4> QED
        BY <3>1, <4>1, JudgeFacts
    <3>3. Judge(newLexemePath) = newLexemePath
      <4>1. Judge(newLexemePath) \in Path /\ IsSegmentation(Judge(newLexemePath))
            /\ ToSet(Judge(newLexemePath).lexemes) = {}
        BY <3>2 DEF Ways, Segmentations, ToSet
      <4>2. Judge(newLexemePath).lexemes = <<>>
        <5> DEFINE w == Judge(newLexemePath).lexemes
        <5>1. w \in Seq(Lexeme) /\ ToSet(w) = {}
          BY <4>1 DEF Path
        <5> HIDE DEF w
        <5>2. DOMAIN w = 1..Len(w) /\ Len(w) \in Nat /\ DOMAIN w = {}
          BY <5>1 DEF ToSet
        <5>3. Len(w) = 0
          BY <5>2
        <5>4. w = <<>>
          BY <5>1, <5>3
        <5> QED
          BY <5>4 DEF w
      <4> QED
        BY <4>1, <4>2, SegmentationIs
    <3> QED
      BY <3>1, <3>3 DEF Resolved
  <2>3. p = newLexemePath
    <3>1. CASE UseSmart
      BY <1>1, <2>1, <2>2, <3>1, SmartFollowsMaxWord
    <3>2. CASE ~UseSmart
      BY <2>1, <3>2, BufferAssumption
    <3> QED
      BY <3>1, <3>2
  <2> QED
    BY <2>3 DEF newLexemePath
<1>3. CASE q # <<>>
  <2>1. AreStretches(Process(q, FALSE), q, Len(q))
    BY <1>1, <1>3, ProcessFacts
  <2>2. \A s \in Process(q, FALSE) :
           IsStretch(s) /\ \A l \in ToSet(s.lexemes) : l.offset = buffOffset /\ End(l) <= n
    BY <1>1, <2>1 DEF AreStretches
  <2>3. ASSUME NEW r \in Path, r.lexemes # <<>>, Lined(r.lexemes), r.pathBegin = r.lexemes[1].begin,
               \A l \in ToSet(r.lexemes) : l.offset = buffOffset /\ End(l) <= n
        PROVE  MayPut(r, n)
    <3>1. r.lexemes \in Seq(Lexeme)
      BY DEF Path
    <3>2. \A i \in 1..Len(r.lexemes) : r.lexemes[i] \in F
      BY <2>3, <3>1 DEF ToSet, Put
    <3> HIDE DEF F
    <3>3. r.lexemes \in Seq(F)
      BY <3>1, <3>2
    <3> QED
      BY <2>3, <3>3 DEF MayPut, F
  <2>4. CASE UseSmart
    <3>1. PICK s \in Process(q, FALSE) : p = Resolved(s, TRUE)
      BY <1>1, <2>4, SmartFollowsMaxWord
    <3>2. IsStretch(s) /\ \A l \in ToSet(s.lexemes) : l.offset = buffOffset /\ End(l) <= n
      BY <2>2
    <3>3. /\ p \in Path /\ IsSegmentation(p)
          /\ \A l \in ToSet(p.lexemes) : l.offset = buffOffset /\ End(l) <= s.pathEnd
      BY <3>1, <3>2, ResolvedFacts, ResolvedOffsets DEF Segmentations
    <3>4. s.pathEnd <= n
      BY <3>2 DEF IsStretch
    <3>5. s.pathEnd \in Nat /\ \A l \in ToSet(p.lexemes) : l \in Lexeme
      BY <3>2, <3>3, StretchFacts DEF Path, ToSet
    <3>6. \A l \in ToSet(p.lexemes) : l.offset = buffOffset /\ End(l) <= n
      BY <3>3, <3>4, <3>5, OrderFacts
    <3>7. CASE p.lexemes = <<>>
      BY <3>3, <3>7, SegmentationIs DEF newLexemePath
    <3>8. CASE p.lexemes # <<>>
      <4>1. p.lexemes \in Seq(Lexeme) /\ Spaced(p.lexemes) /\ p.pathBegin = Head(p.lexemes).begin
        BY <3>3, <3>8, SegmentationIs DEF Path
      <4>2. Head(p.lexemes) = p.lexemes[1]
        BY <3>8, <4>1, SpacedEnds
      <4>3. Lined(p.lexemes)
        BY <2>4, <4>1 DEF Lined, InLine, Spaced
      <4> QED
        BY <2>3, <3>3, <3>6, <3>8, <4>1, <4>2, <4>3
    <3> QED
      BY <3>7, <3>8
  <2>5. CASE ~UseSmart
    <3>1. p \in Process(q, FALSE)
      BY <2>5, BufferAssumption
    <3>2. IsStretch(p) /\ \A l \in ToSet(p.lexemes) : l.offset = buffOffset /\ End(l) <= n
      BY <2>2, <3>1
    <3>3. Lined(p.lexemes)
      BY <2>5, <3>2 DEF Lined, InLine, IsStretch, Ordered
    <3> QED
      BY <2>3, <3>2, <3>3 DEF IsStretch
  <2> QED
    BY <2>4, <2>5
<1> QED
  BY <1>2, <1>3

(* The characters that come out alone when no lexeme covers them, what is  *)
(* ahead of a place in the buffer, and results that lay out a part of it:  *)
(* in line, from a on and ahead of b, with all those characters in them.   *)
StandsAlone(i) == charTypes[i] \in {charChinese, charOtherCJK}

Ahead(l, b) == IF UseSmart THEN End(l) <= b ELSE l.begin < b

Lays(r, a, b, n) ==
    /\ r \in Seq(Put(n)) /\ Lined(r)
    /\ \A l \in ToSet(r) : a <= l.begin /\ Ahead(l, b)
    /\ \A i \in a..(b - 1) : StandsAlone(i) => Spanned(r, i)

(* What is known of a lexeme that may be put out.                          *)
LEMMA PutFacts ==
  ASSUME NEW n \in Nat
  PROVE  \A l \in Put(n) : /\ l \in Lexeme /\ l.begin \in Nat /\ End(l) \in Nat /\ l.begin < End(l)
                           /\ End(l) <= n /\ l.offset = buffOffset
BY OrderFacts DEF Put

(* Nothing lays out an empty part.                                         *)
LEMMA LaysNothing ==
  ASSUME NEW n \in Nat, NEW a \in Nat, NEW b \in Int, b <= a
  PROVE  Lays(<<>>, a, b, n)
<1>1. <<>> \in Seq(Put(n)) /\ Lined(<<>>) /\ ToSet(<<>>) = {}
  BY DEF Lined, ToSet
<1>2. ~ \E i \in a..(b - 1) : TRUE
  OBVIOUS
<1> QED
  BY <1>1, <1>2 DEF Lays

(* A lexeme lays out what it spans.                                        *)
LEMMA LaysOne ==
  ASSUME NEW n \in Nat, NEW l \in Put(n)
  PROVE  Lays(<<l>>, l.begin, End(l), n)
<1>1. l \in Lexeme /\ l.begin \in Nat /\ End(l) \in Nat /\ l.begin < End(l)
  BY PutFacts
<1>2. <<l>> \in Seq(Put(n)) /\ DOMAIN <<l>> = {1} /\ <<l>>[1] = l
  OBVIOUS
<1> DEFINE q == <<l>>
<1> HIDE DEF q
<1>3. q \in Seq(Put(n)) /\ DOMAIN q = {1} /\ q[1] = l
  BY <1>2 DEF q
<1>4. ToSet(q) = {l} /\ Lined(q)
  BY <1>3 DEF ToSet, Lined
<1>5. \A i \in l.begin..(End(l) - 1) : Spanned(q, i)
  BY <1>1, <1>3 DEF Spanned, Spans
<1> QED
  BY <1>1, <1>3, <1>4, <1>5 DEF Lays, Ahead, q

(* One layout goes on where another stops.                                 *)
LEMMA LaysOn ==
  ASSUME NEW n \in Nat, NEW a \in Nat, NEW b \in Nat, NEW c \in Nat, b <= c,
         NEW q, NEW r, Lays(q, a, b, n), Lays(r, b, c, n), a <= b
  PROVE  Lays(q \o r, a, c, n) /\ ToSet(q \o r) = ToSet(q) \cup ToSet(r)
<1> DEFINE F == Put(n)
<1>1. q \in Seq(F) /\ r \in Seq(F)
  BY DEF Lays
<1> HIDE DEF F
<1>2. /\ q \o r \in Seq(F) /\ ToSet(q \o r) = ToSet(q) \cup ToSet(r)
      /\ Lined(q) /\ Lined(r) /\ AllInLine(ToSet(q), ToSet(r)) => Lined(q \o r)
  BY <1>1, TwoTogether
<1>3. ToSet(q) \subseteq F /\ ToSet(r) \subseteq F
  BY <1>1 DEF ToSet
<1>4. \A l \in F : l \in Lexeme /\ l.begin \in Nat /\ End(l) \in Nat /\ l.begin < End(l)
  BY PutFacts DEF F
<1>5. /\ \A l \in ToSet(q) : a <= l.begin /\ Ahead(l, b)
      /\ \A l \in ToSet(r) : b <= l.begin /\ Ahead(l, c)
      /\ Lined(q) /\ Lined(r)
  BY DEF Lays
<1>6. AllInLine(ToSet(q), ToSet(r))
  <2>1. ASSUME NEW l \in ToSet(q), NEW m \in ToSet(r) PROVE InLine(l, m)
    BY <1>3, <1>4, <1>5 DEF InLine, Ahead, Before
  <2> QED
    BY <2>1 DEF AllInLine
<1> DEFINE s == q \o r
<1>7. s \in Seq(F) /\ ToSet(s) = ToSet(q) \cup ToSet(r) /\ Lined(s)
  BY <1>2, <1>5, <1>6
<1> HIDE DEF s
<1>8. \A l \in ToSet(s) : a <= l.begin /\ Ahead(l, c)
  BY <1>3, <1>4, <1>5, <1>7 DEF Ahead
<1>9. \A i : Spanned(q, i) \/ Spanned(r, i) => Spanned(s, i)
  BY <1>7 DEF Spanned, ToSet
<1>10. ASSUME NEW i \in a..(c - 1), StandsAlone(i) PROVE Spanned(s, i)
  <2>1. i \in a..(b - 1) \/ i \in b..(c - 1)
    OBVIOUS
  <2>2. Spanned(q, i) \/ Spanned(r, i)
    BY <1>10, <2>1 DEF Lays
  <2> QED
    BY <1>9, <2>2
<1> QED
  BY <1>7, <1>8, <1>10 DEF Lays, F, s

(* A character alone.                                                      *)
LEMMA SingleLays ==
  ASSUME NEW n \in Nat, NEW i \in 0..(n - 1), buffOffset \in Nat
  PROVE  Lays(SingleCJK(i), i, i + 1, n)
<1>1. ASSUME NEW t \in {TypeCNChar, TypeOtherCJK}
      PROVE  Lays(<<NewLexeme(buffOffset, i, 1, t)>>, i, i + 1, n)
  <2> DEFINE l == NewLexeme(buffOffset, i, 1, t)
  <2>1. l \in Lexeme /\ l.offset = buffOffset /\ l.begin = i /\ End(l) = i + 1
    BY DEF NewLexeme, Lexeme, LexemeType, TypeCNChar, TypeOtherCJK, End
  <2> HIDE DEF l
  <2>2. l \in Put(n)
    BY <2>1 DEF Put
  <2>3. Lays(<<l>>, l.begin, End(l), n)
    BY <2>2, LaysOne
  <2> QED
    BY <2>1, <2>3 DEF l
<1>2. CASE ~StandsAlone(i)
  <2>1. SingleCJK(i) = <<>>
    BY <1>2 DEF SingleCJK, StandsAlone
  <2>2. <<>> \in Seq(Put(n)) /\ Lined(<<>>) /\ ToSet(<<>>) = {}
    BY DEF Lined, ToSet
  <2>3. \A j \in i..((i + 1) - 1) : j = i
    OBVIOUS
  <2> QED
    BY <1>2, <2>1, <2>2, <2>3 DEF Lays
<1>3. CASE StandsAlone(i)
  BY <1>1, <1>3 DEF SingleCJK, StandsAlone
<1> QED
  BY <1>2, <1>3

(* The characters between two lexemes.                                     *)
LEMMA SinglesLay ==
  ASSUME NEW n \in Nat, NEW a \in Nat, NEW b \in Int, b < n, buffOffset \in Nat
  PROVE  Lays(Singles(a, b), a, b + 1, n)
<1>1. CASE a > b
  <2>1. Singles(a, b) = <<>>
    BY <1>1 DEF Singles
  <2> QED
    BY <1>1, <2>1, LaysNothing
<1>2. CASE a <= b
  <2> DEFINE F == Put(n)
             m == b - a + 1
             ss == [k \in 1..m |-> SingleCJK(a + k - 1)]
  <2>1. m \in Nat /\ Singles(a, b) = FlattenSeq(ss) /\ Len(ss) = m
    <3>1. ~(a > b) /\ m \in Nat
      BY <1>2
    <3> QED
      BY <3>1 DEF Singles
  <2> HIDE DEF m
  <2>2. ASSUME NEW k \in 1..m PROVE Lays(ss[k], a + k - 1, a + k, n)
    <3>1. PICK i \in 0..(n - 1) : i = a + k - 1
      BY <2>1 DEF m
    <3>2. i + 1 = a + k
      BY <2>1, <3>1
    <3>3. ss[k] = SingleCJK(i)
      BY <3>1
    <3> HIDE DEF ss
    <3> QED
      BY <3>1, <3>2, <3>3, SingleLays
  <2>3. ss \in Seq(Seq(F))
    <3>1. \A k \in 1..m : ss[k] \in Seq(F)
      <4> HIDE DEF ss
      <4> QED
        BY <2>2 DEF Lays
    <3> HIDE DEF F
    <3>2. ss = [k \in 1..m |-> ss[k]]
      OBVIOUS
    <3> HIDE DEF ss
    <3> QED
      BY <2>1, <3>1, <3>2
  <2> HIDE DEF F, ss
  <2>4. PICK f \in [0..Len(ss) -> Seq(F)] : IsFlattening(f, ss) /\ f[Len(ss)] = FlattenSeq(ss)
    BY <2>3, FlattenSteps
  <2> DEFINE G == {k \in 0..m : Lays(f[k], a, a + k, n)}
  <2>5. 0 \in G
    <3>1. f[0] = <<>> /\ a + 0 = a
      BY <2>4 DEF IsFlattening
    <3> QED
      BY <2>1, <3>1, LaysNothing
  <2>6. ASSUME NEW k \in 0..(m - 1), k \in G PROVE k + 1 \in G
    <3>1. k + 1 \in 1..m /\ (k + 1) - 1 = k
      BY <2>1
    <3>2. f[k + 1] = f[k] \o ss[k + 1]
      BY <2>1, <2>4, <3>1 DEF IsFlattening
    <3>3. PICK c \in Nat, d \in Nat : c = a + k /\ d = a + (k + 1) /\ c = a + (k + 1) - 1
      BY <2>1
    <3>4. Lays(ss[k + 1], c, d, n) /\ Lays(f[k], a, c, n)
      BY <2>2, <2>6, <3>1, <3>3
    <3>5. Lays(f[k + 1], a, d, n)
      BY <3>2, <3>3, <3>4, LaysOn
    <3> QED
      BY <3>1, <3>3, <3>5
  <2>7. m \in G
    <3>1. m \in 0..m
      BY <2>1
    <3> HIDE DEF G
    <3> QED
      BY <2>1, <2>5, <2>6, <3>1, UpTo
  <2>8. a + m = b + 1
    BY <1>2 DEF m
  <2> QED
    BY <2>1, <2>4, <2>7, <2>8
<1> QED
  BY <1>1, <1>2

(* What is laid out so far of a path: all up to the end of its k-th        *)
(* lexeme, and nothing that comes after that one.                          *)
LaysUpTo(r, q, k, n) ==
    /\ r \in Seq(Put(n)) /\ Lined(r)
    /\ \A l \in ToSet(r) : q[1].begin <= l.begin /\ (l = q[k] \/ InLine(l, q[k]))
    /\ \A i \in q[1].begin..(End(q[k]) - 1) : StandsAlone(i) => Spanned(r, i)
    /\ \A j \in 1..k : q[j] \in ToSet(r)

(* The next lexeme of the path, with the characters before it.             *)
LEMMA PathGoesOn ==
  ASSUME NEW n \in Nat, NEW q \in Seq(Put(n)), Lined(q), NEW k \in 1..(Len(q) - 1),
         NEW f, LaysUpTo(f, q, k, n), NEW s, Lays(s, End(q[k]), q[k + 1].begin, n)
  PROVE  LaysUpTo(f \o Append(s, q[k + 1]), q, k + 1, n)
<1> DEFINE F == Put(n)
           x == q[k]
           y == q[k + 1]
           r == Append(s, y)
           t == f \o r
<1>1. k \in DOMAIN q /\ k + 1 \in DOMAIN q /\ 1 \in DOMAIN q /\ k < k + 1 /\ k + 1 \in Nat
  OBVIOUS
<1>2. x \in F /\ y \in F /\ q[1] \in F /\ InLine(x, y)
  BY <1>1 DEF Lined
<1>3. \A l \in F : l \in Lexeme /\ l.begin \in Nat /\ End(l) \in Nat /\ l.begin < End(l)
  BY PutFacts
<1>4. /\ f \in Seq(F) /\ Lined(f) /\ s \in Seq(F) /\ Lined(s)
      /\ \A l \in ToSet(f) : q[1].begin <= l.begin /\ (l = x \/ InLine(l, x))
      /\ \A i \in q[1].begin..(End(x) - 1) : StandsAlone(i) => Spanned(f, i)
      /\ \A j \in 1..k : q[j] \in ToSet(f)
      /\ \A l \in ToSet(s) : End(x) <= l.begin /\ Ahead(l, y.begin)
      /\ \A i \in End(x)..(y.begin - 1) : StandsAlone(i) => Spanned(s, i)
  BY DEF LaysUpTo, Lays
<1> HIDE DEF F, x, y
<1>5. ToSet(f) \subseteq F /\ ToSet(s) \subseteq F /\ x \in ToSet(f)
  <2>1. ToSet(f) \subseteq F /\ ToSet(s) \subseteq F
    BY <1>4 DEF ToSet
  <2>2. k \in 1..k
    OBVIOUS
  <2> QED
    BY <1>4, <2>1, <2>2 DEF x
<1>7. q[1].begin <= x.begin /\ x.begin <= y.begin
  BY <1>2, <1>3, <1>4, <1>5, InLineFacts
<1> DEFINE z == <<y>>
<1>8. r = s \o z
  <2>1. \A l : Append(s, l) = s \o <<l>>
    BY <1>4
  <2> QED
    BY <2>1
<1>9. z \in Seq(F) /\ ToSet(z) = {y} /\ Lined(z)
  BY <1>2 DEF ToSet, Lined
<1>10. AllInLine(ToSet(s), {y})
  <2>1. ASSUME NEW l \in ToSet(s) PROVE InLine(l, y)
    BY <1>2, <1>3, <1>4, <1>5 DEF InLine, Ahead, Before
  <2> QED
    BY <2>1 DEF AllInLine
<1> HIDE DEF z
<1> HIDE DEF r
<1>11. r \in Seq(F) /\ ToSet(r) = ToSet(s) \cup {y} /\ Lined(r)
  <2>1. AllInLine(ToSet(s), ToSet(z))
    BY <1>9, <1>10
  <2>2. s \o z \in Seq(F) /\ ToSet(s \o z) = ToSet(s) \cup ToSet(z) /\ Lined(s \o z)
    BY <1>4, <1>9, <2>1, TwoTogether
  <2> QED
    BY <1>8, <1>9, <2>2
<1>12. ASSUME NEW l \in ToSet(f) PROVE InLine(l, y)
  BY <1>2, <1>3, <1>4, <1>5, <1>12, InLineFacts
<1>13. AllInLine(ToSet(f), ToSet(r))
  <2>1. ASSUME NEW l \in ToSet(f), NEW m \in ToSet(s) PROVE InLine(l, m)
    <3>1. End(x) <= m.begin /\ l \in Lexeme /\ m \in Lexeme /\ x \in Lexeme
      BY <1>2, <1>3, <1>4, <1>5
    <3>2. InLine(x, m)
      BY <3>1, InLineFacts
    <3>3. l = x \/ InLine(l, x)
      BY <1>4
    <3> QED
      BY <3>1, <3>2, <3>3, InLineFacts
  <2> QED
    BY <1>11, <1>12, <2>1 DEF AllInLine
<1>14. t \in Seq(F) /\ ToSet(t) = (ToSet(f) \cup ToSet(s)) \cup {y} /\ Lined(t)
  <2>1. t \in Seq(F) /\ ToSet(t) = ToSet(f) \cup ToSet(r) /\ Lined(t)
    BY <1>4, <1>11, <1>13, TwoTogether
  <2>2. ToSet(f) \cup ToSet(r) = (ToSet(f) \cup ToSet(s)) \cup {y}
    BY <1>11
  <2> QED
    BY <2>1, <2>2
<1> HIDE DEF t
<1>15. ASSUME NEW l \in ToSet(t) PROVE q[1].begin <= l.begin /\ (l = y \/ InLine(l, y))
  <2>1. CASE l \in ToSet(f)
    BY <1>4, <1>12, <2>1
  <2>2. CASE l \in ToSet(s)
    <3>1. InLine(l, y)
      BY <1>10, <2>2 DEF AllInLine
    <3>2. End(x) <= l.begin /\ l \in F /\ x.begin < End(x)
      BY <1>2, <1>3, <1>4, <1>5, <2>2
    <3> QED
      BY <1>2, <1>3, <1>7, <3>1, <3>2
  <2>3. CASE l = y
    BY <1>2, <1>3, <1>7, <2>3
  <2> QED
    BY <1>14, <2>1, <2>2, <2>3
<1>16. \A i : Spanned(f, i) \/ Spanned(s, i) \/ Spans(y, i) => Spanned(t, i)
  BY <1>14 DEF Spanned, ToSet
<1>17. ASSUME NEW i \in q[1].begin..(End(y) - 1), StandsAlone(i) PROVE Spanned(t, i)
  <2>1. CASE i < End(x)
    <3>1. i \in q[1].begin..(End(x) - 1)
      BY <1>2, <1>3, <2>1
    <3> QED
      BY <1>4, <1>16, <1>17, <3>1
  <2>2. CASE i >= End(x) /\ i < y.begin
    <3>1. i \in End(x)..(y.begin - 1)
      BY <1>2, <1>3, <2>2
    <3> QED
      BY <1>4, <1>16, <1>17, <3>1
  <2>3. CASE i >= y.begin
    <3>1. Spans(y, i)
      BY <1>2, <1>3, <2>3 DEF Spans
    <3> QED
      BY <1>16, <3>1
  <2> QED
    BY <1>2, <1>3, <2>1, <2>2, <2>3
<1>18. \A j \in 1..(k + 1) : q[j] \in ToSet(t)
  <2>1. \A j \in 1..(k + 1) : j \in 1..k \/ j = k + 1
    OBVIOUS
  <2>2. q[k + 1] = y
    BY DEF y
  <2> QED
    BY <1>4, <1>14, <2>1, <2>2
<1> QED
  BY <1>14, <1>15, <1>17, <1>18 DEF LaysUpTo, F, t, r, x, y

(* The results of a path lay out the text from its first lexeme to the end *)
(* of its last one, and hold all its lexemes.                              *)
LEMMA PathLays ==
  ASSUME NEW n \in Nat, buffOffset \in Nat, NEW p, MayPut(p, n)
  PROVE  LET r == PathResults(p)
             end == End(Last(p.lexemes))
         IN  /\ Lays(r, p.pathBegin, end, n)
             /\ end \in (p.pathBegin + 1)..n
             /\ ToSet(p.lexemes) \subseteq ToSet(r)
<1> DEFINE F == Put(n)
           q == p.lexemes
           m == Len(q)
           from(k) == IF k = 1 THEN q[1].begin ELSE End(q[k - 1])
           ss == [k \in DOMAIN q |-> Append(Singles(from(k), q[k].begin - 1), q[k])]
           r == PathResults(p)
<1>1. q \in Seq(F) /\ q # <<>> /\ Lined(q) /\ p.pathBegin = q[1].begin
  BY DEF MayPut
<1>2. r = FlattenSeq(ss)
  BY DEF PathResults
<1> HIDE DEF q, r
<1>3. m \in Nat \ {0} /\ DOMAIN q = 1..m /\ Last(q) = q[m] /\ (\A k \in 1..m : q[k] \in F)
  BY <1>1 DEF Last
<1>4. \A l \in F : l \in Lexeme /\ l.begin \in Nat /\ End(l) \in Nat /\ l.begin < End(l) /\ End(l) <= n
  BY PutFacts
<1>5. ASSUME NEW k \in 1..m PROVE from(k) \in Nat /\ q[k].begin - 1 \in Int /\ q[k].begin - 1 < n
                                  /\ (q[k].begin - 1) + 1 = q[k].begin
  <2>1. k - 1 \in 1..m \/ k = 1
    BY <1>3
  <2>2. 1 \in 1..m
    BY <1>3
  <2> HIDE DEF F, m
  <2>3. q[k].begin \in Nat /\ q[k].begin < n /\ q[1].begin \in Nat
    BY <1>3, <1>4, <2>2
  <2>4. k # 1 => End(q[k - 1]) \in Nat
    BY <1>3, <1>4, <2>1
  <2> QED
    BY <2>3, <2>4
<1>6. ASSUME NEW k \in 1..m
      PROVE  Lays(Singles(from(k), q[k].begin - 1), from(k), q[k].begin, n)
  <2> HIDE DEF from
  <2> QED
    BY <1>5, SinglesLay
<1>7. \A k \in 1..m : ss[k] = Append(Singles(from(k), q[k].begin - 1), q[k])
  BY <1>3
<1>8. ss \in Seq(Seq(F)) /\ Len(ss) = m
  <2>1. \A k \in 1..m : Singles(from(k), q[k].begin - 1) \in Seq(F)
    BY <1>6 DEF Lays
  <2> HIDE DEF F, from
  <2>2. \A k \in 1..m : Append(Singles(from(k), q[k].begin - 1), q[k]) \in Seq(F)
    BY <1>3, <2>1
  <2>3. ss = [k \in 1..m |-> ss[k]] /\ \A k \in 1..m : ss[k] \in Seq(F)
    BY <1>3, <1>7, <2>2
  <2> HIDE DEF ss, m
  <2> QED
    BY <1>3, <2>3
<1> HIDE DEF F, ss, m
<1>9. PICK f \in [0..Len(ss) -> Seq(F)] : IsFlattening(f, ss) /\ f[Len(ss)] = FlattenSeq(ss)
  BY <1>8, FlattenSteps
<1>10. f[0] = <<>> /\ f[m] = r /\ \A k \in 1..m : f[k] = f[k - 1] \o ss[k]
  BY <1>2, <1>8, <1>9 DEF IsFlattening
<1> DEFINE G == {k \in 0..m : k # 0 => LaysUpTo(f[k], q, k, n)}
<1>11. 0 \in G
  BY <1>3
<1>12. ASSUME NEW k \in 0..(m - 1), k \in G PROVE k + 1 \in G
  <2>1. k + 1 \in 1..m /\ (k + 1) - 1 = k
    BY <1>3
  <2>2. f[k + 1] = f[k] \o Append(Singles(from(k + 1), q[k + 1].begin - 1), q[k + 1])
    <3> HIDE DEF from
    <3> QED
      BY <1>7, <1>10, <2>1
  <2>3. CASE k = 0
    <3> DEFINE s == Singles(from(k + 1), q[k + 1].begin - 1)
               l == q[1]
    <3>1. k + 1 = 1 /\ from(k + 1) = q[1].begin
      BY <2>3
    <3>2. l \in F /\ l.begin \in Nat /\ q[k + 1] = l
      BY <1>3, <1>4, <2>1, <3>1
    <3>3. s = <<>>
      <4>1. l.begin > l.begin - 1
        BY <3>2
      <4>2. s = Singles(l.begin, l.begin - 1)
        BY <3>1, <3>2
      <4> QED
        BY <4>1, <4>2 DEF Singles
    <3> HIDE DEF s, l
    <3>4. f[k + 1] = <<l>>
      <4>1. f[k + 1] = f[k] \o Append(s, l) /\ f[k] = <<>>
        BY <1>10, <2>2, <2>3, <3>2 DEF s
      <4> QED
        BY <3>3, <4>1
    <3>5. Lays(<<l>>, l.begin, End(l), n)
      BY <3>2, LaysOne DEF F
    <3>6. \A j \in 1..(k + 1) : q[j] = l
      BY <2>3 DEF l
    <3>7. ToSet(<<l>>) = {l}
      BY DEF ToSet
    <3>8. q[1] = l /\ q[k + 1] = l
      BY <2>3 DEF l
    <3>9. LaysUpTo(f[k + 1], q, k + 1, n)
      BY <3>2, <3>4, <3>5, <3>6, <3>7, <3>8 DEF LaysUpTo, Lays
    <3> QED
      BY <2>1, <3>9
  <2>4. CASE k # 0
    <3> DEFINE s == Singles(from(k + 1), q[k + 1].begin - 1)
    <3>1. k \in 1..(Len(q) - 1) /\ k + 1 # 1 /\ from(k + 1) = End(q[k])
      BY <1>3, <2>1, <2>4 DEF m
    <3>2. Lays(s, End(q[k]), q[k + 1].begin, n)
      BY <1>6, <2>1, <3>1
    <3>3. LaysUpTo(f[k], q, k, n)
      BY <1>12, <2>4
    <3> HIDE DEF s
    <3>4. LaysUpTo(f[k] \o Append(s, q[k + 1]), q, k + 1, n)
      BY <1>1, <3>1, <3>2, <3>3, PathGoesOn DEF F
    <3>5. LaysUpTo(f[k + 1], q, k + 1, n)
      BY <2>2, <3>4 DEF s
    <3> QED
      BY <2>1, <3>5
  <2> QED
    BY <2>3, <2>4
<1>13. m \in G
  <2>1. m \in 0..m
    BY <1>3
  <2> HIDE DEF G
  <2> QED
    BY <1>3, <1>11, <1>12, <2>1, UpTo
<1>14. LaysUpTo(r, q, m, n)
  BY <1>3, <1>10, <1>13
<1> DEFINE end == End(q[m])
<1>15. q[m] \in F /\ q[1] \in F /\ q[1].begin <= q[m].begin
  <2>1. 1 \in 1..m /\ m \in 1..m
    BY <1>3
  <2>2. q[m] \in ToSet(r)
    BY <1>14, <2>1 DEF LaysUpTo
  <2> QED
    BY <1>3, <1>14, <2>1, <2>2 DEF LaysUpTo
<1>16. end \in (p.pathBegin + 1)..n
  BY <1>1, <1>4, <1>15
<1>17. \A l \in ToSet(r) : q[1].begin <= l.begin /\ Ahead(l, end)
  <2>1. ASSUME NEW l \in ToSet(r) PROVE Ahead(l, end)
    <3>1. l \in F /\ (l = q[m] \/ InLine(l, q[m]))
      BY <1>14, <2>1 DEF LaysUpTo, ToSet, F
    <3> QED
      BY <1>4, <1>15, <3>1 DEF Ahead, InLine, Before
  <2> QED
    BY <1>14, <2>1 DEF LaysUpTo
<1>18. Lays(r, p.pathBegin, end, n)
  BY <1>1, <1>14, <1>17 DEF LaysUpTo, Lays
<1>19. ToSet(q) \subseteq ToSet(r)
  BY <1>3, <1>14 DEF LaysUpTo, ToSet
<1> QED
  BY <1>3, <1>16, <1>18, <1>19 DEF q, r

(* A function whose values are made of later values, up to a last one.     *)
IsDescent(g, n, base, jump, step) ==
    g[n] = base /\ \A i \in 0..(n - 1) : g[i] = step[<<g[jump[i]], i>>]

(* There is such a function when every value refers to a later one.        *)
LEMMA DownExists ==
  ASSUME NEW n \in Nat, NEW V, NEW base \in V, NEW jump, NEW step \in [V \X (0..n) -> V],
         \A i \in 0..(n - 1) : jump[i] \in (i + 1)..n
  PROVE  \E g \in [0..n -> V] : IsDescent(g, n, base, jump, step)
<1> DEFINE W == [0..n -> V]
           none == [i \in 0..n |-> base]
           up == [x \in W \X (1..n) |->
                    [i \in 0..n |-> IF i = n - x[2] THEN step[<<x[1][jump[n - x[2]]], n - x[2]>>]
                                    ELSE x[1][i]]]
<1>1. none \in W
  OBVIOUS
<1>2. ASSUME NEW g \in W, NEW k \in 1..n
      PROVE  /\ n - k \in 0..(n - 1) /\ step[<<g[jump[n - k]], n - k>>] \in V
             /\ up[<<g, k>>] \in W
             /\ \A i \in 0..n : up[<<g, k>>][i] = IF i = n - k THEN step[<<g[jump[n - k]], n - k>>]
                                                  ELSE g[i]
  <2>1. n - k \in 0..(n - 1)
    OBVIOUS
  <2>2. jump[n - k] \in 0..n
    BY <2>1
  <2>3. g[jump[n - k]] \in V
    BY <2>2
  <2>4. step[<<g[jump[n - k]], n - k>>] \in V
    <3>1. n - k \in 0..n
      BY <2>1
    <3> QED
      BY <2>3, <3>1
  <2>5. up[<<g, k>>] = [i \in 0..n |-> IF i = n - k THEN step[<<g[jump[n - k]], n - k>>] ELSE g[i]]
    OBVIOUS
  <2> HIDE DEF up
  <2> QED
    BY <2>1, <2>4, <2>5
<1>3. up \in [W \X (1..n) -> W]
  <2>1. \A x \in W \X (1..n) : up[x] \in W
    <3>1. ASSUME NEW x \in W \X (1..n) PROVE up[x] \in W
      <4>1. PICK g \in W, k \in 1..n : x = <<g, k>>
        OBVIOUS
      <4> HIDE DEF up, W
      <4> QED
        BY <1>2, <4>1
    <3> QED
      BY <3>1
  <2>2. up = [x \in W \X (1..n) |-> up[x]]
    OBVIOUS
  <2> HIDE DEF up, W
  <2> QED
    BY <2>1, <2>2
<1> HIDE DEF up, W
<1>4. PICK h \in [0..n -> W] : IsIteration(h, n, none, up)
  BY <1>1, <1>3, IterationExists
<1> DEFINE G == {k \in 0..n : /\ h[k][n] = base
                              /\ \A i \in (n - k)..(n - 1) : h[k][i] = step[<<h[k][jump[i]], i>>]}
<1>5. 0 \in G
  <2>1. h[0] = none
    BY <1>4 DEF IsIteration
  <2>2. h[0][n] = base
    BY <2>1
  <2> QED
    BY <2>2
<1>6. ASSUME NEW m \in 0..(n - 1), m \in G PROVE m + 1 \in G
  <2> DEFINE k == m + 1
             g == h[m]
             f == h[k]
  <2>1. k \in 1..n /\ k - 1 = m /\ g \in W
    BY <1>4
  <2>2. f = up[<<g, k>>]
    BY <1>4, <2>1 DEF IsIteration
  <2>8. g[n] = base /\ \A i \in (n - m)..(n - 1) : g[i] = step[<<g[jump[i]], i>>]
    BY <1>6
  <2> HIDE DEF f, g
  <2>3. /\ n - k \in 0..(n - 1)
        /\ \A i \in 0..n : f[i] = IF i = n - k THEN step[<<g[jump[n - k]], n - k>>] ELSE g[i]
    BY <1>2, <2>1, <2>2
  <2>4. \A i \in 0..n : i > n - k => f[i] = g[i]
    BY <2>1, <2>3
  <2>5. f[n] = base
    BY <2>1, <2>3, <2>4, <2>8
  <2>6. ASSUME NEW i \in (n - k)..(n - 1) PROVE f[i] = step[<<f[jump[i]], i>>]
    <3>1. i \in 0..(n - 1) /\ jump[i] \in (i + 1)..n
      BY <2>1
    <3>2. f[jump[i]] = g[jump[i]]
      <4>1. jump[i] \in 0..n /\ jump[i] > n - k
        BY <2>1, <3>1
      <4> QED
        BY <2>4, <4>1
    <3>3. CASE i = n - k
      <4>1. PICK d \in 0..(n - 1) : d = n - k
        BY <2>3
      <4>2. \A j \in 0..n : f[j] = IF j = d THEN step[<<g[jump[d]], d>>] ELSE g[j]
        BY <2>3, <4>1
      <4>3. i = d /\ d \in 0..n
        BY <3>3, <4>1
      <4>4. f[d] = step[<<g[jump[d]], d>>]
        BY <4>2, <4>3
      <4> QED
        BY <3>2, <4>3, <4>4
    <3>4. CASE i # n - k
      <4>1. i \in (n - m)..(n - 1) /\ i > n - k /\ i \in 0..n
        BY <2>1, <3>1, <3>4
      <4> QED
        BY <2>4, <2>8, <3>2, <4>1
    <3> QED
      BY <3>3, <3>4
  <2> QED
    BY <2>1, <2>5, <2>6 DEF f
<1>7. n \in G
  <2>1. n \in 0..n
    OBVIOUS
  <2> HIDE DEF G
  <2> QED
    BY <1>5, <1>6, <2>1, UpTo
<1>8. h[n] \in [0..n -> V] /\ n - n = 0
  BY <1>4 DEF W
<1>9. IsDescent(h[n], n, base, jump, step)
  BY <1>7, <1>8 DEF IsDescent
<1> QED
  BY <1>8, <1>9

(* What holds of a place when it holds of all later ones holds of all.     *)
LEMMA DownTo ==
  ASSUME NEW n \in Nat, NEW P, \A i \in 0..n : (\A j \in (i + 1)..n : j \in P) => i \in P
  PROVE  \A i \in 0..n : i \in P
<1> DEFINE G == {k \in 0..n : \A j \in (n - k)..n : j \in P}
<1>1. 0 \in G
  <2>1. \A j \in (n + 1)..n : j \in P
    OBVIOUS
  <2>2. n \in 0..n /\ \A j \in (n - 0)..n : j = n
    OBVIOUS
  <2>3. n \in P
    BY <2>1, <2>2
  <2> QED
    BY <2>2, <2>3
<1>2. ASSUME NEW k \in 0..(n - 1), k \in G PROVE k + 1 \in G
  <2> DEFINE i == n - (k + 1)
  <2>1. i \in 0..n /\ i + 1 = n - k
    OBVIOUS
  <2>2. i \in P
    BY <1>2, <2>1
  <2>3. \A j \in i..n : j = i \/ j \in (n - k)..n
    BY <2>1
  <2> QED
    BY <1>2, <2>1, <2>2, <2>3
<1>3. n \in G
  <2>1. n \in 0..n
    OBVIOUS
  <2> HIDE DEF G
  <2> QED
    BY <1>1, <1>2, <2>1, UpTo
<1> QED
  BY <1>3

(* The walk over the buffer: what it makes of a useless character, of one  *)
(* where no path begins, and of one where a path does.                     *)
IsWalk(w, paths) ==
    /\ w[cursor + 1] = [results |-> <<>>, trailing |-> 0, useless |-> TRUE]
    /\ \A i \in 0..cursor :
          /\ charTypes[i] = charUseless =>
                /\ w[i].results = w[i + 1].results
                /\ w[i].trailing = IF w[i + 1].useless THEN w[i + 1].trailing + 1
                                   ELSE w[i + 1].trailing
                /\ w[i].useless = w[i + 1].useless
          /\ charTypes[i] # charUseless => ~w[i].useless
          /\ (charTypes[i] # charUseless /\ \A p \in paths : p.pathBegin # i) =>
                /\ w[i].results = SingleCJK(i) \o w[i + 1].results
                /\ w[i].trailing = w[i + 1].trailing
          /\ (charTypes[i] # charUseless /\ \E p \in paths : p.pathBegin = i) =>
                \E p \in paths :
                   /\ p.pathBegin = i
                   /\ w[i].results = PathResults(p) \o w[End(Last(p.lexemes))].results
                   /\ w[i].trailing = w[End(Last(p.lexemes))].trailing

(* What the walk over the buffer has put out from some place on.           *)
Putting(n) == [results: Seq(Put(n)), trailing: Nat, useless: BOOLEAN]

(* The walk of outputToResult, one place at a time.                        *)
LEMMA WalkSteps ==
  ASSUME NEW n \in Nat, cursor \in Nat, n = cursor + 1, buffOffset \in Nat,
         NEW paths, \A p \in paths : p.pathBegin = -1 \/ MayPut(p, n)
  PROVE  \E w \in [0..n -> Putting(n)] : IsWalk(w, paths) /\ w[0] = Walk(paths)
<1> DEFINE V == Putting(n)
           here(i) == {p \in paths : p.pathBegin = i}
           path(i) == CHOOSE p \in here(i) : TRUE
           next(i) == IF here(i) = {} THEN i + 1 ELSE End(Last(path(i).lexemes))
           out(i)  == IF here(i) = {} THEN SingleCJK(i) ELSE PathResults(path(i))
           base == [results |-> <<>>, trailing |-> 0, useless |-> TRUE]
           jump == [i \in 0..cursor |-> IF charTypes[i] = charUseless THEN i + 1 ELSE next(i)]
           made(rest, i) == IF charTypes[i] = charUseless
                            THEN [rest EXCEPT !.trailing = IF rest.useless THEN @ + 1 ELSE @]
                            ELSE [rest EXCEPT !.results = out(i) \o @, !.useless = FALSE]
           step == [x \in V \X (0..n) |-> IF x[2] > cursor THEN base ELSE made(x[1], x[2])]
           Eq(g) == g = [i \in 0..(cursor + 1) |->
                           IF i > cursor THEN base
                           ELSE LET rest == g[IF charTypes[i] = charUseless THEN i + 1 ELSE next(i)]
                                IN  made(rest, i)]
           walk == CHOOSE g : Eq(g)
<1>1. Walk(paths) = walk[0]
  BY DEF Walk
<1>2. ASSUME NEW i \in 0..cursor, here(i) # {}
      PROVE  path(i) \in paths /\ path(i).pathBegin = i /\ MayPut(path(i), n)
  <2>1. path(i) \in here(i)
    BY <1>2
  <2>2. path(i) \in paths /\ path(i).pathBegin = i
    BY <2>1
  <2> HIDE DEF path
  <2> QED
    BY <2>2
<1>3. ASSUME NEW i \in 0..cursor
      PROVE  /\ out(i) \in Seq(Put(n)) /\ next(i) \in (i + 1)..n
             /\ i \in 0..(n - 1) /\ i + 1 \in (i + 1)..n
  <2>1. i \in 0..(n - 1) /\ i + 1 \in (i + 1)..n
    OBVIOUS
  <2>2. CASE here(i) = {}
    <3>1. out(i) = SingleCJK(i) /\ next(i) = i + 1
      BY <2>2
    <3>2. Lays(SingleCJK(i), i, i + 1, n)
      BY <2>1, SingleLays
    <3> QED
      BY <2>1, <3>1, <3>2 DEF Lays
  <2>3. CASE here(i) # {}
    <3>1. MayPut(path(i), n) /\ path(i).pathBegin = i
      BY <1>2, <2>3
    <3>2. out(i) = PathResults(path(i)) /\ next(i) = End(Last(path(i).lexemes))
      BY <2>3
    <3> HIDE DEF path, out, next
    <3>3. PICK p : p = path(i)
      OBVIOUS
    <3>4. Lays(PathResults(p), p.pathBegin, End(Last(p.lexemes)), n)
          /\ End(Last(p.lexemes)) \in (p.pathBegin + 1)..n
      BY <3>1, <3>3, PathLays
    <3> QED
      BY <2>1, <3>1, <3>2, <3>3, <3>4 DEF Lays
  <2> QED
    BY <2>2, <2>3
<1> HIDE DEF out, next
<1>4. ASSUME NEW rest \in V, NEW i \in 0..cursor
      PROVE  /\ made(rest, i) \in V
             /\ charTypes[i] = charUseless =>
                   /\ made(rest, i).results = rest.results
                   /\ made(rest, i).trailing = IF rest.useless THEN rest.trailing + 1 ELSE rest.trailing
                   /\ made(rest, i).useless = rest.useless
             /\ charTypes[i] # charUseless =>
                   /\ ~made(rest, i).useless
                   /\ made(rest, i).results = out(i) \o rest.results
                   /\ made(rest, i).trailing = rest.trailing
  <2> DEFINE F == Put(n)
  <2>1. rest \in [results: Seq(F), trailing: Nat, useless: BOOLEAN] /\ out(i) \in Seq(F)
    BY <1>3 DEF Putting
  <2> HIDE DEF F
  <2>2. CASE charTypes[i] = charUseless
    <3>1. made(rest, i) = [rest EXCEPT !.trailing = IF rest.useless THEN rest.trailing + 1 ELSE rest.trailing]
      BY <2>2
    <3>2. made(rest, i) \in [results: Seq(F), trailing: Nat, useless: BOOLEAN]
      BY <2>1, <3>1
    <3>3. /\ made(rest, i).results = rest.results
          /\ made(rest, i).trailing = IF rest.useless THEN rest.trailing + 1 ELSE rest.trailing
          /\ made(rest, i).useless = rest.useless
      BY <2>1, <3>1
    <3> HIDE DEF made
    <3> QED
      BY <2>2, <3>2, <3>3 DEF Putting, F
  <2>3. CASE charTypes[i] # charUseless
    <3>1. out(i) \o rest.results \in Seq(F)
      BY <2>1
    <3>2. made(rest, i) = [rest EXCEPT !.results = out(i) \o rest.results, !.useless = FALSE]
      BY <2>3
    <3>3. made(rest, i) = [results |-> out(i) \o rest.results, trailing |-> rest.trailing, useless |-> FALSE]
      BY <2>1, <3>2
    <3> HIDE DEF made
    <3>4. made(rest, i) \in [results: Seq(F), trailing: Nat, useless: BOOLEAN]
      BY <2>1, <3>1, <3>3
    <3>5. /\ ~made(rest, i).useless /\ made(rest, i).results = out(i) \o rest.results
          /\ made(rest, i).trailing = rest.trailing
      BY <3>3
    <3> QED
      BY <2>3, <3>4, <3>5 DEF Putting, F
  <2> QED
    BY <2>2, <2>3
<1> HIDE DEF made
<1>5. base \in V
  <2>1. <<>> \in Seq(Put(n))
    OBVIOUS
  <2> QED
    BY <2>1 DEF Putting
<1>6. step \in [V \X (0..n) -> V]
  <2>1. \A i \in 0..n : i > cursor \/ i \in 0..cursor
    OBVIOUS
  <2> HIDE DEF V, base
  <2> QED
    BY <1>4, <1>5, <2>1
<1>7. \A i \in 0..(n - 1) : jump[i] \in (i + 1)..n
  BY <1>3
<1> HIDE DEF V, base, jump
<1>8. \E g \in [0..n -> V] : IsDescent(g, n, base, jump, step)
  <2> HIDE DEF step
  <2> QED
    BY <1>5, <1>6, <1>7, DownExists
<1>9. PICK g \in [0..n -> V] : IsDescent(g, n, base, jump, step)
  BY <1>8
<1>10. ASSUME NEW i \in 0..cursor
       PROVE  g[i] = made(g[IF charTypes[i] = charUseless THEN i + 1 ELSE next(i)], i)
  <2>1. i \in 0..(n - 1) /\ i \in 0..n /\ ~(i > cursor)
    OBVIOUS
  <2>2. jump[i] = IF charTypes[i] = charUseless THEN i + 1 ELSE next(i)
    BY DEF jump
  <2>3. jump[i] \in 0..n
    BY <1>7, <2>1
  <2>4. g[jump[i]] \in V
    BY <1>9, <2>3
  <2>5. g[i] = step[<<g[jump[i]], i>>]
    BY <1>9, <2>1 DEF IsDescent
  <2>6. g[i] = made(g[jump[i]], i)
    BY <2>1, <2>4, <2>5
  <2> QED
    BY <2>2, <2>6
<1>11. Eq(g)
  <2>1. g = [i \in 0..(cursor + 1) |-> g[i]]
    BY <1>9
  <2>2. \A i \in 0..(cursor + 1) : i > cursor => g[i] = base
    BY <1>9 DEF IsDescent
  <2>3. \A i \in 0..(cursor + 1) : ~(i > cursor) => i \in 0..cursor
    OBVIOUS
  <2>4. \A i \in 0..(cursor + 1) : g[i] = IF i > cursor THEN base
           ELSE LET rest == g[IF charTypes[i] = charUseless THEN i + 1 ELSE next(i)]
                IN  made(rest, i)
    BY <1>10, <2>2, <2>3
  <2> QED
    BY <2>1, <2>4
<1> HIDE DEF Eq
<1>12. Eq(walk)
  BY <1>11
<1> HIDE DEF walk
<1> DEFINE at(i) == walk[IF charTypes[i] = charUseless THEN i + 1 ELSE next(i)]
<1>13. /\ walk = [i \in 0..n |-> walk[i]] /\ walk[n] = base
       /\ \A i \in 0..cursor : walk[i] = made(at(i), i)
  <2>1. \A i \in 0..cursor : i \in 0..(cursor + 1) /\ ~(i > cursor)
    OBVIOUS
  <2>2. walk = [i \in 0..(cursor + 1) |->
                   IF i > cursor THEN base
                   ELSE LET rest == walk[IF charTypes[i] = charUseless THEN i + 1 ELSE next(i)]
                        IN  made(rest, i)]
    BY <1>12 DEF Eq
  <2>3. n \in 0..(cursor + 1) /\ n > cursor
    OBVIOUS
  <2> QED
    BY <2>1, <2>2, <2>3
<1> DEFINE P == {i \in 0..n : walk[i] \in V}
<1>14. \A i \in 0..n : i \in P
  <2>1. ASSUME NEW i \in 0..n, \A j \in (i + 1)..n : j \in P PROVE i \in P
    <3>1. CASE i = n
      BY <1>5, <1>13, <3>1
    <3>2. CASE i # n
      <4>1. i \in 0..cursor
        BY <3>2
      <4>2. (IF charTypes[i] = charUseless THEN i + 1 ELSE next(i)) \in (i + 1)..n
        BY <1>3, <4>1
      <4>3. at(i) \in V
        BY <2>1, <4>2
      <4> QED
        BY <1>4, <1>13, <4>1, <4>3
    <3> QED
      BY <3>1, <3>2
  <2> HIDE DEF P
  <2> QED
    BY <2>1, DownTo
<1>15. walk \in [0..n -> V]
  BY <1>13, <1>14
<1>16. ASSUME NEW i \in 0..cursor
       PROVE  /\ charTypes[i] = charUseless =>
                    /\ walk[i].results = walk[i + 1].results
                    /\ walk[i].trailing = IF walk[i + 1].useless THEN walk[i + 1].trailing + 1
                                          ELSE walk[i + 1].trailing
                    /\ walk[i].useless = walk[i + 1].useless
              /\ charTypes[i] # charUseless =>
                    /\ ~walk[i].useless
                    /\ walk[i].results = out(i) \o walk[next(i)].results
                    /\ walk[i].trailing = walk[next(i)].trailing
  <2>1. (IF charTypes[i] = charUseless THEN i + 1 ELSE next(i)) \in 0..n
    BY <1>3
  <2>2. at(i) \in V
    BY <1>15, <2>1
  <2>3. walk[i] = made(at(i), i)
    BY <1>13
  <2>4. CASE charTypes[i] = charUseless
    <3>1. PICK rest \in V : rest = walk[i + 1] /\ walk[i] = made(rest, i)
      BY <2>2, <2>3, <2>4
    <3>2. /\ made(rest, i).results = rest.results
          /\ made(rest, i).trailing = IF rest.useless THEN rest.trailing + 1 ELSE rest.trailing
          /\ made(rest, i).useless = rest.useless
      BY <1>4, <2>4
    <3> QED
      BY <2>4, <3>1, <3>2
  <2>5. CASE charTypes[i] # charUseless
    <3>1. PICK rest \in V : rest = walk[next(i)] /\ walk[i] = made(rest, i)
      BY <2>2, <2>3, <2>5
    <3>2. /\ made(rest, i).results = out(i) \o rest.results
          /\ made(rest, i).trailing = rest.trailing
          /\ ~made(rest, i).useless
      BY <1>4, <2>5
    <3> QED
      BY <2>5, <3>1, <3>2
  <2> QED
    BY <2>4, <2>5
<1>17. ASSUME NEW i \in 0..cursor, charTypes[i] # charUseless, \A p \in paths : p.pathBegin # i
       PROVE  /\ walk[i].results = SingleCJK(i) \o walk[i + 1].results
              /\ walk[i].trailing = walk[i + 1].trailing
  <2>1. here(i) = {}
    BY <1>17
  <2>2. out(i) = SingleCJK(i) /\ next(i) = i + 1
    BY <2>1 DEF out, next
  <2> QED
    BY <1>16, <1>17, <2>2
<1>18. ASSUME NEW i \in 0..cursor, charTypes[i] # charUseless, \E p \in paths : p.pathBegin = i
       PROVE  \E p \in paths :
                 /\ p.pathBegin = i
                 /\ walk[i].results = PathResults(p) \o walk[End(Last(p.lexemes))].results
                 /\ walk[i].trailing = walk[End(Last(p.lexemes))].trailing
  <2>1. here(i) # {}
    BY <1>18
  <2>2. out(i) = PathResults(path(i)) /\ next(i) = End(Last(path(i).lexemes))
    BY <2>1 DEF out, next
  <2>3. path(i) \in paths /\ path(i).pathBegin = i
    BY <1>2, <2>1
  <2> HIDE DEF path
  <2> QED
    BY <1>16, <1>18, <2>2, <2>3
<1>19. walk[cursor + 1] = base
  BY <1>13
<1>20. IsWalk(walk, paths)
  <2> HIDE DEF path, here
  <2> QED
    BY <1>16, <1>17, <1>18, <1>19 DEF IsWalk, base
<1> QED
  BY <1>1, <1>15, <1>20 DEF V

(* The walk lays out the whole part of the buffer that was looked at.      *)
LEMMA WalkLays ==
  ASSUME NEW n \in Nat, cursor \in Nat, n = cursor + 1, buffOffset \in Nat,
         NEW paths, \A p \in paths : p.pathBegin = -1 \/ MayPut(p, n)
  PROVE  Lays(Walk(paths).results, 0, n, n) /\ Walk(paths).trailing \in Nat
<1>1. PICK w \in [0..n -> Putting(n)] : IsWalk(w, paths) /\ w[0] = Walk(paths)
  BY WalkSteps
<1>2. 0 \in 0..n /\ w[0] \in Putting(n)
  OBVIOUS
<1> DEFINE P == {i \in 0..n : Lays(w[i].results, i, n, n)}
<1>3. n \in P
  <2>1. w[n].results = <<>>
    BY <1>1 DEF IsWalk
  <2> QED
    BY <2>1, LaysNothing
<1>4. ASSUME NEW i \in 0..cursor, \A j \in (i + 1)..n : j \in P PROVE i \in P
  <2>1. i \in 0..(n - 1) /\ i + 1 \in (i + 1)..n /\ i \in Nat /\ i \in 0..n
    OBVIOUS
  <2>2. PICK k \in Nat : k = i + 1 /\ i <= k /\ k <= n
    OBVIOUS
  <2>3. Lays(w[i + 1].results, i + 1, n, n)
    BY <1>4, <2>1
  <2>4. CASE charTypes[i] = charUseless
    <3>1. w[i].results = w[i + 1].results
      BY <1>1, <2>4 DEF IsWalk
    <3>2. ~StandsAlone(i)
      BY <2>4, CharTypesDiffer DEF StandsAlone
    <3>3. \A j \in i..(n - 1) : j = i \/ j \in (i + 1)..(n - 1)
      BY <2>1
    <3>4. \A l \in Put(n) : i + 1 <= l.begin => i <= l.begin
      BY PutFacts
    <3>5. ToSet(w[i + 1].results) \subseteq Put(n)
      BY <2>3 DEF Lays, ToSet
    <3>6. Lays(w[i].results, i, n, n)
      BY <2>3, <3>1, <3>2, <3>3, <3>4, <3>5 DEF Lays
    <3> QED
      BY <2>1, <3>6
  <2>5. CASE charTypes[i] # charUseless /\ \A p \in paths : p.pathBegin # i
    <3>1. w[i].results = SingleCJK(i) \o w[i + 1].results
      BY <1>1, <2>5 DEF IsWalk
    <3>2. Lays(SingleCJK(i), i, k, n) /\ Lays(w[i + 1].results, k, n, n)
      BY <2>1, <2>2, <2>3, SingleLays
    <3>3. Lays(w[i].results, i, n, n)
      BY <2>1, <2>2, <3>1, <3>2, LaysOn
    <3> QED
      BY <2>1, <3>3
  <2>6. CASE charTypes[i] # charUseless /\ \E p \in paths : p.pathBegin = i
    <3>1. PICK p \in paths : /\ p.pathBegin = i
                             /\ w[i].results = PathResults(p) \o w[End(Last(p.lexemes))].results
      BY <1>1, <2>6 DEF IsWalk
    <3>2. MayPut(p, n)
      BY <3>1
    <3>3. PICK e : e = End(Last(p.lexemes))
      OBVIOUS
    <3>4. Lays(PathResults(p), i, e, n) /\ e \in (i + 1)..n
      BY <3>1, <3>2, <3>3, PathLays
    <3>5. Lays(w[e].results, e, n, n) /\ e \in Nat /\ e <= n /\ i <= e
      BY <1>4, <3>4
    <3>6. Lays(w[i].results, i, n, n)
      BY <2>1, <3>1, <3>3, <3>4, <3>5, LaysOn
    <3> QED
      BY <2>1, <3>6
  <2> QED
    BY <2>4, <2>5, <2>6
<1>5. \A i \in 0..n : i \in P
  <2>1. ASSUME NEW i \in 0..n, \A j \in (i + 1)..n : j \in P PROVE i \in P
    <3>1. i = n \/ i \in 0..cursor
      OBVIOUS
    <3> HIDE DEF P
    <3> QED
      BY <1>3, <1>4, <2>1, <3>1
  <2> HIDE DEF P
  <2> QED
    BY <2>1, DownTo
<1> QED
  BY <1>1, <1>2, <1>5 DEF Putting

(* When nothing but useless characters comes from the m-th cell on, and the *)
(* paths stop there, so do the results, and the walk counts those          *)
(* characters and no other.                                                *)
LEMMA WalkCounts ==
  ASSUME NEW n \in Nat, cursor \in Nat, n = cursor + 1, buffOffset \in Nat,
         NEW m \in 0..n, m > 0 => charTypes[m - 1] # charUseless,
         \A i \in m..cursor : charTypes[i] = charUseless,
         NEW paths, \A p \in paths : p.pathBegin = -1 \/ MayPut(p, m)
  PROVE  LET w == Walk(paths)
         IN  /\ w.results \in Seq(Put(m)) /\ w.trailing = n - m
             /\ w.useless <=> m = 0
<1>1. \A p \in paths : p.pathBegin = -1 \/ MayPut(p, n)
  <2>1. Put(m) \subseteq Put(n)
    BY PutFacts DEF Put
  <2> QED
    BY <2>1 DEF MayPut
<1>2. PICK w \in [0..n -> Putting(n)] : IsWalk(w, paths) /\ w[0] = Walk(paths)
  BY <1>1, WalkSteps
<1>3. \A i \in 0..n : w[i].trailing \in Nat /\ w[i].useless \in BOOLEAN
  BY DEF Putting
<1> DEFINE F == Put(m)
           P == {i \in 0..n : /\ w[i].results \in Seq(F)
                              /\ i < m => ~w[i].useless /\ w[i].trailing = n - m
                              /\ i >= m => w[i].useless /\ w[i].trailing = n - i}
<1>4. n \in P
  <2>1. w[n].results = <<>> /\ w[n].trailing = 0 /\ w[n].useless
    BY <1>2 DEF IsWalk
  <2>2. n \in 0..n /\ ~(n < m) /\ n - n = 0 /\ <<>> \in Seq(F)
    OBVIOUS
  <2> HIDE DEF F
  <2> QED
    BY <2>1, <2>2
<1>5. ASSUME NEW i \in 0..cursor, \A j \in (i + 1)..n : j \in P PROVE i \in P
  <2>1. i \in 0..n /\ i + 1 \in (i + 1)..n /\ i \in Nat /\ i + 1 \in P
    BY <1>5
  <2>2. CASE charTypes[i] = charUseless
    <3>1. /\ w[i].results = w[i + 1].results
          /\ w[i].trailing = IF w[i + 1].useless THEN w[i + 1].trailing + 1
                             ELSE w[i + 1].trailing
          /\ w[i].useless = w[i + 1].useless
      BY <1>2, <2>2 DEF IsWalk
    <3>2. i < m => i + 1 < m
      BY <2>1, <2>2
    <3>3. i >= m => i + 1 >= m
      BY <2>1
    <3> QED
      BY <1>3, <2>1, <3>1, <3>2, <3>3
  <2>3. CASE charTypes[i] # charUseless
    <3>1. i < m /\ ~w[i].useless
      BY <1>2, <2>1, <2>3 DEF IsWalk
    <3>2. ASSUME NEW e \in (i + 1)..m, NEW out \in Seq(F),
                 w[i].results = out \o w[e].results, w[i].trailing = w[e].trailing
          PROVE  i \in P
      <4>1. e \in (i + 1)..n
        BY <2>1, <3>2
      <4>2. e \in P
        BY <1>5, <4>1
      <4>3. w[e].results \in Seq(F)
        BY <4>2
      <4>4. w[e].trailing = n - m
        BY <3>2, <4>2
      <4>5. w[i].results \in Seq(F)
        <5> HIDE DEF F
        <5> QED
          BY <3>2, <4>3
      <4>6. ~(i >= m) /\ w[i].trailing = n - m
        BY <2>1, <3>1, <3>2, <4>4
      <4> HIDE DEF F
      <4> QED
        BY <2>1, <3>1, <4>5, <4>6
    <3> HIDE DEF P
    <3>3. CASE \A p \in paths : p.pathBegin # i
      <4>1. w[i].results = SingleCJK(i) \o w[i + 1].results /\ w[i].trailing = w[i + 1].trailing
        BY <1>2, <2>3, <3>3 DEF IsWalk
      <4>2. i \in 0..(m - 1) /\ i + 1 \in (i + 1)..m
        BY <2>1, <3>1
      <4>3. Lays(SingleCJK(i), i, i + 1, m)
        BY <4>2, SingleLays
      <4>4. SingleCJK(i) \in Seq(F)
        BY <4>3 DEF Lays
      <4> QED
        BY <3>2, <4>1, <4>2, <4>4
    <3>4. CASE \E p \in paths : p.pathBegin = i
      <4>1. PICK p \in paths : /\ p.pathBegin = i
                               /\ w[i].results = PathResults(p) \o w[End(Last(p.lexemes))].results
                               /\ w[i].trailing = w[End(Last(p.lexemes))].trailing
        BY <1>2, <2>3, <3>4 DEF IsWalk
      <4>2. MayPut(p, m)
        BY <2>1, <4>1
      <4>3. PICK e : e = End(Last(p.lexemes))
        OBVIOUS
      <4>4. Lays(PathResults(p), i, e, m) /\ e \in (i + 1)..m
        BY <4>1, <4>2, <4>3, PathLays
      <4>5. PathResults(p) \in Seq(F)
        BY <4>4 DEF Lays
      <4> QED
        BY <3>2, <4>1, <4>3, <4>4, <4>5
    <3> QED
      BY <3>3, <3>4
  <2> QED
    BY <2>2, <2>3
<1>6. \A i \in 0..n : i \in P
  <2>1. ASSUME NEW i \in 0..n, \A j \in (i + 1)..n : j \in P PROVE i \in P
    <3>1. i = n \/ i \in 0..cursor
      OBVIOUS
    <3> HIDE DEF P
    <3> QED
      BY <1>4, <1>5, <2>1, <3>1
  <2> HIDE DEF P
  <2> QED
    BY <2>1, DownTo
<1>7. 0 \in 0..n /\ (0 < m \/ m = 0)
  OBVIOUS
<1>8. 0 \in P
  BY <1>6, <1>7
<1> QED
  BY <1>2, <1>7, <1>8

(* Paths that lie apart, each beginning in the text, are all met.          *)
LieApart(paths, n) ==
    /\ \A p \in paths : /\ MayPut(p, n) /\ End(Last(p.lexemes)) <= p.pathEnd /\ p.pathEnd \in Nat
                        /\ charTypes[p.pathBegin] # charUseless
    /\ \A p, r \in paths : p = r \/ Follows(p, r) \/ Follows(r, p)

(* When the paths lie apart the walk steps into none of them and so puts   *)
(* out the lexemes of every one.                                           *)
LEMMA WalkMeetsPaths ==
  ASSUME NEW n \in Nat, cursor \in Nat, n = cursor + 1, buffOffset \in Nat,
         NEW paths, LieApart(paths, n), NEW s \in paths
  PROVE  ToSet(s.lexemes) \subseteq ToSet(Walk(paths).results)
<1>1. PICK w \in [0..n -> Putting(n)] : IsWalk(w, paths) /\ w[0] = Walk(paths)
  BY WalkSteps DEF LieApart
<1>2. ASSUME NEW p \in paths
      PROVE  /\ MayPut(p, n) /\ p.pathBegin \in Nat
             /\ End(Last(p.lexemes)) \in (p.pathBegin + 1)..n
             /\ End(Last(p.lexemes)) <= p.pathEnd /\ p.pathEnd \in Nat
             /\ p.pathBegin < p.pathEnd /\ p.pathBegin < n
             /\ charTypes[p.pathBegin] # charUseless
             /\ ToSet(p.lexemes) \subseteq ToSet(PathResults(p)) /\ PathResults(p) \in Seq(Put(n))
  <2>1. /\ MayPut(p, n) /\ End(Last(p.lexemes)) <= p.pathEnd /\ p.pathEnd \in Nat
        /\ charTypes[p.pathBegin] # charUseless
    BY DEF LieApart
  <2>2. /\ Lays(PathResults(p), p.pathBegin, End(Last(p.lexemes)), n)
        /\ End(Last(p.lexemes)) \in (p.pathBegin + 1)..n
        /\ ToSet(p.lexemes) \subseteq ToSet(PathResults(p))
    BY <2>1, PathLays
  <2>3. p.pathBegin \in Nat
    <3>1. p.lexemes[1] \in Put(n)
      BY <2>1 DEF MayPut
    <3> QED
      BY <2>1, <3>1, PutFacts DEF MayPut
  <2> QED
    BY <2>1, <2>2, <2>3 DEF Lays
<1> DEFINE P == {i \in 0..n : \A p \in paths :
                    p.pathBegin >= i => ToSet(p.lexemes) \subseteq ToSet(w[i].results)}
           F == Put(n)
<1>3. \A i \in 0..n : w[i].results \in Seq(F)
  BY DEF Putting
<1>4. \A i \in Nat : SingleCJK(i) \in Seq(F) \/ i >= n
  <2>1. \A i \in 0..(n - 1) : SingleCJK(i) \in Seq(F)
    BY SingleLays DEF Lays
  <2> QED
    BY <2>1
<1>5. ASSUME NEW q \in Seq(F), NEW r \in Seq(F)
      PROVE  ToSet(q \o r) = ToSet(q) \cup ToSet(r)
  <2> HIDE DEF F
  <2> QED
    BY TwoTogether
<1>6. ASSUME NEW i \in 0..n, \A j \in (i + 1)..n : j \in P, NEW p \in paths, p.pathBegin >= i
      PROVE  ToSet(p.lexemes) \subseteq ToSet(w[i].results)
  <2>1. i \in 0..cursor /\ i + 1 \in (i + 1)..n /\ i \in Nat /\ ~(i >= n) /\ i + 1 \in 0..n
    BY <1>2, <1>6
  <2>2. CASE charTypes[i] = charUseless
    <3>1. w[i].results = w[i + 1].results
      BY <1>1, <2>1, <2>2 DEF IsWalk
    <3>2. p.pathBegin >= i + 1
      BY <1>2, <1>6, <2>2
    <3> QED
      BY <1>6, <2>1, <3>1, <3>2
  <2>3. CASE charTypes[i] # charUseless /\ \A r \in paths : r.pathBegin # i
    <3>1. w[i].results = SingleCJK(i) \o w[i + 1].results
      BY <1>1, <2>1, <2>3 DEF IsWalk
    <3>2. p.pathBegin >= i + 1
      BY <1>2, <1>6, <2>3
    <3>3. ToSet(p.lexemes) \subseteq ToSet(w[i + 1].results)
      BY <1>6, <2>1, <3>2
    <3>4. SingleCJK(i) \in Seq(F) /\ w[i + 1].results \in Seq(F)
      BY <1>3, <1>4, <2>1
    <3> QED
      BY <1>5, <3>1, <3>3, <3>4
  <2>4. CASE charTypes[i] # charUseless /\ \E r \in paths : r.pathBegin = i
    <3>1. PICK r \in paths : /\ r.pathBegin = i
                             /\ w[i].results = PathResults(r) \o w[End(Last(r.lexemes))].results
      BY <1>1, <2>1, <2>4 DEF IsWalk
    <3>2. PICK e : e = End(Last(r.lexemes))
      OBVIOUS
    <3>3. e \in (i + 1)..n /\ e <= r.pathEnd /\ e \in 0..n /\ r.pathEnd \in Nat
      BY <1>2, <2>1, <3>1, <3>2
    <3>4. PathResults(r) \in Seq(F) /\ w[e].results \in Seq(F)
      BY <1>2, <1>3, <3>3
    <3>5. ToSet(w[i].results) = ToSet(PathResults(r)) \cup ToSet(w[e].results)
      BY <1>5, <3>1, <3>2, <3>4
    <3>6. CASE p = r
      BY <1>2, <3>5, <3>6
    <3>7. CASE p # r
      <4>1. ~Follows(p, r)
        BY <1>2, <1>6, <3>1 DEF Follows
      <4>2. r.pathEnd <= p.pathBegin
        BY <3>7, <4>1 DEF LieApart, Follows
      <4>3. p.pathBegin >= e
        BY <1>2, <3>3, <4>2
      <4> QED
        BY <1>6, <3>3, <3>5, <4>3
    <3> QED
      BY <3>6, <3>7
  <2> QED
    BY <2>2, <2>3, <2>4
<1>7. \A i \in 0..n : i \in P
  <2>1. ASSUME NEW i \in 0..n, \A j \in (i + 1)..n : j \in P PROVE i \in P
    BY <1>6, <2>1
  <2> HIDE DEF P
  <2> QED
    BY <2>1, DownTo
<1>8. 0 \in 0..n /\ s.pathBegin >= 0
  BY <1>2
<1> QED
  BY <1>1, <1>7, <1>8

(* In max-word mode the paths lie apart and hold all the candidates.       *)
LEMMA MaxWordLiesApart ==
  ASSUME NEW n \in Nat, NEW q \in Lists(n), q # <<>>, ~UseSmart
  PROVE  /\ LieApart(Process(q, UseSmart), n)
         /\ \A l \in ToSet(q) : \E p \in Process(q, UseSmart) : l \in ToSet(p.lexemes)
<1> DEFINE paths == Process(q, UseSmart)
<1>1. /\ q \in Seq(Lexeme) /\ Ordered(q)
      /\ \A j \in 1..Len(q) : q[j] \in Lexeme /\ charTypes[q[j].begin] # charUseless
  <2>1. q \in Seq(Lexeme) /\ Ordered(q) /\ ToSet(q) \subseteq Fits(n)
    BY DEF Lists
  <2>2. \A j \in 1..Len(q) : q[j] \in ToSet(q)
    BY <2>1 DEF ToSet
  <2> QED
    BY <2>1, <2>2 DEF Fits
<1>2. paths = Process(q, FALSE)
  BY BufferAssumption
<1>3. AreStretches(paths, q, Len(q))
  BY <1>1, <1>2, ProcessFacts
<1>4. \A p \in paths : p.pathBegin = -1 \/ MayPut(p, n)
  BY ProcessedMayBePut
<1> HIDE DEF paths
<1>5. ASSUME NEW p \in paths
      PROVE  /\ MayPut(p, n) /\ End(Last(p.lexemes)) <= p.pathEnd /\ p.pathEnd \in Nat
             /\ charTypes[p.pathBegin] # charUseless
  <2>1. IsStretch(p) /\ \A l \in ToSet(p.lexemes) : \E j \in 1..Len(q) : l = q[j]
    BY <1>3 DEF AreStretches
  <2>2. /\ p.pathBegin \in Nat /\ p.pathEnd \in Nat /\ p.pathBegin = p.lexemes[1].begin
        /\ p.lexemes \in Seq(Lexeme) /\ Len(p.lexemes) \in Nat \ {0}
        /\ p.lexemes[1] \in ToSet(p.lexemes)
        /\ \A l \in ToSet(p.lexemes) : End(l) <= p.pathEnd
    BY <2>1, StretchFacts DEF IsStretch
  <2>3. Last(p.lexemes) \in ToSet(p.lexemes)
    BY <2>2 DEF Last, ToSet
  <2>4. MayPut(p, n)
    BY <1>4, <2>2
  <2>5. charTypes[p.pathBegin] # charUseless
    BY <1>1, <2>1, <2>2
  <2> QED
    BY <2>2, <2>3, <2>4, <2>5
<1>6. \A p, r \in paths : p = r \/ Follows(p, r) \/ Follows(r, p)
  BY <1>3 DEF AreStretches
<1>7. LieApart(paths, n)
  BY <1>5, <1>6 DEF LieApart
<1>8. \A l \in ToSet(q) : \E p \in paths : l \in ToSet(p.lexemes)
  BY <1>1, <1>3 DEF AreStretches, ToSet
<1> QED
  BY <1>7, <1>8 DEF paths

(* What the arbitration of a buffer puts out: the results lay out all that *)
(* was looked at, and in max-word mode they hold its letters and digits.   *)
LEMMA ArbitratedFacts ==
  ASSUME CInv, OInv, pc = "arbitrate"
  PROVE  LET w == Walk(Process(orgLexemes, UseSmart))
         IN  /\ Lays(w.results, 0, cursor + 1, cursor + 1) /\ w.trailing \in Nat
             /\ ~UseSmart => \A i \in 0..cursor : Alphanumeric(i) => Spanned(w.results, i)
<1> DEFINE paths == Process(orgLexemes, UseSmart)
           w == Walk(paths)
<1>1. cursor \in Nat /\ buffOffset \in Nat /\ Looked = cursor + 1
  BY DEF CInv, ContextTypeOK, Looked
<1>2. PICK n \in Nat : n = cursor + 1
  BY <1>1
<1>3. /\ orgLexemes \in Lists(n) /\ letter.mix = NoRun
      /\ \A i \in 0..cursor : Alphanumeric(i) => Holds(letter.mix, orgLexemes, i)
  BY <1>1, <1>2 DEF OInv
<1>4. \A p \in paths : p.pathBegin = -1 \/ MayPut(p, n)
  BY <1>3, ProcessedMayBePut
<1> HIDE DEF paths
<1>5. Lays(w.results, 0, n, n) /\ w.trailing \in Nat
  BY <1>1, <1>2, <1>4, WalkLays
<1>6. ASSUME ~UseSmart, NEW i \in 0..cursor, Alphanumeric(i) PROVE Spanned(w.results, i)
  <2>1. Spanned(orgLexemes, i)
    <3>1. Holds(letter.mix, orgLexemes, i)
      BY <1>3, <1>6
    <3> QED
      BY <1>1, <1>3, <3>1 DEF Holds, InRun, NoRun
  <2>2. PICK k \in DOMAIN orgLexemes : Spans(orgLexemes[k], i)
    BY <2>1 DEF Spanned
  <2>3. orgLexemes[k] \in ToSet(orgLexemes) /\ orgLexemes # <<>>
    BY <2>2 DEF ToSet
  <2>4. /\ LieApart(paths, n)
        /\ \E p \in paths : orgLexemes[k] \in ToSet(p.lexemes)
    BY <1>3, <1>6, <2>3, MaxWordLiesApart DEF paths
  <2>5. orgLexemes[k] \in ToSet(w.results)
    <3>1. PICK p \in paths : orgLexemes[k] \in ToSet(p.lexemes)
      BY <2>4
    <3>2. ToSet(p.lexemes) \subseteq ToSet(w.results)
      BY <1>1, <1>2, <2>4, WalkMeetsPaths
    <3> QED
      BY <3>1, <3>2
  <2> QED
    BY <2>2, <2>5 DEF Spanned, ToSet
<1> QED
  BY <1>2, <1>5, <1>6 DEF paths

(* What Output asks for of the lexemes and the count it is given.          *)
ArbitrationFits ==
    pc = "arbitrate" =>
       LET w == Walk(Process(orgLexemes, UseSmart))
       IN  /\ w.results \in Seq(Lexeme) /\ w.trailing \in Nat
           /\ \A k \in DOMAIN w.results : /\ w.results[k].offset = buffOffset
                                          /\ End(w.results[k]) <= cursor + 1

(* Arbitrate never refuses what the arbitrator leaves: every lexeme that   *)
(* outputToResult walks over lies in the part of the buffer that was       *)
(* looked at (ik_arbitrator.go:40-81, analyze_context.go:140-200), so that *)
(* the guard of Output rules out no behaviour of the engine.               *)
THEOREM ArbitrationAlwaysFits == EngineSpec => []ArbitrationFits
<1>1. EInv => ArbitrationFits
  <2> SUFFICES ASSUME EInv, pc = "arbitrate"
               PROVE  LET w == Walk(Process(orgLexemes, UseSmart))
                      IN  /\ w.results \in Seq(Lexeme) /\ w.trailing \in Nat
                          /\ \A k \in DOMAIN w.results : /\ w.results[k].offset = buffOffset
                                                         /\ End(w.results[k]) <= cursor + 1
    BY DEF ArbitrationFits
  <2> DEFINE w == Walk(Process(orgLexemes, UseSmart))
             q == w.results
  <2>1. Lays(q, 0, cursor + 1, cursor + 1) /\ w.trailing \in Nat
    BY ArbitratedFacts DEF EInv
  <2>2. PICK n \in Nat : n = cursor + 1
    BY DEF EInv, CInv, ContextTypeOK
  <2> HIDE DEF w
  <2>3. q \in Seq(Put(n))
    BY <2>1, <2>2 DEF Lays
  <2> HIDE DEF q
  <2>4. Put(n) \subseteq Lexeme /\ \A k \in DOMAIN q : q[k] \in Put(n)
    BY <2>3 DEF Put
  <2>5. q \in Seq(Lexeme)
    BY <2>3, <2>4
  <2>6. \A k \in DOMAIN q : q[k].offset = buffOffset /\ End(q[k]) <= n
    BY <2>4 DEF Put
  <2> QED
    BY <2>1, <2>2, <2>5, <2>6 DEF q, w
<1> QED
  BY <1>1, EInvAlways, PTL

-----------------------------------------------------------------------------
(* The order of the tokens.                                                *)

(* What joining and the whole of compound keep: the results stay in line,  *)
(* start where they started, leave no character out and keep two           *)
(* characters together that one result holds; max-word mode leaves them as *)
(* they are.                                                               *)
Holds2(ls, t) == \E k \in DOMAIN ls : ls[k].begin <= t /\ t + 2 <= End(ls[k])

Compounded(r, q) == /\ Lined(r) /\ r[1].begin = q[1].begin /\ SpansAll(q, r)
                    /\ \A t \in Nat : Holds2(q, t) => Holds2(r, t)
                    /\ ~UseSmart => r = q

(* Joining the first two results keeps the rest in line and leaves no      *)
(* character out.                                                          *)
LEMMA JoinedKeepsLine ==
  ASSUME UseSmart, NEW q, NEW origin \in Nat, NEW length \in Nat,
         NEW first \in LexemeType, NEW second \in LexemeType, NEW t \in LexemeType,
         InWindow(q, origin, length), Joins(q, first, second), Lined(q)
  PROVE  Compounded(Joined(q, t), q)
<1> DEFINE r == Joined(q, t)
<1>1. IsJoined(r, q, origin)
  BY JoinedIs
<1> HIDE DEF r
<1>2. /\ r \in Seq(Lexeme) /\ Len(r) = Len(q) - 1 /\ Len(r) \in Nat \ {0}
      /\ r[1] \in Lexeme /\ r[1].begin = q[1].begin
      /\ q[2].begin = End(q[1]) /\ End(r[1]) = End(q[2])
      /\ \A k \in 2..Len(r) : r[k] = q[k + 1]
  BY <1>1 DEF IsJoined
<1>3. q \in Seq(Lexeme) /\ Len(q) \in Nat /\ DOMAIN q = 1..Len(q) /\ DOMAIN r = 1..Len(r)
  BY <1>2 DEF InWindow
<1>4. \A i, j \in 1..Len(q) : i < j => End(q[i]) <= q[j].begin
  BY <1>3 DEF Lined, InLine
<1>5. ASSUME NEW i \in 1..Len(r), NEW j \in 1..Len(r), i < j PROVE End(r[i]) <= r[j].begin
  <2>1. j \in 2..Len(r) /\ j + 1 \in 1..Len(q) /\ r[j] = q[j + 1]
    BY <1>2, <1>3, <1>5
  <2>2. CASE i = 1
    <3>1. 2 \in 1..Len(q) /\ 2 < j + 1
      BY <1>2, <1>3, <2>1
    <3> QED
      BY <1>2, <1>4, <2>1, <2>2, <3>1
  <2>3. CASE i # 1
    <3>1. i \in 2..Len(r) /\ i + 1 \in 1..Len(q) /\ i + 1 < j + 1
      BY <1>2, <1>3, <1>5, <2>3
    <3> QED
      BY <1>2, <1>4, <2>1, <3>1
  <2> QED
    BY <2>2, <2>3
<1>6. Lined(r)
  BY <1>3, <1>5 DEF Lined, InLine
<1>7. ASSUME NEW i \in Nat, NEW k \in 1..Len(q), q[k].begin <= i, i < End(q[k])
      PROVE  \E m \in 1..Len(r) : r[m].begin <= i /\ i < End(r[m])
  <2>1. 1 \in 1..Len(r)
    BY <1>2
  <2>2. CASE k = 1 \/ k = 2
    <3>1. 1 \in 1..Len(q) /\ 2 \in 1..Len(q)
      BY <1>2, <1>3
    <3>2. q[1] \in Lexeme /\ q[2] \in Lexeme
      BY <1>3, <3>1
    <3>3. /\ q[1].begin \in Nat /\ End(q[1]) \in Nat /\ End(q[2]) \in Nat
          /\ q[1].begin < End(q[1]) /\ q[2].begin < End(q[2])
      BY <3>2, OrderFacts
    <3>4. r[1].begin <= i /\ i < End(r[1])
      BY <1>2, <1>7, <2>2, <3>3
    <3> QED
      BY <2>1, <3>4
  <2>3. CASE k > 2
    <3>1. PICK m \in 2..Len(r) : m = k - 1 /\ m + 1 = k
      BY <1>2, <1>3, <2>3
    <3>2. r[m] = q[k] /\ m \in 1..Len(r)
      BY <1>2, <3>1
    <3> QED
      BY <1>7, <3>2
  <2> QED
    BY <2>2, <2>3
<1>8. SpansAll(q, r)
  BY <1>3, <1>7 DEF SpansAll, Spanned, Spans
<1>9. ASSUME NEW t0 \in Nat, NEW k \in 1..Len(q), q[k].begin <= t0, t0 + 2 <= End(q[k])
      PROVE  \E m \in 1..Len(r) : r[m].begin <= t0 /\ t0 + 2 <= End(r[m])
  <2>1. 1 \in 1..Len(r)
    BY <1>2
  <2>2. CASE k = 1 \/ k = 2
    <3>1. 1 \in 1..Len(q) /\ 2 \in 1..Len(q)
      BY <1>2, <1>3
    <3>2. q[1] \in Lexeme /\ q[2] \in Lexeme
      BY <1>3, <3>1
    <3>3. /\ q[1].begin \in Nat /\ End(q[1]) \in Nat /\ End(q[2]) \in Nat
          /\ q[1].begin < End(q[1]) /\ q[2].begin < End(q[2])
      BY <3>2, OrderFacts
    <3>4. r[1].begin <= t0 /\ t0 + 2 <= End(r[1])
      BY <1>2, <1>9, <2>2, <3>3
    <3> QED
      BY <2>1, <3>4
  <2>3. CASE k > 2
    <3>1. PICK m \in 2..Len(r) : m = k - 1 /\ m + 1 = k
      BY <1>2, <1>3, <2>3
    <3>2. r[m] = q[k] /\ m \in 1..Len(r)
      BY <1>2, <3>1
    <3> QED
      BY <1>9, <3>2
  <2> QED
    BY <2>2, <2>3
<1>10. \A t0 \in Nat : Holds2(q, t0) => Holds2(r, t0)
  BY <1>3, <1>9 DEF Holds2
<1> QED
  BY <1>2, <1>6, <1>8, <1>10 DEF Compounded, r

(* So does compound, which joins at most twice.                            *)
LEMMA CompoundKeepsLine ==
  ASSUME NEW q, NEW origin \in Nat, NEW length \in Nat,
         InWindow(q, origin, length), q # <<>>, Lined(q)
  PROVE  Compounded(Compound(q), q)
<1>1. /\ TypeArabic \in LexemeType /\ TypeCNum \in LexemeType
      /\ TypeCount \in LexemeType /\ TypeCQuan \in LexemeType
  BY DEF LexemeType
<1>2. ASSUME NEW r, Lined(r) PROVE Compounded(r, r)
  BY <1>2 DEF Compounded, SpansAll
<1>3. CASE ~UseSmart
  BY <1>2, <1>3 DEF Compound
<1>4. CASE UseSmart
  <2> DEFINE r == JoinArabic(q)
             s == JoinCount(r)
  <2>1. InWindow(r, origin, length)
    BY <1>1, JoinedInWindow DEF JoinArabic
  <2>2. Compounded(r, q)
    <3>1. CASE Joins(q, TypeArabic, TypeCNum)
      <4>1. Compounded(Joined(q, TypeCNum), q)
        BY <1>1, <1>4, <3>1, JoinedKeepsLine
      <4> QED
        BY <3>1, <4>1 DEF JoinArabic
    <3>2. CASE ~Joins(q, TypeArabic, TypeCNum) /\ Joins(q, TypeArabic, TypeCount)
      <4>1. Compounded(Joined(q, TypeCQuan), q)
        BY <1>1, <1>4, <3>2, JoinedKeepsLine
      <4> QED
        BY <3>2, <4>1 DEF JoinArabic
    <3>3. CASE ~Joins(q, TypeArabic, TypeCNum) /\ ~Joins(q, TypeArabic, TypeCount)
      BY <1>2, <3>3 DEF JoinArabic
    <3> QED
      BY <3>1, <3>2, <3>3
  <2> HIDE DEF r
  <2>3. Compounded(s, r)
    <3>1. Lined(r)
      BY <2>2 DEF Compounded
    <3>2. CASE Joins(r, TypeCNum, TypeCount)
      <4>1. Compounded(Joined(r, TypeCQuan), r)
        BY <1>1, <1>4, <2>1, <3>1, <3>2, JoinedKeepsLine
      <4> QED
        BY <3>2, <4>1 DEF JoinCount
    <3>3. CASE ~Joins(r, TypeCNum, TypeCount)
      BY <1>2, <3>1, <3>3 DEF JoinCount
    <3> QED
      BY <3>2, <3>3
  <2>4. Compound(q) = s
    BY <1>4 DEF Compound, r
  <2> HIDE DEF s
  <2> QED
    BY <1>4, <2>2, <2>3, <2>4 DEF Compounded, SpansAll
<1> QED
  BY <1>3, <1>4

(* The results that wait come after the last token, and no token reaches   *)
(* beyond what was walked over; once the input has ended none can come.    *)
Comes(t, l) == IF UseSmart THEN t.end <= l.offset + l.begin
               ELSE \/ t.begin < l.offset + l.begin
                    \/ t.begin = l.offset + l.begin /\ t.end > l.offset + End(l)

(* Two tokens in a row as TokensInOrder wants them.                        *)
InTurn(t, u) == IF UseSmart THEN t.end <= u.begin
                 ELSE t.begin < u.begin \/ (t.begin = u.begin /\ t.end > u.end)

(* The inductive invariant of the order.                                   *)
OrderOK ==
    /\ Lined(results)
    /\ \A i \in 1..(Len(tokens) - 1) : InTurn(tokens[i], tokens[i + 1])
    /\ tokens # <<>> /\ results # <<>> => Comes(tokens[Len(tokens)], results[1])
    /\ Loaded => \A k \in DOMAIN tokens : tokens[k].end <= buffOffset
    /\ ~Loaded => tokens = <<>> \/ read = Len(input)
    /\ \A k \in DOMAIN tokens : tokens[k].begin < tokens[k].end

(* At the start nothing has come.                                          *)
LEMMA OrderInit == EngineInit => OrderOK
<1> SUFFICES ASSUME EngineInit PROVE OrderOK
  OBVIOUS
<1> QED
  BY DEF EngineInit, ContextInit, OrderOK, Lined, Loaded

(* The token that is taken comes after the last one and before the rest    *)
(* of the results.                                                         *)
LEMMA TakeResultKeepsOrder ==
  ASSUME CInv, HistoryOK, OrderOK, TakeResult
  PROVE  OrderOK'
<1> DEFINE q == Compound(results)
           l == Head(q)
<1>1. /\ results # <<>> /\ InWindow(results, Origin, cursor + 1)
      /\ InWindow(q, Origin, cursor + 1) /\ q # <<>>
      /\ l \in Lexeme /\ l.offset = Origin /\ End(l) <= cursor + 1 /\ Origin \in Nat
      /\ results' = Tail(q)
      /\ pc = "poll" /\ pc' \in {"poll", "idle"}
      /\ UNCHANGED <<read, input, cursor, buffOffset>>
  BY TakenFacts DEF reader, buffer
<1>2. PICK t \in Tokens : /\ tokens' = Append(tokens, t)
                          /\ t.begin = l.offset + l.begin /\ t.end = l.offset + End(l)
  BY TakenFacts
<1>3. cursor \in Nat /\ buffOffset \in Nat
  BY DEF CInv, ContextTypeOK
<1>4. Compounded(q, results)
  BY <1>1, <1>3, CompoundKeepsLine DEF OrderOK
<1> HIDE DEF q
<1>5. Lined(q) /\ q[1].begin = results[1].begin /\ (~UseSmart => q = results)
  BY <1>4 DEF Compounded
<1>6. /\ q \in Seq(Lexeme) /\ Len(q) \in Nat \ {0} /\ l = q[1] /\ DOMAIN q = 1..Len(q)
      /\ \A k \in 1..Len(q) : q[k].offset = Origin
  BY <1>1 DEF InWindow
<1> DEFINE r == Tail(q)
<1>7. r \in Seq(Lexeme) /\ Len(r) = Len(q) - 1 /\ \A k \in 1..Len(r) : r[k] = q[k + 1]
  BY <1>6, HeadTailProperties
<1> HIDE DEF r, l
<1>8. Lined(r)
  <2>1. ASSUME NEW i \in DOMAIN r, NEW j \in DOMAIN r, i < j PROVE InLine(r[i], r[j])
    <3>1. i \in 1..Len(r) /\ j \in 1..Len(r) /\ i + 1 \in DOMAIN q /\ j + 1 \in DOMAIN q /\ i + 1 < j + 1
      BY <1>6, <1>7, <2>1
    <3> QED
      BY <1>5, <1>7, <3>1 DEF Lined
  <2> QED
    BY <2>1 DEF Lined
<1>9. l.begin \in Nat /\ End(l) \in Nat /\ l.begin < End(l) /\ l.offset \in Nat
  BY <1>1, OrderFacts
<1>10. r # <<>> => Comes(t, r[1])
  <2> SUFFICES ASSUME r # <<>> PROVE Comes(t, r[1])
    OBVIOUS
  <2>1. 2 \in 1..Len(q) /\ 1 \in 1..Len(q) /\ r[1] = q[2]
    <3>1. Len(r) # 0
      BY <1>7
    <3> QED
      BY <1>6, <1>7, <3>1
  <2>2. InLine(l, q[2]) /\ q[2] \in Lexeme /\ q[2].offset = Origin
    BY <1>5, <1>6, <2>1 DEF Lined
  <2>3. q[2].begin \in Nat /\ End(q[2]) \in Nat /\ End(q[2]) = q[2].begin + q[2].length /\ q[2].length \in Nat
        /\ End(l) = l.begin + l.length /\ l.length \in Nat
    BY <1>1, <2>2, OrderFacts
  <2>4. PICK m : m = q[2] /\ m = r[1]
    BY <2>1
  <2>5. /\ m.begin \in Nat /\ m.length \in Nat /\ End(m) = m.begin + m.length /\ m.offset = Origin
        /\ InLine(l, m) /\ t.begin = Origin + l.begin /\ t.end = Origin + (l.begin + l.length)
        /\ l.begin \in Nat /\ l.length \in Nat /\ Origin \in Nat /\ End(l) = l.begin + l.length
    BY <1>1, <1>2, <1>9, <2>2, <2>3, <2>4
  <2>6. CASE UseSmart
    <3>1. t.end <= Origin + m.begin
      BY <2>5, <2>6 DEF InLine
    <3> QED
      BY <2>4, <2>5, <2>6, <3>1 DEF Comes
  <2>7. CASE ~UseSmart
    <3>1. l.begin < m.begin \/ (l.begin = m.begin /\ l.length > m.length)
      BY <2>5, <2>7 DEF InLine, Before
    <3>2. t.begin < Origin + m.begin \/ (t.begin = Origin + m.begin /\ t.end > Origin + End(m))
      BY <2>5, <3>1
    <3> QED
      BY <2>4, <2>5, <2>7, <3>2 DEF Comes
  <2> QED
    BY <2>6, <2>7
<1> DEFINE n == Len(tokens)
           u == tokens'
<1>11. /\ tokens \in Seq(Tokens) /\ n \in Nat /\ u \in Seq(Tokens) /\ Len(u) = n + 1
       /\ u[n + 1] = t /\ \A k \in 1..n : u[k] = tokens[k]
  BY <1>2 DEF HistoryOK
<1>12. ASSUME NEW i \in 1..(Len(u) - 1) PROVE InTurn(u[i], u[i + 1])
  <2>1. CASE i < n
    <3>1. i \in 1..(n - 1) /\ i \in 1..n /\ i + 1 \in 1..n
      BY <1>11, <2>1
    <3> QED
      BY <1>11, <3>1 DEF OrderOK
  <2>2. CASE i = n
    <3>1. u[i] = tokens[n] /\ u[i + 1] = t /\ (tokens # <<>>) /\ n \in 1..n
      BY <1>11, <1>12, <2>2
    <3>2. Comes(tokens[n], results[1])
      BY <1>1, <3>1 DEF OrderOK
    <3>3. tokens[n] \in Tokens /\ results[1] \in Lexeme /\ results[1].offset = Origin
      BY <1>1, <1>11, <3>1 DEF InWindow
    <3>4. t.begin = Origin + results[1].begin
      BY <1>1, <1>2, <1>5, <1>6
    <3>5. CASE UseSmart
      BY <3>1, <3>2, <3>3, <3>4, <3>5 DEF Comes, InTurn
    <3>6. CASE ~UseSmart
      <4>1. t.end = Origin + End(results[1])
        BY <1>1, <1>2, <1>5, <1>6, <3>6
      <4> QED
        BY <3>1, <3>2, <3>3, <3>4, <3>6, <4>1 DEF Comes, InTurn
    <3> QED
      BY <3>5, <3>6
  <2> QED
    BY <1>11, <2>1, <2>2
<1>13. Loaded' = Loaded /\ Loaded /\ Origin = buffOffset - (cursor + 1)
  <2>1. Loaded
    BY <1>1 DEF CInv, BufferWindow, ReadContiguously
  <2> QED
    BY <1>1, <2>1 DEF Loaded, Origin
<1>14. t.end <= buffOffset /\ t.begin < t.end
  BY <1>1, <1>2, <1>3, <1>9, <1>13
<1>15. \A k \in DOMAIN u : u[k].end <= buffOffset /\ u[k].begin < u[k].end
  <2>1. \A k \in DOMAIN u : k \in 1..n \/ k = n + 1
    BY <1>11
  <2>2. \A k \in 1..n : k \in DOMAIN tokens
    BY <1>11
  <2> QED
    BY <1>11, <1>13, <1>14, <2>1, <2>2 DEF OrderOK
<1>16. u[Len(u)] = t
  BY <1>11
<1> HIDE DEF u
<1>17. /\ tokens' = u /\ results' = r
  BY <1>1 DEF u, r
<1> QED
  BY <1>1, <1>8, <1>10, <1>12, <1>13, <1>15, <1>16, <1>17 DEF OrderOK

(* Steps that hand nothing out and keep the input.                         *)
LEMMA OrderStays ==
  ASSUME OrderOK, UNCHANGED <<tokens, results, read, input, buffOffset>>, Loaded' = Loaded
  PROVE  OrderOK'
BY DEF OrderOK

(* The results of a buffer come after all the tokens of the ones before.   *)
LEMMA ArbitrateKeepsOrder ==
  ASSUME CInv, OInv, HistoryOK, OrderOK, Arbitrate
  PROVE  OrderOK'
<1> DEFINE r == Walk(Process(orgLexemes, UseSmart)).results
<1>1. /\ pc = "arbitrate" /\ results' = results \o r /\ buffOffset' = buffOffset + cursor + 1
      /\ r \in Seq(Lexeme)
      /\ UNCHANGED <<tokens, read, input>> /\ pc' = "poll"
  BY DEF Arbitrate, Output, reader
<1>2. /\ results = <<>> /\ cursor \in Nat /\ buffOffset \in Nat
      /\ Loaded /\ Loaded' /\ buffOffset < buffOffset'
  <2>1. results = <<>> /\ cursor \in Nat /\ buffOffset \in Nat
    BY <1>1 DEF CInv, BufferWindow, NoResultsWhileFilling, ContextTypeOK
  <2>2. buffOffset < buffOffset' /\ buffOffset' > 0
    BY <1>1, <2>1
  <2> QED
    BY <1>1, <2>1, <2>2 DEF Loaded
<1>3. Lays(r, 0, cursor + 1, cursor + 1)
  BY <1>1, ArbitratedFacts
<1>4. PICK n \in Nat : n = cursor + 1
  BY <1>2
<1> HIDE DEF r
<1>5. results' = r
  BY <1>1, <1>2
<1>6. Lined(r) /\ r \in Seq(Put(n))
  BY <1>3, <1>4 DEF Lays
<1>7. ASSUME tokens # <<>>, r # <<>> PROVE Comes(tokens[Len(tokens)], r[1])
  <2>1. r[1] \in Put(n)
    BY <1>6, <1>7
  <2>2. r[1].begin \in Nat /\ r[1].offset = buffOffset
    BY <2>1, PutFacts
  <2>3. Len(tokens) \in DOMAIN tokens /\ tokens[Len(tokens)] \in Tokens
    BY <1>7 DEF HistoryOK
  <2>4. PICK t \in Tokens : t = tokens[Len(tokens)] /\ t.begin < t.end /\ t.end <= buffOffset
    BY <1>2, <2>3 DEF OrderOK
  <2>5. t.begin \in Nat /\ t.end \in Nat
    BY DEF Tokens
  <2> QED
    BY <1>2, <2>2, <2>4, <2>5 DEF Comes
<1>8. ASSUME NEW k \in DOMAIN tokens PROVE tokens[k].end <= buffOffset'
  <2>1. tokens[k].end <= buffOffset /\ tokens[k] \in Tokens
    BY <1>2 DEF OrderOK, HistoryOK
  <2> QED
    BY <1>2, <1>1, <2>1 DEF Tokens
<1> QED
  BY <1>1, <1>2, <1>5, <1>6, <1>7, <1>8 DEF OrderOK

(* At the end of the input nothing is left to fill the buffer with.        *)
LEMMA FillBufferKeepsOrder ==
  ASSUME CInv, OrderOK, NEW n \in ReadCounts, FillBuffer(n)
  PROVE  OrderOK'
<1>1. /\ pc = "fill" /\ pc' = "analyze" /\ Unprocessed + n > 0
      /\ UNCHANGED <<input, buffOffset, results, tokens>>
  BY DEF FillBuffer, Fill, history
<1>2. Loaded' /\ results = <<>> /\ Unprocessed \in Nat /\ Unprocessed < BuffSize
  BY <1>1, UnprocessedFacts DEF CInv, BufferWindow, NoResultsWhileFilling, Loaded
<1>3. CASE Loaded
  BY <1>1, <1>2, <1>3 DEF OrderOK
<1>4. CASE ~Loaded
  <2>1. buffOffset = 0 /\ Unprocessed = 0
    BY <1>1, <1>4 DEF Loaded, Unprocessed, CInv, ContextTypeOK
  <2>2. read # Len(input)
    <3> SUFFICES ASSUME read = Len(input) PROVE FALSE
      OBVIOUS
    <3>1. Len(input) - read = 0 /\ BuffSize - Unprocessed > 0 /\ BuffSize - Unprocessed \in Int
      BY <1>2, <2>1, BufferAssumption DEF CInv, ContextTypeOK
    <3>2. ReadCounts = {0}
      BY <3>1 DEF ReadCounts
    <3> QED
      BY <1>1, <2>1, <3>2
  <2>3. tokens = <<>>
    BY <1>4, <2>2 DEF OrderOK
  <2> QED
    BY <1>1, <1>2, <2>3 DEF OrderOK
<1> QED
  BY <1>3, <1>4

(* Every step keeps the order.                                             *)
LEMMA OrderNext ==
  ASSUME CInv, OInv, HistoryOK, OrderOK, [EngineNext]_engine
  PROVE  OrderOK'
<1>1. ASSUME NEW text \in LaterInputs, EngineReset(text) PROVE OrderOK'
  <2>1. /\ pc' = "idle" /\ results' = <<>> /\ tokens' = <<>> /\ buffOffset' = 0
    BY <1>1 DEF EngineReset, Reset, ContextReset
  <2> QED
    BY <2>1 DEF OrderOK, Lined, Loaded
<1>2. CASE NextCalled \/ NoMoreResults \/ FillFails
  <2>1. /\ UNCHANGED <<tokens, results, read, input, buffOffset>>
        /\ pc \notin {"analyze", "arbitrate"} /\ pc' \notin {"analyze", "arbitrate"}
    <3>1. CASE NextCalled
      BY <3>1 DEF NextCalled, CallNext, history, reader, buffer
    <3>2. CASE NoMoreResults
      BY <3>2 DEF NoMoreResults, NoResult, history, reader, buffer
    <3>3. CASE FillFails
      BY <3>3 DEF FillFails, ReadFails, history, reader
    <3> QED
      BY <1>2, <3>1, <3>2, <3>3
  <2> QED
    BY <2>1, OrderStays DEF Loaded
<1>3. CASE TakeResult
  BY <1>3, TakeResultKeepsOrder
<1>4. ASSUME NEW n \in ReadCounts, FillBuffer(n) PROVE OrderOK'
  BY <1>4, FillBufferKeepsOrder
<1>5. CASE Exhausted
  <2>1. /\ read = Len(input) /\ UNCHANGED <<read, input, tokens>>
        /\ results' = <<>> /\ buffOffset' = 0 /\ pc' = "idle"
    BY <1>5 DEF Exhausted, EndOfInput, ContextReset, reader, history
  <2> QED
    BY <2>1 DEF OrderOK, Lined, Loaded
<1>6. CASE AnalyzeCharacter
  <2>1. PICK locks : Analyze(locks) /\ UNCHANGED history
    BY <1>6 DEF AnalyzeCharacter
  <2>2. /\ pc = "analyze" /\ pc' \in {"analyze", "arbitrate"}
        /\ UNCHANGED <<tokens, results, read, input, buffOffset>>
    BY <2>1 DEF Analyze, history, reader
  <2> QED
    BY <2>2, OrderStays DEF Loaded
<1>7. CASE Arbitrate
  BY <1>7, ArbitrateKeepsOrder
<1>8. CASE DictionaryReloaded \/ UNCHANGED engine
  <2>1. UNCHANGED <<tokens, results, read, input, buffOffset, pc>>
    BY <1>8 DEF DictionaryReloaded, engine, cvars, history, reader, buffer
  <2> QED
    BY <2>1, OrderStays DEF Loaded
<1> QED
  BY <1>1, <1>2, <1>3, <1>4, <1>5, <1>6, <1>7, <1>8 DEF EngineNext, InsideCall

(* Whatever the text, the dictionary, the buffer and the reloads, tokens   *)
(* come in the order of their starts and in smart mode never overlap       *)
(* (lexeme_path.go:45-72, ik_arbitrator.go:84-124,                         *)
(* analyze_context.go:140-200), also from one buffer to the next.          *)
THEOREM TokensComeInOrder == EngineSpec => []TokensInOrder
<1>1. EngineInit => EInv /\ OrderOK
  BY EngineInitEstablishesCInv, LInvInit, OInvInit, HistoryInit, OrderInit DEF EInv
<1>2. (EInv /\ OrderOK) /\ [EngineNext]_engine => (EInv /\ OrderOK)'
  BY EngineNextPreservesCInv, LInvNext, OInvNext, HistoryNext, OrderNext DEF EInv
<1>3. OrderOK => TokensInOrder
  BY DEF OrderOK, InTurn, TokensInOrder
<1> QED
  BY <1>1, <1>2, <1>3, PTL DEF EngineSpec

-----------------------------------------------------------------------------
(* No character is lost.                                                   *)

(* The characters that must come out, and those in results that wait: what *)
(* was walked over and must come out is in a token or in such a result.    *)
Wanted(i) == TypeAt(i) \in {charChinese, charOtherCJK}
                          \cup (IF UseSmart THEN {} ELSE {charEnglish, charArabic})

Awaited(i) == \E k \in DOMAIN results : /\ results[k].offset + results[k].begin < i
                                        /\ i <= results[k].offset + End(results[k])

CoverOK == \A i \in 1..buffOffset : Wanted(i) => Covered(i) \/ Awaited(i)

(* Before the first buffer nothing was walked over.                        *)
LEMMA CoverInit == EngineInit => CoverOK
BY DEF EngineInit, ContextInit, CoverOK

(* Steps that hand nothing out and keep the input.                         *)
LEMMA CoverStays ==
  ASSUME CoverOK, UNCHANGED <<tokens, results, input, buffOffset>>
  PROVE  CoverOK'
BY DEF CoverOK, Wanted, TypeAt, Text, Covered, Awaited

(* A result that is taken becomes a token, and joining it with the next    *)
(* leaves no character out.                                                *)
LEMMA TakeResultKeepsCover ==
  ASSUME CInv, HistoryOK, OrderOK, CoverOK, TakeResult
  PROVE  CoverOK'
<1> DEFINE q == Compound(results)
           l == Head(q)
           r == Tail(q)
<1>1. /\ results # <<>> /\ InWindow(results, Origin, cursor + 1)
      /\ InWindow(q, Origin, cursor + 1) /\ q # <<>>
      /\ l \in Lexeme /\ l.offset = Origin /\ Origin \in Nat
      /\ results' = r
      /\ UNCHANGED <<read, input, cursor, buffOffset>>
  BY TakenFacts DEF reader, buffer
<1>2. PICK t \in Tokens : /\ tokens' = Append(tokens, t)
                          /\ t.begin = l.offset + l.begin /\ t.end = l.offset + End(l)
  BY TakenFacts
<1>3. cursor \in Nat /\ buffOffset \in Nat
  BY DEF CInv, ContextTypeOK
<1>4. SpansAll(results, q)
  BY <1>1, <1>3, CompoundKeepsLine DEF OrderOK, Compounded
<1> HIDE DEF q
<1>5. /\ q \in Seq(Lexeme) /\ Len(q) \in Nat \ {0} /\ l = q[1] /\ DOMAIN q = 1..Len(q)
      /\ \A k \in 1..Len(q) : q[k].offset = Origin
  BY <1>1 DEF InWindow
<1>6. r \in Seq(Lexeme) /\ Len(r) = Len(q) - 1 /\ \A k \in 1..Len(r) : r[k] = q[k + 1]
  BY <1>5, HeadTailProperties
<1> HIDE DEF r, l
<1>7. /\ tokens \in Seq(Tokens) /\ Len(tokens) \in Nat
      /\ Len(tokens') = Len(tokens) + 1 /\ tokens' \in Seq(Tokens)
      /\ tokens'[Len(tokens) + 1] = t
      /\ \A k \in 1..Len(tokens) : tokens'[k] = tokens[k]
  BY <1>2 DEF HistoryOK
<1>8. \A i : Covered(i) => Covered(i)'
  <2>1. \A k \in DOMAIN tokens : k \in DOMAIN tokens' /\ tokens'[k] = tokens[k]
    BY <1>7
  <2> QED
    BY <2>1 DEF Covered
<1>9. ASSUME NEW i \in 1..buffOffset, Awaited(i) PROVE Covered(i)' \/ Awaited(i)'
  <2>1. PICK k \in DOMAIN results : /\ results[k].offset + results[k].begin < i
                                    /\ i <= results[k].offset + End(results[k])
    BY <1>9 DEF Awaited
  <2>2. results[k] \in Lexeme /\ results[k].offset = Origin
    BY <1>1 DEF InWindow
  <2>3. results[k].begin \in Nat /\ End(results[k]) \in Nat
    BY <2>2, OrderFacts
  <2>4. PICK m \in Nat : m = i - 1 - Origin
    BY <1>1, <1>3, <2>1, <2>2, <2>3
  <2>5. Spanned(results, m)
    BY <1>1, <2>1, <2>2, <2>3, <2>4 DEF Spanned, Spans
  <2>6. PICK j \in 1..Len(q) : q[j].begin <= m /\ m < End(q[j])
    BY <1>4, <1>5, <2>5 DEF SpansAll, Spanned, Spans
  <2>7. q[j] \in Lexeme /\ q[j].offset = Origin /\ q[j].begin \in Nat /\ End(q[j]) \in Nat
    BY <1>5, OrderFacts
  <2>8. q[j].offset + q[j].begin < i /\ i <= q[j].offset + End(q[j])
    BY <1>1, <2>4, <2>6, <2>7
  <2>9. CASE j = 1
    <3>1. t.begin < i /\ i <= t.end
      BY <1>2, <1>5, <2>8, <2>9
    <3>2. Len(tokens) + 1 \in DOMAIN tokens'
      BY <1>7
    <3> QED
      BY <1>7, <3>1, <3>2 DEF Covered
  <2>10. CASE j # 1
    <3>1. j - 1 \in DOMAIN r /\ r[j - 1] = q[j]
      BY <1>5, <1>6, <2>10
    <3> QED
      BY <1>1, <2>8, <3>1 DEF Awaited
  <2> QED
    BY <2>9, <2>10
<1>10. \A i : Wanted(i)' <=> Wanted(i)
  BY <1>1 DEF Wanted, TypeAt, Text
<1> QED
  BY <1>1, <1>8, <1>9, <1>10 DEF CoverOK

(* What is walked over comes out of the arbitration in some result.        *)
LEMMA ArbitrateKeepsCover ==
  ASSUME CInv, OInv, CoverOK, Arbitrate
  PROVE  CoverOK'
<1> DEFINE r == Walk(Process(orgLexemes, UseSmart)).results
<1>1. /\ pc = "arbitrate" /\ results' = results \o r /\ buffOffset' = buffOffset + cursor + 1
      /\ r \in Seq(Lexeme)
      /\ UNCHANGED <<tokens, read, input>>
  BY DEF Arbitrate, Output, reader
<1>2. /\ results = <<>> /\ cursor \in Nat /\ buffOffset \in Nat
      /\ Loaded /\ Needed /\ Origin = buffOffset
  BY <1>1 DEF CInv, BufferWindow, NoResultsWhileFilling, ContextTypeOK, Loaded, Needed, Origin
<1>3. /\ Lays(r, 0, cursor + 1, cursor + 1)
      /\ ~UseSmart => \A i \in 0..cursor : Alphanumeric(i) => Spanned(r, i)
  BY <1>1, ArbitratedFacts
<1>4. PICK n \in Nat : n = cursor + 1
  BY <1>2
<1> HIDE DEF r
<1>5. results' = r
  BY <1>1, <1>2
<1>6. r \in Seq(Put(n)) /\ \A i \in 0..(n - 1) : StandsAlone(i) => Spanned(r, i)
  BY <1>3, <1>4 DEF Lays
<1>7. ASSUME NEW i \in 1..buffOffset, Wanted(i) PROVE Covered(i)'
  <2>1. ~Awaited(i)
    BY <1>2 DEF Awaited
  <2> QED
    BY <1>1, <1>7, <2>1 DEF CoverOK, Covered
<1>8. ASSUME NEW i \in (buffOffset + 1)..(buffOffset + n), Wanted(i) PROVE Awaited(i)'
  <2>1. PICK m \in 0..cursor : m = i - 1 - buffOffset /\ buffOffset + m + 1 = i
    BY <1>2, <1>4
  <2>2. charTypes[m] = TypeAt(i)
    BY <1>2, <2>1, CellsAreText
  <2>3. Spanned(r, m)
    <3>1. StandsAlone(m) \/ (~UseSmart /\ Alphanumeric(m))
      BY <1>8, <2>2 DEF Wanted, StandsAlone, Alphanumeric
    <3>2. m \in 0..(n - 1)
      BY <1>2, <1>4
    <3> QED
      BY <1>3, <1>6, <3>1, <3>2
  <2>4. PICK k \in DOMAIN r : r[k].begin <= m /\ m < End(r[k])
    BY <2>3 DEF Spanned, Spans
  <2>5. r[k] \in Put(n)
    BY <1>6, <2>4
  <2>6. r[k].begin \in Nat /\ End(r[k]) \in Nat /\ r[k].offset = buffOffset
    BY <2>5, PutFacts
  <2>7. r[k].offset + r[k].begin < i /\ i <= r[k].offset + End(r[k])
    BY <1>2, <2>1, <2>4, <2>6
  <2> QED
    BY <1>5, <2>7 DEF Awaited
<1>9. \A i : Wanted(i)' <=> Wanted(i)
  BY <1>1 DEF Wanted, TypeAt, Text
<1>10. \A i \in 1..buffOffset' : i \in 1..buffOffset \/ i \in (buffOffset + 1)..(buffOffset + n)
  BY <1>1, <1>2, <1>4
<1> QED
  BY <1>7, <1>8, <1>9, <1>10 DEF CoverOK

(* Every step keeps what must come out in a token or in a waiting result.  *)
LEMMA CoverNext ==
  ASSUME CInv, OInv, HistoryOK, OrderOK, CoverOK, [EngineNext]_engine
  PROVE  CoverOK'
<1>1. ASSUME NEW text \in LaterInputs, EngineReset(text) PROVE CoverOK'
  BY <1>1 DEF EngineReset, Reset, ContextReset, CoverOK
<1>2. CASE NextCalled \/ NoMoreResults \/ FillFails
  <2>1. UNCHANGED <<tokens, results, input, buffOffset>>
    <3>1. CASE NextCalled
      BY <3>1 DEF NextCalled, CallNext, history, reader, buffer
    <3>2. CASE NoMoreResults
      BY <3>2 DEF NoMoreResults, NoResult, history, reader, buffer
    <3>3. CASE FillFails
      BY <3>3 DEF FillFails, ReadFails, history, reader
    <3> QED
      BY <1>2, <3>1, <3>2, <3>3
  <2> QED
    BY <2>1, CoverStays
<1>3. CASE TakeResult
  BY <1>3, TakeResultKeepsCover
<1>4. ASSUME NEW n \in ReadCounts, FillBuffer(n) PROVE CoverOK'
  <2>1. UNCHANGED <<tokens, results, input, buffOffset>>
    BY <1>4 DEF FillBuffer, Fill, history
  <2> QED
    BY <2>1, CoverStays
<1>5. CASE Exhausted
  BY <1>5 DEF Exhausted, EndOfInput, ContextReset, CoverOK
<1>6. CASE AnalyzeCharacter
  <2>1. PICK locks : Analyze(locks) /\ UNCHANGED history
    BY <1>6 DEF AnalyzeCharacter
  <2>2. UNCHANGED <<tokens, results, input, buffOffset>>
    BY <2>1 DEF Analyze, history, reader
  <2> QED
    BY <2>2, CoverStays
<1>7. CASE Arbitrate
  BY <1>7, ArbitrateKeepsCover
<1>8. CASE DictionaryReloaded \/ UNCHANGED engine
  <2>1. UNCHANGED <<tokens, results, input, buffOffset>>
    BY <1>8 DEF DictionaryReloaded, engine, cvars, history, reader, buffer
  <2> QED
    BY <2>1, CoverStays
<1> QED
  BY <1>1, <1>2, <1>3, <1>4, <1>5, <1>6, <1>7, <1>8 DEF EngineNext, InsideCall

(* Whatever the text, the dictionary, the buffer and the reloads, once the *)
(* results have been handed out every Chinese or other CJK character       *)
(* walked over is in a token, and in max-word mode every letter and digit  *)
(* as well (analyze_context.go:140-200): no path of the arbitration, no    *)
(* gap between the paths and no end of a buffer loses one.                 *)
THEOREM NoCharacterIsLost == EngineSpec => []CharactersCovered
<1>1. EngineInit => EInv /\ OrderOK /\ CoverOK
  BY EngineInitEstablishesCInv, LInvInit, OInvInit, HistoryInit, OrderInit, CoverInit DEF EInv
<1>2. (EInv /\ OrderOK /\ CoverOK) /\ [EngineNext]_engine => (EInv /\ OrderOK /\ CoverOK)'
  BY EngineNextPreservesCInv, LInvNext, OInvNext, HistoryNext, OrderNext, CoverNext DEF EInv
<1>3. CoverOK => CharactersCovered
  BY DEF CoverOK, CharactersCovered, HandedOut, Awaited, Wanted
<1> QED
  BY <1>1, <1>2, <1>3, PTL DEF EngineSpec
-----------------------------------------------------------------------------
(* Surrogate pairs.                                                        *)

(* What additions to a list of candidates keep: a set of lexemes that they *)
(* are all of, and the candidates there were.                              *)
Grown(q, r, S) == ToSet(r) \subseteq S /\ ToSet(q) \subseteq ToSet(r)

(* An addition of one.                                                     *)
LEMMA OneAdded ==
  ASSUME NEW n \in Nat, NEW q \in Lists(n), NEW l \in Fits(n), NEW S, ToSet(q) \subseteq S, l \in S
  PROVE  /\ AddLexeme(q, l) \in Lists(n) /\ Grown(q, AddLexeme(q, l), S)
         /\ \E k \in DOMAIN AddLexeme(q, l) : SameSpan(AddLexeme(q, l)[k], l)
<1>1. q \in Seq(Lexeme) /\ Ordered(q) /\ l \in Lexeme
  BY DEF Lists, Fits
<1>2. CASE \E k \in DOMAIN q : SameSpan(q[k], l)
  <2>1. AddLexeme(q, l) = q
    BY <1>2 DEF AddLexeme
  <2> QED
    BY <1>2, <2>1 DEF Grown
<1>3. CASE \A k \in DOMAIN q : ~SameSpan(q[k], l)
  <2>1. ToSet(AddLexeme(q, l)) = ToSet(q) \cup {l}
    BY <1>1, <1>3, AddLexemeFacts
  <2>2. \E k \in DOMAIN AddLexeme(q, l) : AddLexeme(q, l)[k] = l
    BY <2>1 DEF ToSet
  <2>3. SameSpan(l, l)
    BY DEF SameSpan
  <2>4. AddLexeme(q, l) \in Lists(n)
    BY ListGrows
  <2> QED
    BY <2>1, <2>2, <2>3, <2>4 DEF Grown
<1> QED
  BY <1>2, <1>3

(* Additions one after the other: the last is there at the end.            *)
LEMMA EachAdded ==
  ASSUME NEW n \in Nat, NEW q \in Lists(n), NEW ls \in Seq(Fits(n)), NEW S,
         ToSet(q) \subseteq S, ToSet(ls) \subseteq S
  PROVE  LET r == AddLexemes(q, ls)
         IN  /\ r \in Lists(n) /\ Grown(q, r, S)
             /\ ls # <<>> => \E k \in DOMAIN r : SameSpan(r[k], ls[Len(ls)])
<1> DEFINE G == {r \in Lists(n) : Grown(q, r, S)}
           F == Fits(n) \cap S
           m == Len(ls)
<1>1. m \in Nat /\ DOMAIN ls = 1..m /\ \A i \in 1..m : ls[i] \in Fits(n)
  OBVIOUS
<1>2. \A i \in 1..m : ls[i] \in S
  BY <1>1 DEF ToSet
<1>3. ls \in Seq(F)
  BY <1>1, <1>2
<1>4. q \in G
  BY DEF Grown
<1>5. ASSUME NEW r \in G, NEW l \in F
      PROVE  AddLexeme(r, l) \in G /\ \E k \in DOMAIN AddLexeme(r, l) : SameSpan(AddLexeme(r, l)[k], l)
  <2>1. r \in Lists(n) /\ ToSet(r) \subseteq S /\ ToSet(q) \subseteq ToSet(r) /\ l \in Fits(n) /\ l \in S
    BY DEF Grown
  <2>2. /\ AddLexeme(r, l) \in Lists(n) /\ Grown(r, AddLexeme(r, l), S)
        /\ \E k \in DOMAIN AddLexeme(r, l) : SameSpan(AddLexeme(r, l)[k], l)
    BY <2>1, OneAdded
  <2> QED
    BY <2>1, <2>2 DEF Grown
<1> HIDE DEF G, F
<1>6. PICK f \in [0..m -> G] : IsAdding(f, q, ls) /\ f[m] = AddLexemes(q, ls)
  BY <1>3, <1>4, <1>5, AddingSteps
<1> HIDE DEF m
<1>7. f[m] \in G
  BY <1>1, <1>6
<1>8. ASSUME ls # <<>>
      PROVE  \E k \in DOMAIN f[m] : SameSpan(f[m][k], ls[m])
  <2>1. m \in 1..m /\ m - 1 \in 0..m
    BY <1>1, <1>8, EmptySeq DEF m
  <2>2. f[m] = AddLexeme(f[m - 1], ls[m]) /\ f[m - 1] \in G /\ ls[m] \in F
    BY <1>1, <1>2, <1>6, <2>1 DEF IsAdding, m, F
  <2> QED
    BY <1>5, <2>2
<1> QED
  BY <1>6, <1>7, <1>8 DEF G, m

(* The additions of a set.                                                 *)
LEMMA SetAdded ==
  ASSUME NEW n \in Nat, NEW q \in Lists(n), NEW T \in SUBSET Fits(n), IsFiniteSet(T), NEW S,
         ToSet(q) \subseteq S, T \subseteq S
  PROVE  AddAll(q, T) \in Lists(n) /\ Grown(q, AddAll(q, T), S)
<1> DEFINE G == {r \in Lists(n) : Grown(q, r, S)}
<1>1. q \in G
  BY DEF Grown
<1>2. ASSUME NEW r \in G, NEW l \in T PROVE AddLexeme(r, l) \in G
  <2>1. r \in Lists(n) /\ ToSet(r) \subseteq S /\ ToSet(q) \subseteq ToSet(r) /\ l \in Fits(n) /\ l \in S
    BY DEF Grown
  <2>2. AddLexeme(r, l) \in Lists(n) /\ Grown(r, AddLexeme(r, l), S)
    BY <2>1, OneAdded
  <2> QED
    BY <2>1, <2>2 DEF Grown
<1>3. AddAll(q, T) \in G
  <2> HIDE DEF G
  <2> QED
    BY <1>1, <1>2, AllAdded
<1> QED
  BY <1>3

(* Half of a character outside the BMP, the two halves of one, and no half *)
(* from a character on up to another.                                      *)
Half(i)     == IsHighSurrogate(segmentBuff[i]) \/ IsLowSurrogate(segmentBuff[i])
HalvesAt(t)   == IsHighSurrogate(segmentBuff[t]) /\ IsLowSurrogate(segmentBuff[t + 1])
Plain(i, n) == \A j \in i..(n - 1) : ~Half(j)

(* A lexeme of the first n characters that keeps to the pairs among them,  *)
(* and one that does not end behind half a pair.                           *)
Whole(l, n) == \A t \in 0..(n - 2) : HalvesAt(t) => Neat(l, t)
Shut(l, n)  == End(l) = n => ~IsHighSurrogate(segmentBuff[n - 1])

(* Such a lexeme begins with no second half, and every first half in it is *)
(* the last character but one.                                             *)
Sound(l) == /\ ~IsLowSurrogate(segmentBuff[l.begin])
            /\ \A i \in l.begin..(End(l) - 1) :
                  IsHighSurrogate(segmentBuff[i]) => i = End(l) - 2

LEMMA SoundIsWhole ==
  ASSUME NEW l \in Lexeme, NEW n \in Nat, End(l) <= n, Sound(l) \/ Plain(l.begin, End(l))
  PROVE  Whole(l, n) /\ Shut(l, n)
<1>1. l.begin \in Nat /\ End(l) \in Nat /\ l.begin < End(l)
  BY OrderFacts
<1>2. Sound(l)
  <2>1. Plain(l.begin, End(l)) => Sound(l)
    BY <1>1 DEF Plain, Half, Sound
  <2> QED
    BY <2>1
<1>3. ASSUME NEW t \in 0..(n - 2), HalvesAt(t) PROVE Neat(l, t)
  BY <1>1, <1>2, <1>3 DEF Sound, HalvesAt, Neat
<1>4. ASSUME End(l) = n, IsHighSurrogate(segmentBuff[n - 1]) PROVE FALSE
  <2>1. n - 1 \in l.begin..(End(l) - 1)
    BY <1>1, <1>4
  <2>2. n - 1 = End(l) - 2
    BY <1>2, <1>4, <2>1 DEF Sound
  <2> QED
    BY <1>1, <1>4, <2>2
<1> QED
  BY <1>3, <1>4 DEF Whole, Shut

(* The runs that go on hold no half, nor do the lexemes of those that end. *)
PlainRun(run, n) == run # NoRun => Plain(run.start, n)
PlainLexemes     == {l \in Lexeme : Plain(l.begin, End(l))}

LEMMA PassPlain ==
  ASSUME cursor \in Nat, buffOffset \in Nat, NEW run \in RunsBefore(cursor), PlainRun(run, cursor),
         NEW opens, NEW extends, NEW holds, opens \/ extends \/ holds => ~Half(cursor),
         NEW t \in LexemeType
  PROVE  LET p == Pass(run, opens, extends, holds)
         IN  PlainRun(p.run, cursor + 1) /\ LexemesOf(p.ended, t) \in Seq(PlainLexemes)
<1> DEFINE grown == IF run = NoRun /\ opens THEN [start |-> cursor, end |-> cursor]
                    ELSE IF run # NoRun /\ extends THEN [run EXCEPT !.end = cursor]
                    ELSE IF run # NoRun /\ holds THEN run
                    ELSE NoRun
           ended == IF grown = NoRun THEN run ELSE IF IsBufferConsumed THEN grown ELSE NoRun
           p == Pass(run, opens, extends, holds)
<1>1. /\ p.run = IF IsBufferConsumed THEN NoRun ELSE grown
      /\ p.ended = IF ended = NoRun THEN <<>> ELSE <<ended>>
  BY DEF Pass
<1>2. run # NoRun => /\ run.start \in Nat /\ run.end \in Nat /\ run.start <= run.end /\ run.end < cursor
                     /\ Plain(run.start, cursor)
  BY DEF RunsBefore, PlainRun
<1>3. [start |-> cursor, end |-> cursor].start = cursor /\ [start |-> cursor, end |-> cursor].end = cursor
  OBVIOUS
<1>4. run # NoRun => /\ [run EXCEPT !.end = cursor].start = run.start
                     /\ [run EXCEPT !.end = cursor].end = cursor
  BY DEF RunsBefore
<1>5. grown # NoRun => /\ grown.start \in 0..cursor /\ grown.end \in grown.start..cursor
                       /\ grown.start = cursor \/ (run # NoRun /\ grown.start = run.start)
                       /\ ~Half(cursor)
  BY <1>2, <1>3, <1>4
<1> HIDE DEF grown
<1>6. grown # NoRun => Plain(grown.start, cursor + 1)
  <2> SUFFICES ASSUME grown # NoRun, NEW j \in grown.start..((cursor + 1) - 1) PROVE ~Half(j)
    BY DEF Plain
  <2>1. j = cursor \/ (run # NoRun /\ j \in run.start..(cursor - 1))
    BY <1>2, <1>5
  <2> QED
    BY <1>2, <1>5, <2>1 DEF Plain
<1>7. PlainRun(p.run, cursor + 1)
  BY <1>1, <1>6 DEF PlainRun
<1>8. ended # NoRun => /\ ended.start \in Nat /\ ended.end \in ended.start..cursor
                       /\ Plain(ended.start, ended.end + 1)
  <2>1. ended = NoRun \/ (ended = grown /\ grown # NoRun) \/ (ended = run /\ run # NoRun)
    OBVIOUS
  <2> HIDE DEF ended
  <2>2. CASE ended = grown /\ grown # NoRun
    <3>1. \A j \in ended.start..((ended.end + 1) - 1) : j \in ended.start..((cursor + 1) - 1)
      BY <1>5, <2>2
    <3> QED
      BY <1>5, <1>6, <2>2, <3>1 DEF Plain
  <2>3. CASE ended = run /\ run # NoRun
    <3>1. \A j \in ended.start..((ended.end + 1) - 1) : j \in ended.start..(cursor - 1)
      BY <1>2, <2>3
    <3> QED
      BY <1>2, <2>3, <3>1 DEF Plain
  <2> QED
    BY <2>1, <2>2, <2>3
<1> HIDE DEF ended, p
<1>9. CASE ended = NoRun
  <2>1. LexemesOf(p.ended, t) = <<>> /\ <<>> \in Seq(PlainLexemes)
    BY <1>1, <1>9, LexemesOfFew
  <2> QED
    BY <1>7, <2>1 DEF p
<1>10. CASE ended # NoRun
  <2> DEFINE l == NewLexeme(buffOffset, ended.start, ended.end - ended.start + 1, t)
  <2>1. LexemesOf(p.ended, t) = <<l>>
    BY <1>1, <1>10, LexemesOfFew
  <2>2. l \in Lexeme /\ l.begin = ended.start /\ End(l) = ended.end + 1
    BY <1>8, <1>10 DEF NewLexeme, Lexeme, End
  <2> HIDE DEF l
  <2>3. l \in PlainLexemes
    BY <1>8, <1>10, <2>2 DEF PlainLexemes
  <2> QED
    BY <1>7, <2>1, <2>3 DEF p
<1> QED
  BY <1>9, <1>10

(* A character of a class other than the surrogates is no half.            *)
LEMMA HalvesAreSurrogates ==
  ASSUME cursor \in Nat, segmentBuff[cursor] \in Char,
         charTypes[cursor] = IdentifyCharType(segmentBuff[cursor])
  PROVE  CurrentCharType \in {charUseless, charArabic, charEnglish, charChinese, charOtherCJK}
            => ~Half(cursor)
<1>1. /\ charSurrogate # charUseless /\ charSurrogate # charArabic /\ charSurrogate # charEnglish
      /\ charSurrogate # charChinese /\ charSurrogate # charOtherCJK
  BY DEF charUseless, charArabic, charEnglish, charChinese, charOtherCJK, charSurrogate
<1> QED
  BY <1>1, CharTypesDiffer DEF Half, CurrentCharType

(* The letter segmenter takes no half.                                     *)
LEMMA LetterTakesNoHalf ==
  ASSUME cursor \in Nat, buffOffset \in Nat, SegmentersOK(cursor), segmentBuff[cursor] \in Char,
         charTypes[cursor] = IdentifyCharType(segmentBuff[cursor]),
         PlainRun(letter.english, cursor), PlainRun(letter.arabic, cursor),
         PlainRun(letter.mix, cursor)
  PROVE  LET l == LetterAnalyze(letter)
         IN  /\ PlainRun(l.state.english, cursor + 1) /\ PlainRun(l.state.arabic, cursor + 1)
             /\ PlainRun(l.state.mix, cursor + 1)
             /\ l.added \in Seq(PlainLexemes)
<1> DEFINE e == EnglishPass(letter.english)
           a == ArabicPass(letter.arabic)
           m == MixPass(letter.mix)
           qe == LexemesOf(e.ended, TypeEnglish)
           qa == LexemesOf(a.ended, TypeArabic)
           qm == LexemesOf(m.ended, TypeLetter)
           l == LetterAnalyze(letter)
<1>1. /\ letter.english \in RunsBefore(cursor) /\ letter.arabic \in RunsBefore(cursor)
      /\ letter.mix \in RunsBefore(cursor)
  BY DEF SegmentersOK
<1>8. TypeEnglish \in LexemeType /\ TypeArabic \in LexemeType /\ TypeLetter \in LexemeType
  BY DEF LexemeType
<1>2. CurrentCharType \in {charUseless, charArabic, charEnglish, charChinese, charOtherCJK}
            => ~Half(cursor)
  BY HalvesAreSurrogates
<1>3. PlainRun(e.run, cursor + 1) /\ qe \in Seq(PlainLexemes)
  BY <1>1, <1>2, <1>8, PassPlain DEF EnglishPass
<1>4. PlainRun(a.run, cursor + 1) /\ qa \in Seq(PlainLexemes)
  <2> DEFINE arabic == CurrentCharType = charArabic
             holds == CurrentCharType = charUseless /\ CurrentChar \in numConnectors
  <2>1. a = Pass(letter.arabic, arabic, arabic, holds)
    BY DEF ArabicPass
  <2>2. arabic \/ arabic \/ holds => ~Half(cursor)
    BY <1>2
  <2> HIDE DEF arabic, holds
  <2> QED
    BY <1>1, <1>8, <2>1, <2>2, PassPlain
<1>5. PlainRun(m.run, cursor + 1) /\ qm \in Seq(PlainLexemes)
  <2> DEFINE alphanumeric == CurrentCharType \in {charArabic, charEnglish}
             extended == alphanumeric \/ (CurrentCharType = charUseless /\ CurrentChar \in letterConnectors)
  <2>1. m = Pass(letter.mix, alphanumeric, extended, FALSE)
    BY DEF MixPass
  <2>2. alphanumeric \/ extended \/ FALSE => ~Half(cursor)
    BY <1>2
  <2> HIDE DEF alphanumeric, extended
  <2> QED
    BY <1>1, <1>8, <2>1, <2>2, PassPlain
<1>6. /\ l.state.english = e.run /\ l.state.arabic = a.run /\ l.state.mix = m.run
      /\ l.added = (qe \o qa) \o qm
  BY DEF LetterAnalyze
<1> HIDE DEF e, a, m, qe, qa, qm
<1>7. (qe \o qa) \o qm \in Seq(PlainLexemes)
  BY <1>3, <1>4, <1>5, SeqOfThree
<1> HIDE DEF l
<1> QED
  BY <1>3, <1>4, <1>5, <1>6, <1>7 DEF l

(* No character is both halves.                                            *)
LEMMA HalvesDiffer == \A c : ~(IsHighSurrogate(c) /\ IsLowSurrogate(c))
<1>1. ASSUME NEW c, IsHighSurrogate(c), IsLowSurrogate(c) PROVE FALSE
  <2>1. c \in Int /\ c <= 56319
    BY <1>1 DEF IsHighSurrogate
  <2>2. c >= 56320
    BY <1>1 DEF IsLowSurrogate
  <2> QED
    BY <2>1, <2>2
<1> QED
  BY <1>1

(* The surrogate pair segmenter remembers a first half that is the         *)
(* character before, makes a lexeme of two halves that meet, and takes     *)
(* nothing out of a pair.                                                  *)
LEMMA SurrogateMakesPairs ==
  ASSUME cursor \in Nat, buffOffset \in Nat,
         surrogate.hasHighSurrogate <=> cursor > 0 /\ IsHighSurrogate(segmentBuff[cursor - 1]),
         surrogate.hasHighSurrogate => surrogate.start = cursor - 1
  PROVE  LET p == SurrogateAnalyze(surrogate)
         IN  /\ p.state.hasHighSurrogate <=> IsHighSurrogate(segmentBuff[cursor]) /\ ~IsBufferConsumed
             /\ p.state.hasHighSurrogate => p.state.start = cursor
             /\ \A l \in ToSet(p.added) : /\ Whole(l, cursor + 1)
                                          /\ ~IsBufferConsumed => Shut(l, cursor + 1)
             /\ cursor > 0 /\ HalvesAt(cursor - 1) =>
                   /\ Len(p.added) = 1
                   /\ p.added[1].begin = cursor - 1 /\ p.added[1].length = 2
<1> DEFINE high == IsHighSurrogate(CurrentChar)
           pair == IsLowSurrogate(CurrentChar) /\ surrogate.hasHighSurrogate
           alone == \/ ~high /\ ~pair /\ surrogate.hasHighSurrogate
                    \/ high /\ IsBufferConsumed
           position == IF high THEN cursor ELSE surrogate.start
           p == SurrogateAnalyze(surrogate)
           both == NewLexeme(buffOffset, surrogate.start, cursor - surrogate.start + 1, TypeCNChar)
           half == NewLexeme(buffOffset, position, 1, TypeCNWord)
<1>1. \A c : ~(IsHighSurrogate(c) /\ IsLowSurrogate(c))
  BY HalvesDiffer
<1>2. /\ p.state = IF high /\ ~IsBufferConsumed
                   THEN [start |-> cursor, end |-> surrogate.end, hasHighSurrogate |-> TRUE]
                   ELSE IF pair
                   THEN [start |-> surrogate.start, end |-> cursor, hasHighSurrogate |-> FALSE]
                   ELSE NoSurrogate
      /\ p.added = IF pair THEN <<both>> ELSE IF alone THEN <<half>> ELSE <<>>
  BY DEF SurrogateAnalyze
<1>3. /\ p.state.hasHighSurrogate <=> high /\ ~IsBufferConsumed
      /\ p.state.hasHighSurrogate => p.state.start = cursor
  BY <1>2 DEF NoSurrogate
<1>4. high <=> IsHighSurrogate(segmentBuff[cursor])
  BY DEF CurrentChar
<1>5. surrogate.hasHighSurrogate => /\ surrogate.start = cursor - 1 /\ cursor > 0
                                    /\ IsHighSurrogate(segmentBuff[cursor - 1])
  OBVIOUS
<1>6. cursor > 0 /\ HalvesAt(cursor - 1) => pair
  <2>1. (cursor - 1) + 1 = cursor
    OBVIOUS
  <2> QED
    BY <2>1 DEF HalvesAt, CurrentChar
<1>7. \A l : ToSet(<<l>>) = {l} /\ Len(<<l>>) = 1 /\ <<l>>[1] = l
  BY DEF ToSet
<1>8. CASE pair
  <2>1. both.begin = cursor - 1 /\ both.length = 2 /\ End(both) = cursor + 1
    BY <1>5, <1>8 DEF NewLexeme, End
  <2> HIDE DEF both
  <2>2. p.added = <<both>>
    BY <1>2, <1>8
  <2>3. ~IsHighSurrogate(segmentBuff[cursor])
    BY <1>1, <1>4, <1>8
  <2>4. Whole(both, cursor + 1)
    <3> SUFFICES ASSUME NEW t \in 0..((cursor + 1) - 2), HalvesAt(t) PROVE Neat(both, t)
      BY DEF Whole
    <3>1. t + 1 # cursor - 1
      BY <1>1, <1>5, <1>8 DEF HalvesAt
    <3> QED
      BY <2>1, <3>1 DEF Neat
  <2>5. Shut(both, cursor + 1)
    BY <2>3 DEF Shut
  <2> HIDE DEF p
  <2> QED
    BY <1>3, <1>4, <1>7, <2>1, <2>2, <2>4, <2>5 DEF p
<1>9. CASE ~pair /\ alone
  <2>1. /\ half.begin = position /\ End(half) = position + 1
    BY DEF NewLexeme, End
  <2> HIDE DEF half
  <2>2. p.added = <<half>>
    BY <1>2, <1>9
  <2>3. CASE high
    <3>1. position = cursor /\ IsBufferConsumed
      BY <1>9, <2>3
    <3>2. Whole(half, cursor + 1)
      <4> SUFFICES ASSUME NEW t \in 0..((cursor + 1) - 2), HalvesAt(t) PROVE Neat(half, t)
        BY DEF Whole
      <4>1. t + 1 # cursor
        BY <1>1, <1>4, <2>3 DEF HalvesAt
      <4> QED
        BY <2>1, <3>1, <4>1 DEF Neat
    <3> HIDE DEF p
    <3> QED
      BY <1>3, <1>4, <1>6, <1>7, <1>9, <2>2, <3>1, <3>2 DEF p
  <2>4. CASE ~high
    <3>1. position = cursor - 1 /\ cursor > 0 /\ IsHighSurrogate(segmentBuff[cursor - 1])
      BY <1>5, <1>9, <2>4
    <3>2. Whole(half, cursor + 1)
      <4> SUFFICES ASSUME NEW t \in 0..((cursor + 1) - 2), HalvesAt(t) PROVE Neat(half, t)
        BY DEF Whole
      <4>1. t + 1 # cursor - 1
        BY <1>1, <3>1 DEF HalvesAt
      <4>2. t # cursor - 1
        BY <1>6, <1>9, <3>1
      <4> QED
        BY <2>1, <3>1, <4>1, <4>2 DEF Neat
    <3>3. Shut(half, cursor + 1)
      BY <2>1, <3>1 DEF Shut
    <3> HIDE DEF p
    <3> QED
      BY <1>3, <1>4, <1>6, <1>7, <1>9, <2>2, <3>2, <3>3 DEF p
  <2> QED
    BY <2>3, <2>4
<1>10. CASE ~pair /\ ~alone
  <2>1. p.added = <<>> /\ ToSet(<<>>) = {}
    BY <1>2, <1>10 DEF ToSet
  <2> HIDE DEF p
  <2> QED
    BY <1>3, <1>4, <1>6, <1>10, <2>1 DEF p
<1> QED
  BY <1>8, <1>9, <1>10

(* The words that such dictionaries give keep to the pairs.                *)
LEMMA WordsAreSound ==
  ASSUME cursor \in Nat, WordsKeepPairs, NEW b \in 0..cursor, NEW g \in DOMAIN Dictionaries,
         IsMatch(MainWords(g), b, HitLength(b)),
         NEW l, l.begin = b, End(l) = cursor + 1
  PROVE  Sound(l)
<1> DEFINE n == HitLength(b)
           w == Span(b, n)
<1>1. n \in Nat \ {0} /\ n = cursor - b + 1
  BY DEF HitLength
<1>2. w \in MainWords(g)
  BY DEF IsMatch
<1> HIDE DEF n
<1>3. w = [i \in 1..n |-> segmentBuff[b + i - 1]]
  BY DEF Span
<1> HIDE DEF w
<1>4. DOMAIN w = 1..n /\ Len(w) = n /\ \A i \in 1..n : w[i] = segmentBuff[b + i - 1]
  BY <1>1, <1>3
<1>5. \A i \in 1..n : /\ IsHighSurrogate(w[i]) => i = n - 1
                      /\ IsLowSurrogate(w[i]) => i > 1
  BY <1>2, <1>4 DEF WordsKeepPairs
<1>6. ~IsLowSurrogate(segmentBuff[b])
  <2>1. 1 \in 1..n /\ b + 1 - 1 = b
    BY <1>1
  <2>2. w[1] = segmentBuff[b]
    BY <1>4, <2>1
  <2> QED
    BY <1>5, <2>1, <2>2
<1>7. ASSUME NEW i \in b..cursor, IsHighSurrogate(segmentBuff[i]) PROVE i = cursor - 1
  <2>1. i - b + 1 \in 1..n /\ b + (i - b + 1) - 1 = i
    BY <1>1
  <2>2. w[i - b + 1] = segmentBuff[i]
    BY <1>4, <2>1
  <2>3. i - b + 1 = n - 1
    BY <1>5, <1>7, <2>1, <2>2
  <2> QED
    BY <1>1, <2>3
<1>8. l.begin..(End(l) - 1) = b..cursor /\ End(l) - 2 = cursor - 1
  OBVIOUS
<1> QED
  BY <1>6, <1>7, <1>8 DEF Sound

(* The lexemes of hits hold no half when the hits do not.                  *)
LEMMA HitsArePlain ==
  ASSUME cursor \in Nat, buffOffset \in Nat, NEW B \in SUBSET (0..cursor),
         \A b \in B : Plain(b, cursor), ~Half(cursor), NEW t \in LexemeType,
         NEW T \in SUBSET {NewLexeme(buffOffset, b, HitLength(b), t) : b \in B}
  PROVE  T \subseteq PlainLexemes
<1> SUFFICES ASSUME NEW b \in B PROVE NewLexeme(buffOffset, b, HitLength(b), t) \in PlainLexemes
  OBVIOUS
<1> DEFINE l == NewLexeme(buffOffset, b, HitLength(b), t)
<1>1. HitLength(b) \in Nat \ {0} /\ b + HitLength(b) = cursor + 1
  BY DEF HitLength
<1>2. b \in Nat
  OBVIOUS
<1>3. l = [offset |-> buffOffset, begin |-> b, length |-> HitLength(b), lexemeType |-> t]
  BY DEF NewLexeme
<1> HIDE DEF l
<1>4. l \in Lexeme /\ l.begin = b /\ End(l) = cursor + 1
  BY <1>1, <1>2, <1>3 DEF Lexeme, End
<1>5. Plain(b, cursor + 1)
  <2>1. \A j \in b..((cursor + 1) - 1) : j = cursor \/ j \in b..(cursor - 1)
    OBVIOUS
  <2> QED
    BY <2>1 DEF Plain
<1>6. l \in PlainLexemes
  BY <1>4, <1>5 DEF PlainLexemes
<1> QED
  BY <1>6 DEF l

(* What begins in front of a character that is no half goes on plainly.    *)
LEMMA PlainGoesOn ==
  ASSUME cursor \in Nat, NEW b \in 0..cursor, b # cursor => Plain(b, cursor), ~Half(cursor)
  PROVE  Plain(b, cursor + 1)
<1>1. \A j \in b..((cursor + 1) - 1) : j = cursor \/ (b # cursor /\ j \in b..(cursor - 1))
  OBVIOUS
<1> QED
  BY <1>1 DEF Plain

(* The Chinese quantifier segmenter takes no half.                         *)
LEMMA QuantifierTakesNoHalf ==
  ASSUME cursor \in Nat, buffOffset \in Nat, SegmentersOK(cursor), OpenOK,
         segmentBuff[cursor] \in Char, charTypes[cursor] = IdentifyCharType(segmentBuff[cursor]),
         PlainRun(quantifier.number, cursor), \A b \in quantifier.countHits : Plain(b, cursor),
         NEW org \in Lists(cursor + 1), NEW S, ToSet(org) \subseteq S,
         PlainLexemes \cap Fits(cursor + 1) \subseteq S
  PROVE  LET q == QuantifierAnalyze(quantifier, org)
         IN  /\ PlainRun(q.state.number, cursor + 1)
             /\ \A b \in q.state.countHits : Plain(b, cursor + 1)
             /\ Grown(org, q.org, S)
<1> DEFINE number == CNumberPass(quantifier.number)
           numerals == LexemesOf(number.ended, TypeCNum)
           starts == quantifier.countHits
           given == AddLexemes(org, numerals)
           count == ProcessCount(number.run, starts, given)
           q == QuantifierAnalyze(quantifier, org)
           n == cursor + 1
<1>1. /\ quantifier.number \in RunsBefore(cursor) /\ starts \in SUBSET (0..cursor)
      /\ starts \in SUBSET (0..(cursor - 1))
      /\ OpensInText(quantifier.number, FALSE) /\ \A b \in starts : charTypes[b] # charUseless
  <2>1. quantifier.number \in RunsBefore(cursor) /\ starts \in SUBSET (0..(cursor - 1))
    BY DEF SegmentersOK
  <2>2. OpensInText(quantifier.number, FALSE) /\ \A b \in starts : charTypes[b] # charUseless
    BY DEF OpenOK
  <2>3. 0..(cursor - 1) \subseteq 0..cursor
    OBVIOUS
  <2> HIDE DEF starts
  <2>4. starts \in SUBSET (0..cursor)
    BY <2>1, <2>3
  <2> QED
    BY <2>1, <2>2, <2>4
<1>2. TypeCNum \in LexemeType /\ TypeCount \in LexemeType
  BY DEF LexemeType
<1>3. CurrentCharType \in {charUseless, charArabic, charEnglish, charChinese, charOtherCJK}
        => ~Half(cursor)
  BY HalvesAreSurrogates
<1>4. numerals \in Seq(Fits(n))
  BY <1>1, <1>2, PassAdds, CharTypesDiffer DEF CNumberPass
<1>5. PlainRun(number.run, n) /\ numerals \in Seq(PlainLexemes)
  <2> DEFINE numeral == CurrentCharType = charChinese /\ CurrentChar \in chnNumberChars
  <2>1. number = Pass(quantifier.number, numeral, numeral, FALSE)
    BY DEF CNumberPass
  <2>2. numeral \/ numeral \/ FALSE => ~Half(cursor)
    BY <1>3
  <2> HIDE DEF numeral
  <2> QED
    BY <1>1, <1>2, <2>1, <2>2, PassPlain
<1>6. q.state.number = number.run /\ q.state.countHits = count.hits /\ q.org = count.org
  BY DEF QuantifierAnalyze
<1> HIDE DEF number, numerals, q
<1>7. given \in Lists(n) /\ Grown(org, given, S)
  <2>1. ToSet(numerals) \subseteq S
    <3>1. \A k \in DOMAIN numerals : numerals[k] \in PlainLexemes /\ numerals[k] \in Fits(n)
      <4>1. DOMAIN numerals = 1..Len(numerals)
        BY <1>4
      <4>2. \A k \in 1..Len(numerals) : numerals[k] \in PlainLexemes
        BY <1>5
      <4>3. \A k \in 1..Len(numerals) : numerals[k] \in Fits(n)
        BY <1>4
      <4> QED
        BY <4>1, <4>2, <4>3
    <3> QED
      BY <3>1 DEF ToSet
  <2> QED
    BY <1>4, <2>1, EachAdded
<1> HIDE DEF given, starts
<1> DEFINE ended == Counts(Matched(QuantifierWords, starts))
           extended == AddAll(given, ended)
           pending == Pending(QuantifierWords, starts)
           starting == IF AfterNumeral(extended) \/ pending # {} THEN {cursor} ELSE {}
           hits == pending \cup Pending(QuantifierWords, starting)
           at == Counts(Matched(QuantifierWords, starting))
<1>8. ASSUME CurrentCharType = charChinese
      PROVE  extended \in Lists(n) /\ Grown(org, extended, S)
  <2>1. CurrentCharType # charUseless /\ ~Half(cursor)
    BY <1>3, <1>8, CharTypesDiffer
  <2>2. ended \in SUBSET {NewLexeme(buffOffset, b, HitLength(b), TypeCount) : b \in starts}
    BY DEF Counts, Matched
  <2>3. ended \in SUBSET Fits(n) /\ IsFiniteSet(ended) /\ ended \subseteq PlainLexemes
    <3>1. \A b \in starts : Plain(b, cursor)
      BY DEF starts
    <3> HIDE DEF ended
    <3> QED
      BY <1>1, <1>2, <2>1, <2>2, <3>1, HitsFit, HitsArePlain
  <2> HIDE DEF ended
  <2>4. ended \subseteq S
    BY <2>3
  <2>5. extended \in Lists(n) /\ Grown(given, extended, S)
    BY <1>7, <2>3, <2>4, SetAdded DEF Grown
  <2> QED
    BY <1>7, <2>5 DEF Grown
<1>9. ASSUME CurrentCharType = charChinese
      PROVE  Grown(org, AddAll(extended, at), S)
  <2>0. {cursor} \in SUBSET (0..cursor) /\ \A b \in {cursor} : charTypes[b] # charUseless
    BY <1>9, CharTypesDiffer DEF CurrentCharType
  <2>1. CurrentCharType # charUseless /\ ~Half(cursor)
    BY <1>3, <1>9, CharTypesDiffer
  <2>2. at \in SUBSET {NewLexeme(buffOffset, b, HitLength(b), TypeCount) : b \in {cursor}}
    BY DEF Counts, Matched
  <2>3. at \in SUBSET Fits(n) /\ IsFiniteSet(at) /\ at \subseteq PlainLexemes
    <3> HIDE DEF at
    <3>1. PICK B \in SUBSET (0..cursor) : B = {cursor}
      BY <2>0
    <3>2. \A b \in B : charTypes[b] # charUseless /\ Plain(b, cursor)
      <4>1. cursor..(cursor - 1) = {}
        OBVIOUS
      <4> QED
        BY <2>0, <3>1, <4>1 DEF Plain
    <3>3. at \in SUBSET {NewLexeme(buffOffset, b, HitLength(b), TypeCount) : b \in B}
      BY <2>2, <3>1
    <3> QED
      BY <1>2, <2>1, <3>2, <3>3, HitsFit, HitsArePlain
  <2> HIDE DEF at, extended
  <2>4. at \subseteq S
    BY <2>3
  <2>5. Grown(extended, AddAll(extended, at), S)
    BY <1>8, <1>9, <2>3, <2>4, SetAdded DEF Grown
  <2> QED
    BY <1>8, <1>9, <2>5 DEF Grown
<1>10. CurrentCharType = charChinese => \A b \in hits : Plain(b, n)
  <2> SUFFICES ASSUME CurrentCharType = charChinese, NEW b \in hits PROVE Plain(b, n)
    OBVIOUS
  <2>1. pending \subseteq starts /\ Pending(QuantifierWords, starting) \subseteq {cursor}
    BY DEF Pending
  <2>2. b \in starts \/ b = cursor
    BY <2>1
  <2>3. b \in 0..cursor /\ (b # cursor => Plain(b, cursor)) /\ ~Half(cursor)
    BY <1>1, <1>3, <2>2 DEF starts
  <2> QED
    BY <2>3, PlainGoesOn
<1>11. \/ /\ count.org = given
          /\ count.hits = {}
       \/ /\ CurrentCharType = charChinese
          /\ count.hits = {} \/ count.hits = hits
          /\ count.org = AddAll(extended, at)
  <2>1. ~NeedCountScan(number.run, starts, given) => starts = {}
    BY DEF NeedCountScan
  <2> QED
    BY <2>1 DEF ProcessCount
<1> HIDE DEF count, hits, at, extended
<1>12. Grown(org, count.org, S)
  BY <1>7, <1>9, <1>11
<1>13. \A b \in count.hits : Plain(b, n)
  BY <1>10, <1>11
<1> QED
  BY <1>5, <1>6, <1>12, <1>13 DEF q

(* The words of the CJK segmenter keep to the pairs.                       *)
LEMMA CJKKeepsPairs ==
  ASSUME cursor \in Nat, buffOffset \in Nat, SegmentersOK(cursor), WordsKeepPairs,
         generation \in DOMAIN Dictionaries, CJKAnalyze(cjk).words \subseteq Fits(cursor + 1)
  PROVE  \A l \in CJKAnalyze(cjk).words : Whole(l, cursor + 1) /\ Shut(l, cursor + 1)
<1> DEFINE tried == IF CurrentCharType = charUseless THEN {}
                    ELSE cjk \cup {[begin |-> cursor, generation |-> generation]}
<1> SUFFICES ASSUME NEW l \in CJKAnalyze(cjk).words PROVE Whole(l, cursor + 1) /\ Shut(l, cursor + 1)
  OBVIOUS
<1>1. PICK h \in tried : /\ IsMatch(MainWords(h.generation), h.begin, HitLength(h.begin))
                         /\ l = NewLexeme(buffOffset, h.begin, HitLength(h.begin), TypeCNWord)
  BY DEF CJKAnalyze
<1>2. h.begin \in 0..cursor /\ h.generation \in DOMAIN Dictionaries
  BY DEF SegmentersOK
<1>3. l.begin = h.begin /\ End(l) = cursor + 1
  BY <1>1, <1>2 DEF NewLexeme, HitLength, End
<1>4. Sound(l)
  BY <1>1, <1>2, <1>3, WordsAreSound
<1>5. l \in Lexeme /\ End(l) <= cursor + 1
  BY DEF Fits
<1>6. PICK n \in Nat : n = cursor + 1
  OBVIOUS
<1> QED
  BY <1>4, <1>5, <1>6, SoundIsWhole

(* The invariant of the pairs.  No run and no quantifier in progress holds *)
(* half a pair; the surrogate pair segmenter remembers a first half that   *)
(* is the character before; every pair seen is a candidate; and in smart   *)
(* mode all candidates keep to the pairs seen, and none ends behind a      *)
(* first half whose second may follow.                                     *)
RunsPlain ==
    /\ PlainRun(letter.english, Looked) /\ PlainRun(letter.arabic, Looked)
    /\ PlainRun(letter.mix, Looked) /\ PlainRun(quantifier.number, Looked)
    /\ \A b \in quantifier.countHits : Plain(b, Looked)

Remembered ==
    pc = "analyze" =>
       /\ surrogate.hasHighSurrogate <=> cursor > 0 /\ IsHighSurrogate(segmentBuff[cursor - 1])
       /\ surrogate.hasHighSurrogate => surrogate.start = cursor - 1

IsPair(l, t) == l.begin = t /\ l.length = 2

PairsListed == \A t \in 0..(Looked - 2) : HalvesAt(t) => \E l \in ToSet(orgLexemes) : IsPair(l, t)

ListedWhole == UseSmart => \A l \in ToSet(orgLexemes) :
                  Whole(l, Looked) /\ (pc = "analyze" => Shut(l, Looked))

HalvesOK == RunsPlain /\ Remembered /\ PairsListed /\ ListedWhole

(* A candidate keeps to the pairs when the next character is seen.         *)
LEMMA WholeGrows ==
  ASSUME cursor \in Nat, NEW l \in Fits(cursor), Whole(l, cursor), Shut(l, cursor)
  PROVE  Whole(l, cursor + 1) /\ Shut(l, cursor + 1)
<1>1. l \in Lexeme /\ End(l) <= cursor
  BY DEF Fits
<1>2. l.begin \in Nat /\ End(l) \in Nat /\ l.begin < End(l)
  BY <1>1, OrderFacts
<1>3. ASSUME NEW t \in 0..((cursor + 1) - 2), HalvesAt(t) PROVE Neat(l, t)
  <2>1. CASE t \in 0..(cursor - 2)
    BY <1>3, <2>1 DEF Whole
  <2>2. CASE t = cursor - 1
    <3>1. End(l) # cursor
      BY <1>3, <2>2 DEF Shut, HalvesAt
    <3> QED
      BY <1>1, <1>2, <2>2, <3>1 DEF Neat
  <2> QED
    BY <2>1, <2>2
<1>4. End(l) # cursor + 1
  BY <1>1, <1>2
<1> QED
  BY <1>3, <1>4 DEF Whole, Shut

(* A sequence behind another: what is last in it is last.                  *)
LEMMA LastOfTwo ==
  ASSUME NEW F, NEW q \in Seq(F), NEW r \in Seq(F)
  PROVE  /\ q \o r \in Seq(F) /\ ToSet(q \o r) \subseteq F
         /\ Len(r) = 1 => q \o r # <<>> /\ (q \o r)[Len(q \o r)] = r[1]
<1> DEFINE ls == q \o r
<1>1. /\ ls \in Seq(F) /\ Len(ls) = Len(q) + Len(r)
      /\ \A i \in 1..Len(q) + Len(r) : ls[i] = IF i <= Len(q) THEN q[i] ELSE r[i - Len(q)]
  BY ConcatProperties
<1>2. Len(q) \in Nat /\ Len(r) \in Nat
  OBVIOUS
<1> HIDE DEF ls
<1>3. DOMAIN ls = 1..Len(ls) /\ \A i \in 1..Len(ls) : ls[i] \in F
  BY <1>1
<1>4. ToSet(ls) \subseteq F
  BY <1>3 DEF ToSet
<1>5. ASSUME Len(r) = 1 PROVE ls # <<>> /\ ls[Len(ls)] = r[1]
  <2>1. /\ Len(ls) \in 1..(Len(q) + Len(r)) /\ ~(Len(ls) <= Len(q)) /\ Len(ls) - Len(q) = 1
    BY <1>1, <1>2, <1>5
  <2>2. ls[Len(ls)] = r[1]
    BY <1>1, <2>1
  <2> QED
    BY <1>1, <1>2, <2>1, <2>2
<1> QED
  BY <1>1, <1>4, <1>5 DEF ls

(* The sub-segmenters see a character.                                     *)
LEMMA AnalyzeCharacterKeepsHalves ==
  ASSUME ~UseSmart \/ WordsKeepPairs, CInv, LInv, OInv, HalvesOK, AnalyzeCharacter
  PROVE  HalvesOK'
<1>1. /\ pc = "analyze" /\ cursor \in Nat /\ available \in Nat /\ cursor < available
      /\ buffOffset \in Nat /\ segmentBuff[cursor] \in Char
      /\ cursor \in Index /\ segmentBuff \in [Index -> Char] /\ available <= BuffSize
      /\ Loaded /\ Needed
  <2>1. pc = "analyze" /\ Loaded
    BY DEF AnalyzeCharacter, Analyze, Loaded
  <2>2. /\ cursor \in Nat /\ available \in Nat /\ cursor < available /\ buffOffset \in Nat
        /\ available <= BuffSize /\ segmentBuff \in [Index -> Char]
    BY <2>1 DEF CInv, ContextTypeOK, BufferWindow, ReadContiguously
  <2>3. cursor \in Index
    BY <2>2, BufferAssumption DEF Index
  <2> QED
    BY <2>1, <2>2, <2>3 DEF Needed
<1>2. charTypes[cursor] = IdentifyCharType(segmentBuff[cursor])
  BY <1>1 DEF CInv, BufferWindow, ProcessedIsRegular
<1>3. /\ SegmentersOK(cursor) /\ OpenOK /\ orgLexemes \in Lists(cursor)
      /\ letter.mix # NoRun => letter.mix.end = cursor - 1
      /\ generation \in DOMAIN Dictionaries
  BY <1>1 DEF LInv, OInv, Looked
<1>4. /\ PlainRun(letter.english, cursor) /\ PlainRun(letter.arabic, cursor)
      /\ PlainRun(letter.mix, cursor) /\ PlainRun(quantifier.number, cursor)
      /\ \A b \in quantifier.countHits : Plain(b, cursor)
      /\ surrogate.hasHighSurrogate <=> cursor > 0 /\ IsHighSurrogate(segmentBuff[cursor - 1])
      /\ surrogate.hasHighSurrogate => surrogate.start = cursor - 1
      /\ \A t \in 0..(cursor - 2) : HalvesAt(t) => \E l \in ToSet(orgLexemes) : IsPair(l, t)
      /\ UseSmart => \A l \in ToSet(orgLexemes) : Whole(l, cursor) /\ Shut(l, cursor)
  BY <1>1 DEF HalvesOK, RunsPlain, Remembered, PairsListed, ListedWhole, Looked
<1> DEFINE l == LetterAnalyze(letter)
           p == SurrogateAnalyze(surrogate)
           ls == l.added \o p.added
           given == AddLexemes(orgLexemes, ls)
           q == QuantifierAnalyze(quantifier, given)
           c == CJKAnalyze(cjk)
           S == {x \in Lexeme : UseSmart => /\ Whole(x, cursor + 1)
                                            /\ ~IsBufferConsumed => Shut(x, cursor + 1)}
<1>5. PICK n \in Nat : n = cursor + 1
  BY <1>1
<1>6. PICK locks :
         /\ Analyze(locks)
         /\ letter' = l.state /\ surrogate' = p.state /\ quantifier' = q.state /\ cjk' = c.hits
         /\ orgLexemes' = AddAll(q.org, c.words)
  BY DEF AnalyzeCharacter
<1>7. PlainLexemes \cap Fits(n) \subseteq S
  <2> SUFFICES ASSUME NEW x \in PlainLexemes, x \in Fits(n) PROVE x \in S
    OBVIOUS
  <2>1. x \in Lexeme /\ End(x) <= n /\ Plain(x.begin, End(x))
    BY DEF PlainLexemes, Fits
  <2> QED
    BY <1>5, <2>1, SoundIsWhole
<1>8. ToSet(orgLexemes) \subseteq S
  <2> SUFFICES ASSUME NEW x \in ToSet(orgLexemes) PROVE x \in S
    OBVIOUS
  <2>1. x \in Fits(cursor)
    BY <1>3 DEF Lists
  <2>2. x \in Lexeme
    BY <2>1 DEF Fits
  <2> QED
    BY <1>1, <1>4, <2>1, <2>2, WholeGrows
<1>9. /\ l.added \in Seq(Fits(n)) /\ l.added \in Seq(PlainLexemes)
      /\ PlainRun(letter'.english, n) /\ PlainRun(letter'.arabic, n) /\ PlainRun(letter'.mix, n)
  <2>1. LetterAnalyze(letter).added \in Seq(Fits(cursor + 1))
    BY <1>1, <1>3, LetterAdds
  <2>2. LET s == LetterAnalyze(letter)
        IN  /\ PlainRun(s.state.english, cursor + 1) /\ PlainRun(s.state.arabic, cursor + 1)
            /\ PlainRun(s.state.mix, cursor + 1)
            /\ s.added \in Seq(PlainLexemes)
    BY <1>1, <1>2, <1>3, <1>4, LetterTakesNoHalf
  <2> QED
    BY <1>5, <1>6, <2>1, <2>2
<1>10. /\ p.added \in Seq(Fits(n))
       /\ surrogate'.hasHighSurrogate <=> IsHighSurrogate(segmentBuff[cursor]) /\ ~IsBufferConsumed
       /\ surrogate'.hasHighSurrogate => surrogate'.start = cursor
       /\ \A x \in ToSet(p.added) : Whole(x, n) /\ (~IsBufferConsumed => Shut(x, n))
       /\ cursor > 0 /\ HalvesAt(cursor - 1) =>
             Len(p.added) = 1 /\ p.added[1].begin = cursor - 1 /\ p.added[1].length = 2
  <2>1. SurrogateAnalyze(surrogate).added \in Seq(Fits(cursor + 1))
    BY <1>1, <1>2, <1>3, SurrogateAdds
  <2>2. LET s == SurrogateAnalyze(surrogate)
        IN  /\ s.state.hasHighSurrogate <=> IsHighSurrogate(segmentBuff[cursor]) /\ ~IsBufferConsumed
            /\ s.state.hasHighSurrogate => s.state.start = cursor
            /\ \A x \in ToSet(s.added) : /\ Whole(x, cursor + 1)
                                         /\ ~IsBufferConsumed => Shut(x, cursor + 1)
            /\ cursor > 0 /\ HalvesAt(cursor - 1) =>
                  /\ Len(s.added) = 1
                  /\ s.added[1].begin = cursor - 1 /\ s.added[1].length = 2
    BY <1>1, <1>4, SurrogateMakesPairs
  <2> QED
    BY <1>5, <1>6, <2>1, <2>2
<1> HIDE DEF l, p
<1>11. /\ ls \in Seq(Fits(n)) /\ ToSet(ls) \subseteq S
       /\ Len(p.added) = 1 => ls # <<>> /\ ls[Len(ls)] = p.added[1]
  <2> HIDE DEF S
  <2> DEFINE F == Fits(n) \cap S
  <2>1. l.added \in Seq(F)
    <3>1. /\ DOMAIN l.added = 1..Len(l.added) /\ Len(l.added) \in Nat
          /\ \A k \in 1..Len(l.added) : l.added[k] \in Fits(n)
      BY <1>9
    <3>2. \A k \in 1..Len(l.added) : l.added[k] \in PlainLexemes
      BY <1>9
    <3>3. \A k \in 1..Len(l.added) : l.added[k] \in F
      BY <1>7, <3>1, <3>2
    <3> HIDE DEF F
    <3> QED
      BY <1>9, <3>1, <3>3
  <2>2. p.added \in Seq(F)
    <3>1. /\ DOMAIN p.added = 1..Len(p.added) /\ Len(p.added) \in Nat
          /\ \A k \in 1..Len(p.added) : p.added[k] \in Fits(n)
      BY <1>10
    <3>2. \A k \in 1..Len(p.added) : p.added[k] \in ToSet(p.added)
      BY <3>1 DEF ToSet
    <3>3. \A k \in 1..Len(p.added) : p.added[k] \in F
      <4>1. \A x \in Fits(n) : x \in Lexeme
        BY DEF Fits
      <4> QED
        BY <1>5, <1>10, <3>1, <3>2, <4>1 DEF S
    <3> HIDE DEF F
    <3> QED
      BY <1>10, <3>1, <3>3
  <2> HIDE DEF F
  <2>3. /\ ls \in Seq(F) /\ ToSet(ls) \subseteq F
        /\ Len(p.added) = 1 => ls # <<>> /\ ls[Len(ls)] = p.added[1]
    BY <2>1, <2>2, LastOfTwo
  <2> HIDE DEF ls
  <2>4. F \subseteq Fits(n) /\ F \subseteq S
    BY DEF F
  <2>5. ls \in Seq(Fits(n))
    BY <2>3, <2>4
  <2> QED
    BY <2>3, <2>4, <2>5
<1> HIDE DEF ls
<1>12. /\ given \in Lists(n) /\ Grown(orgLexemes, given, S)
       /\ ls # <<>> => \E k \in DOMAIN given : SameSpan(given[k], ls[Len(ls)])
  <2> HIDE DEF S
  <2>1. orgLexemes \in Lists(n)
    BY <1>1, <1>3, <1>5, FitsGrow
  <2> QED
    BY <1>8, <1>11, <2>1, EachAdded
<1> HIDE DEF given
<1>13. /\ q.org \in Lists(n) /\ Grown(given, q.org, S)
       /\ PlainRun(quantifier'.number, n) /\ \A b \in quantifier'.countHits : Plain(b, n)
  <2> HIDE DEF S
  <2>1. given \in Lists(cursor + 1) /\ ToSet(given) \subseteq S
        /\ PlainLexemes \cap Fits(cursor + 1) \subseteq S
    BY <1>5, <1>7, <1>12 DEF Grown
  <2>2. q.org \in Lists(cursor + 1)
    BY <1>1, <1>3, <2>1, QuantifierAdds
  <2>3. LET s == QuantifierAnalyze(quantifier, given)
        IN  /\ PlainRun(s.state.number, cursor + 1)
            /\ \A b \in s.state.countHits : Plain(b, cursor + 1)
            /\ Grown(given, s.org, S)
    BY <1>1, <1>2, <1>3, <1>4, <2>1, QuantifierTakesNoHalf
  <2> QED
    BY <1>5, <1>6, <2>2, <2>3
<1> HIDE DEF q
<1>14. c.words \in SUBSET Fits(n) /\ IsFiniteSet(c.words) /\ c.words \subseteq S
  <2>1. c.words \in SUBSET Fits(n) /\ IsFiniteSet(c.words)
    BY <1>1, <1>3, <1>5, CJKAdds
  <2>2. UseSmart => \A x \in c.words : Whole(x, cursor + 1) /\ Shut(x, cursor + 1)
    BY <1>1, <1>3, <1>5, <2>1, CJKKeepsPairs
  <2>3. \A x \in Fits(n) : x \in Lexeme
    BY DEF Fits
  <2> HIDE DEF c
  <2> QED
    BY <2>1, <2>2, <2>3
<1> HIDE DEF c
<1>15. Grown(q.org, orgLexemes', S)
  <2> HIDE DEF S
  <2> QED
    BY <1>6, <1>13, <1>14, SetAdded DEF Grown
<1>16. ToSet(orgLexemes') \subseteq S /\ ToSet(orgLexemes) \subseteq ToSet(orgLexemes')
       /\ ToSet(given) \subseteq ToSet(orgLexemes')
  BY <1>12, <1>13, <1>15 DEF Grown
<1>17. /\ Looked' = n
       /\ \A i \in 0..cursor : segmentBuff'[i] = segmentBuff[i]
       /\ pc' = "analyze" => cursor' = n /\ ~IsBufferConsumed
  <2>1. CASE NeedRefillBuffer(locks) \/ cursor >= available - 1
    <3>1. pc' = "arbitrate" /\ cursor' = cursor /\ segmentBuff' = segmentBuff
      BY <1>6, <2>1 DEF Analyze
    <3> QED
      BY <1>5, <3>1 DEF Looked
  <2>2. CASE ~(NeedRefillBuffer(locks) \/ cursor >= available - 1)
    <3>1. /\ pc' = "analyze" /\ cursor' = cursor + 1
          /\ \E x : segmentBuff' = [segmentBuff EXCEPT ![cursor + 1] = x]
      BY <1>6, <2>2 DEF Analyze
    <3>2. \A i \in 0..cursor : segmentBuff'[i] = segmentBuff[i]
      BY <1>1, <3>1 DEF Index
    <3> QED
      BY <1>1, <1>5, <2>2, <3>1, <3>2 DEF Looked, IsBufferConsumed
  <2> QED
    BY <2>1, <2>2
<1>18. /\ \A i \in 0..cursor : Half(i)' <=> Half(i)
       /\ \A t \in 0..(cursor - 1) : HalvesAt(t)' <=> HalvesAt(t)
       /\ \A i \in 0..cursor : Plain(i, n) => Plain(i, n)'
       /\ n - 1 = cursor /\ n - 2 = cursor - 1
  <2>1. \A i \in 0..cursor : Half(i)' <=> Half(i)
    BY <1>17 DEF Half
  <2>2. ASSUME NEW t \in 0..(cursor - 1) PROVE HalvesAt(t)' <=> HalvesAt(t)
    <3>1. t \in 0..cursor /\ t + 1 \in 0..cursor
      BY <1>1
    <3> QED
      BY <1>17, <3>1 DEF HalvesAt
  <2>3. n - 1 = cursor /\ n - 2 = cursor - 1
    BY <1>1, <1>5
  <2>4. ASSUME NEW i \in 0..cursor, Plain(i, n) PROVE Plain(i, n)'
    <3>1. \A j \in i..(n - 1) : j \in 0..cursor
      BY <1>1, <2>3
    <3> QED
      BY <2>1, <2>4, <3>1 DEF Plain
  <2> QED
    BY <2>1, <2>2, <2>3, <2>4
<1>19. RunsPlain'
  <2>1. SegmentersOK(Looked)'
    BY AnalyzeCharacterKeepsLInv DEF LInv
  <2>2. /\ letter'.english \in RunsBefore(n) /\ letter'.arabic \in RunsBefore(n)
        /\ letter'.mix \in RunsBefore(n) /\ quantifier'.number \in RunsBefore(n)
        /\ quantifier'.countHits \subseteq 0..cursor
    BY <1>17, <1>18, <2>1 DEF SegmentersOK
  <2>3. \A run \in RunsBefore(n) : PlainRun(run, n) => PlainRun(run, n)'
    <3>1. \A run \in RunsBefore(n) : run # NoRun => run.start \in 0..cursor
      BY <1>1, <1>5 DEF RunsBefore
    <3> QED
      BY <1>18, <3>1 DEF PlainRun
  <2>4. \A b \in quantifier'.countHits : Plain(b, n)'
    BY <1>13, <1>18, <2>2
  <2> QED
    BY <1>9, <1>13, <1>17, <2>2, <2>3, <2>4 DEF RunsPlain, PlainRun
<1>20. Remembered'
  <2> SUFFICES ASSUME pc' = "analyze"
               PROVE  /\ surrogate'.hasHighSurrogate
                            <=> cursor' > 0 /\ IsHighSurrogate(segmentBuff'[cursor' - 1])
                      /\ surrogate'.hasHighSurrogate => surrogate'.start = cursor' - 1
    BY DEF Remembered
  <2>1. cursor' - 1 = cursor /\ cursor' > 0 /\ segmentBuff'[cursor] = segmentBuff[cursor]
    BY <1>1, <1>5, <1>17
  <2> QED
    BY <1>10, <1>17, <2>1
<1>21. PairsListed'
  <2> SUFFICES ASSUME NEW t \in 0..(cursor - 1), HalvesAt(t)
               PROVE  \E x \in ToSet(orgLexemes') : IsPair(x, t)
    BY <1>17, <1>18 DEF PairsListed
  <2>1. CASE t # cursor - 1
    <3>1. t \in 0..(cursor - 2)
      BY <1>1, <2>1
    <3> QED
      BY <1>4, <1>16, <3>1
  <2>2. CASE t = cursor - 1
    <3>1. Len(p.added) = 1 /\ p.added[1].begin = t /\ p.added[1].length = 2
      BY <1>1, <1>10, <2>2
    <3>2. PICK k \in DOMAIN given : SameSpan(given[k], p.added[1])
      BY <1>11, <1>12, <3>1
    <3>3. given[k] \in ToSet(given) /\ IsPair(given[k], t)
      BY <3>1, <3>2 DEF ToSet, SameSpan, IsPair
    <3> QED
      BY <1>16, <3>3
  <2> QED
    BY <2>1, <2>2
<1>22. ListedWhole'
  <2> SUFFICES ASSUME UseSmart, NEW x \in ToSet(orgLexemes')
               PROVE  Whole(x, n)' /\ (pc' = "analyze" => Shut(x, n)')
    BY <1>17 DEF ListedWhole
  <2>1. Whole(x, n) /\ (~IsBufferConsumed => Shut(x, n))
    BY <1>5, <1>16
  <2>2. Whole(x, n)'
    BY <1>18, <2>1 DEF Whole
  <2>3. pc' = "analyze" => Shut(x, n)'
    <3>1. segmentBuff'[n - 1] = segmentBuff[n - 1]
      BY <1>1, <1>17, <1>18
    <3> QED
      BY <1>17, <2>1, <3>1 DEF Shut
  <2> QED
    BY <2>2, <2>3
<1> QED
  BY <1>19, <1>20, <1>21, <1>22 DEF HalvesOK

(* At the start there is nothing to hold a half.                           *)
LEMMA HalvesInit == EngineInit => HalvesOK
<1> SUFFICES ASSUME EngineInit PROVE HalvesOK
  OBVIOUS
<1>1. pc = "idle" /\ Looked = 0 /\ orgLexemes = <<>>
  BY DEF EngineInit, ContextInit, Looked
<1>2. RunsPlain
  BY DEF EngineInit, RunsPlain, PlainRun, NoLetters, NoQuantity
<1>3. 0..(0 - 2) = {} /\ ToSet(<<>>) = {}
  BY DEF ToSet
<1> QED
  BY <1>1, <1>2, <1>3 DEF HalvesOK, Remembered, PairsListed, ListedWhole

(* Nor is there between two buffers.                                       *)
LEMMA HalvesBetween ==
  ASSUME LInv', Looked' = 0, orgLexemes' = <<>>, pc' # "arbitrate"
  PROVE  HalvesOK'
<1>1. SegmentersOK(0)'
  BY DEF LInv
<1>2. RunsBefore(0) = {NoRun} /\ 0..(0 - 1) = {} /\ (-1)..(0 - 1) = {-1} /\ 0..(0 - 2) = {}
  BY DEF RunsBefore
<1>3. /\ letter'.english = NoRun /\ letter'.arabic = NoRun /\ letter'.mix = NoRun
      /\ quantifier'.number = NoRun /\ quantifier'.countHits = {}
      /\ ~surrogate'.hasHighSurrogate
  BY <1>1, <1>2 DEF SegmentersOK
<1>4. RunsPlain'
  BY <1>3 DEF RunsPlain, PlainRun
<1>5. ToSet(<<>>) = {}
  BY DEF ToSet
<1>6. pc' = "analyze" => cursor' = 0
  BY DEF Looked
<1>7. Remembered'
  BY <1>3, <1>6 DEF Remembered
<1> QED
  BY <1>2, <1>4, <1>5, <1>7 DEF HalvesOK, PairsListed, ListedWhole

(* Every step keeps the invariant of the pairs.                            *)
LEMMA HalvesNext ==
  ASSUME ~UseSmart \/ WordsKeepPairs, CInv, LInv, OInv, HalvesOK, [EngineNext]_engine
  PROVE  HalvesOK'
<1>0. LInv'
  BY LInvNext
<1>1. ASSUME pc \notin {"analyze", "arbitrate"}, pc' # "arbitrate", Looked' = 0,
             orgLexemes' \in {orgLexemes, <<>>}
      PROVE  HalvesOK'
  <2>1. Looked = 0
    BY <1>1 DEF Looked
  <2>2. orgLexemes = <<>>
    BY <2>1, NothingListed DEF OInv
  <2> QED
    BY <1>0, <1>1, <2>2, HalvesBetween
<1>2. ASSUME NEW text \in LaterInputs, EngineReset(text) PROVE HalvesOK'
  <2>1. pc = "idle" /\ pc' = pc /\ orgLexemes' = <<>>
    BY <1>2 DEF EngineReset, Reset
  <2> QED
    BY <1>1, <2>1 DEF Looked
<1>3. CASE Arbitrate
  <2>1. pc' = "poll" /\ orgLexemes' = <<>>
    BY <1>3 DEF Arbitrate, Output
  <2>2. Looked' = 0
    BY <2>1 DEF Looked
  <2> QED
    BY <1>0, <2>1, <2>2, HalvesBetween
<1>4. CASE NextCalled \/ TakeResult \/ NoMoreResults \/ Exhausted \/ FillFails
  <2>1. /\ pc \notin {"analyze", "arbitrate"} /\ pc' \notin {"analyze", "arbitrate"}
        /\ orgLexemes' \in {orgLexemes, <<>>}
    BY <1>4 DEF NextCalled, CallNext, TakeResult, Consume, NoMoreResults, NoResult, Exhausted,
                EndOfInput, FillFails, ReadFails
  <2> QED
    BY <1>1, <2>1 DEF Looked
<1>5. ASSUME NEW n \in ReadCounts, FillBuffer(n) PROVE HalvesOK'
  <2>1. pc = "fill" /\ pc' = "analyze" /\ cursor' = 0 /\ orgLexemes' = orgLexemes
    BY <1>5 DEF FillBuffer, Fill
  <2> QED
    BY <1>1, <2>1 DEF Looked
<1>6. CASE AnalyzeCharacter
  BY <1>6, AnalyzeCharacterKeepsHalves
<1>7. CASE DictionaryReloaded \/ UNCHANGED engine
  <2>1. UNCHANGED <<pc, cursor, buffOffset, segmentBuff, letter, surrogate, quantifier, orgLexemes>>
    BY <1>7 DEF DictionaryReloaded, engine, cvars, buffer, segmenters
  <2>2. Looked' = Looked
    BY <2>1 DEF Looked
  <2>3. RunsPlain'
    BY <2>1, <2>2 DEF HalvesOK, RunsPlain, PlainRun, Plain, Half
  <2>4. Remembered'
    BY <2>1 DEF HalvesOK, Remembered
  <2>5. PairsListed'
    BY <2>1, <2>2 DEF HalvesOK, PairsListed, HalvesAt
  <2>6. ListedWhole'
    BY <2>1, <2>2 DEF HalvesOK, ListedWhole, Whole, Shut, HalvesAt
  <2> QED
    BY <2>3, <2>4, <2>5, <2>6 DEF HalvesOK
<1> QED
  BY <1>2, <1>3, <1>4, <1>5, <1>6, <1>7 DEF EngineNext, InsideCall

(* What the arbitrator makes of a stretch of candidates: a path that is    *)
(* not empty, within the stretch, and that begins with a candidate.        *)
LEMMA ResolvedWithin ==
  ASSUME NEW p, IsStretch(p)
  PROVE  LET r == Resolved(p, TRUE)
         IN  /\ r.lexemes # <<>> /\ End(Last(r.lexemes)) <= r.pathEnd
             /\ r.pathBegin \in Nat /\ r.pathEnd \in Nat
             /\ p.pathBegin <= r.pathBegin /\ r.pathEnd <= p.pathEnd
             /\ \E l \in ToSet(p.lexemes) : l.begin = r.pathBegin
<1> DEFINE r == Resolved(p, TRUE)
           q == p.lexemes
<1>1. /\ q \in Seq(Lexeme) /\ Len(q) \in Nat \ {0} /\ q[1] \in Lexeme /\ q[1] \in ToSet(q)
      /\ p.pathBegin \in Nat /\ p.pathEnd \in Nat /\ p.pathBegin = q[1].begin
  BY StretchFacts DEF IsStretch
<1>2. /\ r \in Path /\ IsSegmentation(r)
      /\ \A l \in ToSet(r.lexemes) : p.pathBegin <= l.begin /\ End(l) <= p.pathEnd
      /\ \A l \in ToSet(q) : l.length <= r.payloadLength
  BY ResolvedFacts DEF Segmentations
<1>3. r.lexemes # <<>>
  <2>1. q[1].length \in Nat \ {0} /\ newLexemePath.payloadLength = 0
    BY <1>1, OrderFacts DEF newLexemePath
  <2>2. q[1].length <= r.payloadLength
    BY <1>1, <1>2
  <2>3. ASSUME r.lexemes = <<>> PROVE FALSE
    <3>1. r = newLexemePath
      BY <1>2, <2>3, SegmentationIs
    <3> HIDE DEF r
    <3> QED
      BY <2>1, <2>2, <3>1
  <2> QED
    BY <2>3
<1> DEFINE rs == r.lexemes
<1>4. rs \in Seq(Lexeme) /\ Spaced(rs) /\ r.pathBegin = Head(rs).begin /\ r.pathEnd = End(Last(rs))
  BY <1>2, <1>3, SegmentationIs DEF Path
<1> HIDE DEF r
<1>5. /\ Len(rs) \in Nat \ {0} /\ Head(rs) = rs[1] /\ Last(rs) = rs[Len(rs)]
      /\ rs[1] \in Lexeme /\ rs[Len(rs)] \in Lexeme
  BY <1>3, <1>4, SpacedEnds
<1>6. rs[1] \in ToSet(rs) /\ rs[Len(rs)] \in ToSet(rs)
  BY <1>4, <1>5 DEF ToSet
<1>7. p.pathBegin <= r.pathBegin /\ r.pathEnd <= p.pathEnd
  BY <1>2, <1>4, <1>5, <1>6
<1>8. r.pathBegin \in Nat /\ r.pathEnd \in Nat
  BY <1>4, <1>5, OrderFacts
<1>9. End(Last(rs)) <= r.pathEnd
  BY <1>4, <1>8
<1>10. \E l \in ToSet(q) : l.begin = r.pathBegin
  <2>0. Len(q) = 1 \/ Len(q) > 1
    <3>1. PICK k \in Nat \ {0} : k = Len(q)
      BY <1>1
    <3>2. k = 1 \/ k > 1
      OBVIOUS
    <3> QED
      BY <3>1, <3>2
  <2>1. CASE Len(q) = 1
    <3>1. r = p
      BY <2>1 DEF Resolved, r
    <3> QED
      BY <1>1, <3>1
  <2>2. CASE Len(q) # 1 /\ ShouldFallback(p)
    <3>1. Len(q) > 1
      BY <2>0, <2>2
    <3>2. r = FallbackPath(p)
      BY <2>2, <3>1, ResolvedFacts DEF r
    <3> QED
      BY <1>1, <3>2, FallbackFacts
  <2>3. CASE Len(q) # 1 /\ ~ShouldFallback(p)
    <3>1. r \in Ways(q)
      BY <1>1, <2>3, JudgeFacts DEF Resolved, r
    <3> QED
      BY <1>4, <1>5, <1>6, <3>1 DEF Ways
  <2> QED
    BY <2>1, <2>2, <2>3
<1> QED
  BY <1>3, <1>7, <1>8, <1>9, <1>10 DEF r

(* In smart mode, too, the paths lie apart.                                *)
LEMMA SmartLiesApart ==
  ASSUME NEW n \in Nat, NEW q \in Lists(n), q # <<>>, UseSmart
  PROVE  /\ LieApart(Process(q, UseSmart), n)
         /\ \A l \in ToSet(q) : \E s : /\ IsStretch(s) /\ l \in ToSet(s.lexemes)
                                       /\ ToSet(s.lexemes) \subseteq ToSet(q)
                                       /\ Resolved(s, TRUE) \in Process(q, UseSmart)
<1> DEFINE paths == Process(q, UseSmart)
           stretches == Process(q, FALSE)
<1>1. /\ q \in Seq(Lexeme) /\ Ordered(q)
      /\ \A l \in ToSet(q) : l \in Lexeme /\ charTypes[l.begin] # charUseless
  BY DEF Lists, Fits
<1>2. paths = {Resolved(s, TRUE) : s \in stretches}
  BY <1>1, SmartFollowsMaxWord
<1>3. AreStretches(stretches, q, Len(q))
  BY <1>1, ProcessFacts
<1>4. \A p \in paths : p.pathBegin = -1 \/ MayPut(p, n)
  BY ProcessedMayBePut
<1> HIDE DEF paths, stretches
<1>5. ASSUME NEW s \in stretches
      PROVE  IsStretch(s) /\ ToSet(s.lexemes) \subseteq ToSet(q)
  <2>1. IsStretch(s) /\ \A l \in ToSet(s.lexemes) : \E j \in 1..Len(q) : l = q[j]
    BY <1>3 DEF AreStretches
  <2>2. \A j \in 1..Len(q) : q[j] \in ToSet(q)
    BY <1>1 DEF ToSet
  <2> QED
    BY <2>1, <2>2
<1>6. ASSUME NEW p \in paths
      PROVE  /\ MayPut(p, n) /\ End(Last(p.lexemes)) <= p.pathEnd /\ p.pathEnd \in Nat
             /\ charTypes[p.pathBegin] # charUseless
  <2>1. PICK s \in stretches : p = Resolved(s, TRUE)
    BY <1>2
  <2>2. /\ End(Last(p.lexemes)) <= p.pathEnd /\ p.pathBegin \in Nat /\ p.pathEnd \in Nat
        /\ \E l \in ToSet(s.lexemes) : l.begin = p.pathBegin
    BY <1>5, <2>1, ResolvedWithin
  <2>3. MayPut(p, n)
    BY <1>4, <2>2
  <2>4. charTypes[p.pathBegin] # charUseless
    BY <1>1, <1>5, <2>2
  <2> QED
    BY <2>2, <2>3, <2>4
<1>7. ASSUME NEW p \in paths, NEW r \in paths
      PROVE  p = r \/ Follows(p, r) \/ Follows(r, p)
  <2>1. PICK s \in stretches : p = Resolved(s, TRUE)
    BY <1>2
  <2>2. PICK z \in stretches : r = Resolved(z, TRUE)
    BY <1>2
  <2>3. s = z \/ Follows(s, z) \/ Follows(z, s)
    BY <1>3 DEF AreStretches
  <2>4. /\ IsStretch(s) /\ s.pathBegin \in Nat /\ s.pathEnd \in Nat
        /\ p.pathBegin \in Nat /\ p.pathEnd \in Nat
        /\ s.pathBegin <= p.pathBegin /\ p.pathEnd <= s.pathEnd
    BY <1>5, <2>1, ResolvedWithin, StretchFacts
  <2>5. /\ IsStretch(z) /\ z.pathBegin \in Nat /\ z.pathEnd \in Nat
        /\ r.pathBegin \in Nat /\ r.pathEnd \in Nat
        /\ z.pathBegin <= r.pathBegin /\ r.pathEnd <= z.pathEnd
    BY <1>5, <2>2, ResolvedWithin, StretchFacts
  <2>6. CASE s = z
    BY <2>1, <2>2, <2>6
  <2>7. CASE Follows(s, z)
    <3>1. s.pathEnd <= z.pathBegin
      BY <2>7 DEF Follows
    <3>2. p.pathEnd <= r.pathBegin
      BY <2>4, <2>5, <3>1
    <3> QED
      BY <3>2 DEF Follows
  <2>8. CASE Follows(z, s)
    <3>1. z.pathEnd <= s.pathBegin
      BY <2>8 DEF Follows
    <3>2. r.pathEnd <= p.pathBegin
      BY <2>4, <2>5, <3>1
    <3> QED
      BY <3>2 DEF Follows
  <2> QED
    BY <2>3, <2>6, <2>7, <2>8
<1>8. LieApart(paths, n)
  BY <1>6, <1>7 DEF LieApart
<1>9. ASSUME NEW l \in ToSet(q)
      PROVE  \E s : /\ IsStretch(s) /\ l \in ToSet(s.lexemes) /\ ToSet(s.lexemes) \subseteq ToSet(q)
                    /\ Resolved(s, TRUE) \in paths
  <2>1. PICK s \in stretches : l \in ToSet(s.lexemes)
    BY <1>1, <1>3 DEF AreStretches, ToSet
  <2> QED
    BY <1>2, <1>5, <2>1
<1> QED
  BY <1>8, <1>9 DEF paths

(* The arbitration of a buffer puts every pair of it within one result.    *)
LEMMA PairComesOut ==
  ASSUME CInv, OInv, HalvesOK, pc = "arbitrate",
         NEW t \in 0..(cursor - 1), HalvesAt(t)
  PROVE  \E x \in ToSet(Walk(Process(orgLexemes, UseSmart)).results) :
            x.begin <= t /\ t + 2 <= End(x)
<1> DEFINE paths == Process(orgLexemes, UseSmart)
<1>1. cursor \in Nat /\ buffOffset \in Nat /\ Looked = cursor + 1
  BY DEF CInv, ContextTypeOK, Looked
<1>2. PICK n \in Nat : n = cursor + 1
  BY <1>1
<1>3. orgLexemes \in Lists(n) /\ t \in 0..(n - 2) /\ t \in Nat
  BY <1>1, <1>2 DEF OInv
<1>4. PICK l \in ToSet(orgLexemes) : l.begin = t /\ l.length = 2
  BY <1>1, <1>2, <1>3 DEF HalvesOK, PairsListed, IsPair
<1>5. orgLexemes # <<>>
  BY <1>4 DEF ToSet
<1> HIDE DEF paths
<1>6. CASE UseSmart
  <2>1. /\ LieApart(paths, n)
        /\ \E s : /\ IsStretch(s) /\ l \in ToSet(s.lexemes)
                  /\ ToSet(s.lexemes) \subseteq ToSet(orgLexemes)
                  /\ Resolved(s, TRUE) \in paths
    BY <1>3, <1>4, <1>5, <1>6, SmartLiesApart DEF paths
  <2>2. PICK s : /\ IsStretch(s) /\ l \in ToSet(s.lexemes)
                 /\ ToSet(s.lexemes) \subseteq ToSet(orgLexemes)
                 /\ Resolved(s, TRUE) \in paths
    BY <2>1
  <2>3. \A m \in ToSet(s.lexemes) : Neat(m, t)
    <3>1. \A m \in ToSet(orgLexemes) : Whole(m, n)
      BY <1>1, <1>2, <1>6 DEF HalvesOK, ListedWhole
    <3> QED
      BY <1>3, <2>2, <3>1 DEF Whole
  <2>4. PICK x \in ToSet(Resolved(s, TRUE).lexemes) : x.begin <= t /\ t + 2 <= End(x)
    BY <1>3, <1>4, <2>2, <2>3, ResolvedCovers DEF CoversPair
  <2>5. ToSet(Resolved(s, TRUE).lexemes) \subseteq ToSet(Walk(paths).results)
    BY <1>1, <1>2, <2>1, <2>2, WalkMeetsPaths
  <2> QED
    BY <2>4, <2>5 DEF paths
<1>7. CASE ~UseSmart
  <2>1. /\ LieApart(paths, n)
        /\ \E p \in paths : l \in ToSet(p.lexemes)
    BY <1>3, <1>4, <1>5, <1>7, MaxWordLiesApart DEF paths
  <2>2. PICK p \in paths : l \in ToSet(p.lexemes)
    BY <2>1
  <2>3. ToSet(p.lexemes) \subseteq ToSet(Walk(paths).results)
    BY <1>1, <1>2, <2>1, <2>2, WalkMeetsPaths
  <2>4. l \in Lexeme
    BY <1>3, <1>4 DEF Lists, Fits
  <2>5. End(l) = t + 2
    BY <1>4, <2>4, OrderFacts
  <2> QED
    BY <1>3, <1>4, <2>2, <2>3, <2>5 DEF paths
<1> QED
  BY <1>6, <1>7

(* The pairs of the text, and what becomes of each that was walked over,   *)
(* as PairsStayTogether has it but with the results that wait: a buffer    *)
(* that was taken whole ended between its halves, or one token or one      *)
(* waiting result holds both.                                              *)
IsPairOfText(i) == i + 1 \in DOMAIN input /\ IsHighSurrogate(Text[i]) /\ IsLowSurrogate(Text[i + 1])

InOneToken(i) == \E k \in DOMAIN tokens : tokens[k].begin < i /\ i < tokens[k].end

InOneResult(i) == \E k \in DOMAIN results : /\ results[k].offset + results[k].begin < i
                                            /\ i < results[k].offset + End(results[k])

PairsOK == \A i \in 1..buffOffset :
              IsPairOfText(i) => i \in cuts \/ InOneToken(i) \/ InOneResult(i)

(* Before the first buffer nothing was walked over.                        *)
LEMMA PairsInit == EngineInit => PairsOK
BY DEF EngineInit, ContextInit, PairsOK

(* Steps that hand nothing out and keep the input.                         *)
LEMMA PairsStay ==
  ASSUME PairsOK, UNCHANGED <<tokens, results, input, buffOffset, cuts>>
  PROVE  PairsOK'
BY DEF PairsOK, IsPairOfText, Text, InOneToken, InOneResult

(* A result that is taken becomes a token, and joining it with the next    *)
(* keeps what it holds together.                                           *)
LEMMA TakeResultKeepsPairs ==
  ASSUME CInv, HistoryOK, OrderOK, PairsOK, TakeResult
  PROVE  PairsOK'
<1> DEFINE q == Compound(results)
           l == Head(q)
           r == Tail(q)
<1>1. /\ results # <<>> /\ InWindow(results, Origin, cursor + 1)
      /\ InWindow(q, Origin, cursor + 1) /\ q # <<>>
      /\ l \in Lexeme /\ l.offset = Origin /\ Origin \in Nat
      /\ results' = r
      /\ UNCHANGED <<read, input, cursor, buffOffset, cuts>>
  BY TakenFacts DEF reader, buffer
<1>2. PICK t \in Tokens : /\ tokens' = Append(tokens, t)
                          /\ t.begin = l.offset + l.begin /\ t.end = l.offset + End(l)
  BY TakenFacts
<1>3. cursor \in Nat /\ buffOffset \in Nat
  BY DEF CInv, ContextTypeOK
<1>4. \A m \in Nat : Holds2(results, m) => Holds2(q, m)
  BY <1>1, <1>3, CompoundKeepsLine DEF OrderOK, Compounded
<1> HIDE DEF q
<1>5. /\ q \in Seq(Lexeme) /\ Len(q) \in Nat \ {0} /\ l = q[1] /\ DOMAIN q = 1..Len(q)
      /\ \A k \in 1..Len(q) : q[k].offset = Origin
  BY <1>1 DEF InWindow
<1>6. r \in Seq(Lexeme) /\ Len(r) = Len(q) - 1 /\ \A k \in 1..Len(r) : r[k] = q[k + 1]
  BY <1>5, HeadTailProperties
<1> HIDE DEF r, l
<1>7. /\ tokens \in Seq(Tokens) /\ Len(tokens) \in Nat
      /\ Len(tokens') = Len(tokens) + 1 /\ tokens' \in Seq(Tokens)
      /\ tokens'[Len(tokens) + 1] = t
      /\ \A k \in 1..Len(tokens) : tokens'[k] = tokens[k]
  BY <1>2 DEF HistoryOK
<1>8. \A i : InOneToken(i) => InOneToken(i)'
  <2>1. \A k \in DOMAIN tokens : k \in DOMAIN tokens' /\ tokens'[k] = tokens[k]
    BY <1>7
  <2> QED
    BY <2>1 DEF InOneToken
<1>9. ASSUME NEW i \in 1..buffOffset, InOneResult(i) PROVE InOneToken(i)' \/ InOneResult(i)'
  <2>1. PICK k \in DOMAIN results : /\ results[k].offset + results[k].begin < i
                                    /\ i < results[k].offset + End(results[k])
    BY <1>9 DEF InOneResult
  <2>2. results[k] \in Lexeme /\ results[k].offset = Origin
    BY <1>1 DEF InWindow
  <2>3. results[k].begin \in Nat /\ End(results[k]) \in Nat
    BY <2>2, OrderFacts
  <2>4. PICK m \in Nat : m = i - 1 - Origin
    BY <1>1, <1>3, <2>1, <2>2, <2>3
  <2>5. Holds2(results, m)
    <3>1. results[k].begin <= m /\ m + 2 <= End(results[k])
      BY <1>1, <2>1, <2>2, <2>3, <2>4
    <3> QED
      BY <3>1 DEF Holds2
  <2>6. PICK j \in 1..Len(q) : q[j].begin <= m /\ m + 2 <= End(q[j])
    BY <1>4, <1>5, <2>5 DEF Holds2
  <2>7. q[j] \in Lexeme /\ q[j].offset = Origin /\ q[j].begin \in Nat /\ End(q[j]) \in Nat
    BY <1>5, OrderFacts
  <2>8. q[j].offset + q[j].begin < i /\ i < q[j].offset + End(q[j])
    BY <1>1, <2>4, <2>6, <2>7
  <2>9. CASE j = 1
    <3>1. t.begin < i /\ i < t.end
      BY <1>2, <1>5, <2>8, <2>9
    <3>2. Len(tokens) + 1 \in DOMAIN tokens'
      BY <1>7
    <3> QED
      BY <1>7, <3>1, <3>2 DEF InOneToken
  <2>10. CASE j # 1
    <3>1. PICK k0 \in 1..Len(r) : k0 + 1 = j
      <4>1. j - 1 \in 1..Len(r) /\ (j - 1) + 1 = j
        BY <1>5, <1>6, <2>10
      <4> QED
        BY <4>1
    <3>2. r[k0] = q[j] /\ k0 \in DOMAIN r
      BY <1>6, <3>1
    <3> QED
      BY <1>1, <2>8, <3>2 DEF InOneResult
  <2> QED
    BY <2>9, <2>10
<1>10. \A i : IsPairOfText(i)' <=> IsPairOfText(i)
  BY <1>1 DEF IsPairOfText, Text
<1> QED
  BY <1>1, <1>8, <1>9, <1>10 DEF PairsOK

(* A pair that was walked over comes out of the arbitration in one result, *)
(* unless the buffer that was taken whole ends with its first half.        *)
LEMMA ArbitrateKeepsPairs ==
  ASSUME CInv, LInv, OInv, HalvesOK, PairsOK, Arbitrate
  PROVE  PairsOK'
<1> DEFINE r == Walk(Process(orgLexemes, UseSmart)).results
<1>1. /\ pc = "arbitrate" /\ results' = results \o r /\ buffOffset' = buffOffset + cursor + 1
      /\ r \in Seq(Lexeme)
      /\ UNCHANGED <<tokens, read, input>>
      /\ cuts \subseteq cuts'
  BY DEF Arbitrate, Output, reader
<1>2. /\ results = <<>> /\ cursor \in Nat /\ buffOffset \in Nat
      /\ Loaded /\ Needed /\ Origin = buffOffset
  BY <1>1 DEF CInv, BufferWindow, NoResultsWhileFilling, ContextTypeOK, Loaded, Needed, Origin
<1>3. Lays(r, 0, cursor + 1, cursor + 1)
  BY <1>1, ArbitratedFacts
<1>4. PICK n \in Nat : n = cursor + 1
  BY <1>2
<1>5. ASSUME NEW m \in 0..(cursor - 1), HalvesAt(m)
      PROVE  \E x \in ToSet(r) : x.begin <= m /\ m + 2 <= End(x)
  BY <1>1, <1>5, PairComesOut
<1> HIDE DEF r
<1>6. results' = r
  BY <1>1, <1>2
<1>7. r \in Seq(Put(n))
  BY <1>3, <1>4 DEF Lays
<1>8. ASSUME NEW i \in 1..buffOffset, IsPairOfText(i)
      PROVE  i \in cuts' \/ InOneToken(i)'
  <2>1. ~InOneResult(i)
    BY <1>2 DEF InOneResult
  <2>2. i \in cuts \/ InOneToken(i)
    BY <1>8, <2>1 DEF PairsOK
  <2> QED
    BY <1>1, <2>2 DEF InOneToken
<1>9. ASSUME NEW i \in (buffOffset + 1)..(buffOffset + cursor), IsPairOfText(i)
      PROVE  InOneResult(i)'
  <2>1. PICK m \in 0..(cursor - 1) : m = i - 1 - buffOffset /\ buffOffset + m + 1 = i
    BY <1>2
  <2>2. HalvesAt(m)
    <3>1. m \in 0..cursor /\ m + 1 \in 0..cursor /\ buffOffset + (m + 1) + 1 = i + 1
      BY <1>2, <2>1
    <3>2. segmentBuff[m] = Text[i]
      BY <1>2, <2>1, <3>1, CellsAreText
    <3>3. segmentBuff[m + 1] = Text[i + 1]
      BY <1>2, <3>1, CellsAreText
    <3> QED
      BY <1>9, <3>2, <3>3 DEF HalvesAt, Half, IsPairOfText
  <2>3. PICK x \in ToSet(r) : x.begin <= m /\ m + 2 <= End(x)
    BY <1>5, <2>2
  <2>4. PICK k \in DOMAIN r : r[k] = x
    BY <2>3 DEF ToSet
  <2>5. r[k] \in Put(n)
    BY <1>7, <2>4
  <2>6. r[k].begin \in Nat /\ End(r[k]) \in Nat /\ r[k].offset = buffOffset
    BY <2>5, PutFacts
  <2>7. r[k].begin <= m /\ m + 2 <= End(r[k])
    BY <2>3, <2>4
  <2>8. r[k].offset + r[k].begin < i /\ i < r[k].offset + End(r[k])
    BY <1>2, <2>1, <2>6, <2>7
  <2> QED
    BY <1>6, <2>8 DEF InOneResult
<1>10. \A i : IsPairOfText(i)' <=> IsPairOfText(i)
  BY <1>1 DEF IsPairOfText, Text
<1>11. \A i \in 1..buffOffset' : \/ i \in 1..buffOffset
                                 \/ i \in (buffOffset + 1)..(buffOffset + cursor)
                                 \/ i = buffOffset + cursor + 1
  BY <1>1, <1>2
<1>12. IsPairOfText(buffOffset + cursor + 1) => (buffOffset + cursor + 1) \in cuts'
  <2>1. CASE IsBufferConsumed
    <3>1. buffOffset' \in cuts'
      BY <2>1 DEF Arbitrate
    <3> QED
      BY <1>1, <3>1
  <2>2. CASE ~IsBufferConsumed
    <3>1. cursor < available - 1
      <4>1. available \in Nat /\ cursor < available
        BY <1>2 DEF CInv, ContextTypeOK, BufferWindow, ReadContiguously
      <4> QED
        BY <1>2, <2>2, <4>1 DEF IsBufferConsumed
    <3>2. RefillCutsNothing
      BY NothingOpenIsCut
    <3>3. ~(IsHighSurrogate(Text[buffOffset + cursor + 1]) /\ IsLowSurrogate(Text[buffOffset + cursor + 1 + 1]))
      BY <1>1, <3>1, <3>2 DEF RefillCutsNothing
    <3> QED
      BY <3>3 DEF IsPairOfText
  <2> QED
    BY <2>1, <2>2
<1> QED
  BY <1>1, <1>8, <1>9, <1>10, <1>11, <1>12 DEF PairsOK
(* Every step keeps each pair in a token or in a waiting result.           *)
LEMMA PairsNext ==
  ASSUME CInv, LInv, OInv, HistoryOK, OrderOK, HalvesOK, PairsOK, [EngineNext]_engine
  PROVE  PairsOK'
<1>1. ASSUME NEW text \in LaterInputs, EngineReset(text) PROVE PairsOK'
  BY <1>1 DEF EngineReset, Reset, ContextReset, PairsOK
<1>2. CASE NextCalled \/ NoMoreResults \/ FillFails
  <2>1. UNCHANGED <<tokens, results, input, buffOffset, cuts>>
    <3>1. CASE NextCalled
      BY <3>1 DEF NextCalled, CallNext, history, reader, buffer
    <3>2. CASE NoMoreResults
      BY <3>2 DEF NoMoreResults, NoResult, history, reader, buffer
    <3>3. CASE FillFails
      BY <3>3 DEF FillFails, ReadFails, history, reader
    <3> QED
      BY <1>2, <3>1, <3>2, <3>3
  <2> QED
    BY <2>1, PairsStay
<1>3. CASE TakeResult
  BY <1>3, TakeResultKeepsPairs
<1>4. ASSUME NEW n \in ReadCounts, FillBuffer(n) PROVE PairsOK'
  <2>1. UNCHANGED <<tokens, results, input, buffOffset, cuts>>
    BY <1>4 DEF FillBuffer, Fill, history
  <2> QED
    BY <2>1, PairsStay
<1>5. CASE Exhausted
  BY <1>5 DEF Exhausted, EndOfInput, ContextReset, PairsOK
<1>6. CASE AnalyzeCharacter
  <2>1. PICK locks : Analyze(locks) /\ UNCHANGED history
    BY <1>6 DEF AnalyzeCharacter
  <2>2. UNCHANGED <<tokens, results, input, buffOffset, cuts>>
    BY <2>1 DEF Analyze, history, reader
  <2> QED
    BY <2>2, PairsStay
<1>7. CASE Arbitrate
  BY <1>7, ArbitrateKeepsPairs
<1>8. CASE DictionaryReloaded \/ UNCHANGED engine
  <2>1. UNCHANGED <<tokens, results, input, buffOffset, cuts>>
    BY <1>8 DEF DictionaryReloaded, engine, cvars, history, reader, buffer
  <2> QED
    BY <2>1, PairsStay
<1> QED
  BY <1>1, <1>2, <1>3, <1>4, <1>5, <1>6, <1>7, <1>8 DEF EngineNext, InsideCall

(* The two invariants of the pairs hold throughout, and from them follows  *)
(* that pairs stay together.                                               *)
PairsInv == HalvesOK /\ PairsOK

LEMMA PairsInvFacts ==
  ASSUME ~UseSmart \/ WordsKeepPairs
  PROVE  /\ EngineInit => PairsInv
         /\ EInv /\ OrderOK /\ PairsInv /\ [EngineNext]_engine => PairsInv'
         /\ EInv /\ PairsInv => PairsStayTogether
<1>1. EngineInit => PairsInv
  BY HalvesInit, PairsInit DEF PairsInv
<1>2. EInv /\ OrderOK /\ PairsInv /\ [EngineNext]_engine => PairsInv'
  <2> SUFFICES ASSUME EInv, OrderOK, HalvesOK, PairsOK, [EngineNext]_engine
               PROVE  HalvesOK' /\ PairsOK'
    BY DEF PairsInv
  <2>1. CInv /\ LInv /\ OInv /\ HistoryOK
    BY DEF EInv
  <2> QED
    BY <2>1, HalvesNext, PairsNext
<1>3. ASSUME EInv, PairsInv PROVE PairsStayTogether
  <2> SUFFICES ASSUME HandedOut, NEW i \in 1..(buffOffset - 1),
                      IsHighSurrogate(Text[i]), IsLowSurrogate(Text[i + 1])
               PROVE  i \in cuts \/ \E k \in DOMAIN tokens : tokens[k].begin < i /\ i < tokens[k].end
    BY DEF PairsStayTogether
  <2>1. /\ Loaded /\ pc \in {"poll", "fill"} /\ results = <<>>
        /\ cursor \in Nat /\ buffOffset \in Nat /\ input \in Seq(Char)
    BY <1>3 DEF HandedOut, EInv, CInv, ContextTypeOK
  <2>2. buffOffset <= Len(input)
    BY <1>3, <2>1 DEF EInv, CInv, ContextTypeOK, BufferWindow, ReadContiguously, Origin
  <2>3. i + 1 \in DOMAIN input /\ i \in 1..buffOffset
    BY <2>1, <2>2
  <2>4. IsPairOfText(i) /\ ~InOneResult(i)
    BY <2>1, <2>3 DEF IsPairOfText, InOneResult
  <2> QED
    BY <1>3, <2>3, <2>4 DEF PairsInv, PairsOK, InOneToken
<1> QED
  BY <1>1, <1>2, <1>3

(* A surrogate pair comes out in one token, or a buffer that was taken     *)
(* whole ended between its halves, for every text, buffer and reload       *)
(* (surrogate_pair_segmenter.go:34-67, analyze_context.go:140-200): in     *)
(* max-word mode whatever the dictionaries, and in smart mode where no     *)
(* word has a pair but at its end.  Without that a longer word may begin   *)
(* with the pair and lose to a word that crosses it, and the arbitrator,   *)
(* which tries one way for each candidate left out, does not go back for   *)
(* the pair alone (ik_arbitrator.go:133-143).                              *)
THEOREM PairsComeTogether ==
  ASSUME ~UseSmart \/ WordsKeepPairs
  PROVE  EngineSpec => []PairsStayTogether
<1> DEFINE Inv == EInv /\ OrderOK /\ PairsInv
<1>1. EngineInit => Inv
  BY EngineInitEstablishesCInv, LInvInit, OInvInit, HistoryInit, OrderInit, PairsInvFacts DEF EInv
<1>2. Inv /\ [EngineNext]_engine => Inv'
  BY EngineNextPreservesCInv, LInvNext, OInvNext, HistoryNext, OrderNext, PairsInvFacts DEF EInv
<1>3. Inv => PairsStayTogether
  BY PairsInvFacts
<1> HIDE DEF Inv
<1> QED
  BY <1>1, <1>2, <1>3, PTL DEF EngineSpec

-----------------------------------------------------------------------------
(* Numerals and quantifiers.                                               *)

(* A quantifier is looked for behind a numeral or within another, so that  *)
(* none begins with the buffer.                                            *)
Late == {l \in Lexeme : l.lexemeType = TypeCount => l.begin > 0}

LEMMA NoCountIsLate == NoCount \subseteq Late
BY DEF NoCount, Late

(* The surrogate pair segmenter finds no quantifiers.                      *)
LEMMA PairsAreNoCounts ==
  ASSUME NEW n, SurrogateAnalyze(surrogate).added \in Seq(Fits(n))
  PROVE  ToSet(SurrogateAnalyze(surrogate).added) \subseteq NoCount
<1> DEFINE ls == SurrogateAnalyze(surrogate).added
<1>1. \A k \in DOMAIN ls : ls[k].lexemeType \in {TypeCNChar, TypeCNWord}
  BY DEF SurrogateAnalyze, NewLexeme
<1> HIDE DEF ls
<1>2. \A k \in DOMAIN ls : ls[k] \in Fits(n)
  BY DEF ls
<1>3. Fits(n) \subseteq Lexeme /\ TypeCNChar # TypeCount /\ TypeCNWord # TypeCount
  BY DEF Fits, TypeCNChar, TypeCNWord, TypeCount
<1>4. \A k \in DOMAIN ls : ls[k] \in NoCount
  BY <1>1, <1>2, <1>3 DEF NoCount
<1> QED
  BY <1>4 DEF ToSet, ls

(* Nor does the CJK segmenter.                                             *)
LEMMA WordsAreNoCounts ==
  ASSUME NEW n, CJKAnalyze(cjk).words \subseteq Fits(n)
  PROVE  CJKAnalyze(cjk).words \subseteq NoCount
<1>1. \A l \in CJKAnalyze(cjk).words : l.lexemeType = TypeCNWord
  BY DEF CJKAnalyze, NewLexeme
<1>2. Fits(n) \subseteq Lexeme /\ TypeCNWord # TypeCount
  BY DEF Fits, TypeCNWord, TypeCount
<1> QED
  BY <1>1, <1>2 DEF NoCount

(* The Chinese quantifier segmenter starts no quantifier at the first      *)
(* character: no candidate ends in front of it.                            *)
LEMMA QuantifiersAreLate ==
  ASSUME cursor \in Nat, buffOffset \in Nat, SegmentersOK(cursor), OpenOK,
         \A b \in quantifier.countHits : b > 0,
         NEW org \in Lists(cursor + 1), ToSet(org) \subseteq Late
  PROVE  LET q == QuantifierAnalyze(quantifier, org)
         IN  /\ \A b \in q.state.countHits : b > 0
             /\ ToSet(q.org) \subseteq Late
<1> DEFINE number == CNumberPass(quantifier.number)
           numerals == LexemesOf(number.ended, TypeCNum)
           starts == quantifier.countHits
           given == AddLexemes(org, numerals)
           count == ProcessCount(number.run, starts, given)
           q == QuantifierAnalyze(quantifier, org)
           n == cursor + 1
           early == {b \in 0..cursor : b > 0}
<1>1. /\ quantifier.number \in RunsBefore(cursor) /\ starts \in SUBSET (0..(cursor - 1))
      /\ OpensInText(quantifier.number, FALSE) /\ \A b \in starts : charTypes[b] # charUseless
  <2>1. quantifier.number \in RunsBefore(cursor) /\ starts \in SUBSET (0..(cursor - 1))
    BY DEF SegmentersOK
  <2>2. OpensInText(quantifier.number, FALSE) /\ \A b \in starts : charTypes[b] # charUseless
    BY DEF OpenOK
  <2> QED
    BY <2>1, <2>2
<1>2. TypeCNum \in LexemeType \ {TypeCount} /\ TypeCount \in LexemeType
  BY DEF LexemeType, TypeCNum, TypeCount
<1>3. starts \subseteq early /\ starts \in SUBSET (0..cursor)
  <2>1. 0..(cursor - 1) \subseteq 0..cursor
    OBVIOUS
  <2>2. \A b \in starts : b > 0
    OBVIOUS
  <2> HIDE DEF starts
  <2> QED
    BY <1>1, <2>1, <2>2
<1>4. numerals \in Seq(Fits(n))
  BY <1>1, <1>2, PassAdds, CharTypesDiffer DEF CNumberPass
<1>5. q.state.countHits = count.hits /\ q.org = count.org
  BY DEF QuantifierAnalyze
<1>6. given \in Lists(n) /\ ToSet(given) \subseteq Late
  <2>1. numerals \in Seq(NoCount \cap Fits(n))
    BY <1>2, <1>4, RunsAreNoCounts
  <2> HIDE DEF numerals
  <2>2. ToSet(numerals) \subseteq Late
    BY <2>1, NoCountIsLate DEF ToSet
  <2> QED
    BY <1>4, <2>2, EachAdded DEF Grown
<1> HIDE DEF number, numerals, q, given, starts
<1>7. ASSUME NEW B \in SUBSET early, \A b \in B : charTypes[b] # charUseless,
             CurrentCharType = charChinese, NEW r \in Lists(n), ToSet(r) \subseteq Late
      PROVE  LET s == AddAll(r, Counts(Matched(QuantifierWords, B)))
             IN  s \in Lists(n) /\ ToSet(s) \subseteq Late
  <2> DEFINE T == Counts(Matched(QuantifierWords, B))
  <2>1. T \in SUBSET {NewLexeme(buffOffset, b, HitLength(b), TypeCount) : b \in B}
    BY DEF Counts, Matched
  <2> HIDE DEF T
  <2>2. T \in SUBSET Fits(n) /\ IsFiniteSet(T)
    <3>1. CurrentCharType # charUseless /\ B \in SUBSET (0..cursor)
      BY <1>7, CharTypesDiffer
    <3> QED
      BY <1>2, <1>7, <2>1, <3>1, HitsFit
  <2>3. T \subseteq Late
    <3>1. \A l \in T : l.begin > 0
      BY <2>1 DEF NewLexeme
    <3>2. Fits(n) \subseteq Lexeme
      BY DEF Fits
    <3> QED
      BY <2>2, <3>1, <3>2 DEF Late
  <2>4. AddAll(r, T) \in Lists(n) /\ Grown(r, AddAll(r, T), Late)
    BY <1>7, <2>2, <2>3, SetAdded
  <2> QED
    BY <2>4 DEF T, Grown
<1> DEFINE extended == AddAll(given, Counts(Matched(QuantifierWords, starts)))
           pending == Pending(QuantifierWords, starts)
           starting == IF AfterNumeral(extended) \/ pending # {} THEN {cursor} ELSE {}
           hits == pending \cup Pending(QuantifierWords, starting)
<1>8. ASSUME CurrentCharType = charChinese
      PROVE  extended \in Lists(n) /\ ToSet(extended) \subseteq Late
  BY <1>1, <1>3, <1>6, <1>7, <1>8 DEF starts
<1> HIDE DEF extended
<1>9. ASSUME CurrentCharType = charChinese, cursor = 0 PROVE starting = {}
  <2>1. starts = {} /\ pending = {}
    <3>1. 0..(0 - 1) = {}
      OBVIOUS
    <3> QED
      BY <1>1, <1>9, <3>1 DEF Pending
  <2>2. ASSUME extended # <<>> PROVE End(Last(extended)) # cursor
    <3>1. extended \in Seq(Lexeme)
      BY <1>8, <1>9 DEF Lists
    <3>2. Last(extended) \in Lexeme
      <4>1. Len(extended) \in DOMAIN extended
        BY <2>2, <3>1
      <4> QED
        BY <3>1, <4>1 DEF Last
    <3> QED
      BY <1>9, <3>2, OrderFacts
  <2> QED
    BY <2>1, <2>2 DEF AfterNumeral
<1>10. CurrentCharType = charChinese => starting \subseteq early
  BY <1>9
<1>11. \A b \in starting : b = cursor
  OBVIOUS
<1>12. pending \subseteq starts /\ Pending(QuantifierWords, starting) \subseteq starting
  BY DEF Pending
<1>13. CurrentCharType = charChinese => \A b \in hits : b > 0
  BY <1>3, <1>10, <1>12
<1> HIDE DEF pending, starting
<1>14. ASSUME CurrentCharType = charChinese
       PROVE  ToSet(AddAll(extended, Counts(Matched(QuantifierWords, starting)))) \subseteq Late
  <2>1. \A b \in starting : charTypes[b] # charUseless
    BY <1>11, <1>14, CharTypesDiffer DEF CurrentCharType
  <2> QED
    BY <1>7, <1>8, <1>10, <1>14, <2>1
<1>15. \/ count.org = given /\ count.hits = {}
       \/ /\ CurrentCharType = charChinese
          /\ count.hits = {} \/ count.hits = hits
          /\ count.org = AddAll(extended, Counts(Matched(QuantifierWords, starting)))
  <2>1. ~NeedCountScan(number.run, starts, given) => starts = {}
    BY DEF NeedCountScan
  <2> QED
    BY <2>1 DEF ProcessCount, extended, pending, starting
<1> HIDE DEF count, hits
<1> QED
  BY <1>5, <1>6, <1>13, <1>14, <1>15 DEF q

(* So every quantifier among the candidates is late.                       *)
CountsListed == /\ \A b \in quantifier.countHits : b > 0
                /\ ToSet(orgLexemes) \subseteq Late

(* The sub-segmenters see a character.                                     *)
LEMMA AnalyzeCharacterKeepsCounts ==
  ASSUME CInv, LInv, OInv, CountsListed, AnalyzeCharacter
  PROVE  CountsListed'
<1>1. /\ pc = "analyze" /\ cursor \in Nat /\ buffOffset \in Nat /\ segmentBuff[cursor] \in Char
      /\ cursor < available /\ Loaded /\ Needed
  <2>1. pc = "analyze" /\ Loaded
    BY DEF AnalyzeCharacter, Analyze, Loaded
  <2>2. /\ cursor \in Nat /\ available \in Nat /\ cursor < available /\ buffOffset \in Nat
        /\ available <= BuffSize /\ segmentBuff \in [Index -> Char]
    BY <2>1 DEF CInv, ContextTypeOK, BufferWindow, ReadContiguously
  <2>3. cursor \in Index
    BY <2>2, BufferAssumption DEF Index
  <2> QED
    BY <2>1, <2>2, <2>3 DEF Needed
<1>2. charTypes[cursor] = IdentifyCharType(segmentBuff[cursor])
  BY <1>1 DEF CInv, BufferWindow, ProcessedIsRegular
<1>3. /\ SegmentersOK(cursor) /\ OpenOK /\ orgLexemes \in Lists(cursor)
      /\ letter.mix # NoRun => letter.mix.end = cursor - 1
  BY <1>1 DEF LInv, OInv, Looked
<1> DEFINE l == LetterAnalyze(letter)
           p == SurrogateAnalyze(surrogate)
           ls == l.added \o p.added
           given == AddLexemes(orgLexemes, ls)
           q == QuantifierAnalyze(quantifier, given)
           c == CJKAnalyze(cjk)
<1>4. PICK n \in Nat : n = cursor + 1
  BY <1>1
<1>5. quantifier' = q.state /\ orgLexemes' = AddAll(q.org, c.words)
  BY DEF AnalyzeCharacter
<1>6. l.added \in Seq(Fits(n)) /\ ToSet(l.added) \subseteq NoCount
  <2>1. /\ LetterAnalyze(letter).added \in Seq(Fits(cursor + 1))
        /\ ToSet(LetterAnalyze(letter).added) \subseteq NoCount
    BY <1>1, <1>3, LetterAdds
  <2> QED
    BY <1>4, <2>1
<1>7. p.added \in Seq(Fits(n)) /\ ToSet(p.added) \subseteq NoCount
  <2>1. SurrogateAnalyze(surrogate).added \in Seq(Fits(cursor + 1))
    BY <1>1, <1>2, <1>3, SurrogateAdds
  <2> QED
    BY <1>4, <2>1, PairsAreNoCounts
<1> HIDE DEF l, p
<1>8. ls \in Seq(Fits(n)) /\ ToSet(ls) \subseteq Late
  <2> DEFINE F == NoCount \cap Fits(n)
  <2>1. \A r \in Seq(Fits(n)) : ToSet(r) \subseteq NoCount => r \in Seq(F)
    <3> SUFFICES ASSUME NEW r \in Seq(Fits(n)), ToSet(r) \subseteq NoCount PROVE r \in Seq(F)
      OBVIOUS
    <3>1. DOMAIN r = 1..Len(r) /\ \A k \in 1..Len(r) : r[k] \in Fits(n)
      OBVIOUS
    <3>2. \A k \in 1..Len(r) : r[k] \in F
      BY <3>1 DEF ToSet
    <3> HIDE DEF F
    <3> QED
      BY <3>2
  <2>2. l.added \in Seq(F) /\ p.added \in Seq(F)
    BY <1>6, <1>7, <2>1
  <2> HIDE DEF F
  <2>3. ls \in Seq(F) /\ ToSet(ls) \subseteq F
    BY <2>2, LastOfTwo
  <2> HIDE DEF ls
  <2>4. F \subseteq Fits(n) /\ F \subseteq Late
    BY NoCountIsLate DEF F
  <2>5. ls \in Seq(Fits(n))
    BY <2>3, <2>4
  <2> QED
    BY <2>3, <2>4, <2>5
<1> HIDE DEF ls
<1>9. given \in Lists(n) /\ ToSet(given) \subseteq Late
  <2>1. orgLexemes \in Lists(n)
    BY <1>1, <1>3, <1>4, FitsGrow
  <2> QED
    BY <1>8, <2>1, EachAdded DEF CountsListed, Grown
<1> HIDE DEF given
<1>10. /\ \A b \in q.state.countHits : b > 0
       /\ q.org \in Lists(n) /\ ToSet(q.org) \subseteq Late
  <2>1. given \in Lists(cursor + 1) /\ ToSet(given) \subseteq Late
    BY <1>4, <1>9
  <2>2. LET s == QuantifierAnalyze(quantifier, given)
        IN  (\A b \in s.state.countHits : b > 0) /\ ToSet(s.org) \subseteq Late
    BY <1>1, <1>3, <2>1, QuantifiersAreLate DEF CountsListed
  <2>3. q.org \in Lists(cursor + 1)
    BY <1>1, <1>3, <2>1, QuantifierAdds
  <2> QED
    BY <1>4, <2>2, <2>3
<1> HIDE DEF q
<1>11. c.words \in SUBSET Fits(n) /\ IsFiniteSet(c.words) /\ c.words \subseteq Late
  <2>1. c.words \in SUBSET Fits(n) /\ IsFiniteSet(c.words)
    BY <1>1, <1>3, <1>4, CJKAdds
  <2> QED
    BY <2>1, WordsAreNoCounts, NoCountIsLate
<1> HIDE DEF c
<1>12. ToSet(orgLexemes') \subseteq Late
  BY <1>5, <1>10, <1>11, SetAdded DEF Grown
<1> QED
  BY <1>5, <1>10, <1>12 DEF CountsListed, Late

(* Every step keeps the quantifiers late.                                  *)
LEMMA CountsListedNext ==
  ASSUME CInv, LInv, OInv, CountsListed, [EngineNext]_engine
  PROVE  CountsListed'
<1>1. ToSet(<<>>) \subseteq Late
  BY DEF ToSet
<1>2. Late' = Late
  BY DEF Late
<1>3. ASSUME quantifier' \in {quantifier, NoQuantity}, orgLexemes' \in {orgLexemes, <<>>}
      PROVE  CountsListed'
  BY <1>1, <1>2, <1>3 DEF CountsListed, NoQuantity
<1>4. ASSUME NEW text \in LaterInputs, EngineReset(text) PROVE CountsListed'
  BY <1>3, <1>4 DEF EngineReset, SegmentersReset
<1>5. CASE Arbitrate
  BY <1>3, <1>5 DEF Arbitrate, SegmentersReset
<1>6. CASE NextCalled \/ TakeResult \/ NoMoreResults \/ Exhausted \/ FillFails
  BY <1>3, <1>6 DEF NextCalled, TakeResult, NoMoreResults, Exhausted, FillFails, segmenters
<1>7. ASSUME NEW n \in ReadCounts, FillBuffer(n) PROVE CountsListed'
  BY <1>3, <1>7 DEF FillBuffer, segmenters
<1>8. CASE AnalyzeCharacter
  BY <1>8, AnalyzeCharacterKeepsCounts
<1>9. CASE DictionaryReloaded \/ UNCHANGED engine
  BY <1>3, <1>9 DEF DictionaryReloaded, engine, segmenters
<1> QED
  BY <1>4, <1>5, <1>6, <1>7, <1>8, <1>9 DEF EngineNext, InsideCall

(* What is put out of a path, and of all paths, are their lexemes and      *)
(* characters alone.                                                       *)
LEMMA PathPutsOut ==
  ASSUME NEW S, \A i \in Nat : SingleCJK(i) \in Seq(S),
         NEW p, p.lexemes \in Seq(S), \A l \in S : l.begin \in Nat /\ End(l) \in Nat
  PROVE  PathResults(p) \in Seq(S)
<1> DEFINE q == p.lexemes
           from(k) == IF k = 1 THEN q[1].begin ELSE End(q[k - 1])
           part(k) == Append(Singles(from(k), q[k].begin - 1), q[k])
           ss == [k \in DOMAIN q |-> part(k)]
<1>1. q \in Seq(S) /\ DOMAIN q = 1..Len(q) /\ Len(q) \in Nat /\ \A k \in 1..Len(q) : q[k] \in S
  OBVIOUS
<1>2. PathResults(p) = FlattenSeq(ss)
  BY DEF PathResults
<1> HIDE DEF q
<1>3. ASSUME NEW a \in Nat, NEW b \in Int PROVE Singles(a, b) \in Seq(S)
  <2>1. CASE a > b
    BY <2>1 DEF Singles
  <2>2. CASE ~(a > b)
    <3> DEFINE n == b - a + 1
               rs == [k \in 1..n |-> SingleCJK(a + k - 1)]
    <3>1. n \in Nat /\ \A k \in 1..n : a + k - 1 \in Nat
      BY <2>2
    <3>2. Singles(a, b) = FlattenSeq(rs)
      BY <2>2 DEF Singles
    <3> HIDE DEF n
    <3>3. \A k \in 1..n : SingleCJK(a + k - 1) \in Seq(S)
      BY <3>1
    <3>4. rs \in Seq(Seq(S))
      BY <3>1, <3>3
    <3> HIDE DEF rs
    <3>5. PICK f \in [0..Len(rs) -> Seq(S)] : f[Len(rs)] = FlattenSeq(rs)
      BY <3>4, FlattenSteps
    <3>6. Len(rs) \in 0..Len(rs)
      BY <3>4
    <3> QED
      BY <3>2, <3>5, <3>6
  <2> QED
    BY <2>1, <2>2
<1>4. ASSUME NEW k \in 1..Len(q) PROVE part(k) \in Seq(S)
  <2>1. k = 1 \/ k - 1 \in 1..Len(q)
    BY <1>1
  <2>2. q[k].begin \in Nat /\ q[1] \in S
    <3>1. 1 \in 1..Len(q)
      BY <1>1
    <3> QED
      BY <1>1, <3>1
  <2>3. from(k) \in Nat /\ q[k].begin - 1 \in Int
    <3>1. k # 1 => q[k - 1] \in S
      BY <1>1, <2>1
    <3>2. k # 1 => End(q[k - 1]) \in Nat
      BY <3>1
    <3>3. from(k) \in Nat
      <4>1. CASE k = 1
        BY <2>2, <4>1
      <4>2. CASE k # 1
        BY <3>2, <4>2
      <4> QED
        BY <4>1, <4>2
    <3>4. \A b \in Nat : b - 1 \in Int
      OBVIOUS
    <3>5. q[k].begin - 1 \in Int
      BY <2>2, <3>4
    <3> QED
      BY <3>3, <3>5
  <2>4. Singles(from(k), q[k].begin - 1) \in Seq(S)
    <3> HIDE DEF from
    <3> QED
      BY <1>3, <2>3
  <2> HIDE DEF from
  <2> QED
    BY <1>1, <2>4
<1> HIDE DEF part
<1>5. ss \in Seq(Seq(S))
  BY <1>1, <1>4
<1> HIDE DEF ss
<1>6. PICK f \in [0..Len(ss) -> Seq(S)] : f[Len(ss)] = FlattenSeq(ss)
  BY <1>5, FlattenSteps
<1>7. Len(ss) \in 0..Len(ss)
  BY <1>5
<1> QED
  BY <1>2, <1>6, <1>7

LEMMA WalkPutsOut ==
  ASSUME NEW n \in Nat, cursor \in Nat, n = cursor + 1, buffOffset \in Nat,
         NEW paths, \A p \in paths : p.pathBegin = -1 \/ MayPut(p, n),
         NEW S, \A i \in Nat : SingleCJK(i) \in Seq(S), \A l \in S : l.begin \in Nat /\ End(l) \in Nat,
         \A p \in paths : p.pathBegin # -1 => p.lexemes \in Seq(S)
  PROVE  Walk(paths).results \in Seq(S)
<1>1. PICK w \in [0..n -> Putting(n)] : IsWalk(w, paths) /\ w[0] = Walk(paths)
  BY WalkSteps
<1> DEFINE P == {i \in 0..n : w[i].results \in Seq(S)}
<1>2. n \in P
  <2>1. w[n].results = <<>> /\ n \in 0..n
    BY <1>1 DEF IsWalk
  <2>2. <<>> \in Seq(S)
    OBVIOUS
  <2>3. w[n].results \in Seq(S)
    BY <2>1, <2>2
  <2> QED
    BY <2>1, <2>3
<1>6. \A q, r \in Seq(S) : q \o r \in Seq(S)
  OBVIOUS
<1>3. ASSUME NEW i \in 0..cursor, \A j \in (i + 1)..n : j \in P PROVE i \in P
  <2>1. i \in 0..n /\ i \in Nat /\ i + 1 \in (i + 1)..n
    OBVIOUS
  <2>2. w[i + 1].results \in Seq(S)
    BY <1>3, <2>1
  <2>3. CASE charTypes[i] = charUseless
    BY <1>1, <2>1, <2>2, <2>3 DEF IsWalk
  <2>4. CASE charTypes[i] # charUseless /\ \A p \in paths : p.pathBegin # i
    <3>1. w[i].results = SingleCJK(i) \o w[i + 1].results /\ SingleCJK(i) \in Seq(S)
      BY <1>1, <2>1, <2>4 DEF IsWalk
    <3>2. w[i].results \in Seq(S)
      BY <1>6, <2>2, <3>1
    <3> QED
      BY <2>1, <3>2
  <2>5. CASE charTypes[i] # charUseless /\ \E p \in paths : p.pathBegin = i
    <3>1. PICK p \in paths : /\ p.pathBegin = i
                             /\ w[i].results = PathResults(p) \o w[End(Last(p.lexemes))].results
      BY <1>1, <2>5 DEF IsWalk
    <3>2. MayPut(p, n) /\ p.lexemes \in Seq(S)
      <4>1. p.pathBegin # -1
        BY <2>1, <3>1
      <4> QED
        BY <4>1
    <3>3. PICK e : e = End(Last(p.lexemes))
      OBVIOUS
    <3>4. e \in (i + 1)..n
      BY <3>1, <3>2, <3>3, PathLays
    <3>5. w[e].results \in Seq(S)
      BY <1>3, <3>4
    <3>6. PathResults(p) \in Seq(S)
      BY <3>2, PathPutsOut
    <3>7. w[i].results \in Seq(S)
      BY <1>6, <3>1, <3>3, <3>5, <3>6
    <3> QED
      BY <2>1, <3>7
  <2> QED
    BY <2>3, <2>4, <2>5
<1>4. ASSUME NEW i \in 0..n, \A j \in (i + 1)..n : j \in P PROVE i \in P
  <2>1. i = n \/ i \in 0..cursor
    OBVIOUS
  <2> HIDE DEF P
  <2> QED
    BY <1>2, <1>3, <1>4, <2>1
<1>5. 0 \in P
  <2>1. 0 \in 0..n
    OBVIOUS
  <2> HIDE DEF P
  <2> QED
    BY <1>4, <2>1, DownTo
<1> QED
  BY <1>1, <1>5

(* What is put out of a buffer in smart mode is late as well: the          *)
(* arbitrator and the walk make up words and single characters only.       *)
LEMMA ArbitratedIsLate ==
  ASSUME UseSmart, CInv, OInv, CountsListed, pc = "arbitrate"
  PROVE  Walk(Process(orgLexemes, UseSmart)).results \in Seq(Late)
<1> DEFINE paths == Process(orgLexemes, UseSmart)
<1>1. cursor \in Nat /\ buffOffset \in Nat /\ Looked = cursor + 1
  BY DEF CInv, ContextTypeOK, Looked
<1>2. PICK n \in Nat : n = cursor + 1
  BY <1>1
<1>3. orgLexemes \in Lists(n) /\ orgLexemes \in Seq(Lexeme) /\ Ordered(orgLexemes)
  BY <1>1, <1>2 DEF OInv, Lists
<1>4. \A p \in paths : p.pathBegin = -1 \/ MayPut(p, n)
  BY <1>3, ProcessedMayBePut
<1>5. \A i \in Nat : SingleCJK(i) \in Seq(Late)
  <2> SUFFICES ASSUME NEW i \in Nat PROVE SingleCJK(i) \in Seq(Late)
    OBVIOUS
  <2>1. \A t \in {TypeCNChar, TypeOtherCJK} : NewLexeme(buffOffset, i, 1, t) \in Late
    BY <1>1 DEF NewLexeme, Lexeme, LexemeType, Late, TypeCNChar, TypeOtherCJK, TypeCount
  <2> HIDE DEF Late
  <2> QED
    BY <2>1 DEF SingleCJK
<1>6. \A l \in Late : l.begin \in Nat /\ End(l) \in Nat
  BY OrderFacts DEF Late
<1>7. ASSUME NEW p \in paths, p.pathBegin # -1 PROVE p.lexemes \in Seq(Late)
  <2>1. p.lexemes \in Seq(Put(n)) /\ p.lexemes # <<>>
    BY <1>4, <1>7 DEF MayPut
  <2>2. ToSet(p.lexemes) \subseteq Late
    <3>1. PICK s \in Process(orgLexemes, FALSE) : p = Resolved(s, TRUE)
      BY <1>3, <1>7, SmartFollowsMaxWord
    <3>2. CASE orgLexemes = <<>>
      <4>1. orgLexemes \in Lists(0)
        BY <1>3, <3>2 DEF Lists, ToSet
      <4>2. MayPut(p, 0)
        BY <1>7, <4>1, ProcessedMayBePut
      <4>3. p.lexemes[1] \in Put(0)
        BY <2>1, <4>2 DEF MayPut
      <4>4. \A l \in Put(0) : FALSE
        BY OrderFacts DEF Put
      <4> QED
        BY <4>3, <4>4
    <3>3. CASE orgLexemes # <<>>
      <4>1. IsStretch(s) /\ \A l \in ToSet(s.lexemes) : l \in ToSet(orgLexemes)
        <5>1. AreStretches(Process(orgLexemes, FALSE), orgLexemes, Len(orgLexemes))
          BY <1>3, <3>3, ProcessFacts
        <5>2. \A j \in 1..Len(orgLexemes) : orgLexemes[j] \in ToSet(orgLexemes)
          BY <1>3 DEF ToSet
        <5> QED
          BY <5>1, <5>2 DEF AreStretches
      <4>2. TypeCNWord # TypeCount
        BY DEF TypeCNWord, TypeCount
      <4> QED
        BY <3>1, <4>1, <4>2, ResolvedFrom DEF CountsListed, Late
    <3> QED
      BY <3>2, <3>3
  <2>3. DOMAIN p.lexemes = 1..Len(p.lexemes) /\ Len(p.lexemes) \in Nat
    BY <2>1
  <2>4. \A k \in 1..Len(p.lexemes) : p.lexemes[k] \in Late
    BY <2>2, <2>3 DEF ToSet
  <2> HIDE DEF paths
  <2> QED
    BY <2>1, <2>3, <2>4
<1> HIDE DEF paths
<1>8. Walk(paths).results \in Seq(Late)
  BY <1>1, <1>2, <1>4, <1>5, <1>6, <1>7, WalkPutsOut
<1> QED
  BY <1>8 DEF paths

(* A numeral, and a quantifier right behind it.                            *)
Parted(t, type, begin) == t.lexemeType \in {TypeArabic, TypeCNum} /\ t.end = begin /\ type = TypeCount

(* Compound joins the first result with the quantifier behind it when it   *)
(* is a numeral, and makes no quantifier of another lexeme.                *)
LEMMA CompoundJoinsCounts ==
  ASSUME UseSmart, NEW q, NEW origin \in Nat, NEW length \in Nat,
         InWindow(q, origin, length), q # <<>>
  PROVE  LET r == Compound(q)
         IN  /\ r[1].lexemeType = TypeCount => q[1].lexemeType = TypeCount
             /\ ~(Joins(r, TypeArabic, TypeCount) \/ Joins(r, TypeCNum, TypeCount))
<1> DEFINE a == JoinArabic(q)
           r == JoinCount(a)
<1>1. TypeCNum # TypeCount /\ TypeCQuan # TypeCount /\ TypeArabic # TypeCount
      /\ TypeCQuan # TypeCNum /\ TypeCQuan # TypeArabic /\ TypeCNum # TypeArabic
  BY DEF TypeCNum, TypeCQuan, TypeCount, TypeArabic
<1>2. \A s, t : Joined(s, t)[1].lexemeType = t
  BY DEF Joined, Appended, NewLexeme
<1> QED
  BY <1>1, <1>2 DEF Compound, JoinArabic, JoinCount, Joins

(* In smart mode no numeral that was handed out, of digits or of Chinese   *)
(* numerals, has a quantifier right behind it that was handed out apart.   *)
CountsJoined ==
    UseSmart => \A i \in 1..(Len(tokens) - 1) :
                   ~Parted(tokens[i], tokens[i + 1].lexemeType, tokens[i + 1].begin)

(* The inductive invariant: nor does one wait behind the last token.       *)
CountsOK ==
    /\ CountsListed
    /\ UseSmart /\ tokens # <<>> /\ results # <<>> =>
          ~Parted(tokens[Len(tokens)], results[1].lexemeType, results[1].offset + results[1].begin)
    /\ CountsJoined

(* The token that is taken leaves no quantifier behind it.                 *)
LEMMA TakeResultKeepsCounts ==
  ASSUME UseSmart, CInv, HistoryOK, OrderOK, CountsOK, CountsListed', TakeResult
  PROVE  CountsOK'
<1> DEFINE q == Compound(results)
           l == Head(q)
           r == Tail(q)
           n == Len(tokens)
           u == tokens'
<1>1. /\ results # <<>> /\ InWindow(results, Origin, cursor + 1)
      /\ InWindow(q, Origin, cursor + 1) /\ q # <<>> /\ Origin \in Nat
      /\ results' = r
  BY TakenFacts
<1>2. PICK t \in Tokens : /\ tokens' = Append(tokens, t) /\ t.lexemeType = l.lexemeType
                          /\ t.begin = Origin + l.begin /\ t.end = Origin + End(l)
  <2>1. PICK t \in Tokens : /\ tokens' = Append(tokens, t)
                            /\ t.begin = l.offset + l.begin /\ t.end = l.offset + End(l)
                            /\ l.offset = Origin
    BY TakenFacts
  <2>2. \E b, e, s : tokens' = Append(tokens, [begin |-> b, end |-> e,
                                               lexemeType |-> l.lexemeType, stop |-> s])
    BY DEF TakeResult
  <2>3. tokens \in Seq(Tokens)
    BY DEF HistoryOK
  <2> HIDE DEF l
  <2>4. t.lexemeType = l.lexemeType
    <3>1. \A x : Append(tokens, x)[Len(tokens) + 1] = x
      BY <2>3
    <3>2. PICK b, e, s : tokens' = Append(tokens, [begin |-> b, end |-> e,
                                                   lexemeType |-> l.lexemeType, stop |-> s])
      BY <2>2
    <3>3. t = [begin |-> b, end |-> e, lexemeType |-> l.lexemeType, stop |-> s]
      BY <2>1, <3>1, <3>2
    <3> QED
      BY <3>3
  <2> QED
    BY <2>1, <2>4
<1>3. cursor \in Nat
  BY DEF CInv, ContextTypeOK
<1>4. /\ q[1].begin = results[1].begin
      /\ q[1].lexemeType = TypeCount => results[1].lexemeType = TypeCount
      /\ ~(Joins(q, TypeArabic, TypeCount) \/ Joins(q, TypeCNum, TypeCount))
  BY <1>1, <1>3, CompoundJoinsCounts, CompoundKeepsLine DEF OrderOK, Compounded
<1> HIDE DEF q
<1>5. /\ q \in Seq(Lexeme) /\ Len(q) \in Nat \ {0} /\ l = q[1] /\ DOMAIN q = 1..Len(q)
      /\ \A k \in 1..Len(q) : q[k].offset = Origin
  BY <1>1 DEF InWindow
<1>6. r \in Seq(Lexeme) /\ Len(r) = Len(q) - 1 /\ \A k \in 1..Len(r) : r[k] = q[k + 1]
  BY <1>5, HeadTailProperties
<1>7. /\ tokens \in Seq(Tokens) /\ n \in Nat /\ u \in Seq(Tokens) /\ Len(u) = n + 1
      /\ u[n + 1] = t /\ \A k \in 1..n : u[k] = tokens[k]
  BY <1>2 DEF HistoryOK
<1> HIDE DEF u, r, l
<1>8. ASSUME r # <<>> PROVE ~Parted(t, r[1].lexemeType, r[1].offset + r[1].begin)
  <2>1. 2 \in 1..Len(q) /\ 1 \in 1..Len(q) /\ r[1] = q[2] /\ Len(q) >= 2
    <3>1. Len(r) # 0
      BY <1>6, <1>8
    <3> QED
      BY <1>5, <1>6, <3>1
  <2>2. q[1] \in Lexeme /\ q[2] \in Lexeme /\ q[1].offset = Origin /\ q[2].offset = Origin
    BY <1>5, <2>1
  <2>3. ASSUME t.end = Origin + q[2].begin PROVE CanAppend(q[1], q[2])
    <3>1. EndPosition(q[1]) = q[1].offset + End(q[1])
      BY <2>2 DEF EndPosition, End, Lexeme
    <3> QED
      BY <1>2, <1>5, <2>2, <2>3, <3>1 DEF CanAppend, BeginPosition
  <2> QED
    BY <1>2, <1>4, <1>5, <2>1, <2>2, <2>3 DEF Parted, Joins
<1>9. ASSUME NEW i \in 1..(Len(u) - 1) PROVE ~Parted(u[i], u[i + 1].lexemeType, u[i + 1].begin)
  <2>1. CASE i < n
    <3>1. i \in 1..(n - 1) /\ i \in 1..n /\ i + 1 \in 1..n
      BY <1>7, <2>1
    <3> QED
      BY <1>7, <3>1 DEF CountsOK, CountsJoined
  <2>2. CASE i = n
    <3>1. u[i] = tokens[n] /\ u[i + 1] = t /\ tokens # <<>>
      BY <1>7, <1>9, <2>2
    <3>2. ~Parted(tokens[n], results[1].lexemeType, results[1].offset + results[1].begin)
      BY <1>1, <3>1 DEF CountsOK
    <3>3. t.begin = results[1].offset + results[1].begin
      BY <1>1, <1>2, <1>4, <1>5 DEF InWindow
    <3> QED
      BY <1>2, <1>4, <1>5, <3>1, <3>2, <3>3 DEF Parted
  <2> QED
    BY <1>7, <2>1, <2>2
<1>10. u[Len(u)] = t /\ tokens' = u /\ results' = r
  BY <1>1, <1>7 DEF u
<1> QED
  BY <1>8, <1>9, <1>10 DEF CountsOK, CountsJoined

(* The first result of a buffer is no quantifier at its start, behind the  *)
(* last token of the one before.                                           *)
LEMMA ArbitrateKeepsCounts ==
  ASSUME UseSmart, CInv, OInv, HistoryOK, OrderOK, CountsOK, CountsListed', Arbitrate
  PROVE  CountsOK'
<1> DEFINE r == Walk(Process(orgLexemes, UseSmart)).results
<1>1. pc = "arbitrate" /\ results' = results \o r /\ UNCHANGED tokens
  BY DEF Arbitrate, Output
<1>2. results = <<>> /\ buffOffset \in Nat /\ Loaded
  BY <1>1 DEF CInv, BufferWindow, NoResultsWhileFilling, ContextTypeOK, Loaded
<1>3. r \in Seq(Late)
  BY <1>1, ArbitratedIsLate DEF CountsOK
<1>4. \A k \in DOMAIN r : r[k].offset = buffOffset
  BY DEF Arbitrate, Output
<1> HIDE DEF r
<1>5. results' = r
  BY <1>1, <1>2, <1>3
<1>6. ASSUME tokens # <<>>, r # <<>>
      PROVE  ~Parted(tokens[Len(tokens)], r[1].lexemeType, r[1].offset + r[1].begin)
  <2>1. r[1] \in Late /\ r[1].offset = buffOffset
    <3>1. 1 \in DOMAIN r
      BY <1>3, <1>6
    <3> QED
      BY <1>3, <1>4, <3>1
  <2>2. Len(tokens) \in DOMAIN tokens /\ tokens[Len(tokens)] \in Tokens
    BY <1>6 DEF HistoryOK
  <2>3. tokens[Len(tokens)].end <= buffOffset /\ tokens[Len(tokens)].end \in Nat
    BY <1>2, <2>2 DEF OrderOK, Tokens
  <2>4. r[1].begin \in Nat /\ (r[1].lexemeType = TypeCount => r[1].begin > 0)
    BY <2>1 DEF Late, Lexeme
  <2> QED
    BY <1>2, <2>1, <2>3, <2>4 DEF Parted
<1> QED
  BY <1>1, <1>5, <1>6 DEF CountsOK, CountsJoined

(* Every step keeps the quantifiers with their numerals.                   *)
LEMMA CountsNext ==
  ASSUME UseSmart, CInv, LInv, OInv, HistoryOK, OrderOK, CountsOK, [EngineNext]_engine
  PROVE  CountsOK'
<1>1. CountsListed'
  BY CountsListedNext DEF CountsOK
<1>2. ASSUME UNCHANGED tokens, results' \in {results, <<>>} PROVE CountsOK'
  BY <1>1, <1>2 DEF CountsOK, CountsJoined
<1>3. ASSUME NEW text \in LaterInputs, EngineReset(text) PROVE CountsOK'
  <2>1. tokens' = <<>> /\ Len(<<>>) = 0
    BY <1>3 DEF EngineReset
  <2> QED
    BY <1>1, <2>1 DEF CountsOK, CountsJoined
<1>4. CASE TakeResult
  BY <1>1, <1>4, TakeResultKeepsCounts
<1>5. CASE Arbitrate
  BY <1>1, <1>5, ArbitrateKeepsCounts
<1>6. CASE NextCalled \/ NoMoreResults \/ Exhausted \/ FillFails
  BY <1>2, <1>6 DEF NextCalled, CallNext, NoMoreResults, NoResult, Exhausted, EndOfInput,
                    ContextReset, FillFails, ReadFails, history
<1>7. ASSUME NEW n \in ReadCounts, FillBuffer(n) PROVE CountsOK'
  BY <1>2, <1>7 DEF FillBuffer, Fill, history
<1>8. CASE AnalyzeCharacter
  BY <1>2, <1>8 DEF AnalyzeCharacter, Analyze, history
<1>9. CASE DictionaryReloaded \/ UNCHANGED engine
  BY <1>2, <1>9 DEF DictionaryReloaded, engine, cvars, history
<1> QED
  BY <1>3, <1>4, <1>5, <1>6, <1>7, <1>8, <1>9 DEF EngineNext, InsideCall

(* At the start nothing is looked for and nothing has come.                *)
LEMMA CountsInit == EngineInit => CountsOK
<1> SUFFICES ASSUME EngineInit PROVE CountsOK
  OBVIOUS
<1>1. quantifier.countHits = {} /\ orgLexemes = <<>> /\ tokens = <<>> /\ Len(<<>>) = 0
  BY DEF EngineInit, NoQuantity
<1>2. ToSet(<<>>) = {}
  BY DEF ToSet
<1> QED
  BY <1>1, <1>2 DEF CountsOK, CountsListed, CountsJoined

(* In smart mode a numeral never comes out without the quantifier that was *)
(* recognised right behind it (analyze_context.go:270-305), for every      *)
(* text, dictionary, buffer and reload: compound looks at two results, but *)
(* both are of one buffer, since a quantifier is looked for only next to a *)
(* candidate of its own buffer (cn_quantifier_segmenter.go:103-113).       *)
THEOREM QuantifiersAreJoined == EngineSpec => []CountsJoined
<1> DEFINE Inv == EInv /\ OrderOK /\ CountsOK
<1>1. CASE ~UseSmart
  <2>1. CountsJoined
    BY <1>1 DEF CountsJoined
  <2> QED
    BY <2>1, PTL
<1>2. CASE UseSmart
  <2>1. EngineInit => Inv
    BY EngineInitEstablishesCInv, LInvInit, OInvInit, HistoryInit, OrderInit, CountsInit DEF EInv
  <2>2. Inv /\ [EngineNext]_engine => Inv'
    BY <1>2, EngineNextPreservesCInv, LInvNext, OInvNext, HistoryNext, OrderNext, CountsNext DEF EInv
  <2>3. Inv => CountsJoined
    BY DEF CountsOK
  <2> HIDE DEF Inv
  <2> QED
    BY <2>1, <2>2, <2>3, PTL DEF EngineSpec
<1> QED
  BY <1>1, <1>2

-----------------------------------------------------------------------------
(* The final offset.                                                       *)

(* The last character of the text that is not useless, or 0.               *)
LastInText(k) == /\ k \in 0..Len(input)
                 /\ k > 0 => TypeAt(k) # charUseless
                 /\ \A i \in (k + 1)..Len(input) : TypeAt(i) = charUseless

(* It comes out whatever the arbitrator chooses, and no token goes past    *)
(* it: it is Chinese or another CJK character or, in max-word mode, a      *)
(* letter or a digit with no connector behind it.                          *)
ComesOutLast(k) ==
    k > 0 => \/ TypeAt(k) \in {charChinese, charOtherCJK}
             \/ /\ ~UseSmart /\ TypeAt(k) \in {charArabic, charEnglish}
                /\ k < Len(input) => Text[k + 1] \notin letterConnectors

(* A text of which the same can be said.                                   *)
EndsPlainly(text) ==
    LET char(i) == Regularize(text[i], EnableLowercase)
        type(i) == IdentifyCharType(char(i))
    IN  \A k \in 1..Len(text) :
           /\ type(k) # charUseless
           /\ \A i \in (k + 1)..Len(text) : type(i) = charUseless
           => \/ type(k) \in {charChinese, charOtherCJK}
              \/ /\ ~UseSmart /\ type(k) \in {charArabic, charEnglish}
                 /\ k < Len(text) => char(k + 1) \notin letterConnectors

(* With such a last character nothing is consumed beyond it, no token      *)
(* beyond what is consumed, and past it the useless characters are counted *)
(* one by one, from one buffer to the next.                                *)
ConsumedUpTo(k) ==
    /\ maxConsumedEndPosition <= k
    /\ \A j \in DOMAIN results : results[j].offset + End(results[j]) <= k
    /\ \A j \in DOMAIN tokens : tokens[j].end <= maxConsumedEndPosition
    /\ buffOffset >= k => lastUselessCharNum = buffOffset - k

EndOK == IF Loaded THEN \A k : LastInText(k) /\ ComesOutLast(k) => ConsumedUpTo(k)
         ELSE maxConsumedEndPosition = 0

(* At the start nothing is consumed.                                       *)
LEMMA EndInit == EngineInit => EndOK
<1> SUFFICES ASSUME EngineInit PROVE EndOK
  OBVIOUS
<1>1. ~Loaded /\ maxConsumedEndPosition = 0
  BY DEF EngineInit, ContextInit, Loaded
<1> QED
  BY <1>1 DEF EndOK

(* Steps that consume nothing and put nothing out.                         *)
LEMMA EndStays ==
  ASSUME EndOK, Loaded' = Loaded, maxConsumedEndPosition' = maxConsumedEndPosition,
         UNCHANGED <<results, tokens, input, buffOffset, lastUselessCharNum>>
  PROVE  EndOK'
<1>1. CASE Loaded
  <2>1. \A k : (LastInText(k) <=> LastInText(k)') /\ (ComesOutLast(k) <=> ComesOutLast(k)')
    BY DEF LastInText, ComesOutLast, TypeAt, Text
  <2>2. \A k : ConsumedUpTo(k) => ConsumedUpTo(k)'
    BY DEF ConsumedUpTo
  <2>3. \A k : LastInText(k) /\ ComesOutLast(k) => ConsumedUpTo(k)
    BY <1>1 DEF EndOK
  <2>4. Loaded'
    BY <1>1
  <2>5. \A k : LastInText(k)' /\ ComesOutLast(k)' => ConsumedUpTo(k)'
    BY <2>1, <2>2, <2>3
  <2> QED
    BY <2>4, <2>5 DEF EndOK
<1>2. CASE ~Loaded
  BY <1>2 DEF EndOK
<1> QED
  BY <1>1, <1>2

(* Candidates of the first n cells end before the useless ones at their    *)
(* end, when no mixed run goes on into those.                              *)
LEMMA ListsEndEarlier ==
  ASSUME NEW n \in Nat, NEW m \in 0..n, NEW q \in Lists(n),
         \A i \in m..(n - 1) : charTypes[i] = charUseless,
         0 < m /\ m < n => ~(Mixes(m - 1) /\ Mixes(m))
  PROVE  q \in Lists(m)
<1>1. ASSUME NEW l \in Fits(n) PROVE l \in Fits(m)
  <2>1. /\ l \in Lexeme /\ l.offset = buffOffset /\ End(l) <= n /\ charTypes[l.begin] # charUseless
        /\ EndsTidily(l)
    BY DEF Fits
  <2>2. l.begin \in Nat /\ End(l) \in Nat /\ l.begin < End(l)
    BY <2>1, OrderFacts
  <2>3. End(l) <= m
    <3> SUFFICES ASSUME End(l) > m PROVE FALSE
      BY <2>2
    <3>1. End(l) - 1 \in m..(n - 1) /\ l.begin \in 0..(n - 1)
      BY <2>1, <2>2
    <3>2. \A i \in l.begin..(End(l) - 1) : Mixes(i)
      BY <2>1, <3>1 DEF EndsTidily
    <3>3. l.begin < m
      BY <2>1, <2>2, <3>1
    <3>4. m - 1 \in l.begin..(End(l) - 1) /\ m \in l.begin..(End(l) - 1) /\ 0 < m /\ m < n
      BY <2>2, <3>1, <3>3
    <3> QED
      BY <3>2, <3>4
  <2> QED
    BY <2>1, <2>3 DEF Fits
<1> QED
  BY <1>1 DEF Lists

(* The buffer with the last character in it, and those after it.           *)
LEMMA ArbitrateKeepsEnd ==
  ASSUME CInv, OInv, HistoryOK, EndOK, Arbitrate
  PROVE  EndOK'
<1> DEFINE paths == Process(orgLexemes, UseSmart)
           w == Walk(paths)
<1>1. /\ pc = "arbitrate" /\ results' = results \o w.results
      /\ buffOffset' = buffOffset + cursor + 1
      /\ w.results \in Seq(Lexeme)
      /\ lastUselessCharNum' = IF w.useless THEN lastUselessCharNum + w.trailing ELSE w.trailing
      /\ UNCHANGED <<tokens, input, maxConsumedEndPosition>>
  BY DEF Arbitrate, Output, reader
<1>2. /\ results = <<>> /\ cursor \in Nat /\ buffOffset \in Nat /\ lastUselessCharNum \in Nat
      /\ maxConsumedEndPosition \in Nat
      /\ Loaded /\ Needed /\ Origin = buffOffset /\ Looked = cursor + 1
  BY <1>1 DEF CInv, BufferWindow, NoResultsWhileFilling, ContextTypeOK, Loaded, Needed, Origin,
              Looked
<1>3. PICK n \in Nat : n = cursor + 1
  BY <1>2
<1>4. buffOffset' = buffOffset + n /\ buffOffset' > 0 /\ Loaded'
  BY <1>1, <1>2, <1>3 DEF Loaded
<1>5. orgLexemes \in Lists(n)
  BY <1>2, <1>3 DEF OInv
<1>6. \A i \in 0..cursor : /\ buffOffset + i + 1 \in DOMAIN input
                           /\ segmentBuff[i] = Text[buffOffset + i + 1]
                           /\ charTypes[i] = TypeAt(buffOffset + i + 1)
  BY <1>2, CellsAreText
<1>7. ASSUME NEW k, LastInText(k), ComesOutLast(k) PROVE ConsumedUpTo(k)'
  <2>1. /\ maxConsumedEndPosition <= k
        /\ \A j \in DOMAIN tokens : tokens[j].end <= maxConsumedEndPosition
        /\ buffOffset >= k => lastUselessCharNum = buffOffset - k
    BY <1>2, <1>7 DEF EndOK, ConsumedUpTo
  <2>2. /\ k \in Nat /\ k <= Len(input) /\ Len(input) \in Nat
        /\ k > 0 => TypeAt(k) # charUseless
        /\ \A i \in (k + 1)..Len(input) : TypeAt(i) = charUseless
    <3>1. input \in Seq(Char)
      BY DEF CInv, ContextTypeOK
    <3> QED
      BY <1>7, <3>1 DEF LastInText
  <2>3. ASSUME NEW m \in 0..n, w.results \in Seq(Put(m)), buffOffset + m <= k
        PROVE  \A j \in DOMAIN results' : results'[j].offset + End(results'[j]) <= k
    <3>1. results' = w.results
      BY <1>1, <1>2
    <3> HIDE DEF w
    <3>2. \A j \in DOMAIN w.results : w.results[j] \in Put(m)
      BY <2>3
    <3>3. \A j \in DOMAIN w.results : /\ w.results[j].offset = buffOffset
                                      /\ End(w.results[j]) \in Nat /\ End(w.results[j]) <= m
      BY <3>2, PutFacts
    <3> QED
      BY <1>2, <2>2, <2>3, <3>1, <3>3
  <2>4. CASE buffOffset + n < k
    <3>1. Lays(w.results, 0, cursor + 1, cursor + 1)
      BY <1>1, ArbitratedFacts
    <3>2. w.results \in Seq(Put(n))
      BY <1>3, <3>1 DEF Lays
    <3>3. \A j \in DOMAIN results' : results'[j].offset + End(results'[j]) <= k
      BY <1>2, <2>2, <2>3, <2>4, <3>2
    <3>4. ~(buffOffset' >= k)
      BY <1>2, <1>4, <2>2, <2>4
    <3> QED
      BY <1>1, <2>1, <3>3, <3>4 DEF ConsumedUpTo
  <2>5. CASE k <= buffOffset + n
    <3>1. PICK m \in 0..n : /\ k <= buffOffset => m = 0
                            /\ buffOffset < k => m = k - buffOffset
      <4>1. CASE k <= buffOffset
        BY <1>2, <2>2, <4>1
      <4>2. CASE buffOffset < k
        <5>1. k - buffOffset \in 0..n
          BY <1>2, <2>2, <2>5, <4>2
        <5> QED
          BY <1>2, <2>2, <4>2, <5>1
      <4> QED
        BY <1>2, <2>2, <4>1, <4>2
    <3>2. \A i \in m..cursor : charTypes[i] = charUseless
      <4> SUFFICES ASSUME NEW i \in m..cursor PROVE charTypes[i] = charUseless
        OBVIOUS
      <4>1. i \in 0..cursor
        BY <1>2
      <4>2. buffOffset + i + 1 \in DOMAIN input /\ charTypes[i] = TypeAt(buffOffset + i + 1)
        BY <1>6, <4>1
      <4>3. DOMAIN input = 1..Len(input)
        BY DEF CInv, ContextTypeOK
      <4>4. buffOffset + i + 1 \in (k + 1)..Len(input)
        BY <1>2, <2>2, <3>1, <4>1, <4>2, <4>3
      <4> QED
        BY <2>2, <4>2, <4>4
    <3>3. m > 0 => /\ m - 1 \in 0..cursor /\ k = buffOffset + (m - 1) + 1 /\ k > 0 /\ buffOffset < k
                   /\ charTypes[m - 1] = TypeAt(k) /\ charTypes[m - 1] # charUseless
      <4> SUFFICES ASSUME m > 0
                   PROVE /\ m - 1 \in 0..cursor /\ k = buffOffset + (m - 1) + 1 /\ k > 0 /\ buffOffset < k
                         /\ charTypes[m - 1] = TypeAt(k) /\ charTypes[m - 1] # charUseless
        OBVIOUS
      <4>1. buffOffset < k /\ m = k - buffOffset
        BY <1>2, <2>2, <3>1
      <4>2. m - 1 \in 0..cursor /\ k = buffOffset + (m - 1) + 1 /\ k > 0
        BY <1>2, <1>3, <2>2, <4>1
      <4>3. charTypes[m - 1] = TypeAt(k)
        BY <1>6, <4>2
      <4> QED
        BY <2>2, <4>1, <4>2, <4>3
    <3>4. 0 < m /\ m < n => ~(Mixes(m - 1) /\ Mixes(m))
      <4> SUFFICES ASSUME 0 < m, m < n, Mixes(m - 1), Mixes(m) PROVE FALSE
        OBVIOUS
      <4>1. m \in 0..cursor /\ m \in m..cursor
        BY <1>2, <1>3
      <4>2. charTypes[m] = charUseless /\ segmentBuff[m] = Text[buffOffset + m + 1]
            /\ buffOffset + m + 1 \in DOMAIN input
        BY <1>6, <3>2, <4>1
      <4>3. buffOffset + m + 1 = k + 1
        BY <1>2, <3>3
      <4>4. k < Len(input)
        BY <2>2, <4>2, <4>3 DEF CInv, ContextTypeOK
      <4>5. segmentBuff[m] \in letterConnectors
        BY <4>2, CharTypesDiffer DEF Mixes, Alphanumeric
      <4>6. TypeAt(k) \in {charArabic, charEnglish}
        BY <3>3 DEF Mixes, Alphanumeric
      <4>7. Text[k + 1] \notin letterConnectors
        BY <1>7, <3>3, <4>4, <4>6
           DEF ComesOutLast, charArabic, charEnglish, charChinese, charOtherCJK
      <4> QED
        BY <4>2, <4>3, <4>5, <4>7
    <3>5. orgLexemes \in Lists(m)
      <4>1. \A i \in m..(n - 1) : charTypes[i] = charUseless
        BY <1>2, <1>3, <3>2
      <4> QED
        BY <1>5, <3>4, <4>1, ListsEndEarlier
    <3>6. \A p \in paths : p.pathBegin = -1 \/ MayPut(p, m)
      BY <3>5, ProcessedMayBePut
    <3> HIDE DEF paths
    <3>7. w.results \in Seq(Put(m)) /\ w.trailing = n - m /\ (w.useless <=> m = 0)
      BY <1>2, <1>3, <3>2, <3>3, <3>6, WalkCounts
    <3> HIDE DEF w
    <3>8. \A j \in DOMAIN results' : results'[j].offset + End(results'[j]) <= k
      <4>1. CASE m = 0
        <5>1. w.results = <<>>
          <6>1. \A l \in Put(m) : FALSE
            BY <4>1, PutFacts
          <6> DEFINE q == w.results
                     F == Put(m)
          <6>2. q \in Seq(F) /\ F = {}
            BY <3>7, <6>1
          <6> HIDE DEF q, F
          <6>3. q = <<>>
            BY <6>2
          <6> QED
            BY <6>3 DEF q
        <5> QED
          BY <1>1, <1>2, <5>1
      <4>2. CASE m # 0
        <5>1. buffOffset + m <= k
          BY <1>2, <3>3, <4>2
        <5> QED
          BY <2>3, <3>7, <5>1
      <4> QED
        BY <4>1, <4>2
    <3>9. lastUselessCharNum' = buffOffset' - k
      <4>1. CASE m = 0
        <5>1. k <= buffOffset
          BY <1>2, <2>2, <3>1, <4>1
        <5> QED
          BY <1>1, <1>2, <1>4, <2>1, <2>2, <3>7, <4>1, <5>1
      <4>2. CASE m # 0
        BY <1>1, <1>2, <1>4, <2>2, <3>3, <3>7, <4>2
      <4> QED
        BY <4>1, <4>2
    <3> QED
      BY <1>1, <2>1, <3>8, <3>9 DEF ConsumedUpTo
  <2> QED
    BY <1>2, <2>2, <2>4, <2>5
<1>8. \A k : (LastInText(k) <=> LastInText(k)') /\ (ComesOutLast(k) <=> ComesOutLast(k)')
  BY <1>1 DEF LastInText, ComesOutLast, TypeAt, Text
<1> QED
  BY <1>4, <1>7, <1>8 DEF EndOK

(* A token that is taken ends within what may be consumed.                 *)
LEMMA TakeResultKeepsEnd ==
  ASSUME CInv, HistoryOK, EndOK, TakeResult
  PROVE  EndOK'
<1> DEFINE q == Compound(results)
           l == Head(q)
           e == l.offset + End(l)
<1>1. /\ results # <<>> /\ InWindow(results, Origin, cursor + 1)
      /\ l \in Lexeme /\ l.offset = Origin /\ Origin \in Nat
      /\ results' = Tail(q) /\ pc = "poll" /\ pc' \in {"poll", "idle"}
      /\ UNCHANGED <<input, buffOffset>>
  BY TakenFacts DEF reader, buffer
<1>2. PICK t \in Tokens : tokens' = Append(tokens, t) /\ t.end = e
  BY TakenFacts
<1>3. /\ maxConsumedEndPosition' = IF e > maxConsumedEndPosition THEN e ELSE maxConsumedEndPosition
      /\ lastUselessCharNum' = lastUselessCharNum
  <2>1. EndPosition(l) = e
    <3>1. l.offset \in Nat /\ l.begin \in Nat /\ l.length \in Nat
      BY <1>1, OrderFacts DEF Lexeme
    <3> HIDE DEF l
    <3> QED
      BY <3>1 DEF EndPosition, End
  <2>2. \E stopWord : Consume(stopWord)
    BY DEF TakeResult
  <2> HIDE DEF e
  <2> QED
    BY <2>1, <2>2 DEF Consume, tallies
<1>4. Loaded /\ Loaded'
  <2>1. Loaded
    BY <1>1 DEF CInv, BufferWindow, ReadContiguously
  <2> QED
    BY <1>1, <2>1 DEF Loaded
<1>5. tokens \in Seq(Tokens) /\ maxConsumedEndPosition \in Nat /\ e \in Nat
  <2>1. e \in Nat
    <3> HIDE DEF l
    <3> QED
      BY <1>1, OrderFacts
  <2> HIDE DEF e
  <2> QED
    BY <2>1 DEF HistoryOK, CInv, ContextTypeOK
<1>6. ASSUME NEW k, LastInText(k), ComesOutLast(k) PROVE ConsumedUpTo(k)'
  <2>1. /\ maxConsumedEndPosition <= k
        /\ \A j \in DOMAIN results : results[j].offset + End(results[j]) <= k
        /\ \A j \in DOMAIN tokens : tokens[j].end <= maxConsumedEndPosition
        /\ buffOffset >= k => lastUselessCharNum = buffOffset - k
    BY <1>4, <1>6 DEF EndOK, ConsumedUpTo
  <2>2. k \in Nat
    BY <1>6 DEF LastInText
  <2>3. \A j \in DOMAIN results : results[j] \in Lexeme /\ results[j].offset = Origin
                                  /\ End(results[j]) \in Nat
    BY <1>1, OrderFacts DEF InWindow
  <2>4. 1 \in DOMAIN results /\ results \in Seq(Lexeme)
    BY <1>1 DEF InWindow
  <2>5. PICK length \in Nat : length = k - Origin
    BY <1>1, <2>1, <2>2, <2>3, <2>4
  <2>6. InWindow(results, Origin, length)
    BY <1>1, <2>1, <2>2, <2>3, <2>4, <2>5 DEF InWindow
  <2>7. InWindow(q, Origin, length) /\ q # <<>>
    BY <1>1, <2>6, CompoundInWindow
  <2> HIDE DEF q
  <2>8. End(l) <= length /\ InWindow(Tail(q), Origin, length)
    BY <1>1, <2>7, HeadAndTailInWindow
  <2>9. e <= k
    <3>1. l.offset = Origin /\ End(l) \in Nat
      <4> HIDE DEF l
      <4> QED
        BY <1>1, OrderFacts
    <3> HIDE DEF l
    <3> QED
      BY <1>1, <2>2, <2>5, <2>8, <3>1
  <2> HIDE DEF e, l
  <2>10. \A j \in DOMAIN results' : results'[j].offset + End(results'[j]) <= k
    <3>1. \A j \in DOMAIN results' : results'[j] \in Lexeme /\ results'[j].offset = Origin
                                     /\ End(results'[j]) <= length
      BY <1>1, <2>8 DEF InWindow
    <3>2. \A j \in DOMAIN results' : End(results'[j]) \in Nat
      BY <3>1, OrderFacts
    <3> QED
      BY <1>1, <2>2, <2>5, <3>1, <3>2
  <2>11. \A j \in DOMAIN tokens' : tokens'[j].end <= maxConsumedEndPosition'
    <3>1. ASSUME NEW j \in DOMAIN tokens' PROVE tokens'[j].end <= maxConsumedEndPosition'
      <4>1. /\ tokens' \in Seq(Tokens) /\ Len(tokens') = Len(tokens) + 1 /\ Len(tokens) \in Nat
            /\ tokens'[Len(tokens) + 1] = t
            /\ \A i \in 1..Len(tokens) : tokens'[i] = tokens[i]
        BY <1>2, <1>5
      <4>2. j = Len(tokens) + 1 \/ j \in DOMAIN tokens
        BY <1>5, <4>1
      <4>3. CASE j = Len(tokens) + 1
        BY <1>2, <1>3, <1>5, <4>1, <4>3
      <4>4. CASE j \in DOMAIN tokens
        <5>1. tokens[j] \in Tokens /\ tokens'[j] = tokens[j]
          BY <1>5, <4>1, <4>4
        <5>2. tokens[j].end \in Nat
          BY <5>1 DEF Tokens
        <5>3. tokens[j].end <= maxConsumedEndPosition
          BY <2>1, <4>4 DEF ConsumedUpTo
        <5> QED
          BY <1>3, <1>5, <5>1, <5>2, <5>3
      <4> QED
        BY <4>2, <4>3, <4>4
    <3> QED
      BY <3>1
  <2>12. maxConsumedEndPosition' <= k
    BY <1>3, <2>1, <2>9
  <2> QED
    BY <1>1, <1>3, <2>1, <2>10, <2>11, <2>12 DEF ConsumedUpTo
<1>7. \A k : (LastInText(k) <=> LastInText(k)') /\ (ComesOutLast(k) <=> ComesOutLast(k)')
  BY <1>1 DEF LastInText, ComesOutLast, TypeAt, Text
<1> QED
  BY <1>4, <1>6, <1>7 DEF EndOK

(* The first buffer of a text starts the count, the others go on with it.  *)
LEMMA FillBufferKeepsEnd ==
  ASSUME CInv, OrderOK, EndOK, NEW n \in ReadCounts, FillBuffer(n)
  PROVE  EndOK'
<1>1. /\ pc = "fill" /\ pc' = "analyze" /\ Unprocessed + n > 0
      /\ UNCHANGED <<input, buffOffset, results, tokens, maxConsumedEndPosition>>
      /\ lastUselessCharNum' = IF buffOffset = 0 THEN 0 ELSE lastUselessCharNum
  BY DEF FillBuffer, Fill, history
<1>2. Loaded' /\ results = <<>> /\ Unprocessed \in Nat /\ Unprocessed < BuffSize /\ buffOffset \in Nat
  BY <1>1, UnprocessedFacts DEF CInv, BufferWindow, NoResultsWhileFilling, Loaded, ContextTypeOK
<1>3. CASE Loaded
  <2>1. buffOffset # 0
    BY <1>1, <1>2, <1>3 DEF Loaded
  <2> QED
    BY <1>1, <1>2, <1>3, <2>1, EndStays
<1>4. CASE ~Loaded
  <2>1. buffOffset = 0 /\ Unprocessed = 0
    BY <1>1, <1>2, <1>4 DEF Loaded, Unprocessed
  <2>2. tokens = <<>>
    <3>1. tokens' = <<>>
      <4>1. read # Len(input)
        <5> SUFFICES ASSUME read = Len(input) PROVE FALSE
          OBVIOUS
        <5>1. Len(input) - read = 0 /\ BuffSize - Unprocessed > 0 /\ BuffSize - Unprocessed \in Int
          BY <1>2, <2>1, BufferAssumption DEF CInv, ContextTypeOK
        <5>2. ReadCounts = {0}
          BY <5>1 DEF ReadCounts
        <5> QED
          BY <1>1, <2>1, <5>2
      <4> QED
        BY <1>1, <1>4, <4>1 DEF OrderOK
    <3> QED
      BY <1>1, <3>1
  <2>3. maxConsumedEndPosition = 0
    BY <1>4 DEF EndOK
  <2>4. ASSUME NEW k, LastInText(k)' PROVE ConsumedUpTo(k)'
    <3>1. k \in Nat
      BY <2>4 DEF LastInText
    <3> QED
      BY <1>1, <1>2, <2>1, <2>2, <2>3, <3>1 DEF ConsumedUpTo
  <2> QED
    BY <1>2, <2>4 DEF EndOK
<1> QED
  BY <1>3, <1>4

(* Every step keeps it.                                                    *)
LEMMA EndNext ==
  ASSUME CInv, OInv, HistoryOK, OrderOK, EndOK, [EngineNext]_engine
  PROVE  EndOK'
<1>1. ASSUME NEW text \in LaterInputs, EngineReset(text) PROVE EndOK'
  <2>1. pc' = "idle" /\ buffOffset' = 0 /\ maxConsumedEndPosition' = 0
    BY <1>1 DEF EngineReset, Reset, ContextReset
  <2> QED
    BY <2>1 DEF EndOK, Loaded
<1>2. CASE NextCalled \/ NoMoreResults \/ FillFails
  <2>1. /\ UNCHANGED <<tokens, results, input, buffOffset, maxConsumedEndPosition, lastUselessCharNum>>
        /\ pc \notin {"analyze", "arbitrate"} /\ pc' \notin {"analyze", "arbitrate"}
    <3>1. CASE NextCalled
      BY <3>1 DEF NextCalled, CallNext, history, reader, buffer
    <3>2. CASE NoMoreResults
      BY <3>2 DEF NoMoreResults, NoResult, history, reader, buffer, tallies
    <3>3. CASE FillFails
      BY <3>3 DEF FillFails, ReadFails, history, reader, tallies
    <3> QED
      BY <1>2, <3>1, <3>2, <3>3
  <2> QED
    BY <2>1, EndStays DEF Loaded
<1>3. CASE TakeResult
  BY <1>3, TakeResultKeepsEnd
<1>4. ASSUME NEW n \in ReadCounts, FillBuffer(n) PROVE EndOK'
  BY <1>4, FillBufferKeepsEnd
<1>5. CASE Exhausted
  <2>1. buffOffset' = 0 /\ pc' = "idle" /\ maxConsumedEndPosition' = 0
    BY <1>5 DEF Exhausted, EndOfInput, ContextReset
  <2> QED
    BY <2>1 DEF EndOK, Loaded
<1>6. CASE AnalyzeCharacter
  <2>1. PICK locks : Analyze(locks) /\ UNCHANGED history
    BY <1>6 DEF AnalyzeCharacter
  <2>2. /\ pc = "analyze" /\ pc' \in {"analyze", "arbitrate"}
        /\ UNCHANGED <<tokens, results, input, buffOffset, maxConsumedEndPosition, lastUselessCharNum>>
    BY <2>1 DEF Analyze, history, reader, tallies
  <2> QED
    BY <2>2, EndStays DEF Loaded
<1>7. CASE Arbitrate
  BY <1>7, ArbitrateKeepsEnd
<1>8. CASE DictionaryReloaded \/ UNCHANGED engine
  <2>1. UNCHANGED <<tokens, results, input, buffOffset, pc, maxConsumedEndPosition, lastUselessCharNum>>
    BY <1>8 DEF DictionaryReloaded, engine, cvars, history, reader, buffer, tallies
  <2> QED
    BY <2>1, EndStays DEF Loaded
<1> QED
  BY <1>1, <1>2, <1>3, <1>4, <1>5, <1>6, <1>7, <1>8 DEF EngineNext, InsideCall

(* There is a last character that is not useless, or none is.              *)
LEMMA LastExists ==
  ASSUME CInv
  PROVE  \E k : LastInText(k)
<1>1. input \in Seq(Char) /\ Len(input) \in Nat
  BY DEF CInv, ContextTypeOK
<1> DEFINE Ends(n, k) == /\ k \in 0..n /\ (k > 0 => TypeAt(k) # charUseless)
                         /\ \A i \in (k + 1)..n : TypeAt(i) = charUseless
           G == {n \in 0..Len(input) : \E k \in 0..n : Ends(n, k)}
<1>2. 0 \in G
  <2>1. 0 \in 0..Len(input) /\ 0 \in 0..0 /\ Ends(0, 0)
    BY <1>1
  <2> QED
    BY <2>1
<1>3. ASSUME NEW n \in 0..(Len(input) - 1), n \in G PROVE n + 1 \in G
  <2>1. n + 1 \in 0..Len(input) /\ n \in Nat
    BY <1>1
  <2>2. PICK k \in 0..n : Ends(n, k)
    BY <1>3
  <2>3. CASE TypeAt(n + 1) = charUseless
    <3>1. \A i \in (k + 1)..(n + 1) : i \in (k + 1)..n \/ i = n + 1
      BY <2>1
    <3>2. Ends(n + 1, k) /\ k \in 0..(n + 1)
      BY <2>1, <2>2, <2>3, <3>1
    <3> QED
      BY <2>1, <3>2
  <2>4. CASE TypeAt(n + 1) # charUseless
    <3>1. n + 1 \in 0..(n + 1) /\ ((n + 1) + 1)..(n + 1) = {}
      BY <2>1
    <3>2. Ends(n + 1, n + 1)
      BY <2>4, <3>1
    <3> QED
      BY <2>1, <3>1, <3>2
  <2> QED
    BY <2>3, <2>4
<1>4. Len(input) \in G
  <2>1. Len(input) \in 0..Len(input)
    BY <1>1
  <2> HIDE DEF G
  <2> QED
    BY <1>1, <1>2, <1>3, <2>1, UpTo
<1> QED
  BY <1>4 DEF LastInText

(* When the input has ended all of it is accounted for.                    *)
LEMMA ExhaustedEndsExactly ==
  ASSUME EInv, OrderOK, CoverOK, EndOK, Exhausted, Loaded, EndsPlainly(input)
  PROVE  savedMaxConsumedEndPosition' + lastUselessCharNum' = Len(input)
<1>1. /\ pc = "fill" /\ read = Len(input) /\ Unprocessed = 0
      /\ savedMaxConsumedEndPosition' = maxConsumedEndPosition
      /\ lastUselessCharNum' = IF buffOffset = 0 THEN 0 ELSE lastUselessCharNum
  BY DEF Exhausted, EndOfInput
<1>2. CInv /\ HistoryOK
  BY DEF EInv
<1>3. /\ buffOffset \in Nat /\ buffOffset > 0 /\ input \in Seq(Char) /\ results = <<>>
      /\ maxConsumedEndPosition \in Nat
  BY <1>1, <1>2 DEF Loaded, CInv, ContextTypeOK, BufferWindow, NoResultsWhileFilling
<1>4. buffOffset = Len(input)
  BY <1>1, <1>2, <1>3, UnprocessedFacts
<1>5. PICK k : LastInText(k)
  BY <1>2, LastExists
<1>6. k \in 0..Len(input) /\ Len(input) \in Nat
  BY <1>3, <1>5 DEF LastInText
<1>7. ComesOutLast(k)
  <2> SUFFICES ASSUME k > 0
               PROVE \/ TypeAt(k) \in {charChinese, charOtherCJK}
                     \/ /\ ~UseSmart /\ TypeAt(k) \in {charArabic, charEnglish}
                        /\ k < Len(input) => Text[k + 1] \notin letterConnectors
    BY DEF ComesOutLast
  <2>1. \A i \in 1..Len(input) :
           /\ Text[i] = Regularize(input[i], EnableLowercase)
           /\ TypeAt(i) = IdentifyCharType(Regularize(input[i], EnableLowercase))
    BY <1>3 DEF Text, TypeAt
  <2>2. k \in 1..Len(input) /\ \A i \in (k + 1)..Len(input) : i \in 1..Len(input)
    BY <1>6
  <2>3. k < Len(input) => k + 1 \in 1..Len(input)
    BY <1>6
  <2>4. TypeAt(k) # charUseless /\ \A i \in (k + 1)..Len(input) : TypeAt(i) = charUseless
    BY <1>5, <2>2 DEF LastInText
  <2> QED
    BY <2>1, <2>2, <2>3, <2>4 DEF EndsPlainly
<1>8. ConsumedUpTo(k)
  BY <1>5, <1>7 DEF EndOK
<1>9. lastUselessCharNum' = Len(input) - k /\ maxConsumedEndPosition <= k
  BY <1>1, <1>3, <1>4, <1>6, <1>8 DEF ConsumedUpTo
<1>10. k <= maxConsumedEndPosition
  <2>1. CASE k = 0
    BY <1>3, <2>1
  <2>2. CASE k # 0
    <3>1. k \in 1..buffOffset /\ Wanted(k)
      BY <1>4, <1>6, <1>7, <2>2 DEF ComesOutLast, Wanted
    <3>2. ~Awaited(k)
      BY <1>3 DEF Awaited
    <3>3. PICK j \in DOMAIN tokens : k <= tokens[j].end
      BY <3>1, <3>2 DEF CoverOK, Covered
    <3>4. tokens[j] \in Tokens
      BY <1>2, <3>3 DEF HistoryOK
    <3>5. tokens[j].end \in Nat
      BY <3>4 DEF Tokens
    <3>6. tokens[j].end <= maxConsumedEndPosition
      BY <1>8, <3>3 DEF ConsumedUpTo
    <3> QED
      BY <1>3, <1>6, <3>3, <3>5, <3>6
  <2> QED
    BY <2>1, <2>2
<1> QED
  BY <1>1, <1>3, <1>6, <1>9, <1>10

(* What holds at the end of a text that ends plainly.                      *)
PlainTextsEndExactly ==
    [][(Exhausted /\ Loaded /\ EndsPlainly(input)) =>
          savedMaxConsumedEndPosition' + lastUselessCharNum' = Len(input)]_engine

(* The whole invariant of the engine.                                      *)
EngineInv == EInv /\ OrderOK /\ CoverOK /\ EndOK

(* It holds throughout.                                                    *)
LEMMA EngineInvAlways ==
  /\ EngineInit => EngineInv
  /\ EngineInv /\ [EngineNext]_engine => EngineInv'
<1>1. EngineInit => EngineInv
  BY EngineInitEstablishesCInv, LInvInit, OInvInit, HistoryInit, OrderInit, CoverInit, EndInit
     DEF EInv, EngineInv
<1>2. EngineInv /\ [EngineNext]_engine => EngineInv'
  BY EngineNextPreservesCInv, LInvNext, OInvNext, HistoryNext, OrderNext, CoverNext, EndNext
     DEF EInv, EngineInv
<1> QED
  BY <1>1, <1>2

(* Whatever came before, a text whose last character comes out for certain *)
(* is accounted for to the last character: the furthest position consumed  *)
(* and the useless characters after it, counted over any number of         *)
(* buffers, add up to its length (analyze_context.go:140-200, 256,         *)
(* ik_tokenizer.go:79-88).                                                 *)
THEOREM FinalOffsetOfPlainTexts == EngineSpec => PlainTextsEndExactly
<1> DEFINE Step == [(Exhausted /\ Loaded /\ EndsPlainly(input)) =>
                       savedMaxConsumedEndPosition' + lastUselessCharNum' = Len(input)]_engine
<1>1. EngineInv /\ [EngineNext]_engine => Step
  BY ExhaustedEndsExactly DEF EngineInv
<1> QED
  BY <1>1, EngineInvAlways, PTL DEF EngineSpec, PlainTextsEndExactly
=============================================================================
