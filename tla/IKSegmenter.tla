------------------------------ MODULE IKSegmenter ------------------------------
(***************************************************************************)
(* The engine, src/core/ik_segmenter.go: the analysis context driven by    *)
(* the four sub-segmenters, with the arbitrator choosing among what they   *)
(* find.  Every action is an action of AnalyzeContext with its choices     *)
(* made: Analyze gets the locks that the sub-segmenters take, Output the   *)
(* lexemes that the arbitrator leaves.                                     *)
(***************************************************************************)
EXTENDS LetterSegmenter, SurrogatePairSegmenter, CNQuantifierSegmenter,
        CJKSegmenter, IKArbitrator

CONSTANT LaterInputs     \* bound: the texts that Reset submits after the first

ASSUME SegmenterAssumption ==
    /\ SubSegmenters = {letterSegmenterName, surrogatePairSegmenterName,
                        quanSegmenterName, cjkSegmenterName}
    /\ LaterInputs \subseteq Inputs

VARIABLES
    letter, surrogate, quantifier, cjk,   \* the state of the sub-segmenters
    orgLexemes,                           \* the candidates of this buffer
    savedMaxConsumedEndPosition, savedSkippedCount,
    tokens,    \* history: the lexemes consumed since Reset, and which of them
               \*   were stop words
    skipped,   \* history: the stop words consumed since the last token
    cuts       \* history: where a buffer ended because it was used up

segmenters == <<letter, surrogate, quantifier, cjk>>
saved      == <<savedMaxConsumedEndPosition, savedSkippedCount>>
history    == <<tokens, skipped, cuts>>
engine     == <<cvars, segmenters, orgLexemes, saved, history, generation>>

SegmentersReset == /\ letter' = NoLetters
                   /\ surrogate' = NoSurrogate
                   /\ quantifier' = NoQuantity
                   /\ cjk' = {}

EngineInit == /\ ContextInit
              /\ letter = NoLetters /\ surrogate = NoSurrogate
              /\ quantifier = NoQuantity /\ cjk = {}
              /\ orgLexemes = <<>> /\ generation = 1
              /\ savedMaxConsumedEndPosition = 0 /\ savedSkippedCount = 0
              /\ tokens = <<>> /\ skipped = 0 /\ cuts = {}

-----------------------------------------------------------------------------
(* Reset(input).                                                           *)
EngineReset(text) == /\ Reset(text)
                     /\ SegmentersReset
                     /\ orgLexemes' = <<>>
                     /\ savedMaxConsumedEndPosition' = 0
                     /\ savedSkippedCount' = 0
                     /\ tokens' = <<>> /\ skipped' = 0 /\ cuts' = {}
                     /\ UNCHANGED generation

(* Faulty: the skipped stop words of earlier calls go on counting.         *)
NextCalledCountsOn == /\ CallNext
                      /\ UNCHANGED <<segmenters, orgLexemes, saved, history, generation>>

(* Next() is called.                                                       *)
NextCalled == /\ CallNext
              /\ savedSkippedCount' = 0
              /\ UNCHANGED <<segmenters, orgLexemes, savedMaxConsumedEndPosition,
                             history, generation>>

(* getNextLexeme takes a result: a stop word is passed over, another one   *)
(* is returned with the stop words passed over in this call of             *)
(* getNextLexeme.                                                          *)
TakeResult ==
    LET l == Head(Compound(results))
        stopWord == IsStopWord(l.begin, l.length)
    IN  /\ Consume(stopWord)
        /\ savedSkippedCount' = IF stopWord THEN savedSkippedCount
                                ELSE savedSkippedCount + lastSkippedCount
        /\ tokens' = Append(tokens, [begin |-> BeginPosition(l),
                                     end |-> EndPosition(l),
                                     lexemeType |-> l.lexemeType, stop |-> stopWord])
        /\ skipped' = IF stopWord THEN skipped + 1 ELSE 0
        /\ UNCHANGED <<segmenters, orgLexemes, savedMaxConsumedEndPosition, cuts,
                       generation>>

NoMoreResults == /\ NoResult
                 /\ UNCHANGED <<segmenters, orgLexemes, saved, history, generation>>

FillBuffer(n) == /\ Fill(n)
                 /\ UNCHANGED <<segmenters, orgLexemes, saved, history, generation>>

(* The input has ended: what the context is about to forget is saved.      *)
Exhausted == /\ EndOfInput
             /\ savedMaxConsumedEndPosition' = maxConsumedEndPosition
             /\ orgLexemes' = <<>>
             /\ UNCHANGED <<segmenters, savedSkippedCount, history, generation>>

FillFails == /\ ReadFails
             /\ UNCHANGED <<segmenters, orgLexemes, saved, history, generation>>

-----------------------------------------------------------------------------
(* SavedMaxConsumedEndPosition(), which the tokenizer asks for.            *)
FurthestConsumed == Max({savedMaxConsumedEndPosition, maxConsumedEndPosition})

-----------------------------------------------------------------------------
(* The four sub-segmenters see the character under the cursor, in order:   *)
(* each adds its candidates to those of the ones before it.                *)
AnalyzeCharacter ==
    LET l == LetterAnalyze(letter)
        p == SurrogateAnalyze(surrogate)
        q == QuantifierAnalyze(quantifier, AddLexemes(orgLexemes, l.added \o p.added))
        c == CJKAnalyze(cjk)
        locks == {name \in SubSegmenters :
                     \/ name = letterSegmenterName /\ LetterLocks(l.state)
                     \/ name = surrogatePairSegmenterName /\ SurrogateLocks(p.state)
                     \/ name = quanSegmenterName /\ QuantifierLocks(q.state)
                     \/ name = cjkSegmenterName /\ CJKLocks(c.hits)}
    IN  /\ Analyze(locks)
        /\ letter' = l.state /\ surrogate' = p.state
        /\ quantifier' = q.state /\ cjk' = c.hits
        /\ orgLexemes' = AddAll(q.org, c.words)
        /\ UNCHANGED <<saved, history, generation>>

-----------------------------------------------------------------------------
(* outputSingleCJK: a character that no lexeme covers becomes one of its   *)
(* own when it is Chinese or another CJK character, and is dropped else.   *)
SingleCJK(i) ==
    IF charTypes[i] = charChinese
    THEN <<NewLexeme(buffOffset, i, 1, TypeCNChar)>>
    ELSE IF charTypes[i] = charOtherCJK
    THEN <<NewLexeme(buffOffset, i, 1, TypeOtherCJK)>>
    ELSE <<>>

(* Faulty: the last of them is left out.                                   *)
SinglesButLast(first, last) ==
    IF first >= last THEN <<>>
    ELSE FlattenSeq([k \in 1..(last - first) |-> SingleCJK(first + k - 1)])

(* The characters from first to last that no lexeme covers.                *)
Singles(first, last) ==
    IF first > last THEN <<>>
    ELSE FlattenSeq([k \in 1..(last - first + 1) |-> SingleCJK(first + k - 1)])

(* Faulty: the single characters start over within the lexeme before.      *)
PathResultsOverlap(p) ==
    LET q == p.lexemes
        from(k) == IF k = 1 THEN q[1].begin ELSE q[k - 1].begin + 1
    IN  FlattenSeq([k \in DOMAIN q |->
                       Append(Singles(from(k), q[k].begin - 1), q[k])])

(* The lexemes of a path, with the single characters before each.          *)
PathResults(p) ==
    LET q == p.lexemes
        from(k) == IF k = 1 THEN q[1].begin ELSE End(q[k - 1])
    IN  FlattenSeq([k \in DOMAIN q |->
                       Append(Singles(from(k), q[k].begin - 1), q[k])])

(* Faulty: it walks over all that is in the buffer, past the cursor.       *)
WalkPastCursor(paths) ==
    LET walk[i \in 0..available] ==
           IF i >= available THEN [results |-> <<>>, trailing |-> 0, useless |-> TRUE]
           ELSE LET here == {p \in paths : p.pathBegin = i}
                    path == CHOOSE p \in here : TRUE
                    next == IF here = {} THEN i + 1 ELSE End(Last(path.lexemes))
                    out  == IF here = {} THEN SingleCJK(i) ELSE PathResults(path)
                    rest == walk[IF charTypes[i] = charUseless THEN i + 1 ELSE next]
                IN  IF charTypes[i] = charUseless
                    THEN [rest EXCEPT !.trailing = IF rest.useless THEN @ + 1 ELSE @]
                    ELSE [rest EXCEPT !.results = out \o @, !.useless = FALSE]
    IN  walk[0]

(* outputToResult from an index on: it goes on where the last lexeme of a  *)
(* path ends, which need not be where the path ends.  trailing counts the  *)
(* useless characters met since the last other one, useless says that none *)
(* was met.                                                                *)
Walk(paths) ==
    LET walk[i \in 0..(cursor + 1)] ==
           IF i > cursor THEN [results |-> <<>>, trailing |-> 0, useless |-> TRUE]
           ELSE LET here == {p \in paths : p.pathBegin = i}
                    path == CHOOSE p \in here : TRUE
                    next == IF here = {} THEN i + 1 ELSE End(Last(path.lexemes))
                    out  == IF here = {} THEN SingleCJK(i) ELSE PathResults(path)
                    rest == walk[IF charTypes[i] = charUseless THEN i + 1 ELSE next]
                IN  IF charTypes[i] = charUseless
                    THEN [rest EXCEPT !.trailing = IF rest.useless THEN @ + 1 ELSE @]
                    ELSE [rest EXCEPT !.results = out \o @, !.useless = FALSE]
    IN  walk[0]

(* The loop over the buffer has ended: the sub-segmenters are reset, the   *)
(* candidates arbitrated and put out.                                      *)
Arbitrate ==
    LET walk == Walk(Process(orgLexemes, UseSmart))
    IN  /\ Output(walk.results,
                  IF walk.useless THEN lastUselessCharNum + walk.trailing
                                  ELSE walk.trailing)
        /\ SegmentersReset
        /\ orgLexemes' = <<>>
        /\ cuts' = IF IsBufferConsumed THEN cuts \cup {buffOffset'} ELSE cuts
        /\ UNCHANGED <<saved, tokens, skipped, generation>>

-----------------------------------------------------------------------------
InsideCall == \/ TakeResult
              \/ NoMoreResults
              \/ \E n \in ReadCounts : FillBuffer(n)
              \/ Exhausted
              \/ FillFails
              \/ AnalyzeCharacter
              \/ Arbitrate

(* The monitor's goroutine replaces the dictionary, whatever the engine is *)
(* doing.                                                                  *)
DictionaryReloaded == /\ Swapped
                      /\ UNCHANGED <<cvars, segmenters, orgLexemes, saved, history>>

EngineNext == \/ \E text \in LaterInputs : EngineReset(text)
              \/ NextCalled
              \/ InsideCall
              \/ DictionaryReloaded

(* That a call of Next returns is shown of AnalyzeContext, whatever the    *)
(* sub-segmenters lock and the arbitrator puts out; here it is enough that *)
(* no call gets stuck, which is the absence of deadlock.                   *)
EngineSpec == EngineInit /\ [][EngineNext]_engine

-----------------------------------------------------------------------------
(* The input as the engine sees it: each character regularised.            *)
Text == [i \in DOMAIN input |-> Regularize(input[i], EnableLowercase)]
TypeAt(i) == IdentifyCharType(Text[i])

(* Every variable has its type.                                            *)
Runs == [start: Int, end: Int]

EngineTypeOK ==
    /\ ContextTypeOK
    /\ letter \in [english: Runs, arabic: Runs, mix: Runs]
    /\ surrogate \in [start: Int, end: Int, hasHighSurrogate: BOOLEAN]
    /\ quantifier \in [number: Runs, countHits: SUBSET Index]
    /\ cjk \subseteq [begin: Index, generation: 1..generation]
    /\ generation \in DOMAIN Dictionaries
    /\ orgLexemes \in Seq(Lexeme)
    /\ savedMaxConsumedEndPosition \in Nat /\ savedSkippedCount \in Nat
    /\ tokens \in Seq([begin: Nat, end: Nat, lexemeType: LexemeType, stop: BOOLEAN])
    /\ skipped \in Nat /\ cuts \subseteq Nat

(* Tokens come in the order of their starts and, from one start, the       *)
(* longest first; no span comes twice.  In smart mode they do not overlap. *)
TokensInOrder ==
    \A i \in 1..(Len(tokens) - 1) :
       LET t == tokens[i]
           u == tokens[i + 1]
       IN  IF UseSmart THEN t.end <= u.begin
           ELSE t.begin < u.begin \/ (t.begin = u.begin /\ t.end > u.end)

(* All that was walked over has been handed out.                           *)
HandedOut == pc \in {"poll", "fill"} /\ results = <<>> /\ Loaded

Covered(i) == \E k \in DOMAIN tokens : tokens[k].begin < i /\ i <= tokens[k].end

(* No Chinese or other CJK character is lost, and no letter or digit       *)
(* either unless smart mode drops it: what no word covers comes out as     *)
(* single characters (analyze_context.go:161-162, 195-196).                *)
CharactersCovered ==
    HandedOut =>
       \A i \in 1..buffOffset :
          TypeAt(i) \in {charChinese, charOtherCJK}
                       \cup (IF UseSmart THEN {} ELSE {charEnglish, charArabic})
             => Covered(i)

(* Where the buffer is topped up before its end, no word of the main       *)
(* dictionary, no run of letters and digits, no numeral and no surrogate   *)
(* pair is cut in two (analyze_context.go:123, 136-137): whatever could    *)
(* have been cut holds a lock.  (A word that a reload brought or took away *)
(* while the buffer was looked at may be cut, and so may one with a        *)
(* useless character in it, over which no hit goes on: it is never found.) *)
CutAt(b, i, j) == i <= b /\ b < j

LastingWords == {w \in MainWords(generation) :
                    /\ \A g \in DOMAIN Dictionaries : w \in MainWords(g)
                    /\ \A i \in DOMAIN w : IdentifyCharType(w[i]) # charUseless}

RefillCutsNothing ==
    (pc = "arbitrate" /\ cursor < available - 1) =>
       LET b == buffOffset + cursor + 1
       IN  /\ \A w \in LastingWords : \A i \in (buffOffset + 1)..b :
                 ~ /\ CutAt(b, i, i + Len(w) - 1)
                   /\ i + Len(w) - 1 <= Len(input)
                   /\ SubSeq(Text, i, i + Len(w) - 1) = w
           /\ ~({TypeAt(b), TypeAt(b + 1)} \subseteq {charArabic, charEnglish})
           /\ ~(Text[b] \in chnNumberChars /\ Text[b + 1] \in chnNumberChars)
           /\ ~(IsHighSurrogate(Text[b]) /\ IsLowSurrogate(Text[b + 1]))

(* The token t does not stop in front of a quantifier, unless the buffer   *)
(* ended there or within the quantifier.                                   *)
TakesItsQuantifier(t) ==
    \A w \in QuantifierWords :
       /\ t.end + Len(w) <= Len(input)
       /\ SubSeq(Text, t.end + 1, t.end + Len(w)) = w
       => cuts \cap (t.end..(t.end + Len(w) - 1)) # {}

Returned == {tokens[k] : k \in DOMAIN tokens}

(* In smart mode a numeral, of digits or of Chinese numerals, never comes  *)
(* out without the quantifier that follows it in the text                  *)
(* (analyze_context.go:270-271), wherever the buffer is topped up.  (This  *)
(* depends on the dictionary: a word that starts as a quantifier does, or  *)
(* one that takes a part of a numeral from it, competes with them.)        *)
Numeral(i) == TypeAt(i) = charArabic \/ Text[i] \in chnNumberChars

QuantitiesJoined ==
    UseSmart => \A t \in Returned :
       /\ t.lexemeType # TypeCNWord
       /\ \A i \in (t.begin + 1)..t.end : Numeral(i)
       => TakesItsQuantifier(t)

(* The two code units of a character outside the BMP come out in one token *)
(* (surrogate_pair_segmenter.go:38-42): only a buffer that ends between    *)
(* them takes them apart.  (Smart mode needs WordsKeepPairs for it: in     *)
(* every word of the main dictionary such a character, if there is one,    *)
(* comes last.)                                                            *)
WordsKeepPairs ==
    \A g \in DOMAIN Dictionaries : \A w \in MainWords(g) : \A i \in DOMAIN w :
       /\ IsHighSurrogate(w[i]) => i = Len(w) - 1
       /\ IsLowSurrogate(w[i]) => i > 1

PairsStayTogether ==
    HandedOut =>
       \A i \in 1..(buffOffset - 1) :
          IsHighSurrogate(Text[i]) /\ IsLowSurrogate(Text[i + 1]) =>
             \/ i \in cuts
             \/ \E k \in DOMAIN tokens : tokens[k].begin < i /\ i < tokens[k].end

(* At the end of the input the furthest consumed position and the useless  *)
(* characters after it add up to the length of the input                   *)
(* (ik_tokenizer.go:79-88).  Half a surrogate pair without the other half  *)
(* may come out in no token: nothing is said of a text with surrogates.    *)
FinalOffsetExact ==
    [][(Exhausted /\ Loaded /\ \A i \in DOMAIN input : TypeAt(i) # charSurrogate) =>
          savedMaxConsumedEndPosition' + lastUselessCharNum' = Len(input)]_engine

-----------------------------------------------------------------------------
(* What the comments of the code say and the code does not do.             *)

(* ik_segmenter.go:120-121: SavedSkippedCount is how many stop words the   *)
(* last Next skipped, which becomes the token's position increment.        *)
SkipsBecomePositions ==
    [][(TakeResult /\ pc' = "idle") => savedSkippedCount' = skipped]_engine

(* analyze_context.go:270: compound merges a numeral with the quantifier   *)
(* that follows it; cn_quantifier_segmenter.go:137-139: a quantifier could *)
(* start where a numeral ends.                                             *)
NumeralsTakeQuantifiers ==
    UseSmart => \A t \in Returned :
       t.lexemeType \in {TypeArabic, TypeCNum} => TakesItsQuantifier(t)
=============================================================================
