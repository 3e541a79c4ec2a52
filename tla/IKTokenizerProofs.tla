--------------------------- MODULE IKTokenizerProofs ---------------------------
(***************************************************************************)
(* What the stream promises its caller, for every text, dictionary and     *)
(* buffer size, and whatever order its calls come in.                      *)
(*                                                                         *)
(* The term of a token is the text of the input at the token's offsets.    *)
(* The window of AnalyzeContextProofs carries the argument: a term is read *)
(* out of the buffer when the token is returned, and what a result covers  *)
(* is still there.  A term is the same when it comes out of a Go string.   *)
(* What IKSegmenterProofs shows of the engine holds under the stream too,  *)
(* since a Reset starts it over; the position increments count the stop    *)
(* words; every variable has its type; and End publishes the length of a   *)
(* text whose last character comes out for certain.                        *)
(***************************************************************************)
EXTENDS IKTokenizer, IKSegmenterProofs

(* A staged text is a text.                                                *)
StagedIsText == inputPending = <<>> \/ Head(inputPending) \in Seq(Char)

(* The invariant of the stream's reading.                                  *)
TInv == CInv /\ StagedIsText /\ TermsFollowTheText

-----------------------------------------------------------------------------
(* What is read out of the buffer.                                         *)

(* Where the buffer lies in the input, and that it holds the cursor.       *)
LEMMA WindowFacts ==
  ASSUME CInv, Loaded
  PROVE  /\ Origin \in Nat /\ Origin + available = read
         /\ read \in Nat /\ read <= Len(input) /\ Len(input) \in Nat
         /\ input \in Seq(Char)
         /\ cursor \in Nat /\ available \in Nat /\ cursor < available
BY DEF CInv, ContextTypeOK, BufferWindow, ReadContiguously

(* A span of the part walked over reads as the same span of the input.     *)
LEMMA SpanIsInputText ==
  ASSUME CInv, Loaded, Needed,
         NEW b \in Nat, NEW n \in Nat \ {0}, b + n <= cursor + 1
  PROVE  Span(b, n) = SubSeq(Text, Origin + b + 1, Origin + b + n)
<1> DEFINE from == Origin + b + 1
           to == Origin + b + n
           s == SubSeq(Text, from, to)
<1>1. /\ from \in Int /\ to \in Int /\ to - from + 1 = n /\ from <= to
      /\ from..to \subseteq 1..Len(input)
  BY WindowFacts
<1>2. /\ Len(input) \in Nat /\ DOMAIN input = 1..Len(input)
      /\ \A i \in 1..Len(input) : input[i] \in Char
  BY WindowFacts
<1>3. \A i \in 1..Len(input) : /\ Text[i] = Regularize(input[i], EnableLowercase)
                                /\ Text[i] \in Char
  BY <1>2, CharacterTypes DEF Text
<1>4. \A i \in from..to : Text[i] \in Char
  BY <1>1, <1>3
<1>5. s \in Seq(Char) /\ Len(s) = n /\ \A i \in 1..n : s[i] = Text[from + i - 1]
  <2> HIDE DEF from, to
  <2> QED
    BY <1>1, <1>4, SubSeqProperties
<1>6. \A i \in 1..n : segmentBuff[b + i - 1] = s[i]
  <2> SUFFICES ASSUME NEW i \in 1..n PROVE segmentBuff[b + i - 1] = s[i]
    OBVIOUS
  <2>1. b + i - 1 \in 0..cursor /\ Origin + (b + i - 1) + 1 = from + i - 1
    BY WindowFacts
  <2>2. segmentBuff[b + i - 1]
           = Regularize(input[Origin + (b + i - 1) + 1], EnableLowercase)
    BY <2>1 DEF CInv, BufferWindow, ProcessedIsRegular
  <2>3. from + i - 1 \in 1..Len(input)
    BY <1>1
  <2> QED
    BY <2>1, <2>2, <2>3, <1>3, <1>5
<1>7. s = [i \in 1..n |-> s[i]]
  <2> HIDE DEF s
  <2>1. s \in [1..n -> Char]
    BY <1>5
  <2> QED
    BY <2>1
<1> HIDE DEF s
<1> QED
  BY <1>6, <1>7 DEF Span, s

(* The next result, compounded: where it lies and what it reads.           *)
LEMMA NextResultIsInputText ==
  ASSUME CInv, pc = "poll", results # <<>>
  PROVE  LET l == Head(Compound(results))
         IN  /\ BeginPosition(l) < EndPosition(l) /\ EndPosition(l) <= Len(input)
             /\ Span(l.begin, l.length)
                   = SubSeq(Text, BeginPosition(l) + 1, EndPosition(l))
<1> DEFINE q == Compound(results)
           l == Head(q)
<1>1. Loaded /\ Needed
  BY DEF CInv, BufferWindow, ReadContiguously, Needed
<1>2. Origin \in Nat /\ cursor \in Nat /\ cursor + 1 \in Nat
  BY <1>1, WindowFacts
<1>3. InWindow(q, Origin, cursor + 1) /\ q # <<>>
  BY <1>2, ResultsWindow, CompoundInWindow
<1>4. l \in Lexeme /\ l.offset = Origin /\ End(l) <= cursor + 1
  <2> HIDE DEF q
  <2> QED
    BY <1>2, <1>3, HeadAndTailInWindow
<1> HIDE DEF l
<1>5. /\ l.begin \in Nat /\ l.length \in Nat \ {0}
      /\ l.begin + l.length <= cursor + 1
      /\ BeginPosition(l) = Origin + l.begin
      /\ EndPosition(l) = Origin + l.begin + l.length
  BY <1>4 DEF Lexeme, End, BeginPosition, EndPosition
<1>6. Span(l.begin, l.length)
         = SubSeq(Text, Origin + l.begin + 1, Origin + l.begin + l.length)
  BY <1>1, <1>5, SpanIsInputText
<1>7. BeginPosition(l) < EndPosition(l) /\ EndPosition(l) <= Len(input)
  BY <1>1, <1>2, <1>5, WindowFacts
<1> QED
  BY <1>5, <1>6, <1>7 DEF l

-----------------------------------------------------------------------------
(* The calls of the stream.                                                *)

(* It holds at the start.                                                  *)
LEMMA TokenizerInitEstablishesTInv == TokenizerInit => TInv
BY EngineInitEstablishesCInv DEF TokenizerInit, TInv, StagedIsText, TermsFollowTheText

(* A text is staged, and the engine left alone.                            *)
LEMMA SetReaderPreservesTInv ==
  ASSUME TInv, NEW text \in LaterInputs, SetReader(text)
  PROVE  TInv'
<1>1. text \in Seq(Char)
  BY SegmenterAssumption, InputsAssumption
<1>2. UNCHANGED cvars
  BY DEF SetReader, engine
<1>3. CInv'
  BY <1>2, StutterPreservesCInv DEF TInv
<1>4. StagedIsText'
  BY <1>1 DEF SetReader, StagedIsText
<1>5. TermsFollowTheText'
  BY <1>2 DEF SetReader, attributes, cvars, reader, TInv, TermsFollowTheText, Text
<1> QED
  BY <1>3, <1>4, <1>5 DEF TInv

(* The staged text, or none, is installed in an empty buffer.              *)
LEMMA ResetStreamPreservesTInv ==
  ASSUME TInv, ResetStream
  PROVE  TInv'
<1> DEFINE text == IF inputPending = <<>> THEN <<>> ELSE Head(inputPending)
<1>1. text \in Seq(Char)
  BY DEF TInv, StagedIsText
<1>2. Reset(text)
  BY DEF ResetStream, EngineReset
<1>3. CInv'
  <2> HIDE DEF text
  <2>1. /\ ContextReset /\ pc' = "idle" /\ input' = text /\ read' = 0
        /\ lastUselessCharNum' = lastUselessCharNum
    BY <1>2 DEF Reset
  <2> QED
    BY <1>1, <2>1, ContextResetEstablishesCInv DEF TInv, CInv, ContextTypeOK
<1>4. StagedIsText' /\ TermsFollowTheText'
  BY DEF ResetStream, StagedIsText, TermsFollowTheText
<1> QED
  BY <1>3, <1>4 DEF TInv

(* Close leaves the engine alone.                                          *)
LEMMA ClosePreservesTInv ==
  ASSUME TInv, Close
  PROVE  TInv'
<1>1. UNCHANGED cvars
  BY DEF Close, engine
<1>2. CInv'
  BY <1>1, StutterPreservesCInv DEF TInv
<1>3. StagedIsText'
  BY DEF Close, StagedIsText
<1>4. TermsFollowTheText'
  BY <1>1 DEF Close, attributes, cvars, reader, TInv, TermsFollowTheText, Text
<1> QED
  BY <1>2, <1>3, <1>4 DEF TInv

(* End clears the term.                                                    *)
LEMMA EndStreamPreservesTInv ==
  ASSUME TInv, EndStream
  PROVE  TInv'
<1>1. UNCHANGED cvars
  BY DEF EndStream, engine
<1>2. CInv'
  BY <1>1, StutterPreservesCInv DEF TInv
<1>3. StagedIsText' /\ TermsFollowTheText'
  BY DEF EndStream, TInv, StagedIsText, TermsFollowTheText
<1> QED
  BY <1>2, <1>3 DEF TInv

(* So does a call for the next token.                                      *)
LEMMA IncrementTokenPreservesTInv ==
  ASSUME TInv, IncrementToken
  PROVE  TInv'
<1>1. CallNext
  BY DEF IncrementToken, NextCalled
<1>2. CInv'
  BY <1>1, CallNextPreservesCInv DEF TInv
<1>3. StagedIsText' /\ TermsFollowTheText'
  BY <1>1 DEF CallNext, IncrementToken, TInv, StagedIsText, TermsFollowTheText
<1> QED
  BY <1>2, <1>3 DEF TInv

(* A token is returned: its term is read out of the buffer here.           *)
LEMMA ReturnTokenPreservesTInv ==
  ASSUME TInv, ReturnToken
  PROVE  TInv'
<1> DEFINE l == Head(Compound(results))
<1>1. TakeResult /\ UNCHANGED inputPending
  BY DEF ReturnToken
<1>2. pc = "poll" /\ results # <<>> /\ input' = input
  BY <1>1 DEF TakeResult, Consume, reader
<1>3. CInv'
  BY <1>1, TakeResultPreservesCInv DEF TInv
<1>4. /\ term' = Span(l.begin, l.length)
      /\ startOffset' = BeginPosition(l) /\ endOffset' = EndPosition(l)
  BY DEF ReturnToken
<1>5. /\ BeginPosition(l) < EndPosition(l) /\ EndPosition(l) <= Len(input)
      /\ Span(l.begin, l.length) = SubSeq(Text, BeginPosition(l) + 1, EndPosition(l))
  BY <1>2, NextResultIsInputText DEF TInv
<1>6. Text' = Text
  BY <1>2 DEF Text
<1> HIDE DEF l
<1>7. TermsFollowTheText'
  BY <1>2, <1>4, <1>5, <1>6 DEF TermsFollowTheText
<1>8. StagedIsText'
  BY <1>1 DEF TInv, StagedIsText
<1> QED
  BY <1>3, <1>7, <1>8 DEF TInv

(* No token is returned.                                                   *)
LEMMA ReturnNonePreservesTInv ==
  ASSUME TInv, ReturnNone
  PROVE  TInv'
<1>1. CInv'
  BY EndOfInputPreservesCInv DEF ReturnNone, Exhausted, TInv
<1>2. StagedIsText' /\ TermsFollowTheText'
  BY DEF ReturnNone, TInv, StagedIsText, TermsFollowTheText
<1> QED
  BY <1>1, <1>2 DEF TInv

(* Nor when the reader must not be read.                                   *)
LEMMA ReturnErrorPreservesTInv ==
  ASSUME TInv, ReturnError
  PROVE  TInv'
<1>1. CInv'
  BY ReadFailsPreservesCInv DEF ReturnError, FillFails, TInv
<1>2. StagedIsText' /\ TermsFollowTheText'
  BY DEF ReturnError, TInv, StagedIsText, TermsFollowTheText
<1> QED
  BY <1>1, <1>2 DEF TInv

(* The engine at work inside the call.                                     *)
LEMMA InsideIncrementPreservesTInv ==
  ASSUME TInv, InsideIncrement
  PROVE  TInv'
<1>1. CInv' /\ pc' # "idle"
  <2>1. CASE TakeResult /\ pc' = "poll"
    BY <2>1, TakeResultPreservesCInv DEF TInv
  <2>2. CASE NoMoreResults
    BY <2>2, NoResultPreservesCInv DEF TInv, NoMoreResults, NoResult
  <2>3. ASSUME NEW n \in ReadCounts, FillBuffer(n)
        PROVE  CInv' /\ pc' # "idle"
    BY <2>3, FillPreservesCInv DEF TInv, FillBuffer, Fill
  <2>4. CASE AnalyzeCharacter
    <3>1. \E locks : Analyze(locks)
      BY <2>4 DEF AnalyzeCharacter
    <3>2. pc' # "idle"
      BY <3>1 DEF Analyze
    <3> QED
      BY <2>4, <3>2, AnalyzeCharacterPreservesCInv DEF TInv
  <2>5. CASE Arbitrate
    <3>1. \E rs, trailing : Output(rs, trailing)
      BY <2>5 DEF Arbitrate
    <3>2. pc' # "idle"
      BY <3>1 DEF Output
    <3> QED
      BY <2>5, <3>2, ArbitratePreservesCInv DEF TInv
  <2> QED
    BY <2>1, <2>2, <2>3, <2>4, <2>5 DEF InsideIncrement
<1>2. StagedIsText' /\ TermsFollowTheText'
  BY <1>1 DEF InsideIncrement, stream, TInv, StagedIsText, TermsFollowTheText
<1> QED
  BY <1>1, <1>2 DEF TInv

(* A reload changes no text.                                               *)
LEMMA ReloadedMeanwhilePreservesTInv ==
  ASSUME TInv, ReloadedMeanwhile
  PROVE  TInv'
<1>1. UNCHANGED cvars
  BY DEF ReloadedMeanwhile, DictionaryReloaded
<1>2. CInv'
  BY <1>1, StutterPreservesCInv DEF TInv
<1>3. StagedIsText' /\ TermsFollowTheText'
  BY <1>1 DEF ReloadedMeanwhile, stream, attributes, cvars, reader, TInv,
              StagedIsText, TermsFollowTheText, Text
<1> QED
  BY <1>2, <1>3 DEF TInv

(* Every call keeps it.                                                    *)
LEMMA TokenizerNextPreservesTInv == TInv /\ [TokenizerNext]_tvars => TInv'
<1> SUFFICES ASSUME TInv, [TokenizerNext]_tvars PROVE TInv'
  OBVIOUS
<1>1. ASSUME NEW text \in LaterInputs, SetReader(text) PROVE TInv'
  BY <1>1, SetReaderPreservesTInv
<1>2. CASE ResetStream
  BY <1>2, ResetStreamPreservesTInv
<1>3. CASE Close
  BY <1>3, ClosePreservesTInv
<1>4. CASE IncrementToken
  BY <1>4, IncrementTokenPreservesTInv
<1>5. CASE ReturnToken
  BY <1>5, ReturnTokenPreservesTInv
<1>6. CASE ReturnNone
  BY <1>6, ReturnNonePreservesTInv
<1>7. CASE ReturnError
  BY <1>7, ReturnErrorPreservesTInv
<1>8. CASE InsideIncrement
  BY <1>8, InsideIncrementPreservesTInv
<1>9. CASE EndStream
  BY <1>9, EndStreamPreservesTInv
<1>10. CASE ReloadedMeanwhile
  BY <1>10, ReloadedMeanwhilePreservesTInv
<1>11. CASE UNCHANGED tvars
  <2>1. UNCHANGED cvars
    BY <1>11 DEF tvars, engine
  <2>2. CInv'
    BY <2>1, StutterPreservesCInv DEF TInv
  <2>3. StagedIsText' /\ TermsFollowTheText'
    BY <1>11, <2>1 DEF tvars, stream, attributes, cvars, reader, TInv,
                       StagedIsText, TermsFollowTheText, Text
  <2> QED
    BY <2>2, <2>3 DEF TInv
<1> QED
  BY <1>1, <1>2, <1>3, <1>4, <1>5, <1>6, <1>7, <1>8, <1>9, <1>10, <1>11
  DEF TokenizerNext

(* The term of every token is the text of the input at the token's         *)
(* offsets, whatever was read, reset or closed before.                     *)
THEOREM TokensReadTheirInput == TokenizerSpec => []TermsFollowTheText
<1>1. TokenizerInit => TInv
  BY TokenizerInitEstablishesTInv
<1>2. TInv /\ [TokenizerNext]_tvars => TInv'
  BY TokenizerNextPreservesTInv
<1>3. TInv => TermsFollowTheText
  BY DEF TInv
<1> QED
  BY <1>1, <1>2, <1>3, PTL DEF TokenizerSpec
-----------------------------------------------------------------------------
(* What the placeholder keeps out: while the engine holds it, nothing is   *)
(* waiting and nothing is being analyzed.                                  *)
PlaceholderInv ==
    reading = "placeholder" => results = <<>> /\ pc \notin {"analyze", "arbitrate"}

(* Every call keeps it empty.                                              *)
LEMMA PlaceholderInvNext == PlaceholderInv /\ [TokenizerNext]_tvars => PlaceholderInv'
<1> SUFFICES ASSUME PlaceholderInv, [TokenizerNext]_tvars PROVE PlaceholderInv'
  OBVIOUS
<1>1. CASE \E text \in LaterInputs : SetReader(text)
  BY <1>1 DEF PlaceholderInv, SetReader, engine, cvars
<1>2. CASE ResetStream
  <2>1. pc = "idle" /\ pc' = pc /\ results' = <<>>
    BY <1>2 DEF ResetStream, EngineReset, Reset, ContextReset
  <2> QED
    BY <2>1 DEF PlaceholderInv
<1>3. CASE Close
  <2>1. UNCHANGED <<pc, results>> /\ (reading' = "placeholder" => reading = "placeholder")
    BY <1>3 DEF Close, engine, cvars
  <2> QED
    BY <2>1 DEF PlaceholderInv
<1>4. CASE IncrementToken
  <2>1. UNCHANGED <<reading, results>> /\ pc' = "poll"
    BY <1>4 DEF IncrementToken, NextCalled, CallNext
  <2> QED
    BY <2>1 DEF PlaceholderInv
<1>5. CASE ReturnToken
  <2>1. reading' = reading /\ results # <<>>
    BY <1>5 DEF ReturnToken, TakeResult, Consume
  <2> QED
    BY <2>1 DEF PlaceholderInv
<1>6. CASE ReturnNone \/ ReturnError
  <2>1. reading' = reading /\ pc' = "idle" /\ (results' = results \/ results' = <<>>)
    BY <1>6 DEF ReturnNone, ReturnError, Exhausted, EndOfInput, ContextReset, FillFails,
                ReadFails
  <2> QED
    BY <2>1 DEF PlaceholderInv
<1>7. CASE InsideIncrement
  <2>1. reading' = reading
    BY <1>7 DEF InsideIncrement, stream
  <2>2. \/ results # <<>>
        \/ NoMoreResults
        \/ reading = "open"
        \/ pc \in {"analyze", "arbitrate"}
    BY <1>7 DEF InsideIncrement, TakeResult, Consume, AnalyzeCharacter, Analyze, Arbitrate, Output
  <2>3. NoMoreResults => results' = results /\ pc' = "fill"
    BY DEF NoMoreResults, NoResult
  <2> QED
    BY <2>1, <2>2, <2>3 DEF PlaceholderInv
<1>8. CASE EndStream \/ ReloadedMeanwhile \/ UNCHANGED tvars
  <2>1. UNCHANGED <<reading, pc, results>>
    BY <1>8 DEF EndStream, ReloadedMeanwhile, DictionaryReloaded, tvars, stream, engine, cvars
  <2> QED
    BY <2>1 DEF PlaceholderInv
<1> QED
  BY <1>1, <1>2, <1>3, <1>4, <1>5, <1>6, <1>7, <1>8 DEF TokenizerNext

(* No token comes out of a stream that holds the placeholder, in whatever  *)
(* order the calls come: not before the first Reset, and not after a Reset *)
(* without a staged text (ik_tokenizer.go:20-22).                          *)
THEOREM PlaceholderIsEmpty == TokenizerSpec => PlaceholderGivesNoToken
<1>1. TokenizerInit => PlaceholderInv
  BY DEF TokenizerInit, EngineInit, ContextInit, PlaceholderInv
<1>2. PlaceholderInv => [ReturnToken => reading # "placeholder"]_tvars
  BY DEF PlaceholderInv, ReturnToken, TakeResult, Consume
<1> QED
  BY <1>1, <1>2, PlaceholderInvNext, PTL DEF TokenizerSpec, PlaceholderGivesNoToken
-----------------------------------------------------------------------------
(* The engine under the stream.                                            *)

(* What the engine keeps on its own holds after a Reset whatever the text. *)
LEMMA ResetStartsOver ==
  ASSUME EngineInv, NEW text \in Seq(Char), EngineReset(text)
  PROVE  EngineInv'
<1>1. /\ pc = "idle" /\ pc' = "idle" /\ results' = <<>> /\ tokens' = <<>> /\ buffOffset' = 0
      /\ orgLexemes' = <<>> /\ SegmentersReset /\ UNCHANGED generation
      /\ cuts' = {} /\ skipped' = 0 /\ savedSkippedCount' = 0 /\ savedMaxConsumedEndPosition' = 0
  BY DEF EngineReset, Reset, ContextReset
<1>2. CInv'
  <2>1. /\ ContextReset /\ pc' = "idle" /\ input' = text /\ read' = 0
        /\ lastUselessCharNum' = lastUselessCharNum
    BY DEF EngineReset, Reset
  <2> QED
    BY <2>1, ContextResetEstablishesCInv DEF EngineInv, EInv, CInv, ContextTypeOK
<1>3. LInv'
  <2>1. Looked' = 0 /\ generation' \in DOMAIN Dictionaries
    BY <1>1 DEF Looked, EngineInv, EInv, LInv
  <2>2. /\ letter' = NoLetters /\ surrogate' = NoSurrogate /\ quantifier' = NoQuantity /\ cjk' = {}
    BY <1>1 DEF SegmentersReset
  <2>3. SegmentersOK(0)'
    BY <2>2 DEF SegmentersOK, RunsBefore, NoLetters, NoSurrogate, NoQuantity, NoRun
  <2> QED
    BY <1>1, <2>1, <2>3 DEF LInv
<1>4. OInv'
  <2>1. Looked' = 0
    BY <1>1 DEF Looked
  <2>2. /\ letter' = NoLetters /\ surrogate' = NoSurrogate /\ quantifier' = NoQuantity /\ cjk' = {}
    BY <1>1 DEF SegmentersReset
  <2>3. OpenOK' /\ letter'.mix = NoRun
    BY <2>2 DEF OpenOK, OpensInText, NoLetters, NoSurrogate, NoQuantity
  <2>4. (<<>> \in Lists(0))'
    BY NothingListed
  <2>5. /\ (orgLexemes \in Lists(Looked))'
        /\ (\A i \in 0..(Looked - 1) : Alphanumeric(i) => Holds(letter.mix, orgLexemes, i))'
    BY <1>1, <2>1, <2>4
  <2> QED
    BY <1>1, <2>3, <2>5 DEF OInv
<1>5. HistoryOK'
  BY <1>1 DEF SegmentersReset, HistoryOK
<1>6. OrderOK' /\ CoverOK'
  BY <1>1 DEF OrderOK, CoverOK, Lined, Loaded
<1>7. EndOK'
  <2>1. ~Loaded' /\ maxConsumedEndPosition' = 0
    BY <1>1 DEF Loaded, EngineReset, Reset, ContextReset
  <2> QED
    BY <2>1 DEF EndOK
<1> QED
  BY <1>2, <1>3, <1>4, <1>5, <1>6, <1>7 DEF EngineInv, EInv

(* A call of the stream is a Reset, with a text that was staged or with    *)
(* none, or what the engine does on its own.                               *)
LEMMA StreamDrivesEngine ==
  ASSUME [TokenizerNext]_tvars
  PROVE  ResetStream \/ [EngineNext]_engine
<1>1. CASE \E text \in LaterInputs : SetReader(text)
  BY <1>1 DEF SetReader
<1>2. CASE Close \/ EndStream \/ UNCHANGED tvars
  BY <1>2 DEF Close, EndStream, tvars
<1>3. CASE IncrementToken \/ ReturnToken \/ ReturnNone \/ ReturnError
  BY <1>3 DEF IncrementToken, ReturnToken, ReturnNone, ReturnError, EngineNext, InsideCall
<1>4. CASE InsideIncrement
  BY <1>4 DEF InsideIncrement, EngineNext, InsideCall
<1>5. CASE ReloadedMeanwhile
  BY <1>5 DEF ReloadedMeanwhile, EngineNext
<1> QED
  BY <1>1, <1>2, <1>3, <1>4, <1>5 DEF TokenizerNext

(* So the stream keeps what the engine keeps.                              *)
LEMMA EngineStreamNext == TInv /\ EngineInv /\ [TokenizerNext]_tvars => EngineInv'
<1> SUFFICES ASSUME TInv, EngineInv, [TokenizerNext]_tvars PROVE EngineInv'
  OBVIOUS
<1>1. CASE ResetStream
  <2> DEFINE text == IF inputPending = <<>> THEN <<>> ELSE Head(inputPending)
  <2>1. text \in Seq(Char)
    BY DEF TInv, StagedIsText
  <2>2. EngineReset(text)
    BY <1>1 DEF ResetStream
  <2> HIDE DEF text
  <2> QED
    BY <2>1, <2>2, ResetStartsOver
<1>2. CASE [EngineNext]_engine
  BY <1>2, EngineInvAlways
<1> QED
  BY <1>1, <1>2, StreamDrivesEngine

(* It holds of the stream throughout.                                      *)
LEMMA EngineStreamAlways == TokenizerSpec => [](TInv /\ EngineInv)
<1>1. TokenizerInit => TInv /\ EngineInv
  BY TokenizerInitEstablishesTInv, EngineInvAlways DEF TokenizerInit
<1>2. (TInv /\ EngineInv) /\ [TokenizerNext]_tvars => (TInv /\ EngineInv)'
  BY TokenizerNextPreservesTInv, EngineStreamNext
<1> QED
  BY <1>1, <1>2, PTL DEF TokenizerSpec

(* However the calls of the stream come, the engine under it keeps what it *)
(* keeps on its own: the order of the tokens, every character that must    *)
(* come out, and what a refill must not cut.                               *)
THEOREM StreamKeepsEngine ==
  TokenizerSpec => [](TokensInOrder /\ CharactersCovered /\ RefillCutsNothing)
<1>1. EngineInv => TokensInOrder
  BY DEF EngineInv, OrderOK, InTurn, TokensInOrder
<1>2. EngineInv => CharactersCovered
  BY DEF EngineInv, CoverOK, CharactersCovered, HandedOut, Awaited, Wanted
<1>3. EngineInv => RefillCutsNothing
  BY NothingOpenIsCut DEF EngineInv, EInv
<1> QED
  BY <1>1, <1>2, <1>3, EngineStreamAlways, PTL

(* Nor does the stream part a surrogate pair: ResetStream leaves nothing   *)
(* of the last text that could, and all else is the engine's.  Smart mode  *)
(* asks of the dictionaries what PairsComeTogether asks of them.           *)
THEOREM StreamKeepsPairs ==
  ASSUME ~UseSmart \/ WordsKeepPairs
  PROVE  TokenizerSpec => []PairsStayTogether
<1> DEFINE Inv == TInv /\ EngineInv /\ PairsInv
<1>1. TokenizerInit => Inv
  BY TokenizerInitEstablishesTInv, EngineInvAlways, PairsInvFacts DEF TokenizerInit
<1>2. Inv /\ [TokenizerNext]_tvars => Inv'
  <2> SUFFICES ASSUME TInv, EngineInv, PairsInv, [TokenizerNext]_tvars PROVE Inv'
    OBVIOUS
  <2>1. TInv' /\ EngineInv'
    BY TokenizerNextPreservesTInv, EngineStreamNext
  <2>2. CASE ResetStream
    <3>1. PICK text : EngineReset(text)
      BY <2>2 DEF ResetStream
    <3>2. LInv' /\ Looked' = 0 /\ orgLexemes' = <<>> /\ pc' # "arbitrate" /\ buffOffset' = 0
      BY <2>1, <3>1 DEF EngineInv, EInv, EngineReset, Reset, ContextReset, Looked
    <3>3. HalvesOK'
      BY <3>2, HalvesBetween
    <3> QED
      BY <2>1, <3>2, <3>3 DEF PairsInv, PairsOK
  <2>3. CASE [EngineNext]_engine
    BY <2>1, <2>3, PairsInvFacts DEF EngineInv
  <2> QED
    BY <2>2, <2>3, StreamDrivesEngine
<1>3. Inv => PairsStayTogether
  BY PairsInvFacts DEF EngineInv
<1> HIDE DEF Inv
<1> QED
  BY <1>1, <1>2, <1>3, PTL DEF TokenizerSpec

(* Nor does it hand out a quantifier apart from the numeral in front of    *)
(* it, in smart mode: a stream that is reset begins with no token.         *)
THEOREM StreamJoinsQuantifiers == TokenizerSpec => []CountsJoined
<1> DEFINE Inv == TInv /\ EngineInv /\ CountsOK
<1>1. CASE ~UseSmart
  <2>1. CountsJoined
    BY <1>1 DEF CountsJoined
  <2> QED
    BY <2>1, PTL
<1>2. CASE UseSmart
  <2>1. TokenizerInit => Inv
    BY TokenizerInitEstablishesTInv, EngineInvAlways, CountsInit DEF TokenizerInit
  <2>2. Inv /\ [TokenizerNext]_tvars => Inv'
    <3> SUFFICES ASSUME TInv, EngineInv, CountsOK, [TokenizerNext]_tvars PROVE Inv'
      OBVIOUS
    <3>1. TInv' /\ EngineInv'
      BY TokenizerNextPreservesTInv, EngineStreamNext
    <3>2. CASE ResetStream
      <4>1. /\ quantifier' = NoQuantity /\ orgLexemes' = <<>> /\ tokens' = <<>>
            /\ Len(<<>>) = 0 /\ ToSet(<<>>) = {}
        BY <3>2 DEF ResetStream, EngineReset, SegmentersReset, ToSet
      <4> QED
        BY <3>1, <4>1 DEF CountsOK, CountsListed, CountsJoined, NoQuantity
    <3>3. CASE [EngineNext]_engine
      BY <1>2, <3>1, <3>3, CountsNext DEF EngineInv, EInv
    <3> QED
      BY <3>2, <3>3, StreamDrivesEngine
  <2>3. Inv => CountsJoined
    BY DEF CountsOK
  <2> HIDE DEF Inv
  <2> QED
    BY <2>1, <2>2, <2>3, PTL DEF TokenizerSpec
<1> QED
  BY <1>1, <1>2

-----------------------------------------------------------------------------
(* Types.                                                                  *)

(* The types of the stream's own variables.                                *)
AttributesOK ==
    /\ term \in Seq(Char)
    /\ startOffset \in Nat /\ endOffset \in Nat /\ positionIncrement \in Nat
    /\ tokenType = DefaultType <=> term = <<>>

StagedOK == inputPending \in Seq(LaterInputs) /\ Len(inputPending) <= 1

PositionsOK == endPosition \in Nat /\ skippedPositions \in Nat

StatesOK == /\ reading \in {"placeholder", "open", "closed"}
            /\ returned \in {"nothing", "token", "none", "none again", "error"}

StreamTypeOK == AttributesOK /\ StagedOK /\ PositionsOK /\ StatesOK

(* The stream starts cleared, with nothing staged.                         *)
LEMMA StreamTypesInit == TokenizerInit => StreamTypeOK
<1> SUFFICES ASSUME TokenizerInit PROVE StreamTypeOK
  OBVIOUS
<1>1. <<>> \in Seq(Char) /\ <<>> \in Seq(LaterInputs) /\ Len(<<>>) = 0
  OBVIOUS
<1> QED
  BY <1>1 DEF TokenizerInit, StreamTypeOK, AttributesOK, StagedOK, PositionsOK, StatesOK

(* What is left alone keeps its type.                                      *)
LEMMA TypesStay ==
  /\ AttributesOK /\ UNCHANGED attributes => AttributesOK'
  /\ StagedOK /\ UNCHANGED inputPending => StagedOK'
  /\ PositionsOK /\ UNCHANGED <<endPosition, skippedPositions>> => PositionsOK'
  /\ StatesOK /\ UNCHANGED <<reading, returned>> => StatesOK'
<1>1. AttributesOK /\ UNCHANGED attributes => AttributesOK'
  BY DEF AttributesOK, attributes
<1>2. StagedOK /\ UNCHANGED inputPending => StagedOK'
  BY DEF StagedOK
<1>3. PositionsOK /\ UNCHANGED <<endPosition, skippedPositions>> => PositionsOK'
  BY DEF PositionsOK
<1>4. StatesOK /\ UNCHANGED <<reading, returned>> => StatesOK'
  BY DEF StatesOK
<1> QED
  BY <1>1, <1>2, <1>3, <1>4

(* The larger of two natural numbers is one.                               *)
LEMMA LargerIsNatural ==
  ASSUME NEW a \in Nat, NEW b \in Nat
  PROVE  Max({a, b}) \in Nat
<1>1. Max({a, b}) \in {a, b}
  BY MaxOfTwo
<1>2. \A x \in {a, b} : x \in Nat
  OBVIOUS
<1> QED
  BY <1>1, <1>2

(* The term of a token is not empty, and its type not the default one.     *)
LEMMA ReturnTokenKeepsTypes ==
  ASSUME StreamTypeOK, CInv, HistoryOK', ReturnToken
  PROVE  StreamTypeOK'
<1> DEFINE l == Head(Compound(results))
<1>1. TakeResult /\ term' = Span(l.begin, l.length) /\ tokenType' = LexemeTypeString(l)
  BY DEF ReturnToken
<1>2. l \in Lexeme /\ l.offset = Origin /\ End(l) <= cursor + 1 /\ Origin \in Nat /\ results # <<>>
  BY <1>1, TakenFacts
<1>3. /\ skippedPositions' = savedSkippedCount' /\ positionIncrement' = skippedPositions' + 1
      /\ startOffset' = BeginPosition(l) /\ endOffset' = EndPosition(l)
      /\ endPosition' = EndPosition(l)
      /\ UNCHANGED <<reading, inputPending>> /\ returned' = "token"
  BY DEF ReturnToken
<1>4. /\ segmentBuff \in [Index -> Char] /\ cursor \in Nat /\ available \in 0..BuffSize
      /\ cursor < available /\ BuffSize \in Nat
  BY <1>2, BufferAssumption DEF CInv, ContextTypeOK, BufferWindow, ReadContiguously
<1> HIDE DEF l
<1>5. l.begin \in Nat /\ l.length \in Nat \ {0} /\ l.offset \in Nat
  BY <1>2 DEF Lexeme
<1>6. term' \in Seq(Char) /\ term' # <<>>
  <2>1. ASSUME NEW i \in 1..l.length PROVE segmentBuff[l.begin + i - 1] \in Char
    <3>1. l.begin + i - 1 \in Index
      BY <1>2, <1>4, <1>5 DEF Index, End
    <3> QED
      BY <1>4, <3>1
  <2>2. PICK n \in Nat : n = l.length /\ n # 0
    BY <1>5
  <2>3. term' = [i \in 1..n |-> segmentBuff[l.begin + i - 1]]
    BY <1>1, <2>2 DEF Span
  <2>4. term' \in [1..n -> Char]
    BY <2>1, <2>2, <2>3
  <2>5. term' \in Seq(Char) /\ Len(term') = n
    BY <2>2, <2>4
  <2> QED
    BY <2>2, <2>5
<1>7. tokenType' # DefaultType
  BY <1>1 DEF LexemeTypeString, DefaultType
<1>8. startOffset' \in Nat /\ endOffset' \in Nat /\ endPosition' \in Nat
  BY <1>3, <1>5 DEF BeginPosition, EndPosition
<1>9. skippedPositions' \in Nat /\ positionIncrement' \in Nat
  <2>1. PICK n \in Nat : n = savedSkippedCount'
    BY DEF HistoryOK
  <2>2. skippedPositions' = n
    BY <1>3, <2>1
  <2>3. positionIncrement' = n + 1
    BY <1>3, <2>2
  <2> QED
    BY <2>2, <2>3
<1>10. AttributesOK'
  BY <1>6, <1>7, <1>8, <1>9 DEF AttributesOK
<1>11. StagedOK'
  BY <1>3, TypesStay DEF StreamTypeOK
<1>12. PositionsOK'
  BY <1>8, <1>9 DEF PositionsOK
<1>13. StatesOK'
  BY <1>3 DEF StreamTypeOK, StatesOK
<1> QED
  BY <1>10, <1>11, <1>12, <1>13 DEF StreamTypeOK

(* End clears the term and the type together.                              *)
LEMMA EndStreamKeepsTypes ==
  ASSUME StreamTypeOK, CInv, HistoryOK, EndStream
  PROVE  StreamTypeOK'
<1>1. /\ savedMaxConsumedEndPosition \in Nat /\ maxConsumedEndPosition \in Nat
      /\ lastUselessCharNum \in Nat /\ endPosition \in Nat /\ skippedPositions \in Nat
  BY DEF HistoryOK, CInv, ContextTypeOK, StreamTypeOK, PositionsOK
<1>2. FurthestConsumed \in Nat
  BY <1>1, LargerIsNatural DEF FurthestConsumed
<1> DEFINE m == Max({endPosition, FurthestConsumed})
<1>3. m \in Nat
  BY <1>1, <1>2, LargerIsNatural
<1>4. /\ endOffset' = m + lastUselessCharNum /\ startOffset' = endOffset'
      /\ positionIncrement' = skippedPositions /\ term' = <<>> /\ tokenType' = DefaultType
      /\ UNCHANGED <<reading, inputPending, endPosition, skippedPositions, returned>>
  BY DEF EndStream
<1> HIDE DEF m
<1>5. startOffset' \in Nat /\ endOffset' \in Nat
  BY <1>1, <1>3, <1>4
<1>6. <<>> \in Seq(Char)
  OBVIOUS
<1>7. AttributesOK'
  BY <1>1, <1>4, <1>5, <1>6 DEF AttributesOK
<1> QED
  BY <1>4, <1>7, TypesStay DEF StreamTypeOK

(* Every call of the stream keeps the types.                               *)
LEMMA StreamTypesNext ==
  ASSUME StreamTypeOK, CInv, HistoryOK, HistoryOK', [TokenizerNext]_tvars
  PROVE  StreamTypeOK'
<1>1. ASSUME NEW text \in LaterInputs, SetReader(text) PROVE StreamTypeOK'
  <2>1. inputPending' = <<text>> /\ UNCHANGED <<reading, attributes, endPosition, skippedPositions, returned>>
    BY <1>1 DEF SetReader
  <2>2. <<text>> \in Seq(LaterInputs) /\ Len(<<text>>) = 1
    OBVIOUS
  <2>3. StagedOK'
    BY <2>1, <2>2 DEF StagedOK
  <2> QED
    BY <2>1, <2>3, TypesStay DEF StreamTypeOK
<1>2. CASE ResetStream \/ Close
  <2>1. /\ inputPending' = <<>> /\ UNCHANGED attributes
        /\ reading' \in {reading, "placeholder", "open", "closed"} /\ returned' \in {returned, "nothing"}
        /\ endPosition' \in {endPosition, 0} /\ skippedPositions' \in {skippedPositions, 0}
    BY <1>2 DEF ResetStream, Close
  <2>2. <<>> \in Seq(LaterInputs) /\ Len(<<>>) = 0
    OBVIOUS
  <2>3. StagedOK'
    BY <2>1, <2>2 DEF StagedOK
  <2>4. StatesOK'
    BY <2>1 DEF StreamTypeOK, StatesOK
  <2>5. PositionsOK'
    BY <2>1 DEF StreamTypeOK, PositionsOK
  <2> QED
    BY <2>1, <2>3, <2>4, <2>5, TypesStay DEF StreamTypeOK
<1>3. CASE IncrementToken
  <2>1. <<>> \in Seq(Char)
    OBVIOUS
  <2>2. AttributesOK'
    BY <1>3, <2>1 DEF IncrementToken, AttributesOK
  <2>3. UNCHANGED <<reading, inputPending, endPosition, skippedPositions, returned>>
    BY <1>3 DEF IncrementToken
  <2> QED
    BY <2>2, <2>3, TypesStay DEF StreamTypeOK
<1>4. CASE ReturnToken
  BY <1>4, ReturnTokenKeepsTypes
<1>5. CASE ReturnNone \/ ReturnError
  <2>1. /\ UNCHANGED <<reading, inputPending, attributes, endPosition, skippedPositions>>
        /\ returned' \in {"none", "none again", "error"}
    BY <1>5 DEF ReturnNone, ReturnError
  <2>2. StatesOK'
    BY <2>1 DEF StreamTypeOK, StatesOK
  <2> QED
    BY <2>1, <2>2, TypesStay DEF StreamTypeOK
<1>6. CASE EndStream
  BY <1>6, EndStreamKeepsTypes
<1>7. CASE InsideIncrement \/ ReloadedMeanwhile \/ UNCHANGED tvars
  <2>1. UNCHANGED stream
    BY <1>7 DEF InsideIncrement, ReloadedMeanwhile, tvars
  <2>2. UNCHANGED <<reading, inputPending, attributes, endPosition, skippedPositions, returned>>
    BY <2>1 DEF stream
  <2> QED
    BY <2>2, TypesStay DEF StreamTypeOK
<1> QED
  BY <1>1, <1>2, <1>3, <1>4, <1>5, <1>6, <1>7 DEF TokenizerNext

(* Every variable of the stream and of the engine under it keeps its type, *)
(* in whatever order the calls come; a token's type is the default one     *)
(* only when it has no term.                                               *)
THEOREM StreamIsTyped == TokenizerSpec => []TokenizerTypeOK
<1>1. TokenizerInit => StreamTypeOK
  BY StreamTypesInit
<1>2. (TInv /\ EngineInv) /\ (TInv /\ EngineInv)' /\ StreamTypeOK /\ [TokenizerNext]_tvars
         => StreamTypeOK'
  BY StreamTypesNext DEF TInv, EngineInv, EInv
<1>3. (TInv /\ EngineInv) /\ StreamTypeOK => TokenizerTypeOK
  BY EInvIsTyped DEF EngineInv, StreamTypeOK, AttributesOK, StagedOK, PositionsOK, StatesOK,
                     TokenizerTypeOK
<1> QED
  BY <1>1, <1>2, <1>3, EngineStreamAlways, PTL DEF TokenizerSpec

-----------------------------------------------------------------------------
(* Position increments.                                                    *)

(* The tokens that are no stop words, and how many stop words came after   *)
(* the last of them.                                                       *)
Kept(ts)     == {k \in DOMAIN ts : ~ts[k].stop}
Trailing(ts) == Len(ts) - Max(Kept(ts) \cup {0})

(* Within a call nothing has been counted for the caller; while results of *)
(* the first buffer wait, the call has counted the stop words since the    *)
(* last token, and between calls there are none.                           *)
CountInv ==
    /\ pc # "idle" => savedSkippedCount = 0
    /\ (results # <<>> /\ Origin = 0) =>
          Trailing(tokens) = IF pc = "poll" THEN lastSkippedCount ELSE 0
    /\ IncrementsCountStopWords

(* A stop word more, and a token.                                          *)
LEMMA TrailingGrows ==
  ASSUME NEW ts \in Seq(Tokens), NEW t \in Tokens
  PROVE  /\ t.stop => Trailing(Append(ts, t)) = Trailing(ts) + 1
         /\ ~t.stop => Trailing(Append(ts, t)) = 0
         /\ {k \in 1..(Len(Append(ts, t)) - 1) : ~Append(ts, t)[k].stop} = Kept(ts)
         /\ Trailing(ts) \in Int /\ Max(Kept(ts) \cup {0}) \in Int
<1> DEFINE u == Append(ts, t)
           n == Len(ts)
<1>1. /\ n \in Nat /\ DOMAIN ts = 1..n /\ DOMAIN u = 1..(n + 1) /\ Len(u) = n + 1
      /\ u[n + 1] = t /\ \A k \in 1..n : u[k] = ts[k]
  OBVIOUS
<1> HIDE DEF u, n
<1>2. {k \in 1..(Len(u) - 1) : ~u[k].stop} = Kept(ts)
  <2>1. Len(u) - 1 = n
    BY <1>1
  <2>2. \A k : k \in {i \in 1..(Len(u) - 1) : ~u[i].stop} <=> k \in Kept(ts)
    BY <1>1, <2>1 DEF Kept
  <2> QED
    BY <2>2
<1> DEFINE S == Kept(ts) \cup {0}
           T == Kept(u) \cup {0}
           m == Max(S)
<1>3. S \subseteq Int /\ 0 \in S /\ \A k \in S : k <= n
  BY <1>1 DEF Kept
<1>4. m \in S
  <2> DEFINE D == {n - x : x \in S}
  <2>1. S \subseteq 0..n /\ 0 \in S
    BY <1>1 DEF Kept
  <2> HIDE DEF S
  <2>2. D \subseteq Nat /\ D # {}
    <3>1. \A x \in S : n - x \in Nat
      BY <1>1, <2>1
    <3>2. n - 0 \in D
      BY <2>1
    <3> QED
      BY <3>1, <3>2
  <2> HIDE DEF D
  <2>3. PICK d \in D : \A y \in D : d <= y
    BY <2>2, LeastNumber
  <2>4. PICK x \in S : d = n - x
    BY DEF D
  <2>5. ASSUME NEW y \in S PROVE x >= y
    <3>1. n - y \in D
      BY DEF D
    <3> QED
      BY <1>1, <2>1, <2>3, <2>4, <3>1
  <2> QED
    BY <2>5 DEF Max
<1>5. m \in Int
  BY <1>3, <1>4
<1>6. ASSUME t.stop PROVE T = S
  <2>1. \A k : k \in Kept(u) <=> k \in Kept(ts)
    BY <1>1, <1>6 DEF Kept
  <2> QED
    BY <2>1
<1>7. ASSUME ~t.stop PROVE Max(T) = n + 1
  <2>1. n + 1 \in T /\ \A k \in T : k \in Int /\ k <= n + 1
    BY <1>1, <1>7 DEF Kept
  <2> HIDE DEF T
  <2>2. \A x \in T : (\A y \in T : x >= y) => x = n + 1
    BY <1>1, <2>1
  <2>3. \A y \in T : n + 1 >= y
    BY <1>1, <2>1
  <2> QED
    BY <2>1, <2>2, <2>3 DEF Max
<1>8. Trailing(ts) = n - m /\ Trailing(u) = Len(u) - Max(T)
  BY Zenon DEF Trailing, n
<1>9. t.stop => Max(T) = m
  BY <1>6, Zenon DEF m
<1> HIDE DEF S, T, m
<1>10. /\ t.stop => Trailing(u) = Trailing(ts) + 1
       /\ ~t.stop => Trailing(u) = 0
       /\ Trailing(ts) \in Int /\ m \in Int
  <2>1. ASSUME t.stop PROVE Trailing(u) = Trailing(ts) + 1
    BY <1>1, <1>5, <1>8, <1>9, <2>1
  <2>2. ASSUME ~t.stop PROVE Trailing(u) = 0
    BY <1>1, <1>7, <1>8, <2>2
  <2> QED
    BY <1>1, <1>5, <1>8, <2>1, <2>2
<1> QED
  BY <1>2, <1>10 DEF u, m, S

(* The counts of a token that is returned.                                 *)
LEMMA TakeResultCounts ==
  ASSUME CInv, HistoryOK, CountInv, TakeResult
  PROVE  /\ pc = "poll" /\ results # <<>> /\ Origin' = Origin
         /\ pc' \in {"poll", "idle"} /\ savedSkippedCount = 0
         /\ pc' = "poll" => savedSkippedCount' = 0
         /\ Origin = 0 => Trailing(tokens)' = IF pc' = "poll" THEN lastSkippedCount' ELSE 0
         /\ (Origin = 0 /\ pc' = "idle") =>
               /\ savedSkippedCount' = Trailing(tokens)
               /\ {k \in 1..(Len(tokens') - 1) : ~tokens'[k].stop} = Kept(tokens)
               /\ savedSkippedCount' + 1 = Len(tokens') - Max(Kept(tokens) \cup {0})
<1> DEFINE l == Head(Compound(results))
           stop == IsStopWord(l.begin, l.length)
           t == [begin |-> BeginPosition(l), end |-> EndPosition(l),
                 lexemeType |-> l.lexemeType, stop |-> stop]
<1>1. /\ results # <<>> /\ l \in Lexeme /\ pc = "poll" /\ pc' \in {"poll", "idle"}
      /\ UNCHANGED <<reader, buffer>>
  BY TakenFacts
<1>2. /\ tokens' = Append(tokens, t)
      /\ lastSkippedCount' = IF stop THEN lastSkippedCount + 1 ELSE lastSkippedCount
      /\ pc' = IF stop THEN "poll" ELSE "idle"
      /\ savedSkippedCount' = IF stop THEN savedSkippedCount
                              ELSE savedSkippedCount + lastSkippedCount
  BY DEF TakeResult, Consume
<1>3. stop \in BOOLEAN
  BY DEF IsStopWord, IsMatch
<1> HIDE DEF l, stop
<1>4. t \in Tokens /\ t.stop = stop
  <2>1. l.offset \in Nat /\ l.begin \in Nat /\ l.length \in Nat /\ l.lexemeType \in LexemeType
    BY <1>1 DEF Lexeme
  <2>2. BeginPosition(l) \in Nat /\ EndPosition(l) \in Nat
    BY <2>1 DEF BeginPosition, EndPosition
  <2> QED
    BY <1>3, <2>1, <2>2 DEF Tokens
<1> HIDE DEF t
<1>5. tokens \in Seq(Tokens) /\ Len(tokens') = Len(tokens) + 1
  BY <1>2, <1>4 DEF HistoryOK
<1>6. /\ stop => Trailing(tokens') = Trailing(tokens) + 1
      /\ ~stop => Trailing(tokens') = 0
      /\ {k \in 1..(Len(tokens') - 1) : ~tokens'[k].stop} = Kept(tokens)
      /\ Trailing(tokens) \in Int /\ Max(Kept(tokens) \cup {0}) \in Int
  <2>1. tokens \in Seq(Tokens)
    BY DEF HistoryOK
  <2> QED
    BY <1>2, <1>4, <2>1, TrailingGrows
<1>7. Trailing(tokens)' = Trailing(tokens')
  BY DEF Trailing, Kept
<1>8. savedSkippedCount = 0 /\ (Origin = 0 => Trailing(tokens) = lastSkippedCount)
  BY <1>1 DEF CountInv
<1>9. Origin' = Origin
  BY <1>1 DEF Origin, buffer
<1>10. lastSkippedCount \in Nat
  BY DEF CInv, ContextTypeOK
<1>11. CASE stop
  BY <1>1, <1>2, <1>5, <1>6, <1>7, <1>8, <1>9, <1>10, <1>11
<1>12. CASE ~stop
  <2>1. Origin = 0 => savedSkippedCount' = Trailing(tokens)
    BY <1>2, <1>8, <1>10, <1>12
  <2> DEFINE m == Max(Kept(tokens) \cup {0})
  <2>2. Trailing(tokens) = Len(tokens) - m
    BY DEF Trailing
  <2>3. m \in Int /\ Len(tokens) \in Nat
    BY <1>5, <1>6 DEF HistoryOK
  <2> HIDE DEF m
  <2>4. Origin = 0 => savedSkippedCount' + 1 = Len(tokens') - m
    BY <1>5, <2>1, <2>2, <2>3
  <2> QED
    BY <1>1, <1>2, <1>5, <1>6, <1>7, <1>8, <1>9, <1>10, <1>12, <2>1, <2>4 DEF m
<1> QED
  BY <1>3, <1>11, <1>12

(* Every call of the stream keeps the counts.                              *)
LEMMA CountNext ==
  ASSUME TInv, EngineInv, CountInv, [TokenizerNext]_tvars
  PROVE  CountInv'
<1>0. CInv /\ HistoryOK /\ OrderOK
  BY DEF EngineInv, EInv
<1>1. CASE \/ \E text \in LaterInputs : SetReader(text)
           \/ Close \/ ReloadedMeanwhile \/ UNCHANGED tvars
  <2>1. UNCHANGED <<pc, results, buffOffset, cursor, savedSkippedCount, tokens, lastSkippedCount>>
    BY <1>1 DEF SetReader, Close, ReloadedMeanwhile, DictionaryReloaded, tvars, stream, engine,
                cvars, saved, history, buffer, tallies
  <2>2. UNCHANGED <<returned, term, positionIncrement>>
    BY <1>1 DEF SetReader, Close, ReloadedMeanwhile, tvars, stream, attributes
  <2> QED
    BY <2>1, <2>2 DEF CountInv, IncrementsCountStopWords, Origin, Trailing, Kept
<1>2. CASE EndStream
  <2>1. UNCHANGED <<pc, results, buffOffset, cursor, savedSkippedCount, tokens, lastSkippedCount>>
    BY <1>2 DEF EndStream, engine, cvars, saved, history, buffer, tallies
  <2>2. term' = <<>>
    BY <1>2 DEF EndStream
  <2> QED
    BY <2>1, <2>2 DEF CountInv, IncrementsCountStopWords, Origin, Trailing, Kept
<1>3. CASE ResetStream
  <2>1. pc = "idle" /\ pc' = pc /\ results' = <<>> /\ returned' = "nothing"
    BY <1>3 DEF ResetStream, EngineReset, Reset, ContextReset
  <2> QED
    BY <2>1 DEF CountInv, IncrementsCountStopWords
<1>4. CASE IncrementToken
  <2>1. /\ pc = "idle" /\ pc' = "poll" /\ savedSkippedCount' = 0 /\ lastSkippedCount' = 0
        /\ UNCHANGED <<results, buffOffset, cursor, tokens>>
    BY <1>4 DEF IncrementToken, NextCalled, CallNext, history, buffer
  <2> QED
    BY <2>1 DEF CountInv, IncrementsCountStopWords, Origin, Trailing, Kept
<1>5. CASE ReturnToken
  <2>1. TakeResult /\ pc' = "idle" /\ positionIncrement' = savedSkippedCount' + 1
    BY <1>5 DEF ReturnToken
  <2>2. /\ Origin' = Origin
        /\ Origin = 0 => /\ Trailing(tokens)' = 0
                         /\ savedSkippedCount' = Trailing(tokens)
                         /\ {k \in 1..(Len(tokens') - 1) : ~tokens'[k].stop} = Kept(tokens)
                         /\ savedSkippedCount' + 1 = Len(tokens') - Max(Kept(tokens) \cup {0})
    BY <1>0, <2>1, TakeResultCounts
  <2>3. Origin = 0 => positionIncrement' = Len(tokens') - Max(Kept(tokens) \cup {0})
    BY <2>1, <2>2
  <2>4. IncrementsCountStopWords'
    BY <2>2, <2>3 DEF IncrementsCountStopWords
  <2> QED
    BY <2>1, <2>2, <2>4 DEF CountInv
<1>6. CASE ReturnNone \/ ReturnError
  <2>1. pc' = "idle" /\ results' = <<>> /\ returned' # "token"
    <3>1. CASE ReturnNone
      BY <3>1 DEF ReturnNone, Exhausted, EndOfInput, ContextReset
    <3>2. CASE ReturnError
      BY <1>0, <3>2 DEF ReturnError, FillFails, ReadFails, CInv, BufferWindow, NoResultsWhileFilling
    <3> QED
      BY <1>6, <3>1, <3>2
  <2> QED
    BY <2>1 DEF CountInv, IncrementsCountStopWords
<1>7. CASE InsideIncrement
  <2>1. CASE TakeResult /\ pc' = "poll"
    <3>1. /\ Origin' = Origin /\ savedSkippedCount' = 0
          /\ Origin = 0 => Trailing(tokens)' = lastSkippedCount'
      BY <1>0, <2>1, TakeResultCounts
    <3> QED
      BY <2>1, <3>1 DEF CountInv, IncrementsCountStopWords
  <2>2. CASE NoMoreResults
    <3>1. pc = "poll" /\ results' = <<>> /\ pc' = "fill" /\ UNCHANGED savedSkippedCount
      BY <2>2 DEF NoMoreResults, NoResult, saved
    <3> QED
      BY <3>1 DEF CountInv, IncrementsCountStopWords
  <2>3. ASSUME NEW n \in ReadCounts, FillBuffer(n) PROVE CountInv'
    <3>1. pc = "fill" /\ results' = results /\ pc' = "analyze" /\ UNCHANGED savedSkippedCount
      BY <2>3 DEF FillBuffer, Fill, saved
    <3>2. results = <<>>
      BY <1>0, <3>1 DEF CInv, BufferWindow, NoResultsWhileFilling
    <3> QED
      BY <3>1, <3>2 DEF CountInv, IncrementsCountStopWords
  <2>4. CASE AnalyzeCharacter
    <3>1. PICK locks : Analyze(locks) /\ UNCHANGED saved
      BY <2>4 DEF AnalyzeCharacter
    <3>2. /\ pc = "analyze" /\ results' = results /\ pc' \in {"analyze", "arbitrate"}
          /\ UNCHANGED savedSkippedCount
      BY <3>1 DEF Analyze, saved
    <3>3. results = <<>>
      BY <1>0, <3>2 DEF CInv, BufferWindow, NoResultsWhileFilling
    <3> QED
      BY <3>2, <3>3 DEF CountInv, IncrementsCountStopWords
  <2>5. CASE Arbitrate
    <3>1. /\ pc = "arbitrate" /\ pc' = "poll" /\ buffOffset' = buffOffset + cursor + 1
          /\ lastSkippedCount' = 0 /\ UNCHANGED <<cursor, tokens, savedSkippedCount>>
      BY <2>5 DEF Arbitrate, Output, saved
    <3>2. cursor \in Nat /\ buffOffset \in Nat
      BY <1>0 DEF CInv, ContextTypeOK
    <3>3. Origin' = buffOffset
      BY <3>1, <3>2 DEF Origin
    <3>4. buffOffset = 0 => tokens = <<>>
      <4> SUFFICES ASSUME buffOffset = 0, tokens # <<>> PROVE FALSE
        OBVIOUS
      <4>1. 1 \in DOMAIN tokens /\ tokens[1] \in Tokens
        BY <1>0 DEF HistoryOK
      <4>2. tokens[1].begin < tokens[1].end /\ tokens[1].end <= 0 /\ tokens[1].begin \in Nat
        BY <1>0, <3>1, <4>1 DEF OrderOK, Loaded, Tokens
      <4> QED
        BY <4>1, <4>2 DEF Tokens
    <3>5. Trailing(<<>>) = 0
      <4>1. Kept(<<>>) \cup {0} = {0}
        BY DEF Kept
      <4>2. Max({0}) = 0
        BY DEF Max
      <4>3. Max(Kept(<<>>) \cup {0}) = 0
        BY <4>1, <4>2, Zenon
      <4> QED
        BY <4>3 DEF Trailing
    <3>6. Origin' = 0 => Trailing(tokens)' = 0
      <4> SUFFICES ASSUME Origin' = 0 PROVE Trailing(tokens)' = 0
        OBVIOUS
      <4>1. tokens' = <<>>
        BY <3>1, <3>3, <3>4
      <4>2. Trailing(tokens)' = Trailing(tokens')
        BY DEF Trailing, Kept
      <4> QED
        BY <3>5, <4>1, <4>2
    <3> QED
      BY <3>1, <3>6 DEF CountInv, IncrementsCountStopWords
  <2> QED
    BY <1>7, <2>1, <2>2, <2>3, <2>4, <2>5 DEF InsideIncrement
<1> QED
  BY <1>1, <1>2, <1>3, <1>4, <1>5, <1>6, <1>7 DEF TokenizerNext

(* A token advances one position, and one more for every stop word that    *)
(* was dropped since the token before it, in what the first buffer held    *)
(* (ik_tokenizer.go:54-56), in whatever order the calls come.              *)
THEOREM StopWordsAreCounted == TokenizerSpec => []IncrementsCountStopWords
<1>1. TokenizerInit => CountInv
  BY DEF TokenizerInit, EngineInit, ContextInit, CountInv, IncrementsCountStopWords
<1>2. (TInv /\ EngineInv) /\ CountInv /\ [TokenizerNext]_tvars => CountInv'
  BY CountNext
<1>3. CountInv => IncrementsCountStopWords
  BY DEF CountInv
<1> QED
  BY <1>1, <1>2, <1>3, EngineStreamAlways, PTL DEF TokenizerSpec

-----------------------------------------------------------------------------
(* Terms and strings.                                                      *)

(* The numbers that are code points, surrogates included.                  *)
CodePoint == {r \in Nat : r < CodePoints}

(* How many bytes a code point has, and which.                             *)
LEMMA BytesByLength ==
  ASSUME NEW r \in CodePoint
  PROVE  /\ r < 128 => Bytes(r) = <<r>>
         /\ r >= 128 /\ r < 2048 => Bytes(r) = <<192 + (r \div 64), 128 + (r % 64)>>
         /\ r >= 2048 /\ r < 65536 =>
               Bytes(r) = <<224 + (r \div 4096), 128 + ((r \div 64) % 64), 128 + (r % 64)>>
         /\ r >= 65536 =>
               Bytes(r) = <<240 + ((r \div 4096) \div 64), 128 + ((r \div 4096) % 64),
                            128 + ((r \div 64) % 64), 128 + (r % 64)>>
<1>1. r \in Nat /\ r \div 1 = r
  BY DEF CodePoint
<1> QED
  BY <1>1 DEF Bytes

(* The digits of a code point to the base 64.                              *)
LEMMA Digits ==
  ASSUME NEW r \in CodePoint
  PROVE  /\ r \in Nat
         /\ r % 64 \in 0..63 /\ (r \div 64) % 64 \in 0..63 /\ (r \div 4096) % 64 \in 0..63
         /\ r >= 128 /\ r < 2048 => r \div 64 \in 2..31
         /\ r >= 2048 /\ r < 65536 => r \div 4096 \in 0..15
         /\ (r \div 4096) \div 64 \in 0..4
         /\ r = ((r \div 64) * 64) + (r % 64)
         /\ r \div 64 = ((r \div 4096) * 64) + ((r \div 64) % 64)
         /\ r \div 4096 = (((r \div 4096) \div 64) * 64) + ((r \div 4096) % 64)
BY DEF CodePoint, CodePoints

(* They are bytes, at least one and at most four.                          *)
LEMMA BytesAreBytes ==
  ASSUME NEW r \in CodePoint
  PROVE  Bytes(r) \in Seq(Byte) /\ Len(Bytes(r)) \in 1..4
<1>1. /\ r \in Nat /\ r \in CodePoint
      /\ r % 64 \in 0..63 /\ (r \div 64) % 64 \in 0..63 /\ (r \div 4096) % 64 \in 0..63
  BY Digits
<1> DEFINE a == 128 + (r % 64)
           b == 128 + ((r \div 64) % 64)
           c == 128 + ((r \div 4096) % 64)
<1>2. a \in Byte /\ b \in Byte /\ c \in Byte
  BY <1>1 DEF Byte
<1>3. CASE r < 128
  <2>1. Bytes(r) = <<r>> /\ r \in Byte
    BY <1>1, <1>3, BytesByLength DEF Byte
  <2> QED
    BY <2>1
<1>4. CASE r >= 128 /\ r < 2048
  <2> DEFINE h == 192 + (r \div 64)
  <2>1. Bytes(r) = <<h, a>>
    BY <1>1, <1>4, BytesByLength
  <2>2. h \in Byte
    BY <1>1, <1>4 DEF Byte
  <2> HIDE DEF a, h
  <2> QED
    BY <1>2, <2>1, <2>2
<1>5. CASE r >= 2048 /\ r < 65536
  <2> DEFINE h == 224 + (r \div 4096)
  <2>1. Bytes(r) = <<h, b, a>>
    BY <1>1, <1>5, BytesByLength
  <2>2. h \in Byte
    BY <1>1, <1>5 DEF Byte
  <2> HIDE DEF a, b, h
  <2> QED
    BY <1>2, <2>1, <2>2
<1>6. CASE r >= 65536
  <2> DEFINE h == 240 + ((r \div 4096) \div 64)
  <2>1. Bytes(r) = <<h, c, b, a>>
    BY <1>1, <1>6, BytesByLength
  <2>2. h \in Byte
    BY Digits DEF Byte
  <2> HIDE DEF a, b, c, h
  <2> QED
    BY <1>2, <2>1, <2>2
<1> QED
  BY <1>1, <1>3, <1>4, <1>5, <1>6

(* The size a first byte announces, the digit it carries, and what a       *)
(* further byte makes of the digits before it.                             *)
Announced(s, i) == IF s[i] < 128 THEN 1 ELSE IF s[i] < 224 THEN 2
                   ELSE IF s[i] < 240 THEN 3 ELSE 4
FirstDigit(s, i) == s[i] % (<<128, 32, 16, 8>>[Announced(s, i)])
Shifted(s, i, x, k) == x * 64 + (s[i + k - 1] % 64)

(* v is what the bytes come to one after the other.                        *)
Digested(s, i, size, lead, v) ==
    \A k \in 1..size : v[k] = IF k = 1 THEN lead ELSE Shifted(s, i, v[k - 1], k)

(* The recurrence has one solution.                                        *)
LEMMA SameDigits ==
  ASSUME NEW s, NEW i, NEW size \in 1..4, NEW lead, NEW v, NEW w,
         Digested(s, i, size, lead, v), Digested(s, i, size, lead, w)
  PROVE  \A k \in 1..size : v[k] = w[k]
<1>1. /\ 1 \in 1..size => v[1] = lead
      /\ 2 \in 1..size => v[2] = Shifted(s, i, v[1], 2)
      /\ 3 \in 1..size => v[3] = Shifted(s, i, v[2], 3)
      /\ 4 \in 1..size => v[4] = Shifted(s, i, v[3], 4)
  BY DEF Digested
<1>2. /\ 1 \in 1..size => w[1] = lead
      /\ 2 \in 1..size => w[2] = Shifted(s, i, w[1], 2)
      /\ 3 \in 1..size => w[3] = Shifted(s, i, w[2], 3)
      /\ 4 \in 1..size => w[4] = Shifted(s, i, w[3], 4)
  BY DEF Digested
<1> QED
  BY <1>1, <1>2

(* The code point v comes to, if it is one that is written so.             *)
Made(s, i, size, v) ==
    {[rune |-> v[n], size |-> n] :
        n \in {n \in {size} : /\ i + n - 1 <= Len(s) /\ v[n] < CodePoints
                              /\ Bytes(v[n]) = SubSeq(s, i, i + n - 1)}}

(* What is read at i when the recurrence over the bytes there has a        *)
(* solution.                                                               *)
LEMMA RunesOfSize ==
  ASSUME NEW s, NEW i, NEW size \in 1..4,
         size = Announced(s, i),
         NEW v, v = [k \in 1..size |-> v[k]], v[1] = FirstDigit(s, i),
         \A k \in 2..size : v[k] = Shifted(s, i, v[k - 1], k)
  PROVE  RunesAt(s, i) = Made(s, i, size, v)
<1> DEFINE lead == FirstDigit(s, i)
           Eq(g) == g = [k \in 1..size |-> IF k = 1 THEN lead ELSE Shifted(s, i, g[k - 1], k)]
           value == CHOOSE g : Eq(g)
<1>1. v[1] = lead /\ \A k \in 2..size : v[k] = Shifted(s, i, v[k - 1], k)
  OBVIOUS
<1>4. RunesAt(s, i) = Made(s, i, size, value)
  BY DEF Made, RunesAt, Shifted, FirstDigit, Announced
<1>5. \A k \in 1..size : k # 1 => k \in 2..size
  OBVIOUS
<1> HIDE DEF lead
<1>2. Eq(v)
  <2>1. \A k \in 1..size : v[k] = IF k = 1 THEN lead ELSE Shifted(s, i, v[k - 1], k)
    BY <1>1, <1>5
  <2> QED
    BY <2>1
<1>3. value = v
  <2>1. Eq(value)
    <3> HIDE DEF Eq
    <3> QED
      BY <1>2
  <2> HIDE DEF value
  <2>2. Digested(s, i, size, lead, value)
    BY <2>1 DEF Digested
  <2>3. Digested(s, i, size, lead, v)
    BY <1>2 DEF Digested
  <2>4. value = [k \in 1..size |-> value[k]]
    BY <2>1
  <2> HIDE DEF Eq
  <2>9. \A k \in 1..size : value[k] = v[k]
    BY <2>2, <2>3, SameDigits
  <2> QED
    BY <2>4, <2>9
<1> HIDE DEF value
<1> QED
  BY <1>3, <1>4

(* What is read where the bytes of a code point stand.                     *)
LEMMA RunesFound ==
  ASSUME NEW s \in Seq(Byte), NEW i \in 1..Len(s), NEW r \in CodePoint,
         i + Len(Bytes(r)) - 1 <= Len(s),
         \A k \in 1..Len(Bytes(r)) : s[i + k - 1] = Bytes(r)[k]
  PROVE  RunesAt(s, i) = {[rune |-> r, size |-> Len(Bytes(r))]}
<1> DEFINE size == Len(Bytes(r))
           a == 128 + (r % 64)
           b == 128 + ((r \div 64) % 64)
           c == 128 + ((r \div 4096) % 64)
           Right(v) == /\ v = [k \in 1..size |-> v[k]] /\ v[1] = FirstDigit(s, i)
                       /\ \A k \in 2..size : v[k] = Shifted(s, i, v[k - 1], k)
                       /\ v[size] = r
<1>1. /\ r \in Nat /\ r < CodePoints /\ size \in 1..4 /\ i \in Nat
      /\ r % 64 \in 0..63 /\ (r \div 64) % 64 \in 0..63 /\ (r \div 4096) % 64 \in 0..63
      /\ a % 64 = r % 64 /\ b % 64 = (r \div 64) % 64 /\ c % 64 = (r \div 4096) % 64
  BY Digits, BytesAreBytes DEF CodePoint
<1>2. Bytes(r) = SubSeq(s, i, i + size - 1)
  <2>1. Bytes(r) \in Seq(Byte) /\ i + size - 1 \in Int
    BY <1>1, BytesAreBytes
  <2>2. \A j \in i..(i + size - 1) : s[j] \in Byte
    BY <1>1
  <2> DEFINE t == SubSeq(s, i, i + size - 1)
  <2>3. /\ t \in Seq(Byte) /\ Len(t) = size
        /\ \A k \in 1..size : t[k] = s[i + k - 1]
    BY <1>1, <2>1, <2>2, SubSeqProperties
  <2> HIDE DEF t
  <2>4. t = Bytes(r)
    BY <2>1, <2>3, SeqEqual
  <2> QED
    BY <2>4 DEF t
<1>3. size = Announced(s, i) /\ \E v : Right(v)
  <2>1. CASE r < 128
    <3> DEFINE h == r
           v == <<r>>
    <3>1. Bytes(r) = <<h>>
      BY <1>1, <2>1, BytesByLength
    <3>2. size = 1
      BY <3>1
    <3>3. s[i] = h
      <4> DEFINE z == Bytes(r)
      <4>1. \A k \in 1..1 : s[i + k - 1] = z[k]
        BY <3>2
      <4>2. z = <<h>>
        BY <3>1
      <4> HIDE DEF z, a, b, c, h
      <4>3. z[1] = h
        BY <4>2
      <4>4. s[i + 1 - 1] = z[1]
        BY <4>1
      <4>5. i + 1 - 1 = i
        BY <1>1
      <4> QED
        BY <4>3, <4>4, <4>5
    <3>4. h \in Nat /\ h < 128 /\ h % 128 = r
      BY <1>1, <2>1, Digits
    <3>5. Announced(s, i) = 1 /\ FirstDigit(s, i) = r
      <4> HIDE DEF a, b, c, h
      <4>1. Announced(s, i) = 1
        BY <3>3, <3>4 DEF Announced
      <4>2. <<128, 32, 16, 8>>[1] = 128
        OBVIOUS
      <4>3. FirstDigit(s, i) = h % 128
        BY <3>3, <4>1, <4>2 DEF FirstDigit
      <4> QED
        BY <3>4, <4>1, <4>3
    <3>8. Right(v)
      <4> HIDE DEF a, b, c, h
      <4>1. v = [k \in 1..1 |-> v[k]] /\ v[1] = r
        OBVIOUS
      <4> HIDE DEF v
      <4> QED
        BY <3>2, <3>5, <4>1
    <3> HIDE DEF v, Right
    <3> QED
      BY <3>2, <3>5, <3>8
  <2>2. CASE r >= 128 /\ r < 2048
    <3> DEFINE h == 192 + (r \div 64)
           v == <<(r \div 64), r>>
    <3>1. Bytes(r) = <<h, a>>
      BY <1>1, <2>2, BytesByLength
    <3>2. size = 2
      BY <3>1
    <3>3. s[i] = h /\ s[i + 1] = a
      <4> DEFINE z == Bytes(r)
      <4>1. \A k \in 1..2 : s[i + k - 1] = z[k]
        BY <3>2
      <4>2. z = <<h, a>>
        BY <3>1
      <4> HIDE DEF z, a, b, c, h
      <4>3. z[1] = h /\ z[2] = a
        BY <4>2
      <4>4. s[i + 1 - 1] = z[1] /\ s[i + 2 - 1] = z[2]
        BY <4>1
      <4>5. i + 1 - 1 = i /\ i + 2 - 1 = i + 1
        BY <1>1
      <4> QED
        BY <4>3, <4>4, <4>5
    <3>4. h \in Nat /\ h >= 128 /\ h < 224 /\ h % 32 = (r \div 64)
      BY <1>1, <2>2, Digits
    <3>5. Announced(s, i) = 2 /\ FirstDigit(s, i) = (r \div 64)
      <4> HIDE DEF a, b, c, h
      <4>1. Announced(s, i) = 2
        BY <3>3, <3>4 DEF Announced
      <4>2. <<128, 32, 16, 8>>[2] = 32
        OBVIOUS
      <4>3. FirstDigit(s, i) = h % 32
        BY <3>3, <4>1, <4>2 DEF FirstDigit
      <4> QED
        BY <3>4, <4>1, <4>3
    <3>6. i + 2 - 1 = i + 1
      BY <1>1
    <3>7. /\ Shifted(s, i, (r \div 64), 2) = r
      <4>1. /\ r = ((r \div 64) * 64) + (r % 64)
            /\ r \div 64 = ((r \div 4096) * 64) + ((r \div 64) % 64)
            /\ r \div 4096 = (((r \div 4096) \div 64) * 64) + ((r \div 4096) % 64)
        BY Digits
      <4> HIDE DEF a, b, c, h
      <4> QED
        BY <1>1, <3>3, <3>6, <4>1 DEF Shifted
    <3>8. Right(v)
      <4> HIDE DEF a, b, c, h
      <4>1. v = [k \in 1..2 |-> v[k]] /\ v[1] = (r \div 64) /\ v[2] = r
        OBVIOUS
      <4> HIDE DEF v
      <4>2. ASSUME NEW k \in 2..2 PROVE v[k] = Shifted(s, i, v[k - 1], k)
        <5>2. CASE k = 2
          <6>1. k - 1 = 1
            BY <5>2
          <6> QED
            BY <3>7, <4>1, <5>2, <6>1
        <5> QED
          BY <5>2
      <4> QED
        BY <3>2, <3>5, <4>1, <4>2
    <3> HIDE DEF v, Right
    <3> QED
      BY <3>2, <3>5, <3>8
  <2>3. CASE r >= 2048 /\ r < 65536
    <3> DEFINE h == 224 + (r \div 4096)
           v == <<(r \div 4096), (r \div 64), r>>
    <3>1. Bytes(r) = <<h, b, a>>
      BY <1>1, <2>3, BytesByLength
    <3>2. size = 3
      BY <3>1
    <3>3. s[i] = h /\ s[i + 1] = b /\ s[i + 2] = a
      <4> DEFINE z == Bytes(r)
      <4>1. \A k \in 1..3 : s[i + k - 1] = z[k]
        BY <3>2
      <4>2. z = <<h, b, a>>
        BY <3>1
      <4> HIDE DEF z, a, b, c, h
      <4>3. z[1] = h /\ z[2] = b /\ z[3] = a
        BY <4>2
      <4>4. s[i + 1 - 1] = z[1] /\ s[i + 2 - 1] = z[2] /\ s[i + 3 - 1] = z[3]
        BY <4>1
      <4>5. i + 1 - 1 = i /\ i + 2 - 1 = i + 1 /\ i + 3 - 1 = i + 2
        BY <1>1
      <4> QED
        BY <4>3, <4>4, <4>5
    <3>4. h \in Nat /\ h >= 224 /\ h < 240 /\ h % 16 = (r \div 4096)
      BY <1>1, <2>3, Digits
    <3>5. Announced(s, i) = 3 /\ FirstDigit(s, i) = (r \div 4096)
      <4> HIDE DEF a, b, c, h
      <4>1. Announced(s, i) = 3
        BY <3>3, <3>4 DEF Announced
      <4>2. <<128, 32, 16, 8>>[3] = 16
        OBVIOUS
      <4>3. FirstDigit(s, i) = h % 16
        BY <3>3, <4>1, <4>2 DEF FirstDigit
      <4> QED
        BY <3>4, <4>1, <4>3
    <3>6. i + 2 - 1 = i + 1 /\ i + 3 - 1 = i + 2
      BY <1>1
    <3>7. /\ Shifted(s, i, (r \div 4096), 2) = (r \div 64)
          /\ Shifted(s, i, (r \div 64), 3) = r
      <4>1. /\ r = ((r \div 64) * 64) + (r % 64)
            /\ r \div 64 = ((r \div 4096) * 64) + ((r \div 64) % 64)
            /\ r \div 4096 = (((r \div 4096) \div 64) * 64) + ((r \div 4096) % 64)
        BY Digits
      <4> HIDE DEF a, b, c, h
      <4> QED
        BY <1>1, <3>3, <3>6, <4>1 DEF Shifted
    <3>8. Right(v)
      <4> HIDE DEF a, b, c, h
      <4>1. v = [k \in 1..3 |-> v[k]] /\ v[1] = (r \div 4096) /\ v[2] = (r \div 64) /\ v[3] = r
        OBVIOUS
      <4> HIDE DEF v
      <4>2. ASSUME NEW k \in 2..3 PROVE v[k] = Shifted(s, i, v[k - 1], k)
        <5>2. CASE k = 2
          <6>1. k - 1 = 1
            BY <5>2
          <6> QED
            BY <3>7, <4>1, <5>2, <6>1
        <5>3. CASE k = 3
          <6>1. k - 1 = 2
            BY <5>3
          <6> QED
            BY <3>7, <4>1, <5>3, <6>1
        <5> QED
          BY <5>2, <5>3
      <4> QED
        BY <3>2, <3>5, <4>1, <4>2
    <3> HIDE DEF v, Right
    <3> QED
      BY <3>2, <3>5, <3>8
  <2>4. CASE r >= 65536
    <3> DEFINE h == 240 + ((r \div 4096) \div 64)
           v == <<((r \div 4096) \div 64), (r \div 4096), (r \div 64), r>>
    <3>1. Bytes(r) = <<h, c, b, a>>
      BY <1>1, <2>4, BytesByLength
    <3>2. size = 4
      BY <3>1
    <3>3. s[i] = h /\ s[i + 1] = c /\ s[i + 2] = b /\ s[i + 3] = a
      <4> DEFINE z == Bytes(r)
      <4>1. \A k \in 1..4 : s[i + k - 1] = z[k]
        BY <3>2
      <4>2. z = <<h, c, b, a>>
        BY <3>1
      <4> HIDE DEF z, a, b, c, h
      <4>3. z[1] = h /\ z[2] = c /\ z[3] = b /\ z[4] = a
        BY <4>2
      <4>4. s[i + 1 - 1] = z[1] /\ s[i + 2 - 1] = z[2] /\ s[i + 3 - 1] = z[3] /\ s[i + 4 - 1] = z[4]
        BY <4>1
      <4>5. i + 1 - 1 = i /\ i + 2 - 1 = i + 1 /\ i + 3 - 1 = i + 2 /\ i + 4 - 1 = i + 3
        BY <1>1
      <4> QED
        BY <4>3, <4>4, <4>5
    <3>4. h \in Nat /\ h >= 240 /\ h % 8 = ((r \div 4096) \div 64)
      BY <1>1, <2>4, Digits
    <3>5. Announced(s, i) = 4 /\ FirstDigit(s, i) = ((r \div 4096) \div 64)
      <4> HIDE DEF a, b, c, h
      <4>1. Announced(s, i) = 4
        BY <3>3, <3>4 DEF Announced
      <4>2. <<128, 32, 16, 8>>[4] = 8
        OBVIOUS
      <4>3. FirstDigit(s, i) = h % 8
        BY <3>3, <4>1, <4>2 DEF FirstDigit
      <4> QED
        BY <3>4, <4>1, <4>3
    <3>6. i + 2 - 1 = i + 1 /\ i + 3 - 1 = i + 2 /\ i + 4 - 1 = i + 3
      BY <1>1
    <3>7. /\ Shifted(s, i, ((r \div 4096) \div 64), 2) = (r \div 4096)
          /\ Shifted(s, i, (r \div 4096), 3) = (r \div 64)
          /\ Shifted(s, i, (r \div 64), 4) = r
      <4>1. /\ r = ((r \div 64) * 64) + (r % 64)
            /\ r \div 64 = ((r \div 4096) * 64) + ((r \div 64) % 64)
            /\ r \div 4096 = (((r \div 4096) \div 64) * 64) + ((r \div 4096) % 64)
        BY Digits
      <4> HIDE DEF a, b, c, h
      <4>2. s[i + 2 - 1] = c /\ s[i + 3 - 1] = b /\ s[i + 4 - 1] = a
        BY <3>3, <3>6
      <4>3. Shifted(s, i, (r \div 4096) \div 64, 2) = r \div 4096
        BY <1>1, <4>1, <4>2 DEF Shifted
      <4>4. Shifted(s, i, r \div 4096, 3) = r \div 64
        BY <1>1, <4>1, <4>2 DEF Shifted
      <4>5. Shifted(s, i, r \div 64, 4) = r
        BY <1>1, <4>1, <4>2 DEF Shifted
      <4> QED
        BY <4>3, <4>4, <4>5
    <3>8. Right(v)
      <4> HIDE DEF a, b, c, h
      <4>1. v = [k \in 1..4 |-> v[k]] /\ v[1] = ((r \div 4096) \div 64) /\ v[2] = (r \div 4096) /\ v[3] = (r \div 64) /\ v[4] = r
        OBVIOUS
      <4> HIDE DEF v
      <4>2. ASSUME NEW k \in 2..4 PROVE v[k] = Shifted(s, i, v[k - 1], k)
        <5>2. CASE k = 2
          <6>1. k - 1 = 1
            BY <5>2
          <6> QED
            BY <3>7, <4>1, <5>2, <6>1
        <5>3. CASE k = 3
          <6>1. k - 1 = 2
            BY <5>3
          <6> QED
            BY <3>7, <4>1, <5>3, <6>1
        <5>4. CASE k = 4
          <6>1. k - 1 = 3
            BY <5>4
          <6> QED
            BY <3>7, <4>1, <5>4, <6>1
        <5> QED
          BY <5>2, <5>3, <5>4
      <4> QED
        BY <3>2, <3>5, <4>1, <4>2
    <3> HIDE DEF v, Right
    <3> QED
      BY <3>2, <3>5, <3>8
  <2> QED
    BY <1>1, <2>1, <2>2, <2>3, <2>4
<1>4. PICK v : Right(v)
  BY <1>3
<1> HIDE DEF size
<1>5. RunesAt(s, i) = Made(s, i, size, v)
  <2>1. /\ size \in 1..4 /\ size = Announced(s, i)
        /\ v = [k \in 1..size |-> v[k]] /\ v[1] = FirstDigit(s, i)
        /\ \A k \in 2..size : v[k] = Shifted(s, i, v[k - 1], k)
    BY <1>1, <1>3, <1>4
  <2> HIDE DEF Right
  <2> QED
    BY <2>1, RunesOfSize
<1>6. v[size] = r
  BY <1>4
<1>7. i + size - 1 <= Len(s)
  BY DEF size
<1> QED
  BY <1>1, <1>2, <1>5, <1>6, <1>7 DEF Made, size

(* So it is what decodeWTF8 finds there.                                   *)
LEMMA DecodedThere ==
  ASSUME NEW s \in Seq(Byte), NEW i \in 1..Len(s), NEW r \in CodePoint,
         i + Len(Bytes(r)) - 1 <= Len(s),
         \A k \in 1..Len(Bytes(r)) : s[i + k - 1] = Bytes(r)[k]
  PROVE  DecodeWTF8(s, i).rune = r /\ DecodeWTF8(s, i).size = Len(Bytes(r))
<1> DEFINE x == [rune |-> r, size |-> Len(Bytes(r))]
<1>1. RunesAt(s, i) = {x}
  BY RunesFound
<1>2. x.rune = r /\ x.size = Len(Bytes(r))
  OBVIOUS
<1> HIDE DEF x
<1>3. DecodeWTF8(s, i) = x
  BY <1>1 DEF DecodeWTF8
<1> QED
  BY <1>2, <1>3

(* What decodeWTF8 finds it does not find beyond the string.               *)
LEMMA SizesFit ==
  ASSUME NEW s \in Seq(Byte), NEW i \in 1..Len(s)
  PROVE  DecodeWTF8(s, i).size \in 1..(Len(s) + 1 - i)
<1>1. CASE RunesAt(s, i) = {}
  BY <1>1 DEF DecodeWTF8
<1>2. CASE RunesAt(s, i) # {}
  <2>1. PICK r \in RunesAt(s, i) : DecodeWTF8(s, i) = r
    BY <1>2 DEF DecodeWTF8
  <2>2. r.size \in {Announced(s, i)} /\ i + r.size - 1 <= Len(s)
    BY <2>1 DEF RunesAt, Announced
  <2>3. Announced(s, i) \in 1..4
    BY DEF Announced
  <2> QED
    BY <2>1, <2>2, <2>3
<1> QED
  BY <1>1, <1>2

(* The code point a pair stands for, and the one that stands at i.         *)
PairPoint(high, low) == 65536 + (high - 55296) * 1024 + (low - 56320)
PointAt(u, i) == IF PairAt(u, i) THEN PairPoint(u[i], u[i + 1]) ELSE u[i]
After(u, i) == IF PairAt(u, i) THEN i + 2 ELSE i + 1

(* The two halves of a pair.                                               *)
LEMMA PairThere ==
  ASSUME NEW u \in Seq(Char), NEW i \in 1..Len(u), PairAt(u, i)
  PROVE  /\ After(u, i) = i + 2 /\ PointAt(u, i) = PairPoint(u[i], u[i + 1])
         /\ i + 1 \in 1..Len(u) /\ IsHighSurrogate(u[i]) /\ IsLowSurrogate(u[i + 1])
BY DEF PairAt, PointAt, After

(* A unit is a number of 16 bits.                                          *)
LEMMA CharNumbers == \A c \in Char : c \in Nat /\ c < 65536
BY DEF Char

(* A unit that is half of no pair stands for itself.                       *)
LEMMA UnitThere ==
  ASSUME NEW u \in Seq(Char), NEW i \in 1..Len(u), ~PairAt(u, i)
  PROVE  After(u, i) = i + 1 /\ PointAt(u, i) = u[i] /\ u[i] \in Nat /\ u[i] < 65536
<1>1. u[i] \in Char
  OBVIOUS
<1>2. u[i] \in Nat /\ u[i] < 65536
  BY <1>1, CharNumbers
<1> QED
  BY <1>2 DEF PointAt, After

(* A pair stands for a code point that only a pair stands for.             *)
LEMMA PairPoints ==
  ASSUME NEW high, NEW low, IsHighSurrogate(high), IsLowSurrogate(low)
  PROVE  PairPoint(high, low) \in CodePoint /\ PairPoint(high, low) >= 65536
<1> DEFINE point == PairPoint(high, low)
<1>1. point \in Nat /\ point < 17 * 65536 /\ point >= 65536
  BY DEF PairPoint, IsHighSurrogate, IsLowSurrogate
<1> HIDE DEF point
<1>2. point \in CodePoint
  BY <1>1 DEF CodePoint, CodePoints
<1> QED
  BY <1>1, <1>2 DEF point

(* It is a code point, and the text goes on after it.                      *)
LEMMA PointsArePoints ==
  ASSUME NEW u \in Seq(Char), NEW i \in 1..Len(u)
  PROVE  PointAt(u, i) \in CodePoint /\ After(u, i) \in (i + 1)..(Len(u) + 1)
<1>1. CASE PairAt(u, i)
  <2>1. i + 1 \in 1..Len(u) /\ After(u, i) = i + 2
    BY <1>1, PairThere
  <2>2. PointAt(u, i) \in CodePoint
    <3>1. /\ PointAt(u, i) = PairPoint(u[i], u[i + 1])
          /\ IsHighSurrogate(u[i]) /\ IsLowSurrogate(u[i + 1])
      BY <1>1, PairThere
    <3> QED
      BY <3>1, PairPoints
  <2> QED
    BY <2>1, <2>2
<1>2. CASE ~PairAt(u, i)
  <2>1. After(u, i) = i + 1 /\ PointAt(u, i) = u[i] /\ u[i] \in Nat /\ u[i] < 65536
    BY <1>2, UnitThere
  <2> DEFINE c == u[i]
  <2>2. c \in Nat /\ c < 65536
    BY <2>1
  <2> HIDE DEF c
  <2>3. c \in CodePoint
    BY <2>2 DEF CodePoint, CodePoints
  <2>4. PointAt(u, i) \in CodePoint
    BY <2>1, <2>3 DEF c
  <2> QED
    BY <2>1, <2>4
<1> QED
  BY <1>1, <1>2

(* DecodeUTF16 puts the bytes of the code points one after another.        *)
LEMMA DecodeSteps ==
  ASSUME NEW u \in Seq(Char)
  PROVE  \E d \in [1..(Len(u) + 1) -> Seq(Byte)] :
            /\ DecodeUTF16(u) = d[1] /\ d[Len(u) + 1] = <<>>
            /\ \A i \in 1..Len(u) : d[i] = Bytes(PointAt(u, i)) \o d[After(u, i)]
<1> DEFINE len == Len(u)
           n == len + 1
           V == Seq(Byte)
           jump == [k \in 0..n |-> IF k = len THEN n ELSE After(u, k + 1) - 1]
           out(k) == IF k < len THEN Bytes(PointAt(u, k + 1)) ELSE <<>>
           step == [x \in V \X (0..n) |-> out(x[2]) \o x[1]]
           none == <<>>
           Eq(f) == f = [i \in 1..(Len(u) + 2) |->
                           IF i > Len(u) THEN <<>>
                           ELSE IF PairAt(u, i)
                           THEN Bytes(PairPoint(u[i], u[i + 1]))
                                   \o f[i + 2]
                           ELSE Bytes(u[i]) \o f[i + 1]]
           from == CHOOSE f : Eq(f)
<1>1. DecodeUTF16(u) = from[1]
  BY DEF DecodeUTF16, PairPoint
<1>2. len \in Nat /\ n \in Nat
  OBVIOUS
<1>3. \A k \in 0..n : out(k) \in V
  <2>1. ASSUME NEW k \in 0..n, k < len PROVE Bytes(PointAt(u, k + 1)) \in V
    <3>1. k + 1 \in 1..Len(u)
      BY <1>2, <2>1
    <3>2. PointAt(u, k + 1) \in CodePoint
      BY <3>1, PointsArePoints
    <3> QED
      BY <3>2, BytesAreBytes
  <2> QED
    BY <2>1
<1>4. \A k \in 0..(n - 1) : jump[k] \in (k + 1)..n
  <2>1. ASSUME NEW k \in 0..(n - 1) PROVE jump[k] \in (k + 1)..n
    <3>1. CASE k = len
      BY <1>2, <3>1
    <3>2. CASE k # len
      <4>1. k + 1 \in 1..Len(u) /\ k \in 0..n
        BY <1>2, <3>2
      <4>2. After(u, k + 1) \in (k + 2)..(Len(u) + 1)
        BY <4>1, PointsArePoints
      <4>3. jump[k] = After(u, k + 1) - 1
        BY <3>2, <4>1
      <4> HIDE DEF jump
      <4> QED
        BY <1>2, <4>1, <4>2, <4>3
    <3> QED
      BY <3>1, <3>2
  <2> QED
    BY <2>1
<1>5. none \in V
  OBVIOUS
<1>6. step \in [V \X (0..n) -> V]
  <2> HIDE DEF out
  <2> QED
    BY <1>3
<1>7. PICK g \in [0..n -> V] : IsDescent(g, n, none, jump, step)
  <2> HIDE DEF n, V, none, jump, step
  <2> QED
    BY <1>2, <1>4, <1>5, <1>6, DownExists
<1>8. ASSUME NEW k \in 0..(n - 1) PROVE g[k] = out(k) \o g[jump[k]]
  <2>1. jump[k] \in 0..n /\ k \in 0..n
    <3> HIDE DEF jump
    <3> QED
      BY <1>2, <1>4
  <2> HIDE DEF jump, out
  <2>2. g[jump[k]] \in V
    BY <1>7, <2>1
  <2>3. step[<<g[jump[k]], k>>] = out(k) \o g[jump[k]]
    BY <2>1, <2>2
  <2> HIDE DEF step
  <2> QED
    BY <1>7, <2>3 DEF IsDescent
<1>9. g[n] = <<>> /\ g[len] = <<>>
  <2>1. g[n] = <<>>
    BY <1>7 DEF IsDescent
  <2>2. len \in 0..(n - 1) /\ jump[len] = n /\ out(len) = <<>>
    BY <1>2
  <2>3. g[len] = <<>> \o g[n]
    <3> HIDE DEF out, jump
    <3> QED
      BY <1>8, <2>2
  <2> QED
    BY <2>1, <2>3
<1>10. ASSUME NEW i \in 1..len
       PROVE  /\ g[i - 1] = Bytes(PointAt(u, i)) \o g[After(u, i) - 1]
              /\ After(u, i) \in (i + 1)..n
  <2>1. i - 1 \in 0..(n - 1) /\ (i - 1) + 1 = i /\ i - 1 < len /\ i - 1 # len /\ i - 1 \in 0..n
    BY <1>2
  <2>2. out(i - 1) = Bytes(PointAt(u, i)) /\ jump[i - 1] = After(u, i) - 1
    BY <2>1
  <2>3. After(u, i) \in (i + 1)..n
    BY PointsArePoints
  <2> HIDE DEF out, jump
  <2> QED
    BY <1>8, <2>1, <2>2, <2>3
<1> DEFINE f == [i \in 1..(len + 2) |-> g[i - 1]]
<1>11. Eq(f)
  <2>1. ASSUME NEW i \in 1..(len + 2), i > len PROVE f[i] = <<>>
    <3>1. i - 1 = len \/ i - 1 = n
      BY <1>2, <2>1
    <3> QED
      BY <1>9, <3>1
  <2>2. ASSUME NEW i \in 1..len, PairAt(u, i)
        PROVE  f[i] = Bytes(PairPoint(u[i], u[i + 1])) \o f[i + 2]
    <3>1. After(u, i) = i + 2 /\ PointAt(u, i) = PairPoint(u[i], u[i + 1])
      BY <2>2, PairThere
    <3>2. f[i] = g[i - 1] /\ f[i + 2] = g[(i + 2) - 1]
      BY <1>2
    <3> HIDE DEF f
    <3> QED
      BY <1>10, <3>1, <3>2
  <2>3. ASSUME NEW i \in 1..len, ~PairAt(u, i)
        PROVE  f[i] = Bytes(u[i]) \o f[i + 1]
    <3>1. After(u, i) = i + 1 /\ PointAt(u, i) = u[i]
      BY <2>3, UnitThere
    <3>2. f[i] = g[i - 1] /\ f[i + 1] = g[(i + 1) - 1]
      BY <1>2
    <3> HIDE DEF f
    <3> QED
      BY <1>10, <3>1, <3>2
  <2>4. f = [i \in 1..(len + 2) |-> f[i]]
    OBVIOUS
  <2>5. \A i \in 1..(len + 2) : ~(i > len) => i \in 1..len
    BY <1>2
  <2> HIDE DEF f
  <2> QED
    BY <2>1, <2>2, <2>3, <2>4, <2>5
<1>12. Eq(from)
  <2> HIDE DEF Eq, f
  <2> QED
    BY <1>11
<1> HIDE DEF from
<1> DEFINE d == [i \in 1..n |-> from[i]]
<1>13. \A i \in 1..(len + 2) : i > len => from[i] = <<>>
  BY <1>12
<1>15. \A i \in 1..(len + 2) : ~(i > len) =>
          /\ PairAt(u, i) => from[i] = Bytes(PairPoint(u[i], u[i + 1])) \o from[i + 2]
          /\ ~PairAt(u, i) => from[i] = Bytes(u[i]) \o from[i + 1]
  BY <1>12
<1> HIDE DEF Eq
<1>14. ASSUME NEW i \in 1..len PROVE from[i] = Bytes(PointAt(u, i)) \o from[After(u, i)]
  <2>1. i \in 1..(len + 2) /\ ~(i > len)
    BY <1>2
  <2>2. CASE PairAt(u, i)
    <3>1. After(u, i) = i + 2 /\ PointAt(u, i) = PairPoint(u[i], u[i + 1])
      BY <2>2, PairThere
    <3>2. from[i] = Bytes(PairPoint(u[i], u[i + 1])) \o from[i + 2]
      BY <1>15, <2>1, <2>2
    <3> QED
      BY <3>1, <3>2
  <2>3. CASE ~PairAt(u, i)
    <3>1. After(u, i) = i + 1 /\ PointAt(u, i) = u[i]
      BY <2>3, UnitThere
    <3>2. from[i] = Bytes(u[i]) \o from[i + 1]
      BY <1>15, <2>1, <2>3
    <3> QED
      BY <3>1, <3>2
  <2> QED
    BY <2>2, <2>3
<1> DEFINE P == {i \in 0..n : i # 0 => from[i] \in V}
<1>16. \A i \in 0..n : i \in P
  <2>1. ASSUME NEW i \in 0..n, \A j \in (i + 1)..n : j \in P PROVE i \in P
    <3>1. CASE i = 0
      BY <3>1
    <3>2. CASE i = n
      <4>1. from[i] = <<>>
        BY <1>2, <1>13, <3>2
      <4> QED
        BY <1>5, <4>1
    <3>3. CASE i # 0 /\ i # n
      <4>1. i \in 1..len /\ i \in 1..Len(u)
        BY <1>2, <3>3
      <4>2. After(u, i) \in (i + 1)..n /\ PointAt(u, i) \in CodePoint
        BY <4>1, PointsArePoints
      <4>3. from[After(u, i)] \in V
        BY <1>2, <2>1, <4>2
      <4>4. from[i] = Bytes(PointAt(u, i)) \o from[After(u, i)]
        BY <1>14, <4>1
      <4>5. Bytes(PointAt(u, i)) \in V
        BY <4>2, BytesAreBytes
      <4>6. from[i] \in V
        BY <4>3, <4>4, <4>5
      <4> QED
        BY <4>6
    <3> QED
      BY <3>1, <3>2, <3>3
  <2> HIDE DEF P, n
  <2> QED
    BY <1>2, <2>1, DownTo
<1>17. d \in [1..n -> V]
  <2>1. \A i \in 1..n : from[i] \in V
    BY <1>2, <1>16
  <2> QED
    BY <2>1
<1>18. d[1] = from[1] /\ d[n] = <<>>
  BY <1>2, <1>13
<1>19. \A i \in 1..len : d[i] = Bytes(PointAt(u, i)) \o d[After(u, i)]
  <2>1. ASSUME NEW i \in 1..len PROVE d[i] = Bytes(PointAt(u, i)) \o d[After(u, i)]
    <3>1. After(u, i) \in 1..n /\ i \in 1..n
      BY <1>2, PointsArePoints
    <3>2. d[i] = from[i] /\ d[After(u, i)] = from[After(u, i)]
      BY <3>1
    <3> QED
      BY <1>14, <3>2
  <2> QED
    BY <2>1
<1> HIDE DEF d
<1> QED
  BY <1>1, <1>17, <1>18, <1>19

(* The code units of a code point.                                         *)
Units(r) == IF r < 65536 THEN <<r>>
            ELSE <<55296 + ((r - 65536) \div 1024), 56320 + ((r - 65536) % 1024)>>

(* EncodeUTF16 puts the units of what decodeWTF8 finds one after another.  *)
LEMMA EncodeSteps ==
  ASSUME NEW s \in Seq(Byte)
  PROVE  \E e : /\ EncodeUTF16(s) = e[1] /\ e[Len(s) + 1] = <<>>
                /\ \A i \in 1..Len(s) : e[i] = Units(DecodeWTF8(s, i).rune)
                                                  \o e[i + DecodeWTF8(s, i).size]
<1> DEFINE len == Len(s)
           n == len + 1
           S == UNION {{DecodeWTF8(s, i).rune, 55296 + ((DecodeWTF8(s, i).rune - 65536) \div 1024),
                        56320 + ((DecodeWTF8(s, i).rune - 65536) % 1024)} : i \in 1..len}
           V == Seq(S)
           jump == [k \in 0..n |-> IF k = len THEN n ELSE k + DecodeWTF8(s, k + 1).size]
           out(k) == IF k < len THEN Units(DecodeWTF8(s, k + 1).rune) ELSE <<>>
           step == [x \in V \X (0..n) |-> out(x[2]) \o x[1]]
           none == <<>>
           Eq(f) == f = [i \in 1..(Len(s) + 1) |->
                           IF i > Len(s) THEN <<>>
                           ELSE Units(DecodeWTF8(s, i).rune) \o f[i + DecodeWTF8(s, i).size]]
           from == CHOOSE f : Eq(f)
<1>1. EncodeUTF16(s) = from[1]
  BY DEF EncodeUTF16, Units
<1>2. len \in Nat /\ n \in Nat
  OBVIOUS
<1>3. \A k \in 0..n : out(k) \in V
  <2>1. ASSUME NEW k \in 0..n, k < len PROVE Units(DecodeWTF8(s, k + 1).rune) \in V
    <3>1. k + 1 \in 1..len
      BY <1>2, <2>1
    <3> DEFINE r == DecodeWTF8(s, k + 1).rune
    <3>2. /\ r \in S /\ 55296 + ((r - 65536) \div 1024) \in S
          /\ 56320 + ((r - 65536) % 1024) \in S
      BY <3>1
    <3> HIDE DEF S, r
    <3> QED
      BY <3>2 DEF Units, r
  <2> QED
    BY <2>1
<1>4. \A k \in 0..(n - 1) : jump[k] \in (k + 1)..n
  <2>1. ASSUME NEW k \in 0..(n - 1) PROVE jump[k] \in (k + 1)..n
    <3>1. CASE k = len
      BY <1>2, <3>1
    <3>2. CASE k # len
      <4>1. k + 1 \in 1..Len(s) /\ k \in 0..n
        BY <1>2, <3>2
      <4> DEFINE z == DecodeWTF8(s, k + 1).size
      <4>2. z \in 1..(Len(s) + 1 - (k + 1))
        BY <4>1, SizesFit
      <4>3. jump[k] = k + z
        BY <3>2, <4>1
      <4> HIDE DEF jump, z
      <4> QED
        BY <1>2, <4>1, <4>2, <4>3
    <3> QED
      BY <3>1, <3>2
  <2> QED
    BY <2>1
<1> HIDE DEF S
<1>5. none \in V
  OBVIOUS
<1>6. step \in [V \X (0..n) -> V]
  <2> HIDE DEF out
  <2> QED
    BY <1>3
<1>7. PICK g \in [0..n -> V] : IsDescent(g, n, none, jump, step)
  <2> HIDE DEF n, V, none, jump, step
  <2> QED
    BY <1>2, <1>4, <1>5, <1>6, DownExists
<1>8. ASSUME NEW k \in 0..(n - 1) PROVE g[k] = out(k) \o g[jump[k]]
  <2>1. jump[k] \in 0..n /\ k \in 0..n
    <3> HIDE DEF jump
    <3> QED
      BY <1>2, <1>4
  <2> HIDE DEF jump, out
  <2>2. g[jump[k]] \in V
    BY <1>7, <2>1
  <2>3. step[<<g[jump[k]], k>>] = out(k) \o g[jump[k]]
    BY <2>1, <2>2
  <2> HIDE DEF step
  <2> QED
    BY <1>7, <2>3 DEF IsDescent
<1>9. g[len] = <<>>
  <2>1. g[n] = <<>>
    BY <1>7 DEF IsDescent
  <2>2. len \in 0..(n - 1) /\ jump[len] = n /\ out(len) = <<>>
    BY <1>2
  <2>3. g[len] = <<>> \o g[n]
    <3> HIDE DEF out, jump
    <3> QED
      BY <1>8, <2>2
  <2> QED
    BY <2>1, <2>3
<1> DEFINE f == [i \in 1..n |-> g[i - 1]]
<1>10. \A i \in 1..n : i > len => f[i] = <<>>
  <2>1. ASSUME NEW i \in 1..n, i > len PROVE f[i] = <<>>
    <3>1. i - 1 = len
      BY <1>2, <2>1
    <3> QED
      BY <1>9, <3>1
  <2> QED
    BY <2>1
<1>11. \A i \in 1..len : f[i] = Units(DecodeWTF8(s, i).rune) \o f[i + DecodeWTF8(s, i).size]
  <2>1. ASSUME NEW i \in 1..len
        PROVE  f[i] = Units(DecodeWTF8(s, i).rune) \o f[i + DecodeWTF8(s, i).size]
    <3> DEFINE z == DecodeWTF8(s, i).size
    <3>1. i - 1 \in 0..(n - 1) /\ (i - 1) + 1 = i /\ i - 1 < len /\ i - 1 # len /\ i - 1 \in 0..n
      BY <1>2
    <3>2. out(i - 1) = Units(DecodeWTF8(s, i).rune) /\ jump[i - 1] = (i - 1) + z
      BY <3>1
    <3>3. z \in 1..(len + 1 - i)
      BY SizesFit
    <3> HIDE DEF out, jump, z
    <3>4. i + z \in 1..n /\ (i + z) - 1 = (i - 1) + z /\ i \in 1..n
      BY <1>2, <3>3
    <3>5. f[i] = g[i - 1] /\ f[i + z] = g[(i - 1) + z]
      BY <3>4
    <3> HIDE DEF f
    <3>6. f[i] = Units(DecodeWTF8(s, i).rune) \o f[i + z]
      BY <1>8, <3>1, <3>2, <3>5
    <3> QED
      BY <3>6 DEF z
  <2> QED
    BY <2>1
<1>12. Eq(f)
  <2>1. f = [i \in 1..n |-> f[i]]
    OBVIOUS
  <2>2. \A i \in 1..n : ~(i > len) => i \in 1..len
    BY <1>2
  <2> HIDE DEF f
  <2> QED
    BY <1>10, <1>11, <2>1, <2>2
<1>13. Eq(from)
  <2> HIDE DEF Eq, f
  <2> QED
    BY <1>12
<1> HIDE DEF from
<1>14. from[n] = <<>>
  BY <1>2, <1>13
<1>15. \A i \in 1..len : from[i] = Units(DecodeWTF8(s, i).rune) \o from[i + DecodeWTF8(s, i).size]
  <2>1. \A i \in 1..len : i \in 1..n /\ ~(i > len)
    BY <1>2
  <2> QED
    BY <1>13, <2>1
<1> HIDE DEF Eq
<1> QED
  BY <1>1, <1>14, <1>15

(* The units of a pair's code point are its halves.                        *)
LEMMA HalvesOfPair ==
  ASSUME NEW high, NEW low, IsHighSurrogate(high), IsLowSurrogate(low)
  PROVE  Units(PairPoint(high, low)) = <<high, low>>
<1> DEFINE a == high - 55296
           b == low - 56320
           r == PairPoint(high, low)
<1>1. a \in Nat /\ b \in Nat /\ b < 1024 /\ high = 55296 + a /\ low = 56320 + b
  BY DEF IsHighSurrogate, IsLowSurrogate
<1>2. r = 65536 + (a * 1024) + b
  BY DEF PairPoint
<1> HIDE DEF a, b, r
<1>3. r \in Nat /\ ~(r < 65536) /\ r - 65536 = (a * 1024) + b
  BY <1>1, <1>2
<1>4. (r - 65536) \div 1024 = a /\ (r - 65536) % 1024 = b
  BY <1>1, <1>3
<1>5. Units(r) = <<55296 + a, 56320 + b>>
  BY <1>3, <1>4 DEF Units
<1> QED
  BY <1>1, <1>5 DEF r

(* One element before none, and before another.                            *)
LEMMA ShortSequences ==
  ASSUME NEW S, NEW a \in S, NEW b \in S
  PROVE  <<a>> \o <<>> = <<a>> /\ <<a>> \o <<b>> = <<a, b>>
<1>1. <<a>> \in Seq(S) /\ <<b>> \in Seq(S) /\ <<>> \in Seq(S) /\ <<a, b>> \in Seq(S)
  OBVIOUS
<1>2. <<a>> \o <<>> = <<a>>
  BY <1>1, ConcatEmptySeq
<1> DEFINE t == <<a>> \o <<b>>
<1>3. t \in Seq(S) /\ Len(t) = 2 /\ t[1] = a /\ t[2] = b
  OBVIOUS
<1> HIDE DEF t
<1>4. Len(t) = Len(<<a, b>>) /\ \A i \in 1..Len(t) : t[i] = <<a, b>>[i]
  BY <1>3
<1>5. t = <<a, b>>
  BY <1>1, <1>3, <1>4, SeqEqual
<1> QED
  BY <1>2, <1>5 DEF t

(* A part of one unit, and one of two.                                     *)
LEMMA ShortParts ==
  ASSUME NEW u \in Seq(Char), NEW i \in 1..Len(u)
  PROVE  /\ SubSeq(u, i, i) = <<u[i]>>
         /\ i + 1 \in 1..Len(u) => SubSeq(u, i, i + 1) = <<u[i], u[i + 1]>>
<1>1. ASSUME NEW j \in 1..Len(u) PROVE SubSeq(u, j, j) = <<u[j]>>
  <2>1. SubSeq(u, j, j) = <<u[j]>> \o SubSeq(u, j + 1, j)
    BY SubSeqRecursiveFirst
  <2>2. SubSeq(u, j + 1, j) = <<>> /\ u[j] \in Char
    BY SubSeqEmpty
  <2> QED
    BY <2>1, <2>2, ShortSequences
<1>2. ASSUME i + 1 \in 1..Len(u) PROVE SubSeq(u, i, i + 1) = <<u[i], u[i + 1]>>
  <2>1. i + 1 \in i..Len(u)
    BY <1>2
  <2>2. SubSeq(u, i, i + 1) = <<u[i]>> \o SubSeq(u, i + 1, i + 1)
    BY <2>1, SubSeqRecursiveFirst
  <2>3. u[i] \in Char /\ u[i + 1] \in Char
    BY <1>2
  <2>4. SubSeq(u, i + 1, i + 1) = <<u[i + 1]>>
    BY <1>1, <1>2
  <2> QED
    BY <2>2, <2>3, <2>4, ShortSequences
<1> QED
  BY <1>1, <1>2

(* The units of what stands at i are the text from i to what comes after.  *)
LEMMA UnitsOfPoint ==
  ASSUME NEW u \in Seq(Char), NEW i \in 1..Len(u)
  PROVE  Units(PointAt(u, i)) = SubSeq(u, i, After(u, i) - 1)
<1>1. CASE PairAt(u, i)
  <2>1. /\ After(u, i) = i + 2 /\ PointAt(u, i) = PairPoint(u[i], u[i + 1])
        /\ i + 1 \in 1..Len(u) /\ IsHighSurrogate(u[i]) /\ IsLowSurrogate(u[i + 1])
    BY <1>1, PairThere
  <2>2. Units(PointAt(u, i)) = <<u[i], u[i + 1]>>
    BY <2>1, HalvesOfPair
  <2>3. SubSeq(u, i, i + 1) = <<u[i], u[i + 1]>>
    BY <2>1, ShortParts
  <2>4. (i + 2) - 1 = i + 1
    OBVIOUS
  <2> QED
    BY <2>1, <2>2, <2>3, <2>4
<1>2. CASE ~PairAt(u, i)
  <2>1. After(u, i) = i + 1 /\ PointAt(u, i) = u[i] /\ u[i] \in Nat /\ u[i] < 65536
    BY <1>2, UnitThere
  <2>2. Units(PointAt(u, i)) = <<u[i]>>
    BY <2>1 DEF Units
  <2>3. SubSeq(u, i, i) = <<u[i]>> /\ (i + 1) - 1 = i
    BY ShortParts
  <2> QED
    BY <2>1, <2>2, <2>3
<1> QED
  BY <1>1, <1>2

(* A text is the same when it comes out of a string.                       *)
LEMMA TextRoundTrip ==
  ASSUME NEW u \in Seq(Char)
  PROVE  EncodeUTF16(DecodeUTF16(u)) = u
<1> DEFINE n == Len(u)
<1>1. PICK d \in [1..(n + 1) -> Seq(Byte)] :
         /\ DecodeUTF16(u) = d[1] /\ d[n + 1] = <<>>
         /\ \A i \in 1..n : d[i] = Bytes(PointAt(u, i)) \o d[After(u, i)]
  BY DecodeSteps
<1> DEFINE s == d[1]
<1>2. n \in Nat /\ s \in Seq(Byte) /\ Len(s) \in Nat
  BY <1>1
<1>3. PICK e : /\ EncodeUTF16(s) = e[1] /\ e[Len(s) + 1] = <<>>
               /\ \A i \in 1..Len(s) : e[i] = Units(DecodeWTF8(s, i).rune)
                                                 \o e[i + DecodeWTF8(s, i).size]
  <2> HIDE DEF s
  <2> QED
    BY <1>2, EncodeSteps
<1> DEFINE Stands(i, p) == /\ p + Len(d[i]) = Len(s) + 1
                           /\ \A k \in 1..Len(d[i]) : s[p + k - 1] = d[i][k]
           Good(i) == \A p \in 1..(Len(s) + 1) : Stands(i, p) => e[p] = SubSeq(u, i, n)
           P == {i \in 0..(n + 1) : i # 0 => Good(i)}
<1> HIDE DEF s
<1>4. ASSUME NEW i \in 1..n, \A j \in (i + 1)..(n + 1) : Good(j)
      PROVE  Good(i)
  <2> SUFFICES ASSUME NEW p \in 1..(Len(s) + 1), Stands(i, p) PROVE e[p] = SubSeq(u, i, n)
    OBVIOUS
  <2> DEFINE r == PointAt(u, i)
             b == Bytes(r)
             m == Len(b)
             j == After(u, i)
  <2>1. r \in CodePoint /\ j \in (i + 1)..(n + 1)
    BY PointsArePoints
  <2>2. b \in Seq(Byte) /\ m \in 1..4
    BY <2>1, BytesAreBytes
  <2>3. d[i] = b \o d[j] /\ d[j] \in Seq(Byte)
    BY <1>1, <1>2, <2>1
  <2>4. Units(r) = SubSeq(u, i, j - 1)
    BY UnitsOfPoint
  <2> HIDE DEF r, j
  <2> DEFINE x == d[j]
             q == Len(x)
  <2>5. /\ Len(d[i]) = m + q /\ q \in Nat
        /\ \A k \in 1..m : d[i][k] = b[k]
        /\ \A k \in 1..q : d[i][m + k] = x[k]
    BY <2>2, <2>3
  <2> HIDE DEF b, m, x, q
  <2>6. p + (m + q) = Len(s) + 1 /\ \A k \in 1..(m + q) : s[p + k - 1] = d[i][k]
    BY <2>5
  <2>7. p \in 1..Len(s) /\ p + m - 1 <= Len(s) /\ p + m \in 1..(Len(s) + 1)
    BY <1>2, <2>2, <2>5, <2>6
  <2>8. \A k \in 1..m : s[p + k - 1] = b[k]
    BY <2>2, <2>5, <2>6
  <2>9. DecodeWTF8(s, p).rune = r /\ DecodeWTF8(s, p).size = m
    BY <1>2, <2>1, <2>7, <2>8, DecodedThere DEF b, m
  <2>10. Stands(j, p + m)
    <3>1. (p + m) + q = Len(s) + 1
      BY <1>2, <2>2, <2>5, <2>6
    <3>2. ASSUME NEW k \in 1..q PROVE s[(p + m) + k - 1] = x[k]
      <4> HIDE DEF Stands, Good, P
      <4>1. m \in Nat /\ q \in Nat /\ p \in Nat /\ k \in 1..q
        BY <1>2, <2>2, <2>5, <3>2
      <4>2. m + k \in 1..(m + q)
        BY <4>1
      <4>3. p + (m + k) - 1 = (p + m) + k - 1
        BY <4>1
      <4> QED
        BY <2>5, <2>6, <3>2, <4>2, <4>3
    <3> QED
      BY <3>1, <3>2 DEF x, q
  <2>11. e[p + m] = SubSeq(u, j, n)
    BY <1>4, <2>1, <2>7, <2>10
  <2>12. e[p] = Units(r) \o e[p + m]
    BY <1>3, <2>7, <2>9
  <2>13. SubSeq(u, i, j - 1) \o SubSeq(u, j, n) = SubSeq(u, i, n)
    <3>1. i \in 1..(Len(u) + 1) /\ j - 1 \in (i - 1)..Len(u) /\ n \in (j - 1)..Len(u) /\ (j - 1) + 1 = j
      BY <1>2, <2>1
    <3>2. SubSeq(u, i, j - 1) \o SubSeq(u, (j - 1) + 1, n) = SubSeq(u, i, n)
      BY <3>1, ConcatAdjacentSubSeq
    <3> QED
      BY <3>1, <3>2
  <2> QED
    BY <2>4, <2>11, <2>12, <2>13
<1>5. Good(n + 1)
  <2> SUFFICES ASSUME NEW p \in 1..(Len(s) + 1), Stands(n + 1, p) PROVE e[p] = SubSeq(u, n + 1, n)
    OBVIOUS
  <2>1. p = Len(s) + 1
    BY <1>1, <1>2
  <2>2. SubSeq(u, n + 1, n) = <<>>
    BY <1>2
  <2> QED
    BY <1>3, <2>1, <2>2
<1>6. \A i \in 0..(n + 1) : i \in P
  <2>1. ASSUME NEW i \in 0..(n + 1), \A j \in (i + 1)..(n + 1) : j \in P PROVE i \in P
    <3>1. CASE i = 0
      BY <3>1
    <3>2. CASE i = n + 1
      BY <1>5, <3>2
    <3>3. CASE i # 0 /\ i # n + 1
      <4>1. i \in 1..n
        BY <1>2, <3>3
      <4>2. \A j \in (i + 1)..(n + 1) : Good(j)
        <5>1. \A j \in (i + 1)..(n + 1) : j # 0
          BY <4>1
        <5> HIDE DEF Good
        <5> QED
          BY <2>1, <5>1
      <4> HIDE DEF Good
      <4>3. Good(i)
        BY <1>4, <4>1, <4>2
      <4> QED
        BY <4>3
    <3> QED
      BY <3>1, <3>2, <3>3
  <2>2. n + 1 \in Nat
    BY <1>2
  <2> DEFINE m == n + 1
  <2>3. m \in Nat /\ \A i \in 0..m : (\A j \in (i + 1)..m : j \in P) => i \in P
    BY <2>1, <2>2
  <2> HIDE DEF P, m
  <2>4. \A i \in 0..m : i \in P
    BY <2>3, DownTo
  <2> QED
    BY <2>4 DEF m
<1>7. Good(1)
  <2>1. 1 \in 0..(n + 1)
    BY <1>2
  <2> HIDE DEF Good, n
  <2> QED
    BY <1>6, <2>1
<1>8. Stands(1, 1)
  <2>1. d[1] = s /\ \A k \in 1..Len(s) : 1 + k - 1 = k
    BY <1>2 DEF s
  <2> QED
    BY <1>2, <2>1
<1>9. 1 \in 1..(Len(s) + 1)
  BY <1>2
<1>10. e[1] = SubSeq(u, 1, n)
  <2> HIDE DEF Stands, n
  <2> QED
    BY <1>7, <1>8, <1>9
<1>11. SubSeq(u, 1, n) = u
  BY SubSeqFull
<1> QED
  BY <1>1, <1>3, <1>10, <1>11 DEF s

(* So a term comes out of a string as it went in.                          *)
THEOREM TermsComeBack == TokenizerSpec => []TermsSurviveStrings
<1>1. TokenizerTypeOK => TermsSurviveStrings
  BY TextRoundTrip DEF TokenizerTypeOK, TermsSurviveStrings
<1> QED
  BY <1>1, StreamIsTyped, PTL
-----------------------------------------------------------------------------
(* The final offset.                                                       *)

(* The end of the text has not been reported.                              *)
Underway == returned = "nothing" \/ returned = "token"

(* A text that is open and has not ended has its last token among what is  *)
(* consumed, and is in the buffer once any of it is read; one that has     *)
(* ended and ends plainly is accounted for.                                *)
OffsetInv ==
    /\ reading = "open" => returned # "error"
    /\ Underway =>
          /\ endPosition <= maxConsumedEndPosition
          /\ reading = "open" => Loaded \/ read = 0
    /\ (pc = "idle" /\ returned = "none" /\ EndsPlainly(input)) =>
          /\ endPosition <= FurthestConsumed
          /\ FurthestConsumed + lastUselessCharNum = Len(input)

(* The larger of two numbers is the one that is not below the other.       *)
LEMMA LargerIs ==
  ASSUME NEW a \in Nat, NEW b \in Nat, a <= b
  PROVE  Max({a, b}) = b /\ Max({b, a}) = b
<1>1. \A x, y \in Nat : Max({x, y}) \in {x, y} /\ Max({x, y}) >= x /\ Max({x, y}) >= y
  BY MaxOfTwo
<1> QED
  BY <1>1

(* The end of a text: what is saved and what is counted are its length.    *)
LEMMA ReturnNoneKeepsOffset ==
  ASSUME EngineInv, StreamTypeOK, OffsetInv, ReturnNone
  PROVE  OffsetInv'
<1>1. /\ reading = "open" /\ reading' = "open" /\ Exhausted /\ pc' = "idle" /\ read = Len(input)
      /\ UNCHANGED <<input, endPosition>>
      /\ savedMaxConsumedEndPosition' = maxConsumedEndPosition /\ maxConsumedEndPosition' = 0
      /\ lastUselessCharNum' = IF buffOffset = 0 THEN 0 ELSE lastUselessCharNum
  BY DEF ReturnNone, Exhausted, EndOfInput, ContextReset, reader
<1>2. CASE returned = "none" \/ returned = "none again"
  <2>1. returned' = "none again"
    BY <1>2 DEF ReturnNone
  <2> QED
    BY <1>1, <2>1 DEF OffsetInv, Underway
<1>3. CASE Underway
  <2>1. endPosition <= maxConsumedEndPosition /\ (Loaded \/ read = 0)
    BY <1>1, <1>3 DEF OffsetInv
  <2>2. returned' = "none"
    BY <1>3 DEF ReturnNone, Underway
  <2>3. maxConsumedEndPosition \in Nat /\ buffOffset \in Nat
    BY DEF EngineInv, EInv, CInv, ContextTypeOK
  <2>4. FurthestConsumed' = maxConsumedEndPosition
    BY <1>1, <2>3, LargerIs DEF FurthestConsumed
  <2>5. ASSUME EndsPlainly(input)
        PROVE  maxConsumedEndPosition + lastUselessCharNum' = Len(input)
    <3>1. CASE Loaded
      BY <1>1, <2>5, <3>1, ExhaustedEndsExactly DEF EngineInv
    <3>2. CASE ~Loaded
      <4>1. maxConsumedEndPosition = 0
        BY <3>2 DEF EngineInv, EndOK
      <4>2. lastUselessCharNum' = 0
        BY <1>1, <2>3, <3>2 DEF Loaded
      <4> QED
        BY <1>1, <2>1, <3>2, <4>1, <4>2
    <3> QED
      BY <3>1, <3>2
  <2> QED
    BY <1>1, <2>1, <2>2, <2>4, <2>5 DEF OffsetInv, Underway
<1>4. Underway \/ returned = "none" \/ returned = "none again"
  BY <1>1 DEF Underway, OffsetInv, StreamTypeOK, StatesOK
<1> QED
  BY <1>2, <1>3, <1>4

(* A token: the furthest position consumed is its end or beyond.           *)
LEMMA ReturnTokenKeepsOffset ==
  ASSUME EngineInv, OffsetInv, ReturnToken
  PROVE  OffsetInv'
<1> DEFINE end == EndPosition(Head(Compound(results)))
<1>1. /\ TakeResult /\ pc = "poll" /\ results # <<>> /\ endPosition' = end
      /\ returned' = "token" /\ UNCHANGED <<reading, read, buffOffset>>
      /\ maxConsumedEndPosition' = IF end > maxConsumedEndPosition
                                   THEN end ELSE maxConsumedEndPosition
  BY DEF ReturnToken, TakeResult, Consume, reader, buffer
<1>2. end \in Nat
  BY <1>1, TakenFacts DEF EngineInv, EInv, Lexeme, EndPosition
<1>3. maxConsumedEndPosition \in Nat /\ Loaded
  BY <1>1 DEF EngineInv, EInv, CInv, ContextTypeOK, BufferWindow, ReadContiguously
<1>4. Loaded'
  BY <1>1, <1>3 DEF Loaded
<1> HIDE DEF end
<1> QED
  BY <1>1, <1>2, <1>3, <1>4 DEF OffsetInv, Underway

(* The engine at work: it forgets nothing it has consumed.                 *)
LEMMA InsideIncrementKeepsOffset ==
  ASSUME EngineInv, StreamTypeOK, OffsetInv, InsideIncrement
  PROVE  OffsetInv'
<1>1. UNCHANGED <<reading, returned, endPosition>>
  BY DEF InsideIncrement, stream
<1>2. maxConsumedEndPosition \in Nat /\ buffOffset \in Nat /\ cursor \in Nat /\ endPosition \in Nat
  BY DEF EngineInv, EInv, CInv, ContextTypeOK, StreamTypeOK, PositionsOK
<1>3. /\ pc' # "idle" /\ (Loaded' \/ (~Loaded /\ read' = read))
      /\ maxConsumedEndPosition' >= maxConsumedEndPosition /\ maxConsumedEndPosition' \in Nat
  <2>1. CASE TakeResult /\ pc' = "poll"
    <3> DEFINE end == EndPosition(Head(Compound(results)))
    <3>1. /\ buffOffset' = buffOffset /\ read' = read /\ pc = "poll" /\ results # <<>>
          /\ maxConsumedEndPosition' = IF end > maxConsumedEndPosition
                                       THEN end ELSE maxConsumedEndPosition
      BY <2>1 DEF TakeResult, Consume, reader, buffer
    <3>2. end \in Nat
      BY <2>1, TakenFacts DEF EngineInv, EInv, Lexeme, EndPosition
    <3> HIDE DEF end
    <3> QED
      BY <1>2, <2>1, <3>1, <3>2 DEF Loaded
  <2>2. CASE NoMoreResults
    <3>1. /\ pc = "poll" /\ pc' = "fill"
          /\ UNCHANGED <<buffOffset, read, maxConsumedEndPosition>>
      BY <2>2 DEF NoMoreResults, NoResult, reader, buffer, tallies
    <3> QED
      BY <1>2, <3>1 DEF Loaded
  <2>3. CASE \E n \in ReadCounts : FillBuffer(n)
    <3>1. pc' = "analyze" /\ maxConsumedEndPosition' = maxConsumedEndPosition
      BY <2>3 DEF FillBuffer, Fill
    <3> QED
      BY <1>2, <3>1 DEF Loaded
  <2>4. CASE AnalyzeCharacter
    <3>1. \E locks : Analyze(locks)
      BY <2>4 DEF AnalyzeCharacter
    <3>2. pc' \in {"analyze", "arbitrate"} /\ maxConsumedEndPosition' = maxConsumedEndPosition
      BY <3>1 DEF Analyze, tallies
    <3> QED
      BY <1>2, <3>2 DEF Loaded
  <2>5. CASE Arbitrate
    <3>1. /\ pc' = "poll" /\ buffOffset' = buffOffset + cursor + 1
          /\ maxConsumedEndPosition' = maxConsumedEndPosition
      BY <2>5 DEF Arbitrate, Output
    <3> QED
      BY <1>2, <3>1 DEF Loaded
  <2> QED
    BY <2>1, <2>2, <2>3, <2>4, <2>5 DEF InsideIncrement
<1> QED
  BY <1>1, <1>2, <1>3 DEF OffsetInv, Underway

(* Every call keeps it.                                                    *)
LEMMA OffsetNext ==
  ASSUME EngineInv, StreamTypeOK, OffsetInv, [TokenizerNext]_tvars
  PROVE  OffsetInv'
<1>1. CASE \/ \E text \in LaterInputs : SetReader(text)
           \/ Close \/ EndStream \/ ReloadedMeanwhile \/ UNCHANGED tvars
  <2>1. /\ UNCHANGED <<returned, endPosition, pc, buffOffset, read, input,
                       maxConsumedEndPosition, savedMaxConsumedEndPosition, lastUselessCharNum>>
        /\ reading' = "open" => reading = "open"
    BY <1>1 DEF SetReader, Close, EndStream, ReloadedMeanwhile, DictionaryReloaded, tvars, stream,
                engine, cvars, reader, buffer, tallies, saved
  <2>2. Loaded' = Loaded /\ FurthestConsumed' = FurthestConsumed
    BY <2>1 DEF Loaded, FurthestConsumed
  <2> QED
    BY <2>1, <2>2 DEF OffsetInv, Underway
<1>2. CASE ResetStream
  <2>1. returned' = "nothing" /\ endPosition' = 0 /\ maxConsumedEndPosition' = 0 /\ read' = 0
    BY <1>2 DEF ResetStream, EngineReset, Reset, ContextReset
  <2> QED
    BY <2>1 DEF OffsetInv, Underway
<1>3. CASE IncrementToken
  <2>1. /\ UNCHANGED <<reading, returned, endPosition, buffOffset, read, maxConsumedEndPosition>>
        /\ pc = "idle" /\ pc' = "poll"
    BY <1>3 DEF IncrementToken, NextCalled, CallNext, reader, buffer
  <2>2. Loaded' = Loaded
    BY <2>1 DEF Loaded
  <2> QED
    BY <2>1, <2>2 DEF OffsetInv, Underway
<1>4. CASE ReturnToken
  BY <1>4, ReturnTokenKeepsOffset
<1>5. CASE ReturnNone
  BY <1>5, ReturnNoneKeepsOffset
<1>6. CASE ReturnError
  <2>1. reading # "open" /\ reading' = reading /\ returned' = "error"
    BY <1>6 DEF ReturnError
  <2> QED
    BY <2>1 DEF OffsetInv, Underway
<1>7. CASE InsideIncrement
  BY <1>7, InsideIncrementKeepsOffset
<1> QED
  BY <1>1, <1>2, <1>3, <1>4, <1>5, <1>6, <1>7 DEF TokenizerNext

(* It holds throughout.                                                    *)
LEMMA OffsetAlways == TokenizerSpec => [](EngineInv /\ StreamTypeOK /\ OffsetInv)
<1>1. TokenizerInit => StreamTypeOK /\ OffsetInv
  <2> SUFFICES ASSUME TokenizerInit PROVE StreamTypeOK /\ OffsetInv
    OBVIOUS
  <2>1. /\ reading = "placeholder" /\ returned = "nothing" /\ endPosition = 0
        /\ maxConsumedEndPosition = 0
    BY DEF TokenizerInit, EngineInit, ContextInit
  <2>2. OffsetInv
    BY <2>1 DEF OffsetInv, Underway
  <2> QED
    BY <2>2, StreamTypesInit
<1>2. (TInv /\ EngineInv) /\ (TInv /\ EngineInv)' /\ (StreamTypeOK /\ OffsetInv)
         /\ [TokenizerNext]_tvars => (StreamTypeOK /\ OffsetInv)'
  BY StreamTypesNext, OffsetNext DEF TInv, EngineInv, EInv
<1> QED
  BY <1>1, <1>2, EngineStreamAlways, PTL DEF TokenizerSpec

(* What End publishes for a text that has ended and ends plainly.          *)
LEMMA EndPublishesLength ==
  ASSUME EngineInv, StreamTypeOK, OffsetInv, EndStream, returned = "none", EndsPlainly(input)
  PROVE  endOffset' = Len(input)
<1>1. /\ pc = "idle"
      /\ endOffset' = Max({endPosition, FurthestConsumed}) + lastUselessCharNum
  BY DEF EndStream
<1>2. endPosition <= FurthestConsumed /\ FurthestConsumed + lastUselessCharNum = Len(input)
  BY <1>1 DEF OffsetInv, Underway
<1>3. endPosition \in Nat /\ FurthestConsumed \in Nat
  BY LargerIsNatural
     DEF FurthestConsumed, EngineInv, EInv, HistoryOK, CInv, ContextTypeOK, StreamTypeOK, PositionsOK
<1> QED
  BY <1>1, <1>2, <1>3, LargerIs

(* What End publishes for such texts.                                      *)
PlainTextsPublishLength ==
    [][(EndStream /\ returned = "none" /\ EndsPlainly(input)) => endOffset' = Len(input)]_tvars

(* The final offset of a text whose last character comes out for certain   *)
(* is the text's length when IncrementToken has first reported its end     *)
(* (ik_tokenizer.go:79-88), whatever was staged, reset or closed before,   *)
(* and also when all its words are stop words.                             *)
THEOREM PlainTextsEndAtTheirLength == TokenizerSpec => PlainTextsPublishLength
<1> DEFINE Step == [(EndStream /\ returned = "none" /\ EndsPlainly(input))
                       => endOffset' = Len(input)]_tvars
<1>1. EngineInv /\ StreamTypeOK /\ OffsetInv /\ [TokenizerNext]_tvars => Step
  BY EndPublishesLength
<1> QED
  BY <1>1, OffsetAlways, PTL DEF TokenizerSpec, PlainTextsPublishLength
=============================================================================
