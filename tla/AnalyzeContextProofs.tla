------------------------- MODULE AnalyzeContextProofs -------------------------
(***************************************************************************)
(* Proofs about AnalyzeContext: for a buffer of any size, any critical     *)
(* zone the assumption allows, any inputs and any behaviour of the         *)
(* sub-segmenters, of the arbitrator and of the reader, the buffer is a    *)
(* faithful window on the input.                                           *)
(***************************************************************************)
EXTENDS AnalyzeContext, SequenceTheorems, TLAPS

(* The inductive invariant of the context.                                 *)
CInv == ContextTypeOK /\ BufferWindow /\ ConsumedWasRead

(* Regularising a code unit gives a code unit, and it has a type.          *)
LEMMA CharacterTypes ==
  ASSUME NEW c \in Char
  PROVE  Regularize(c, EnableLowercase) \in Char /\ IdentifyCharType(c) \in CharType
<1>1. IdentifyCharType(c) \in CharType
  BY DEF IdentifyCharType, CharType
<1>2. Regularize(c, EnableLowercase) \in Char
  <2>1. c \in Int /\ 0 <= c /\ c <= 65535
    BY DEF Char
  <2>2. CASE c = 12288
    BY <2>2 DEF Regularize, Char
  <2>3. CASE c # 12288 /\ c \in 65281..65374
    <3>1. Regularize(c, EnableLowercase) = c - 65248
      BY <2>3 DEF Regularize
    <3>2. c - 65248 \in Char
      BY <2>1, <2>3 DEF Char
    <3> QED
      BY <3>1, <3>2
  <2>4. CASE c # 12288 /\ c \notin 65281..65374
    <3>1. \/ Regularize(c, EnableLowercase) = c
          \/ c \in 65..90 /\ Regularize(c, EnableLowercase) = c + 32
      BY <2>4 DEF Regularize
    <3>2. CASE Regularize(c, EnableLowercase) = c
      BY <3>2
    <3>3. CASE c \in 65..90 /\ Regularize(c, EnableLowercase) = c + 32
      <4>1. c + 32 \in Char
        BY <2>1, <3>3 DEF Char
      <4>2. Regularize(c, EnableLowercase) = c + 32
        BY <3>3
      <4> QED
        BY <4>1, <4>2
    <3> QED
      BY <3>1, <3>2, <3>3
  <2> QED
    BY <2>2, <2>3, <2>4
<1> QED
  BY <1>1, <1>2

-----------------------------------------------------------------------------
(* Compounding.                                                            *)

(* A sequence of lexemes of one window of the buffer.                      *)
InWindow(q, origin, length) ==
    /\ q \in Seq(Lexeme)
    /\ \A k \in DOMAIN q : q[k].offset = origin /\ End(q[k]) <= length

(* Two adjacent lexemes joined into one, from the start of the first to    *)
(* the end of the second; the others move up.                              *)
IsJoined(r, q, origin) ==
    /\ r \in Seq(Lexeme) /\ Len(r) = Len(q) - 1 /\ Len(r) \in Nat \ {0}
    /\ r[1] \in Lexeme /\ r[1].offset = origin /\ r[1].begin = q[1].begin
    /\ q[2].begin = End(q[1]) /\ End(r[1]) = End(q[2])
    /\ \A k \in 2..Len(r) : r[k] = q[k + 1]

(* Two results that are joined are one behind the other in the same        *)
(* buffer, and the joined one spans both.                                  *)
LEMMA JoinedIs ==
  ASSUME NEW q, NEW origin \in Nat, NEW length \in Nat,
         NEW first \in LexemeType, NEW second \in LexemeType,
         NEW t \in LexemeType,
         InWindow(q, origin, length), Joins(q, first, second)
  PROVE  IsJoined(Joined(q, t), q, origin)
<1> DEFINE l == Appended(q[1], q[2], t)
           rest == Tail(Tail(q))
<1>1. /\ q[1] \in Lexeme /\ q[2] \in Lexeme /\ CanAppend(q[1], q[2])
      /\ q[1].offset = origin /\ q[2].offset = origin
      /\ q \in Seq(Lexeme) /\ Len(q) >= 2 /\ Len(q) \in Nat
  BY DEF InWindow, Joins
<1>2. l = [offset |-> origin, begin |-> q[1].begin,
           length |-> q[1].length + q[2].length, lexemeType |-> t]
  BY <1>1 DEF Appended, NewLexeme
<1>3. l \in Lexeme /\ l.offset = origin /\ l.begin = q[1].begin
  BY <1>1, <1>2 DEF Lexeme
<1>4. q[2].begin = End(q[1]) /\ End(l) = End(q[2])
  <2>1. PICK x \in Nat, m \in Nat, y \in Nat, n \in Nat :
           /\ q[1].begin = x /\ q[1].length = m /\ q[2].begin = y /\ q[2].length = n
           /\ origin + x + m = origin + y
    BY <1>1 DEF Lexeme, CanAppend, EndPosition, BeginPosition
  <2>2. End(q[1]) = x + m /\ End(q[2]) = y + n /\ End(l) = x + (m + n)
    BY <1>2, <2>1 DEF End
  <2> QED
    BY <2>1, <2>2
<1>5. /\ rest \in Seq(Lexeme) /\ Len(rest) = Len(q) - 2
      /\ \A k \in 1..Len(rest) : rest[k] = q[k+2]
  <2>1. /\ Tail(q) \in Seq(Lexeme) /\ Len(Tail(q)) = Len(q) - 1
        /\ \A k \in 1..Len(Tail(q)) : Tail(q)[k] = q[k+1]
    BY <1>1, HeadTailProperties
  <2>2. /\ rest \in Seq(Lexeme) /\ Len(rest) = Len(Tail(q)) - 1
        /\ \A k \in 1..Len(rest) : rest[k] = Tail(q)[k+1]
    <3> HIDE DEF rest
    <3> DEFINE r == Tail(q)
    <3>1. r \in Seq(Lexeme) /\ Len(r) # 0
      BY <1>1, <2>1
    <3> HIDE DEF r
    <3>2. /\ Tail(r) \in Seq(Lexeme) /\ Len(Tail(r)) = Len(r) - 1
          /\ \A k \in 1..Len(Tail(r)) : Tail(r)[k] = r[k+1]
      BY <3>1, HeadTailProperties, EmptySeq
    <3> QED
      BY <3>2 DEF rest, r
  <2>3. /\ Len(rest) \in Nat
        /\ \A k \in 1..Len(rest) : k + 1 \in 1..Len(Tail(q)) /\ (k + 1) + 1 = k + 2
    BY <1>1, <2>1, <2>2
  <2> QED
    BY <2>1, <2>2, <2>3
<1>6. Joined(q, t) = <<l>> \o rest /\ <<l>> \in Seq(Lexeme)
  BY <1>3 DEF Joined
<1> DEFINE r == Joined(q, t)
<1> HIDE DEF l, rest
<1>7. /\ r \in Seq(Lexeme) /\ Len(r) = Len(rest) + 1 /\ r[1] = l
      /\ \A k \in 2..(Len(rest) + 1) : r[k] = rest[k-1]
  BY <1>5, <1>6
<1> HIDE DEF r
<1>8. Len(rest) \in Nat /\ Len(r) = Len(q) - 1 /\ Len(r) \in Nat \ {0}
  BY <1>1, <1>5, <1>7
<1>9. ASSUME NEW k \in 2..Len(r) PROVE r[k] = q[k + 1]
  <2>1. k - 1 \in 1..Len(rest) /\ (k - 1) + 2 = k + 1 /\ k \in 2..(Len(rest) + 1)
    BY <1>7, <1>8
  <2> QED
    BY <1>5, <1>7, <2>1
<1> QED
  BY <1>3, <1>4, <1>7, <1>8, <1>9 DEF r, IsJoined

(* Two adjacent lexemes of a window, joined, end where the second ended.   *)
LEMMA JoinedInWindow ==
  ASSUME NEW q, NEW origin \in Nat, NEW length \in Nat,
         NEW first \in LexemeType, NEW second \in LexemeType,
         NEW t \in LexemeType,
         InWindow(q, origin, length), Joins(q, first, second)
  PROVE  InWindow(Joined(q, t), origin, length) /\ Joined(q, t) # <<>>
<1> DEFINE r == Joined(q, t)
<1>1. /\ r \in Seq(Lexeme) /\ Len(r) = Len(q) - 1 /\ Len(r) \in Nat \ {0}
      /\ r[1].offset = origin /\ End(r[1]) = End(q[2])
      /\ \A k \in 2..Len(r) : r[k] = q[k + 1]
  <2>1. IsJoined(r, q, origin)
    BY JoinedIs
  <2> HIDE DEF r
  <2> QED
    BY <2>1 DEF IsJoined
<1> HIDE DEF r
<1>2. q \in Seq(Lexeme) /\ \A k \in 1..Len(q) : q[k].offset = origin /\ End(q[k]) <= length
  BY DEF InWindow
<1>3. ASSUME NEW k \in 1..Len(r) PROVE r[k].offset = origin /\ End(r[k]) <= length
  <2>1. CASE k = 1
    <3>1. 2 \in 1..Len(q)
      BY <1>1, <1>2
    <3> QED
      BY <1>1, <1>2, <2>1, <3>1
  <2>2. CASE k # 1
    <3>1. k \in 2..Len(r) /\ k + 1 \in 1..Len(q)
      BY <1>1, <1>2, <2>2
    <3> QED
      BY <1>1, <1>2, <3>1
  <2> QED
    BY <2>1, <2>2
<1> QED
  BY <1>1, <1>3 DEF InWindow, r

(* compound keeps the results in their window and never uses them up.      *)
LEMMA CompoundInWindow ==
  ASSUME NEW q, NEW origin \in Nat, NEW length \in Nat,
         InWindow(q, origin, length), q # <<>>
  PROVE  InWindow(Compound(q), origin, length) /\ Compound(q) # <<>>
<1>1. /\ TypeArabic \in LexemeType /\ TypeCNum \in LexemeType
      /\ TypeCount \in LexemeType /\ TypeCQuan \in LexemeType
  BY DEF LexemeType
<1>2. InWindow(JoinArabic(q), origin, length) /\ JoinArabic(q) # <<>>
  BY <1>1, JoinedInWindow DEF JoinArabic
<1>3. ASSUME NEW r, InWindow(r, origin, length), r # <<>>
      PROVE  InWindow(JoinCount(r), origin, length) /\ JoinCount(r) # <<>>
  BY <1>1, <1>3, JoinedInWindow DEF JoinCount
<1> QED
  BY <1>2, <1>3 DEF Compound

(* The first of a window's results and the rest.                           *)
LEMMA HeadAndTailInWindow ==
  ASSUME NEW q, NEW origin \in Nat, NEW length \in Nat,
         InWindow(q, origin, length), q # <<>>
  PROVE  /\ Head(q) \in Lexeme /\ Head(q).offset = origin /\ End(Head(q)) <= length
         /\ InWindow(Tail(q), origin, length)
<1>1. /\ Head(q) = q[1] /\ 1 \in DOMAIN q
      /\ Tail(q) \in Seq(Lexeme) /\ Len(Tail(q)) = Len(q) - 1
      /\ \A k \in 1..Len(Tail(q)) : Tail(q)[k] = q[k+1]
  BY DEF InWindow
<1> QED
  BY <1>1 DEF InWindow

-----------------------------------------------------------------------------
(* The initial states, and the calls from outside.                         *)

(* The context starts empty.                                               *)
LEMMA InitEstablishesCInv == ContextInit => CInv
<1> SUFFICES ASSUME ContextInit PROVE CInv
  OBVIOUS
<1> USE DEF ContextInit
<1>1. ContextTypeOK
  <2>1. input \in Seq(Char)
    BY InputsAssumption
  <2>2. 0 \in Char /\ charUseless \in CharType
    BY DEF Char, CharType
  <2>3. 0 \in 0..BuffSize
    BY BufferAssumption
  <2> QED
    BY <2>1, <2>2, <2>3 DEF ContextTypeOK
<1>2. ~Loaded
  BY DEF Loaded
<1>3. BufferWindow
  BY <1>2 DEF BufferWindow, ReadContiguously, UnprocessedIsRaw, ProcessedIsRegular,
     MoveIsRepeatable, ResultsInWindow, NoResultsWhileFilling
<1>4. ConsumedWasRead
  BY DEF ConsumedWasRead
<1> QED
  BY <1>1, <1>3, <1>4 DEF CInv

(* After a reset the buffer holds nothing.                                 *)
LEMMA ContextResetEstablishesCInv ==
  ASSUME CInv, ContextReset, pc' = "idle",
         input' \in Seq(Char), read' \in Nat, read' = 0 \/ read' = Len(input'),
         lastUselessCharNum' \in Nat
  PROVE  CInv'
<1> USE DEF ContextReset
<1>1. ContextTypeOK'
  <2>1. 0 \in Char /\ charUseless \in CharType
    BY DEF Char, CharType
  <2>2. 0 \in 0..BuffSize
    BY BufferAssumption
  <2> QED
    BY <2>1, <2>2 DEF ContextTypeOK
<1>2. ~Loaded'
  BY DEF Loaded
<1>3. BufferWindow'
  BY <1>2 DEF BufferWindow, ReadContiguously, UnprocessedIsRaw, ProcessedIsRegular,
     MoveIsRepeatable, ResultsInWindow, NoResultsWhileFilling
<1>4. ConsumedWasRead'
  BY DEF ConsumedWasRead
<1> QED
  BY <1>1, <1>3, <1>4 DEF CInv

(* Reset empties the buffer and takes another text.                        *)
LEMMA ResetPreservesCInv ==
  ASSUME CInv, NEW text \in Inputs, Reset(text)
  PROVE  CInv'
BY InputsAssumption, ContextResetEstablishesCInv DEF Reset, CInv, ContextTypeOK

(* So does the end of the input, which keeps the text.                     *)
LEMMA EndOfInputPreservesCInv ==
  ASSUME CInv, EndOfInput
  PROVE  CInv'
BY ContextResetEstablishesCInv DEF EndOfInput, reader, CInv, ContextTypeOK

(* Steps that touch neither the buffer nor the reader: the program counter *)
(* stays outside the analysis, and the results, if they change, stay in    *)
(* their window.                                                           *)
LEMMA OutsideStepPreservesCInv ==
  ASSUME CInv, UNCHANGED <<reader, buffer, buffLocker, lastUselessCharNum>>,
         pc \in {"idle", "poll", "fill"}, pc' \in {"idle", "poll", "fill"},
         lastSkippedCount' \in Nat,
         maxConsumedEndPosition' \in Nat, maxConsumedEndPosition' <= read,
         results' = results \/ results # <<>>,
         InWindow(results', Origin, cursor + 1),
         pc' = "fill" => results' = <<>>
  PROVE  CInv'
<1> USE DEF reader, buffer
<1>1. Loaded' = Loaded /\ Origin' = Origin /\ (Needed' => Needed)
  BY DEF Loaded, Origin, Needed
<1>2. ContextTypeOK'
  BY DEF CInv, ContextTypeOK, InWindow
<1>3. ReadContiguously'
  BY <1>1 DEF CInv, BufferWindow, ReadContiguously
<1>4. UnprocessedIsRaw' /\ MoveIsRepeatable'
  BY <1>1 DEF CInv, BufferWindow, UnprocessedIsRaw, MoveIsRepeatable
<1>5. ProcessedIsRegular'
  BY <1>1 DEF CInv, BufferWindow, ProcessedIsRegular
<1>6. ResultsInWindow' /\ NoResultsWhileFilling'
  BY <1>1 DEF InWindow, ResultsInWindow, NoResultsWhileFilling
<1>7. ConsumedWasRead'
  BY DEF ConsumedWasRead
<1> QED
  BY <1>2, <1>3, <1>4, <1>5, <1>6, <1>7 DEF CInv, BufferWindow

(* The results are in a window that ends where the cursor stands.          *)
LEMMA ResultsWindow ==
  ASSUME CInv
  PROVE  InWindow(results, Origin, cursor + 1)
BY DEF CInv, ContextTypeOK, BufferWindow, ResultsInWindow, InWindow

(* A call of Next only resets the skipped count.                           *)
LEMMA CallNextPreservesCInv ==
  ASSUME CInv, CallNext
  PROVE  CInv'
BY OutsideStepPreservesCInv, ResultsWindow
   DEF CallNext, CInv, ContextTypeOK, ConsumedWasRead

(* With no result left the buffer may be filled.                           *)
LEMMA NoResultPreservesCInv ==
  ASSUME CInv, NoResult
  PROVE  CInv'
BY OutsideStepPreservesCInv, ResultsWindow
   DEF NoResult, tallies, CInv, ContextTypeOK, ConsumedWasRead

(* What is consumed ends within what was read.                             *)
LEMMA ConsumePreservesCInv ==
  ASSUME CInv, NEW stopWord \in BOOLEAN, Consume(stopWord)
  PROVE  CInv'
<1> DEFINE q == Compound(results)
           end == EndPosition(Head(q))
<1>1. pc = "poll" /\ results # <<>> /\ results' = Tail(q)
  BY DEF Consume
<1>2. Loaded /\ cursor \in Nat
  BY <1>1 DEF CInv, ContextTypeOK, BufferWindow, ReadContiguously
<1>3. Origin \in Nat /\ Origin + available = read /\ cursor < available
  BY <1>2 DEF CInv, BufferWindow, ReadContiguously
<1>4. InWindow(q, Origin, cursor + 1) /\ q # <<>>
  BY <1>1, <1>2, <1>3, ResultsWindow, CompoundInWindow
<1>5. /\ Head(q) \in Lexeme /\ Head(q).offset = Origin
      /\ End(Head(q)) <= cursor + 1
      /\ InWindow(Tail(q), Origin, cursor + 1)
  <2>1. cursor + 1 \in Nat
    BY <1>2
  <2> HIDE DEF q
  <2> QED
    BY <2>1, <1>3, <1>4, HeadAndTailInWindow
<1>6. end \in Nat /\ end <= read
  BY <1>2, <1>3, <1>5 DEF EndPosition, End, Lexeme, CInv, ContextTypeOK
<1>7. maxConsumedEndPosition' \in Nat /\ maxConsumedEndPosition' <= read
  BY <1>6 DEF Consume, CInv, ContextTypeOK, ConsumedWasRead
<1>8. lastSkippedCount' \in Nat
  BY DEF Consume, CInv, ContextTypeOK
<1> QED
  BY <1>1, <1>5, <1>7, <1>8, OutsideStepPreservesCInv DEF Consume

-----------------------------------------------------------------------------
(* The steps that load the buffer and walk over it.                        *)

(* What has been read and not yet walked over, when the buffer is topped   *)
(* up: it starts at buffOffset and ends where the reader stands.           *)
LEMMA UnprocessedFacts ==
  ASSUME CInv, pc = "fill"
  PROVE  /\ Unprocessed \in Nat /\ Unprocessed < BuffSize
         /\ Unprocessed <= cursor + 1
         /\ Unprocessed > 0 => buffOffset + Unprocessed = read
         /\ buffOffset > 0 => buffOffset + Unprocessed = read
         /\ read <= Len(input) /\ Len(input) \in Nat
         /\ \A i \in 0..(Unprocessed - 1) :
               /\ cursor + 1 + i \in Index
               /\ segmentBuff[cursor + 1 + i] = input[buffOffset + i + 1]
<1>1. /\ buffOffset \in Nat /\ cursor \in Nat /\ available \in Nat /\ read \in Nat
      /\ Len(input) \in Nat
  BY DEF CInv, ContextTypeOK
<1>2. CASE buffOffset = 0
  <2>1. Unprocessed = 0
    BY <1>2 DEF Unprocessed
  <2>2. ~Loaded
    BY <1>2 DEF Loaded
  <2>3. read <= Len(input)
    BY <1>1, <2>2 DEF CInv, BufferWindow, ReadContiguously
  <2> QED
    BY <1>1, <1>2, <2>1, <2>3, BufferAssumption
<1>3. CASE buffOffset # 0
  <2>1. Loaded /\ Origin = buffOffset - (cursor + 1)
    BY <1>1, <1>3 DEF Loaded, Origin
  <2>2. /\ cursor < available /\ available <= BuffSize /\ Origin + available = read
        /\ read <= Len(input) /\ available - (cursor + 1) <= cursor + 1
    BY <2>1 DEF CInv, BufferWindow, ReadContiguously, MoveIsRepeatable
  <2>3. Unprocessed = available - (cursor + 1)
    BY <1>3 DEF Unprocessed
  <2>4. ASSUME NEW i \in 0..(Unprocessed - 1)
        PROVE  /\ cursor + 1 + i \in Index
               /\ segmentBuff[cursor + 1 + i] = input[buffOffset + i + 1]
    <3>1. cursor + 1 + i \in (cursor + 1)..(available - 1)
      BY <1>1, <2>3
    <3>2. segmentBuff[cursor + 1 + i] = input[Origin + (cursor + 1 + i) + 1]
      BY <3>1, <2>1 DEF CInv, BufferWindow, UnprocessedIsRaw
    <3>3. Origin + (cursor + 1 + i) + 1 = buffOffset + i + 1
      BY <1>1, <2>1
    <3> QED
      BY <3>1, <3>2, <3>3, <1>1, <2>2, BufferAssumption DEF Index
  <2> QED
    BY <1>1, <2>1, <2>2, <2>3, <2>4, BufferAssumption
<1> QED
  BY <1>2, <1>3

(* The buffer is topped up and the cursor placed on its first character.   *)
LEMMA FillPreservesCInv ==
  ASSUME CInv, NEW n \in ReadCounts, Fill(n)
  PROVE  CInv'
<1> DEFINE T == Unprocessed
           filled == [i \in Index |-> IF i \in T..(T + n - 1)
                                      THEN input[read + 1 + i - T]
                                      ELSE Moved(i)]
           first == Regularize(filled[0], EnableLowercase)
<1>1. /\ pc = "fill" /\ T + n > 0 /\ read' = read + n /\ available' = T + n
      /\ cursor' = 0 /\ segmentBuff' = [filled EXCEPT ![0] = first]
      /\ charTypes' = [charTypes EXCEPT ![0] = IdentifyCharType(first)]
      /\ lastUselessCharNum' = IF buffOffset = 0 THEN 0 ELSE lastUselessCharNum
      /\ pc' = "analyze"
      /\ UNCHANGED <<input, buffOffset, buffLocker, results,
                     maxConsumedEndPosition, lastSkippedCount>>
  BY DEF Fill
<1>2. /\ buffOffset \in Nat /\ cursor \in Nat /\ available \in Nat /\ read \in Nat
      /\ input \in Seq(Char) /\ segmentBuff \in [Index -> Char]
      /\ charTypes \in [Index -> CharType] /\ 0 \in Index
  BY BufferAssumption DEF CInv, ContextTypeOK, Index
<1>3. /\ T \in Nat /\ T < BuffSize
      /\ T > 0 => buffOffset + T = read
      /\ buffOffset > 0 => buffOffset + T = read
      /\ read <= Len(input) /\ Len(input) \in Nat
      /\ \A i \in 0..(T - 1) :
            /\ cursor + 1 + i \in Index
            /\ segmentBuff[cursor + 1 + i] = input[buffOffset + i + 1]
  BY <1>1, UnprocessedFacts
<1>4. n \in Nat /\ T + n <= BuffSize /\ read + n <= Len(input)
  <2> DEFINE room == BuffSize - T
             left == Len(input) - read
             most == IF room < left THEN room ELSE left
  <2>1. most \in Nat /\ most <= room /\ most <= left
    BY <1>2, <1>3, BufferAssumption
  <2>2. n \in 1..most \/ n = most
    BY DEF ReadCounts
  <2> QED
    BY <2>1, <2>2, <1>2, <1>3, BufferAssumption
<1>5. buffOffset + T = read
  <2>1. CASE buffOffset = 0
    <3>1. T = 0
      BY <2>1 DEF Unprocessed
    <3>2. read = 0 \/ read = Len(input)
      BY <1>1, <2>1 DEF CInv, BufferWindow, ReadContiguously, Loaded
    <3> QED
      BY <3>1, <3>2, <2>1, <1>1, <1>2, <1>3, <1>4
  <2>2. CASE buffOffset # 0
    BY <2>2, <1>2, <1>3
  <2> QED
    BY <2>1, <2>2
<1>6. ASSUME NEW i \in 0..(T + n - 1)
      PROVE  i \in Index /\ filled[i] = input[buffOffset + i + 1]
  <2>1. i \in Index
    BY <1>3, <1>4, BufferAssumption DEF Index
  <2>2. CASE i \in T..(T + n - 1)
    <3>1. filled[i] = input[read + 1 + i - T]
      BY <2>1, <2>2
    <3>2. read + 1 + i - T = buffOffset + i + 1
      BY <1>2, <1>3, <1>4, <1>5
    <3> QED
      BY <2>1, <3>1, <3>2
  <2>3. CASE i \notin T..(T + n - 1)
    <3>1. i \in 0..(T - 1) /\ i < T
      BY <2>3, <1>3, <1>4
    <3>2. filled[i] = segmentBuff[cursor + 1 + i]
      BY <2>1, <2>3, <3>1 DEF Moved
    <3> QED
      BY <2>1, <3>1, <3>2, <1>3
  <2> QED
    BY <2>2, <2>3
<1>7. filled \in [Index -> Char]
  <2> SUFFICES ASSUME NEW i \in Index PROVE filled[i] \in Char
    OBVIOUS
  <2>1. CASE i \in T..(T + n - 1)
    <3>1. filled[i] = input[read + 1 + i - T]
      BY <2>1
    <3>2. read + 1 + i - T \in 1..Len(input)
      BY <2>1, <1>2, <1>3, <1>4
    <3> QED
      BY <3>1, <3>2, <1>2
  <2>2. CASE i \notin T..(T + n - 1)
    <3>1. filled[i] = Moved(i)
      BY <2>2
    <3>2. i < T => cursor + 1 + i \in Index
      BY <1>3, BufferAssumption DEF Index
    <3> QED
      BY <3>1, <3>2, <1>2 DEF Moved
  <2> QED
    BY <2>1, <2>2
<1>8. filled[0] \in Char /\ first \in Char /\ IdentifyCharType(first) \in CharType
  <2>1. filled[0] \in Char
    BY <1>2, <1>7
  <2> HIDE DEF filled
  <2> QED
    BY <2>1, CharacterTypes
<1> HIDE DEF filled, T
<1>9. filled[0] = input[buffOffset + 1]
  <2>1. 0 \in 0..(T + n - 1) /\ buffOffset + 0 + 1 = buffOffset + 1
    BY <1>1, <1>2, <1>3, <1>4
  <2>2. filled[0] = input[buffOffset + 0 + 1]
    BY <2>1, <1>6
  <2> QED
    BY <2>1, <2>2
<1>10. /\ segmentBuff'[0] = first /\ charTypes'[0] = IdentifyCharType(first)
       /\ \A i \in Index \ {0} : segmentBuff'[i] = filled[i]
       /\ segmentBuff' \in [Index -> Char] /\ charTypes' \in [Index -> CharType]
  BY <1>1, <1>2, <1>7, <1>8
<1>11. /\ Loaded' /\ Origin' = buffOffset /\ results = <<>>
  BY <1>1 DEF Loaded, Origin, CInv, BufferWindow, NoResultsWhileFilling
<1>12. ContextTypeOK'
  BY <1>1, <1>2, <1>3, <1>4, <1>10 DEF CInv, ContextTypeOK
<1>13. ReadContiguously'
  BY <1>1, <1>2, <1>3, <1>4, <1>5, <1>11 DEF ReadContiguously
<1>14. UnprocessedIsRaw'
  <2>1. ASSUME NEW i \in (0 + 1)..(T + n - 1)
        PROVE  segmentBuff'[i] = input[buffOffset + i + 1]
    <3>1. i \in 0..(T + n - 1) /\ i # 0
      BY <1>3, <1>4
    <3>2. i \in Index
      BY <3>1, <1>6
    <3> QED
      BY <3>1, <3>2, <1>6, <1>10
  <2>2. /\ cursor' = 0 /\ available' = T + n /\ Origin' = buffOffset
        /\ input' = input
    BY <1>1, <1>11
  <2>3. /\ cursor' + 1 = 0 + 1 /\ available' - 1 = T + n - 1
    BY <2>2, <1>3, <1>4
  <2>4. ASSUME NEW i \in (cursor' + 1)..(available' - 1)
        PROVE  segmentBuff'[i] = input'[Origin' + i + 1]
    <3>1. i \in (0 + 1)..(T + n - 1)
      BY <2>3
    <3>2. segmentBuff'[i] = input[buffOffset + i + 1]
      BY <3>1, <2>1
    <3>3. input'[Origin' + i + 1] = input[buffOffset + i + 1]
      BY <2>2
    <3> QED
      BY <3>2, <3>3
  <2> QED
    BY <2>4 DEF UnprocessedIsRaw
<1>15. ProcessedIsRegular'
  <2> SUFFICES /\ segmentBuff'[0] = Regularize(input[buffOffset + 0 + 1], EnableLowercase)
               /\ charTypes'[0] = IdentifyCharType(segmentBuff'[0])
    BY <1>1, <1>11 DEF ProcessedIsRegular
  <2>1. buffOffset + 0 + 1 = buffOffset + 1
    BY <1>2
  <2> QED
    BY <2>1, <1>9, <1>10
<1>16. MoveIsRepeatable' /\ ResultsInWindow' /\ NoResultsWhileFilling'
  BY <1>1, <1>11 DEF MoveIsRepeatable, ResultsInWindow, NoResultsWhileFilling
<1>17. ConsumedWasRead'
  BY <1>1, <1>2, <1>4 DEF CInv, ContextTypeOK, ConsumedWasRead
<1> QED
  BY <1>12, <1>13, <1>14, <1>15, <1>16, <1>17 DEF CInv, BufferWindow

(* A failed read leaves the unprocessed characters where they were, since  *)
(* what was moved does not reach them.                                     *)
LEMMA ReadFailsPreservesCInv ==
  ASSUME CInv, ReadFails
  PROVE  CInv'
<1>1. /\ pc = "fill" /\ pc' = "idle" /\ segmentBuff' = [i \in Index |-> Moved(i)]
      /\ UNCHANGED <<reader, charTypes, buffOffset, cursor, available,
                     buffLocker, results, tallies>>
  BY DEF ReadFails
<1>2. /\ buffOffset \in Nat /\ cursor \in Nat /\ available \in Nat
      /\ segmentBuff \in [Index -> Char]
  BY DEF CInv, ContextTypeOK
<1>3. /\ Unprocessed \in Nat /\ Unprocessed <= cursor + 1
      /\ \A i \in 0..(Unprocessed - 1) : cursor + 1 + i \in Index
  BY <1>1, UnprocessedFacts
<1>4. segmentBuff' \in [Index -> Char]
  <2> SUFFICES ASSUME NEW i \in Index PROVE Moved(i) \in Char
    BY <1>1
  <2>1. i < Unprocessed => cursor + 1 + i \in Index
    BY <1>3, BufferAssumption DEF Index
  <2> QED
    BY <2>1, <1>2 DEF Moved
<1>5. results = <<>>
  BY <1>1 DEF CInv, BufferWindow, NoResultsWhileFilling
<1>6. Loaded' = Loaded /\ Origin' = Origin /\ ~Needed'
  BY <1>1, <1>5 DEF Loaded, Origin, Needed
<1>7. ContextTypeOK'
  BY <1>1, <1>4 DEF CInv, ContextTypeOK, reader, tallies
<1>8. ReadContiguously'
  BY <1>1, <1>6 DEF CInv, BufferWindow, ReadContiguously, reader
<1>9. UnprocessedIsRaw'
  <2> SUFFICES ASSUME Loaded, NEW i \in (cursor + 1)..(available - 1)
               PROVE  segmentBuff'[i] = input[Origin + i + 1]
    BY <1>1, <1>6 DEF UnprocessedIsRaw, reader
  <2>1. available <= BuffSize
    BY DEF CInv, BufferWindow, ReadContiguously
  <2>2. i \in Index /\ ~(i < Unprocessed)
    BY <2>1, <1>2, <1>3, BufferAssumption DEF Index
  <2>3. segmentBuff'[i] = segmentBuff[i]
    BY <2>2, <1>1 DEF Moved
  <2> QED
    BY <2>3 DEF CInv, BufferWindow, UnprocessedIsRaw
<1>10. ProcessedIsRegular'
  BY <1>6 DEF ProcessedIsRegular
<1>11. MoveIsRepeatable'
  BY <1>1, <1>6 DEF CInv, BufferWindow, MoveIsRepeatable
<1>12. ResultsInWindow' /\ NoResultsWhileFilling'
  BY <1>1, <1>5 DEF ResultsInWindow, NoResultsWhileFilling
<1>13. ConsumedWasRead'
  BY <1>1 DEF CInv, ConsumedWasRead, reader, tallies
<1> QED
  BY <1>7, <1>8, <1>9, <1>10, <1>11, <1>12, <1>13 DEF CInv, BufferWindow

(* The cursor moves on by one, or stays and the analysis ends where the    *)
(* buffer can be topped up.                                                *)
LEMMA AnalyzePreservesCInv ==
  ASSUME CInv, NEW locks \in SUBSET SubSegmenters, Analyze(locks)
  PROVE  CInv'
<1> DEFINE c == Regularize(segmentBuff[cursor + 1], EnableLowercase)
<1>1. /\ pc = "analyze" /\ buffLocker' = locks
      /\ UNCHANGED <<reader, buffOffset, available, results, tallies>>
  BY DEF Analyze
<1>2. /\ buffOffset \in Nat /\ cursor \in Nat /\ available \in Nat /\ read \in Nat
      /\ input \in Seq(Char) /\ segmentBuff \in [Index -> Char]
      /\ charTypes \in [Index -> CharType]
  BY DEF CInv, ContextTypeOK
<1>3. /\ Loaded /\ Needed /\ Origin = buffOffset /\ results = <<>>
      /\ Loaded' /\ Origin' = buffOffset /\ results' = <<>>
  BY <1>1 DEF Loaded, Needed, Origin, Analyze, CInv, BufferWindow, NoResultsWhileFilling
<1>4. /\ cursor < available /\ available <= BuffSize
      /\ buffOffset + available = read /\ read <= Len(input)
  BY <1>3 DEF CInv, BufferWindow, ReadContiguously
<1>5. ConsumedWasRead' /\ ResultsInWindow' /\ NoResultsWhileFilling'
  BY <1>1, <1>3 DEF CInv, ConsumedWasRead, reader, tallies,
     ResultsInWindow, NoResultsWhileFilling
<1>6. CASE NeedRefillBuffer(locks) \/ cursor >= available - 1
  <2>1. pc' = "arbitrate" /\ UNCHANGED <<cursor, segmentBuff, charTypes>>
    BY <1>6 DEF Analyze
  <2>2. ContextTypeOK'
    BY <2>1, <1>1 DEF CInv, ContextTypeOK, reader, tallies
  <2>3. ReadContiguously'
    BY <2>1, <1>1, <1>2, <1>3, <1>4 DEF ReadContiguously, reader
  <2>4. UnprocessedIsRaw'
    BY <2>1, <1>1, <1>3 DEF CInv, BufferWindow, UnprocessedIsRaw, reader
  <2>5. ProcessedIsRegular'
    BY <2>1, <1>1, <1>3 DEF CInv, BufferWindow, ProcessedIsRegular, reader
  <2>6. available - (cursor + 1) <= cursor + 1
    BY <1>2, <1>4, <1>6, BufferAssumption DEF NeedRefillBuffer
  <2>7. MoveIsRepeatable'
    BY <2>1, <2>6, <1>1 DEF MoveIsRepeatable
  <2> QED
    BY <2>2, <2>3, <2>4, <2>5, <2>7, <1>5 DEF CInv, BufferWindow
<1>7. CASE ~(NeedRefillBuffer(locks) \/ cursor >= available - 1)
  <2>1. /\ pc' = "analyze" /\ cursor' = cursor + 1
        /\ segmentBuff' = [segmentBuff EXCEPT ![cursor + 1] = c]
        /\ charTypes' = [charTypes EXCEPT ![cursor + 1] = IdentifyCharType(c)]
    BY <1>1, <1>7 DEF Analyze
  <2>2. cursor + 1 \in Index /\ cursor + 1 < available
    BY <1>2, <1>4, <1>7, BufferAssumption DEF Index
  <2>3. c \in Char /\ IdentifyCharType(c) \in CharType
    <3>1. segmentBuff[cursor + 1] \in Char
      BY <1>2, <2>2
    <3>2. c \in Char
      BY <3>1, CharacterTypes
    <3> HIDE DEF c
    <3> QED
      BY <3>2, CharacterTypes
  <2>4. segmentBuff[cursor + 1] = input[buffOffset + (cursor + 1) + 1]
    <3>1. cursor + 1 \in (cursor + 1)..(available - 1)
      BY <1>2, <2>2
    <3> QED
      BY <3>1, <1>3 DEF CInv, BufferWindow, UnprocessedIsRaw
  <2>5. c = Regularize(input[buffOffset + (cursor + 1) + 1], EnableLowercase)
    BY <2>4
  <2> HIDE DEF c
  <2>6. /\ segmentBuff'[cursor + 1] = c
        /\ charTypes'[cursor + 1] = IdentifyCharType(c)
        /\ \A i \in Index \ {cursor + 1} : /\ segmentBuff'[i] = segmentBuff[i]
                                          /\ charTypes'[i] = charTypes[i]
        /\ segmentBuff' \in [Index -> Char] /\ charTypes' \in [Index -> CharType]
    BY <2>1, <2>2, <2>3, <1>2
  <2>7. ContextTypeOK'
    BY <2>1, <2>6, <1>1, <1>2 DEF CInv, ContextTypeOK, reader, tallies
  <2>8. ReadContiguously'
    BY <2>1, <2>2, <1>1, <1>2, <1>3, <1>4 DEF ReadContiguously, reader
  <2>9. UnprocessedIsRaw'
    <3>1. ASSUME NEW i \in ((cursor + 1) + 1)..(available - 1)
          PROVE  segmentBuff'[i] = input[buffOffset + i + 1]
      <4>1. i \in (cursor + 1)..(available - 1) /\ i \in Index \ {cursor + 1}
        BY <1>2, <1>4, BufferAssumption DEF Index
      <4>2. segmentBuff[i] = input[buffOffset + i + 1]
        BY <4>1, <1>3 DEF CInv, BufferWindow, UnprocessedIsRaw
      <4> QED
        BY <4>1, <4>2, <2>6
    <3>2. /\ cursor' = cursor + 1 /\ available' = available
          /\ Origin' = buffOffset /\ input' = input
      BY <2>1, <1>1, <1>3 DEF reader
    <3>3. \A i \in (cursor' + 1)..(available' - 1) :
             segmentBuff'[i] = input'[Origin' + i + 1]
      BY <3>1, <3>2
    <3> QED
      BY <3>3 DEF UnprocessedIsRaw
  <2>10. ProcessedIsRegular'
    <3>1. ASSUME NEW i \in 0..(cursor + 1)
          PROVE  /\ segmentBuff'[i] = Regularize(input[buffOffset + i + 1],
                                                EnableLowercase)
                 /\ charTypes'[i] = IdentifyCharType(segmentBuff'[i])
      <4>1. CASE i = cursor + 1
        BY <4>1, <2>5, <2>6
      <4>2. CASE i # cursor + 1
        <5>1. i \in 0..cursor /\ i \in Index \ {cursor + 1}
          BY <4>2, <1>2, <1>4, BufferAssumption DEF Index
        <5>2. /\ segmentBuff[i] = Regularize(input[buffOffset + i + 1],
                                             EnableLowercase)
              /\ charTypes[i] = IdentifyCharType(segmentBuff[i])
          BY <5>1, <1>3 DEF CInv, BufferWindow, ProcessedIsRegular
        <5> QED
          BY <5>1, <5>2, <2>6
      <4> QED
        BY <4>1, <4>2
    <3>2. cursor' = cursor + 1 /\ Origin' = buffOffset /\ input' = input
      BY <2>1, <1>1, <1>3 DEF reader
    <3>3. \A i \in 0..cursor' :
             /\ segmentBuff'[i] = Regularize(input'[Origin' + i + 1],
                                             EnableLowercase)
             /\ charTypes'[i] = IdentifyCharType(segmentBuff'[i])
      BY <3>1, <3>2
    <3> QED
      BY <3>3 DEF ProcessedIsRegular
  <2>11. MoveIsRepeatable'
    BY <2>1 DEF MoveIsRepeatable
  <2> QED
    BY <2>7, <2>8, <2>9, <2>10, <2>11, <1>5 DEF CInv, BufferWindow
<1> QED
  BY <1>6, <1>7

(* The results lie in what was walked over, and the buffer's own start     *)
(* moves past it.                                                          *)
LEMMA OutputPreservesCInv ==
  ASSUME CInv, NEW rs, NEW trailing \in Nat, Output(rs, trailing)
  PROVE  CInv'
<1>1. /\ pc = "arbitrate" /\ pc' = "poll" /\ rs \in Seq(Lexeme)
      /\ results' = results \o rs /\ lastUselessCharNum' = trailing
      /\ buffOffset' = buffOffset + cursor + 1 /\ lastSkippedCount' = 0
      /\ UNCHANGED <<reader, segmentBuff, charTypes, cursor, available,
                     buffLocker, maxConsumedEndPosition>>
  BY DEF Output
<1>2. \A k \in DOMAIN rs : rs[k].offset = buffOffset /\ End(rs[k]) <= cursor + 1
  BY DEF Output
<1>3. buffOffset \in Nat /\ cursor \in Nat /\ available \in Nat
  BY DEF CInv, ContextTypeOK
<1>4. Loaded /\ Needed /\ Origin = buffOffset /\ results = <<>>
  BY <1>1 DEF Loaded, Needed, Origin, CInv, BufferWindow, NoResultsWhileFilling
<1>5. results' = rs
  BY <1>1, <1>4
<1>6. Loaded' /\ Origin' = buffOffset
  BY <1>1, <1>3 DEF Loaded, Origin
<1>7. ContextTypeOK'
  BY <1>1, <1>3, <1>5 DEF CInv, ContextTypeOK, reader
<1>8. ReadContiguously'
  BY <1>1, <1>3, <1>4, <1>6 DEF CInv, BufferWindow, ReadContiguously, reader
<1>9. UnprocessedIsRaw'
  BY <1>1, <1>4, <1>6 DEF CInv, BufferWindow, UnprocessedIsRaw, reader
<1>10. ProcessedIsRegular'
  BY <1>1, <1>4, <1>6 DEF CInv, BufferWindow, ProcessedIsRegular, reader
<1>11. MoveIsRepeatable'
  BY <1>1, <1>4 DEF CInv, BufferWindow, MoveIsRepeatable
<1>12. ResultsInWindow'
  <2>1. /\ results' = rs /\ Origin' = buffOffset /\ cursor' = cursor
    BY <1>1, <1>5, <1>6
  <2> QED
    BY <2>1, <1>2 DEF ResultsInWindow
<1>13. NoResultsWhileFilling'
  BY <1>1 DEF NoResultsWhileFilling
<1>14. ConsumedWasRead'
  BY <1>1 DEF CInv, ConsumedWasRead, reader
<1> QED
  BY <1>7, <1>8, <1>9, <1>10, <1>11, <1>12, <1>13, <1>14 DEF CInv, BufferWindow

-----------------------------------------------------------------------------
(* The theorems.                                                           *)

(* Every step of the context preserves the invariant.                      *)
LEMMA NextPreservesCInv == CInv /\ [ContextNext]_cvars => CInv'
<1> SUFFICES ASSUME CInv, [ContextNext]_cvars PROVE CInv'
  OBVIOUS
<1>1. ASSUME NEW text \in Inputs, Reset(text) PROVE CInv'
  BY <1>1, ResetPreservesCInv
<1>2. CASE CallNext
  BY <1>2, CallNextPreservesCInv
<1>3. ASSUME NEW stopWord \in BOOLEAN, Consume(stopWord) PROVE CInv'
  BY <1>3, ConsumePreservesCInv
<1>4. CASE NoResult
  BY <1>4, NoResultPreservesCInv
<1>5. ASSUME NEW n \in ReadCounts, Fill(n) PROVE CInv'
  BY <1>5, FillPreservesCInv
<1>6. CASE EndOfInput
  BY <1>6, EndOfInputPreservesCInv
<1>7. CASE ReadFails
  BY <1>7, ReadFailsPreservesCInv
<1>8. ASSUME NEW locks \in SUBSET SubSegmenters, Analyze(locks) PROVE CInv'
  BY <1>8, AnalyzePreservesCInv
<1>9. ASSUME NEW rs \in ChosenResults, NEW trailing \in 0..1, Output(rs, trailing)
      PROVE  CInv'
  <2>1. trailing \in Nat
    OBVIOUS
  <2> QED
    BY <2>1, <1>9, OutputPreservesCInv
<1>10. CASE UNCHANGED cvars
  <2> USE <1>10 DEF cvars, reader, buffer, tallies
  <2>1. Loaded' = Loaded /\ Origin' = Origin /\ Needed' = Needed
    BY DEF Loaded, Origin, Needed
  <2>2. ContextTypeOK' /\ ConsumedWasRead'
    BY DEF CInv, ContextTypeOK, ConsumedWasRead
  <2>3. ReadContiguously' /\ UnprocessedIsRaw' /\ MoveIsRepeatable'
    BY <2>1 DEF CInv, BufferWindow, ReadContiguously, UnprocessedIsRaw, MoveIsRepeatable
  <2>4. ProcessedIsRegular' /\ ResultsInWindow' /\ NoResultsWhileFilling'
    BY <2>1 DEF CInv, BufferWindow, ProcessedIsRegular, ResultsInWindow,
       NoResultsWhileFilling
  <2> QED
    BY <2>2, <2>3, <2>4 DEF CInv, BufferWindow
<1> QED
  BY <1>1, <1>2, <1>3, <1>4, <1>5, <1>6, <1>7, <1>8, <1>9, <1>10
     DEF ContextNext, InsideNext

(* The invariant holds throughout.                                         *)
LEMMA CInvAlways == ContextSpec => []CInv
<1>1. ContextInit => CInv
  BY InitEstablishesCInv
<1>2. CInv /\ [ContextNext]_cvars => CInv'
  BY NextPreservesCInv
<1> QED
  BY <1>1, <1>2, PTL DEF ContextSpec

(* Every variable of the context keeps its type.                           *)
THEOREM ContextIsTyped == ContextSpec => []ContextTypeOK
<1>1. CInv => ContextTypeOK
  BY DEF CInv
<1> QED
  BY <1>1, CInvAlways, PTL

(* The buffer is a window on the input in every state: nothing is skipped, *)
(* read twice or regularised twice, and a failed read can be retried.      *)
THEOREM BufferIsAWindow == ContextSpec => []BufferWindow
<1>1. CInv => BufferWindow
  BY DEF CInv
<1> QED
  BY <1>1, CInvAlways, PTL

(* The characters up to the cursor are regular, and the results are theirs. *)
LEMMA CInvGivesFaithfulTexts == CInv => TextsFaithful
<1> SUFFICES ASSUME CInv, NEW k \in DOMAIN results,
                    NEW i \in results[k].begin..(End(results[k]) - 1)
             PROVE  segmentBuff[i] =
                       Regularize(input[results[k].offset + i + 1], EnableLowercase)
  BY DEF TextsFaithful
<1>1. results # <<>> /\ results[k] \in Lexeme
  BY DEF CInv, ContextTypeOK
<1>2. Loaded /\ Needed /\ cursor \in Nat
  BY <1>1 DEF CInv, ContextTypeOK, BufferWindow, ReadContiguously, Needed
<1>3. results[k].offset = Origin /\ End(results[k]) <= cursor + 1
  BY DEF CInv, BufferWindow, ResultsInWindow
<1>4. i \in 0..cursor
  BY <1>1, <1>2, <1>3 DEF Lexeme, End
<1> QED
  BY <1>2, <1>3, <1>4 DEF CInv, BufferWindow, ProcessedIsRegular

(* A lexeme's text, read out of the buffer when the caller asks for it, is *)
(* the text of the input at the lexeme's offsets.                          *)
THEOREM LexemeTextsAreFaithful == ContextSpec => []TextsFaithful
BY CInvGivesFaithfulTexts, CInvAlways, PTL

(* The final offset is never computed from beyond what was read.           *)
THEOREM ConsumptionFollowsReading == ContextSpec => []ConsumedWasRead
<1>1. CInv => ConsumedWasRead
  BY DEF CInv
<1> QED
  BY <1>1, CInvAlways, PTL
=============================================================================
