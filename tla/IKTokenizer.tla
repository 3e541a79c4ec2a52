------------------------------ MODULE IKTokenizer ------------------------------
(***************************************************************************)
(* src/lucene/ik_tokenizer.go: the token stream around the engine, with    *)
(* the life cycle of its reader.  A caller stages a text (SetReader),      *)
(* installs it (Reset), asks for tokens, asks for the final offset (End)   *)
(* and closes, in any order and as often as it likes.                      *)
(*                                                                         *)
(* The readers are string readers, which fail only once closed, and the    *)
(* placeholder, which always fails.                                        *)
(***************************************************************************)
EXTENDS IKSegmenter, JavaText

VARIABLES
    reading,       \* the reader the engine holds: placeholder, open or closed
    inputPending,  \* the staged text, as a sequence of at most one
    term, startOffset, endOffset, positionIncrement, tokenType,  \* the attributes
    endPosition, skippedPositions,
    returned       \* history: what IncrementToken last returned since Reset

attributes == <<term, startOffset, endOffset, positionIncrement, tokenType>>
stream     == <<reading, inputPending, attributes, endPosition, skippedPositions,
                returned>>
tvars      == <<engine, stream>>

DefaultType == "word"

TokenizerInit ==
    /\ EngineInit
    /\ input = <<>> /\ reading = "placeholder" /\ inputPending = <<>>
    /\ term = <<>> /\ startOffset = 0 /\ endOffset = 0 /\ positionIncrement = 1
    /\ tokenType = DefaultType
    /\ endPosition = 0 /\ skippedPositions = 0
    /\ returned = "nothing"

-----------------------------------------------------------------------------
(* Faulty: readers queue up.                                               *)
SetReaderQueued(text) ==
    /\ pc = "idle"
    /\ inputPending' = Append(inputPending, text)
    /\ UNCHANGED <<engine, reading, attributes, endPosition, skippedPositions,
                   returned>>

SetReader(text) ==
    /\ pc = "idle"
    /\ inputPending' = <<text>>
    /\ UNCHANGED <<engine, reading, attributes, endPosition, skippedPositions,
                   returned>>

(* Reset without a staged text installs the placeholder.                   *)
ResetStream ==
    /\ EngineReset(IF inputPending = <<>> THEN <<>> ELSE Head(inputPending))
    /\ reading' = IF inputPending = <<>> THEN "placeholder" ELSE "open"
    /\ inputPending' = <<>>
    /\ endPosition' = 0 /\ skippedPositions' = 0
    /\ returned' = "nothing"
    /\ UNCHANGED attributes

(* Close closes the reader that the engine goes on holding.                *)
Close ==
    /\ pc = "idle"
    /\ reading' = IF reading = "placeholder" THEN reading ELSE "closed"
    /\ inputPending' = <<>>
    /\ UNCHANGED <<engine, attributes, endPosition, skippedPositions, returned>>

(* IncrementToken is called: ClearAttributes, then the engine's Next.      *)
IncrementToken ==
    /\ NextCalled
    /\ term' = <<>> /\ startOffset' = 0 /\ endOffset' = 0 /\ positionIncrement' = 1
    /\ tokenType' = DefaultType
    /\ UNCHANGED <<reading, inputPending, endPosition, skippedPositions, returned>>

(* Next returns a lexeme.                                                  *)
ReturnToken ==
    LET l == Head(Compound(results))
    IN  /\ TakeResult
        /\ pc' = "idle"
        /\ skippedPositions' = savedSkippedCount'
        /\ positionIncrement' = skippedPositions' + 1
        /\ term' = Span(l.begin, l.length)
        /\ tokenType' = LexemeTypeString(l)
        /\ startOffset' = BeginPosition(l)
        /\ endOffset' = EndPosition(l)
        /\ endPosition' = EndPosition(l)
        /\ returned' = "token"
        /\ UNCHANGED <<reading, inputPending>>

(* Next returns nil, or the error of a reader that must not be read.  The  *)
(* caller may ask again.                                                   *)
ReturnNone == /\ reading = "open"
              /\ Exhausted
              /\ returned' = IF returned \in {"none", "none again"}
                             THEN "none again" ELSE "none"
              /\ UNCHANGED <<reading, inputPending, attributes, endPosition,
                             skippedPositions>>

ReturnError == /\ reading # "open"
               /\ FillFails
               /\ returned' = "error"
               /\ UNCHANGED <<reading, inputPending, attributes, endPosition,
                              skippedPositions>>

(* What Next does before it returns.                                       *)
InsideIncrement == /\ \/ TakeResult /\ pc' = "poll"
                      \/ NoMoreResults
                      \/ reading = "open" /\ \E n \in ReadCounts : FillBuffer(n)
                      \/ AnalyzeCharacter
                      \/ Arbitrate
                   /\ UNCHANGED stream

(* Faulty: the offset is counted from the last token (issue #921).         *)
EndStreamAtLastToken ==
    /\ pc = "idle"
    /\ term' = <<>> /\ tokenType' = DefaultType
    /\ endOffset' = endPosition + lastUselessCharNum
    /\ startOffset' = endOffset'
    /\ positionIncrement' = skippedPositions
    /\ UNCHANGED <<engine, reading, inputPending, endPosition, skippedPositions,
                   returned>>

(* EndAttributes, then the final offset and the positions left over.       *)
EndStream ==
    /\ pc = "idle"
    /\ term' = <<>> /\ tokenType' = DefaultType
    /\ endOffset' = Max({endPosition, FurthestConsumed}) + lastUselessCharNum
    /\ startOffset' = endOffset'
    /\ positionIncrement' = skippedPositions
    /\ UNCHANGED <<engine, reading, inputPending, endPosition, skippedPositions,
                   returned>>

(* The dictionary is replaced under the stream.                            *)
ReloadedMeanwhile == DictionaryReloaded /\ UNCHANGED stream

TokenizerNext == \/ \E text \in LaterInputs : SetReader(text)
                 \/ ResetStream
                 \/ Close
                 \/ IncrementToken
                 \/ ReturnToken
                 \/ ReturnNone
                 \/ ReturnError
                 \/ InsideIncrement
                 \/ EndStream
                 \/ ReloadedMeanwhile

TokenizerSpec == TokenizerInit /\ [][TokenizerNext]_tvars

-----------------------------------------------------------------------------
(* Every variable of the stream has its type.                              *)
TokenizerTypeOK ==
    /\ EngineTypeOK
    /\ reading \in {"placeholder", "open", "closed"}
    /\ inputPending \in Seq(LaterInputs) /\ Len(inputPending) <= 1
    /\ term \in Seq(Char)
    /\ startOffset \in Nat /\ endOffset \in Nat /\ positionIncrement \in Nat
    /\ tokenType = DefaultType <=> term = <<>>
    /\ endPosition \in Nat /\ skippedPositions \in Nat
    /\ returned \in {"nothing", "token", "none", "none again", "error"}

(* A token is of the text installed last and of no earlier one: its term   *)
(* is that text at its offsets (ik_tokenizer.go:58-62, 70-77).             *)
TermsFollowTheText ==
    (pc = "idle" /\ returned = "token" /\ term # <<>>) =>
       /\ startOffset < endOffset /\ endOffset <= Len(input)
       /\ term = SubSeq(Text, startOffset + 1, endOffset)

(* A term passes through a Go string on its way out of the buffer and into *)
(* the attribute, and through another to its reader: no code unit is lost  *)
(* or changed there, half a surrogate pair included (text.go:8-11, 28-31). *)
TermsSurviveStrings == EncodeUTF16(DecodeUTF16(term)) = term

(* A token advances one position, and one more for every stop word that    *)
(* was dropped since the token before it (ik_tokenizer.go:54-56), in a     *)
(* text, or a part of it, that the first buffer holds: what is dropped     *)
(* before a refill is not counted (SkipsBecomePositions).                  *)
IncrementsCountStopWords ==
    (pc = "idle" /\ returned = "token" /\ term # <<>> /\ Origin = 0) =>
       LET kept == {k \in 1..(Len(tokens) - 1) : ~tokens[k].stop}
       IN  positionIncrement = Len(tokens) - Max(kept \cup {0})

(* End, called when IncrementToken first reports the end, publishes the    *)
(* length of the text, also when every word of it was a stop word          *)
(* (ik_tokenizer.go:79-82), unless half a surrogate pair is in it that     *)
(* comes out in no token.                                                  *)
FinalOffsetIsLength ==
    [][(EndStream /\ returned = "none"
          /\ \A i \in DOMAIN input : TypeAt(i) # charSurrogate)
          => endOffset' = Len(input)]_tvars

(* No token comes out of a stream that holds the placeholder: not before   *)
(* the first Reset, and not after a Reset without a staged text, whatever  *)
(* an earlier text left behind (ik_tokenizer.go:20-22).                    *)
PlaceholderGivesNoToken ==
    [][ReturnToken => reading # "placeholder"]_tvars
=============================================================================
