------------------------------- MODULE Lexeme -------------------------------
(***************************************************************************)
(* The token of src/core/lexeme.go: where it starts in the analysis        *)
(* buffer, how long it is, its type, and where the buffer itself starts in *)
(* the input.  Positions count UTF-16 code units and start at zero.        *)
(***************************************************************************)
EXTENDS Integers

TypeUnknown  == 0
TypeEnglish  == 1
TypeArabic   == 2
TypeLetter   == 3
TypeCNWord   == 4
TypeOtherCJK == 8
TypeCNum     == 16
TypeCount    == 32
TypeCQuan    == 48
TypeCNChar   == 64

LexemeType == {TypeUnknown, TypeEnglish, TypeArabic, TypeLetter, TypeCNWord,
               TypeOtherCJK, TypeCNum, TypeCount, TypeCQuan, TypeCNChar}

(* No lexeme of the engine is empty: HashCode divides by the length.       *)
Lexeme == [offset: Nat, begin: Nat, length: Nat \ {0}, lexemeType: LexemeType]

NewLexeme(offset, begin, length, lexemeType) ==
    [offset |-> offset, begin |-> begin, length |-> length,
     lexemeType |-> lexemeType]

(* The names that the token stream reports.                                *)
LexemeTypeString(l) ==
    CASE l.lexemeType = TypeEnglish  -> "ENGLISH"
      [] l.lexemeType = TypeArabic   -> "ARABIC"
      [] l.lexemeType = TypeLetter   -> "LETTER"
      [] l.lexemeType = TypeCNWord   -> "CN_WORD"
      [] l.lexemeType = TypeCNChar   -> "CN_CHAR"
      [] l.lexemeType = TypeOtherCJK -> "OTHER_CJK"
      [] l.lexemeType = TypeCount    -> "COUNT"
      [] l.lexemeType = TypeCNum     -> "TYPE_CNUM"
      [] l.lexemeType = TypeCQuan    -> "TYPE_CQUAN"
      [] OTHER                       -> "UNKNOWN"

(* The end of a lexeme within the buffer, and its span within the input.   *)
End(l)           == l.begin + l.length
BeginPosition(l) == l.offset + l.begin
EndPosition(l)   == l.offset + l.begin + l.length

(***************************************************************************)
(* CompareTo: by start, and among those that start together the longest    *)
(* first.  Offset, text and type take no part.                             *)
(***************************************************************************)
Before(l, m) == \/ l.begin < m.begin
                \/ l.begin = m.begin /\ l.length > m.length

SameSpan(l, m) == l.begin = m.begin /\ l.length = m.length

CompareTo(l, m) == IF Before(l, m) THEN -1
                   ELSE IF SameSpan(l, m) THEN 0 ELSE 1

(* Append: other joins l only when it starts exactly where l ends.         *)
CanAppend(l, other) == EndPosition(l) = BeginPosition(other)

Appended(l, other, lexemeType) ==
    NewLexeme(l.offset, l.begin, l.length + other.length, lexemeType)
=============================================================================
