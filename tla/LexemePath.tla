------------------------------ MODULE LexemePath ------------------------------
(***************************************************************************)
(* The chains of lexemes of src/core/lexeme_path.go: the candidates for a  *)
(* stretch of text that lexemes cover in more than one way, or one way to  *)
(* cover it.  The list underneath is a sequence in CompareTo order; that   *)
(* quick_sort_set.go keeps it so is what QuickSortSet.tla shows.           *)
(***************************************************************************)
EXTENDS Lexeme, SequencesExt

(* Faulty: a span that is there already is added again.                    *)
AddLexemeAgain(q, l) ==
    InsertAt(q, Cardinality({k \in DOMAIN q : Before(q[k], l)}) + 1, l)

(* quickSortSet.addLexeme: at its place in the order, unless its span is   *)
(* there already.                                                          *)
AddLexeme(q, l) ==
    IF \E k \in DOMAIN q : SameSpan(q[k], l) THEN q
    ELSE InsertAt(q, Cardinality({k \in DOMAIN q : Before(q[k], l)}) + 1, l)

AddLexemes(q, ls) == FoldLeft(AddLexeme, q, ls)

newLexemePath ==
    [lexemes |-> <<>>, pathBegin |-> -1, pathEnd |-> -1, payloadLength |-> 0]

IsEmpty(p) == p.lexemes = <<>>

(* The path of a single lexeme.                                            *)
PathOf(l) == [lexemes |-> <<l>>, pathBegin |-> l.begin, pathEnd |-> End(l),
              payloadLength |-> l.length]

(* Overlap with the span of the path, not with any one of its lexemes.     *)
CheckCross(p, l) == \/ l.begin >= p.pathBegin /\ l.begin < p.pathEnd
                    \/ p.pathBegin >= l.begin /\ p.pathBegin < End(l)

MayAddCross(p, l)    == IsEmpty(p) \/ CheckCross(p, l)
MayAddNotCross(p, l) == IsEmpty(p) \/ ~CheckCross(p, l)

(* Faulty: the path ends where the newest lexeme does.                     *)
AddCrossLexemeAtEnd(p, l) ==
    IF IsEmpty(p) THEN PathOf(l)
    ELSE [p EXCEPT !.lexemes = AddLexeme(@, l),
                   !.pathEnd = End(l),
                   !.payloadLength = End(l) - p.pathBegin]

(* A candidate that overlaps: the payload is the whole span.               *)
AddCrossLexeme(p, l) ==
    IF IsEmpty(p) THEN PathOf(l)
    ELSE LET end == Max({End(l), p.pathEnd})
         IN  [lexemes |-> AddLexeme(p.lexemes, l), pathBegin |-> p.pathBegin,
              pathEnd |-> end, payloadLength |-> end - p.pathBegin]

(* A lexeme that fits: the payload is what the lexemes carry.              *)
AddNotCrossLexeme(p, l) ==
    IF IsEmpty(p) THEN PathOf(l)
    ELSE LET q == AddLexeme(p.lexemes, l)
         IN  [lexemes |-> q, pathBegin |-> Head(q).begin, pathEnd |-> End(Last(q)),
              payloadLength |-> p.payloadLength + l.length]

(* Faulty: the payload keeps the lexeme's length.                          *)
RemoveTailKeepsPayload(p) ==
    IF Len(p.lexemes) <= 1 THEN newLexemePath
    ELSE LET q == Front(p.lexemes)
         IN  [p EXCEPT !.lexemes = q, !.pathEnd = End(Last(q))]

(* The path without its last lexeme.                                       *)
RemoveTail(p) ==
    IF Len(p.lexemes) <= 1 THEN newLexemePath
    ELSE LET q == Front(p.lexemes)
         IN  [lexemes |-> q, pathBegin |-> p.pathBegin, pathEnd |-> End(Last(q)),
              payloadLength |-> p.payloadLength - Last(p.lexemes).length]

-----------------------------------------------------------------------------
(* The ranking *)

MaxInt32 == 2147483647

(* The product of the lengths, each at most 10, saturating.                *)
GetXWeight(p) ==
    LET times(w, l) == LET n == Min({l.length, 10})
                       IN  IF w > MaxInt32 \div n THEN MaxInt32 ELSE w * n
    IN  FoldLeft(times, 1, p.lexemes)

(* The sum of the lengths, each times its place in the chain.              *)
GetPWeight(p) ==
    LET plus(w, k) == w + k * p.lexemes[k].length
    IN  FoldLeftDomain(plus, 0, p.lexemes)

(* Faulty: the number of lexemes does not count.                           *)
RankWithoutCount(p) == <<p.payloadLength, p.pathEnd - p.pathBegin, p.pathEnd,
                         GetXWeight(p), GetPWeight(p)>>

(* What compareTo looks at, in its order; more is better.                  *)
Rank(p) == <<p.payloadLength, -Len(p.lexemes), p.pathEnd - p.pathBegin,
             p.pathEnd, GetXWeight(p), GetPWeight(p)>>

(* p.compareTo(q) < 0.                                                     *)
Better(p, q) == LET a == Rank(p)
                    b == Rank(q)
                IN  \E i \in DOMAIN a : /\ a[i] > b[i]
                                        /\ \A j \in 1..(i - 1) : a[j] = b[j]

-----------------------------------------------------------------------------
(* The lexemes of a way to cover a text: none overlaps another, and the    *)
(* fields say so.                                                          *)
Disjoint(l, m) == End(l) <= m.begin \/ End(m) <= l.begin

IsSegmentation(p) ==
    /\ \A i, j \in DOMAIN p.lexemes : i < j => End(p.lexemes[i]) <= p.lexemes[j].begin
    /\ IF IsEmpty(p) THEN p = newLexemePath
       ELSE /\ p.pathBegin = Head(p.lexemes).begin
            /\ p.pathEnd = End(Last(p.lexemes))
            /\ p.payloadLength =
                  FoldLeft(LAMBDA n, l : n + l.length, 0, p.lexemes)
=============================================================================
