---------------------------- MODULE SortedLexemes ----------------------------
(***************************************************************************)
(* What src/core/quick_sort_set.go promises: a set of lexemes, at most one *)
(* per span, from which the first and the last in CompareTo order can be   *)
(* taken.  An insertion takes time: the lexeme is handed over first        *)
(* (busy), and has its effect later.                                       *)
(***************************************************************************)
EXTENDS Lexeme

CONSTANT Lexemes         \* the lexemes a caller may insert, each in Lexeme

NoLexeme == [offset |-> 0, begin |-> 0, length |-> 0, lexemeType |-> TypeUnknown]

VARIABLES contents,      \* the lexemes held
          busy,          \* the lexeme being inserted, or NoLexeme
          result         \* what the last completed call returned

svars == <<contents, busy, result>>

(* A call returns a verdict and the lexeme it is about.                    *)
Answer(ok, l) == [ok |-> ok, lexeme |-> l]

Answers == [ok: BOOLEAN, lexeme: Lexemes \cup {NoLexeme}]

SortedInit == /\ contents = {}
              /\ busy = NoLexeme
              /\ result = Answer(FALSE, NoLexeme)

First(S) == CHOOSE l \in S : \A m \in S : m = l \/ Before(l, m)
Last(S)  == CHOOSE l \in S : \A m \in S : m = l \/ Before(m, l)

(* The caller hands over a lexeme.                                         *)
Offer(l) == /\ busy = NoLexeme
            /\ busy' = l
            /\ UNCHANGED <<contents, result>>

(* It is inserted, unless its span is there already.                       *)
Insert == /\ busy # NoLexeme
          /\ IF \E m \in contents : SameSpan(m, busy)
             THEN /\ result' = Answer(FALSE, busy)
                  /\ contents' = contents
             ELSE /\ result' = Answer(TRUE, busy)
                  /\ contents' = contents \cup {busy}
          /\ busy' = NoLexeme

PollNothing == /\ busy = NoLexeme
               /\ contents = {}
               /\ result' = Answer(FALSE, NoLexeme)
               /\ UNCHANGED <<contents, busy>>

Poll(l) == /\ busy = NoLexeme
           /\ contents # {}
           /\ result' = Answer(TRUE, l)
           /\ contents' = contents \ {l}
           /\ UNCHANGED busy

SortedNext == \/ \E l \in Lexemes : Offer(l)
              \/ Insert
              \/ PollNothing
              \/ Poll(First(contents))
              \/ Poll(Last(contents))

SortedSpec == SortedInit /\ [][SortedNext]_svars
=============================================================================
