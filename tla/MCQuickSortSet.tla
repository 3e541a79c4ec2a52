---------------------------- MODULE MCQuickSortSet ----------------------------
(* The spans of a text of three units, two of them twice under another type. *)
EXTENDS QuickSortSet

Words == {NewLexeme(0, b, n, TypeCNWord) : b \in 0..2, n \in 1..3}

MCLexemes == {l \in Words : End(l) <= 3} \cup {NewLexeme(0, 0, 2, TypeLetter)}

=============================================================================
