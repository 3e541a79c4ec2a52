--------------------------- MODULE MCLiveDictionary ---------------------------
(***************************************************************************)
(* The live dictionary over four characters, so that the root outgrows its *)
(* array, with words that are prefixes of others.                          *)
(***************************************************************************)
EXTENDS LiveDictionary

a == 97
b == 98
c == 99
d == 100

MCWords == {<<a>>, <<a, b>>, <<a, b, c>>, <<b>>, <<b, c>>, <<c>>, <<d>>}

MCTexts == {<<a, b, c>>}

Main(word) == [kind |-> "main", word |-> word]
Stop(word) == [kind |-> "stop", word |-> word]

(* Both lists together give the root four children; one has an empty line. *)
MCLoads == {<<Main(<<c>>), Main(<<a, b>>), Stop(<<c>>)>>,
            <<Main(<<d>>), Main(<<>>), Main(<<b, c>>)>>}

(* The second list panics at its empty word.                               *)
MCBatches == {<<<<a, b>>, <<a, b, c>>>>, <<<<b, c>>, <<>>, <<c>>>>}
=============================================================================
