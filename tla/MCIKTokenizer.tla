----------------------------- MODULE MCIKTokenizer -----------------------------
(***************************************************************************)
(* The tokenizer over a few texts, staged, installed and read in any       *)
(* order: words, stop words, useless characters, surrogate pairs, whole    *)
(* and broken, and texts longer than the buffer.                           *)
(***************************************************************************)
EXTENDS IKTokenizer

zhong == 20013
guo   == 22269
ge    == 20010   \* a stop word
comma == 44
high  == 55357   \* the halves of a surrogate pair
low   == 56832

Short == UNION {[1..n -> {zhong, guo, ge, comma}] : n \in 0..2}
Long  == {<<ge, ge, comma>>, <<zhong, zhong, guo>>, <<ge, zhong, zhong>>, <<ge, zhong, ge, guo>>,
          <<comma, zhong, comma, ge>>, <<zhong, ge, ge, guo, comma>>,
          <<guo, zhong, guo, ge, ge, zhong>>,
          <<low, high>>, <<high, high, low, zhong>>, <<zhong, guo, zhong, high, low>>}

MCTexts == Short \cup Long

(* The reload takes a word away and makes another a stop word.             *)
MCWords == <<[main |-> {<<zhong, guo>>, <<guo, zhong, guo>>, <<ge, guo>>}, stop |-> {<<ge>>}],
             [main |-> {<<zhong, guo>>, <<zhong, ge>>}, stop |-> {<<zhong, guo>>}]>>
MCNone      == {}
=============================================================================
