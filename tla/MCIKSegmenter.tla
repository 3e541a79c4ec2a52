----------------------------- MODULE MCIKSegmenter -----------------------------
(***************************************************************************)
(* The engine over every text of up to so many units of a few characters.  *)
(***************************************************************************)
EXTENDS IKSegmenter

Texts(chars, n) == UNION {[1..k -> chars] : k \in 0..n}

a     == 97
one   == 49
dash  == 45     \* inside a mixed token
comma == 44     \* inside a number
zhong == 20013  \* Chinese, in words of the dictionary
guo   == 22269
yi    == 19968  \* a Chinese numeral
ge    == 20010  \* a quantifier
yue   == 26376
ka    == 12363  \* kana
high  == 55357  \* the halves of a surrogate pair
low   == 56832

Letters(n)    == Texts({a, one, dash, comma, zhong}, n)
Words(n)      == Texts({zhong, guo, yi, ge, comma}, n)
Quantities(n) == Texts({one, yi, ge, yue, comma}, n)
Pairs(n)      == Texts({a, zhong, ka, high, low}, n)

(* Words that fill a buffer to its end, and behind them what is topped up  *)
(* early: the types of the words still stand in the cells past the cursor. *)
MCStale == {<<zhong, guo, zhong, guo, ka, ka, ka, ka>>,
            <<zhong, guo, zhong, guo, zhong, ka, ka, ka, comma, comma>>}

MCLetters == Letters(3)
MCMaxWord == Letters(4) \cup Words(5) \cup MCStale
MCSmart   == Letters(5) \cup Words(6) \cup Quantities(6) \cup Pairs(6) \cup MCStale

(* A word that starts another, one inside another and one across both; in  *)
(* max-word mode also words that mix Chinese with letters, in smart mode   *)
(* one that mixes it with a surrogate pair, and one that two shorter words *)
(* beat although they leave a character between them.                      *)
MCMainWords  == {<<zhong, guo>>, <<guo, zhong, guo>>, <<guo, yi>>, <<zhong, guo, yi>>}
MCMixedWords == MCMainWords \cup {<<a, zhong>>, <<zhong, one>>}
MCSmartWords == MCMainWords \cup {<<zhong, high, low>>, <<guo, ge, zhong>>}

MCQuantifierWords == {<<ge>>, <<ge, yue>>}
MCStopWords       == {<<ge>>, <<zhong>>}

(* A reload takes words away, of those that begin like another and those   *)
(* that end like one, brings a longer one, and changes the stop words.     *)
MCMixed == <<[main |-> MCMixedWords, stop |-> MCStopWords],
             [main |-> {<<guo, yi>>, <<zhong, guo>>, <<zhong, guo, guo>>},
              stop |-> {<<zhong>>, <<guo, yi>>}]>>
MCSmarter == <<[main |-> MCSmartWords, stop |-> MCStopWords],
               [main |-> {<<guo, yi>>, <<zhong, guo>>, <<zhong, high, low>>, <<zhong, guo, guo>>},
                stop |-> {<<zhong>>, <<guo, yi>>}]>>
MCOne   == <<[main |-> MCSmartWords, stop |-> MCStopWords]>>
MCBare  == <<[main |-> {}, stop |-> {}]>>

(* What PairsStayTogether asks of a dictionary.                            *)
ASSUME MCWordsKeepPairs == WordsKeepPairs

MCNone  == {}
MCEmpty == {<<>>}
MCLater == {<<>>, <<zhong, guo, comma>>}
=============================================================================
