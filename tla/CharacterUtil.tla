---------------------------- MODULE CharacterUtil ----------------------------
(***************************************************************************)
(* src/core/character_util.go and the tables of characters it is used      *)
(* with.  A character is a UTF-16 code unit.                               *)
(***************************************************************************)
EXTENDS Integers

Char == 0..65535

charUseless   == 0
charArabic    == 1
charEnglish   == 2
charChinese   == 4
charOtherCJK  == 8
charSurrogate == 22      \* 0x16, not the next free bit

CharType == {charUseless, charArabic, charEnglish, charChinese, charOtherCJK,
             charSurrogate}

(* The blocks of jdk.UnicodeBlockOf, by what identifyCharType makes of     *)
(* them.                                                                   *)
ChineseBlocks   == (13312..19903) \cup (19968..40959) \cup (63744..64255)
OtherCJKBlocks  == (4352..4607) \cup (12352..12447) \cup (12448..12543)
                   \cup (12592..12687) \cup (12784..12799) \cup (44032..55215)
                   \cup (65280..65519)
SurrogateBlocks == 55296..57343

IdentifyCharType(char) ==
    IF char \in 48..57 THEN charArabic
    ELSE IF char \in (97..122) \cup (65..90) THEN charEnglish
    ELSE IF char \in ChineseBlocks THEN charChinese
    ELSE IF char \in OtherCJKBlocks THEN charOtherCJK
    ELSE IF char \in SurrogateBlocks THEN charSurrogate
    ELSE charUseless

(* The ideographic space and the fullwidth forms become ASCII; A-Z become  *)
(* a-z when the configuration asks for it.  A fullwidth capital becomes an *)
(* ASCII capital and stays one: the function is not idempotent, so that    *)
(* how often it is applied to a character matters.                         *)
Regularize(char, lowercase) ==
    IF char = 12288 THEN 32
    ELSE IF char \in 65281..65374 THEN char - 65248
    ELSE IF char \in 65..90 /\ lowercase THEN char + 32
    ELSE char

IsHighSurrogate(c) == c \in 55296..56319
IsLowSurrogate(c)  == c \in 56320..57343

(* # & + - . @ _ may stand inside a mixed token, comma and dot inside a    *)
(* number.                                                                 *)
letterConnectors == {35, 38, 43, 45, 46, 64, 95}
numConnectors    == {44, 46}

(* The characters that spell a Chinese numeral, in the order of chnNum.    *)
chnNumberChars ==
    {19968, 20108, 20004, 19977, 22235, 20116, 20845, 19971, 20843, 20061,
     21313, 38646, 22777, 36144, 21441, 32902, 20237, 38470, 26578, 25420,
     29590, 25342, 30334, 21315, 19975, 20159, 20336, 20191, 33836, 20740,
     20806, 21317, 24319}
=============================================================================
