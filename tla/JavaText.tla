------------------------------- MODULE JavaText -------------------------------
(***************************************************************************)
(* The text of src/jdk/text.go.  The engine works on UTF-16 code units; on *)
(* their way in and out texts are Go strings, that is bytes, in UTF-8 but  *)
(* for surrogates without a partner, which are written the same way        *)
(* although UTF-8 forbids them.                                            *)
(***************************************************************************)
EXTENDS CharacterUtil, Sequences

Byte == 0..255

IsSurrogate(r) == r \in 55296..57343

CodePoints == 17 * 65536

(* The bytes of a code point, as WriteRune and, for surrogates, DecodeUTF16*)
(* itself put them out.                                                    *)
Bytes(r) ==
    LET tail(d) == 128 + ((r \div d) % 64)
    IN  IF r < 128 THEN <<r>>
        ELSE IF r < 2048 THEN <<192 + (r \div 64), tail(1)>>
        ELSE IF r < 65536 THEN <<224 + (r \div 4096), tail(64), tail(1)>>
        ELSE <<240 + ((r \div 4096) \div 64), tail(4096), tail(64), tail(1)>>

(* The code units i and i + 1 are the two halves of a pair.                *)
PairAt(units, i) == /\ i < Len(units)
                    /\ IsHighSurrogate(units[i]) /\ IsLowSurrogate(units[i + 1])

DecodeUTF16(units) ==
    LET from[i \in 1..(Len(units) + 2)] ==
           IF i > Len(units) THEN <<>>
           ELSE IF PairAt(units, i)
           THEN Bytes(65536 + (units[i] - 55296) * 1024 + (units[i + 1] - 56320))
                   \o from[i + 2]
           ELSE Bytes(units[i]) \o from[i + 1]
    IN  from[1]

-----------------------------------------------------------------------------
RuneError == 65533

(* The code point whose bytes stand at i, surrogates included, and how     *)
(* many they are: the only one that is written with the bytes that are     *)
(* there, so that a longer form than necessary is none.                    *)
RunesAt(s, i) ==
    LET size == IF s[i] < 128 THEN 1 ELSE IF s[i] < 224 THEN 2
                ELSE IF s[i] < 240 THEN 3 ELSE 4
        lead == s[i] % (<<128, 32, 16, 8>>[size])
        value[k \in 1..size] == IF k = 1 THEN lead
                                ELSE value[k - 1] * 64 + (s[i + k - 1] % 64)
    IN  {[rune |-> value[n], size |-> n] :
            n \in {n \in {size} : /\ i + n - 1 <= Len(s)
                                  /\ value[n] < CodePoints
                                  /\ Bytes(value[n]) = SubSeq(s, i, i + n - 1)}}

(* Faulty: half a pair is an error as it is in UTF-8.                      *)
DecodeUTF8(s, i) ==
    LET valid == {r \in RunesAt(s, i) : ~IsSurrogate(r.rune)}
    IN  IF valid # {} THEN CHOOSE r \in valid : TRUE
        ELSE [rune |-> RuneError, size |-> 1]

(* A byte that begins no code point is an error of its own.                *)
DecodeWTF8(s, i) ==
    IF RunesAt(s, i) # {} THEN CHOOSE r \in RunesAt(s, i) : TRUE
    ELSE [rune |-> RuneError, size |-> 1]

EncodeUTF16(s) ==
    LET from[i \in 1..(Len(s) + 1)] ==
           IF i > Len(s) THEN <<>>
           ELSE LET r == DecodeWTF8(s, i)
                IN  (IF r.rune < 65536 THEN <<r.rune>>
                     ELSE <<55296 + ((r.rune - 65536) \div 1024),
                            56320 + ((r.rune - 65536) % 1024)>>) \o from[i + r.size]
    IN  from[1]

-----------------------------------------------------------------------------
(* Trim takes away what is not above the space, at both ends.              *)
Space == 32

Trim(units) ==
    LET kept == {i \in 1..Len(units) : units[i] > Space}
    IN  IF kept = {} THEN <<>>
        ELSE SubSeq(units, CHOOSE i \in kept : \A j \in kept : i <= j,
                           CHOOSE i \in kept : \A j \in kept : j <= i)

(* Capitals of ASCII become small; those of other scripts are left out.    *)
ToLower(units) == [i \in 1..Len(units) |->
                      IF units[i] \in 65..90 THEN units[i] + 32 ELSE units[i]]
=============================================================================
