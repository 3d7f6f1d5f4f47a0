------------------------------ MODULE Unicode ------------------------------
(***************************************************************************)
(* UTF-8 (src/include/segmentlib/unicode/utf8.h) and the normalization     *)
(* that every backend applies to its input (unicode/normalize.h), over     *)
(* real bytes and code points.                                             *)
(***************************************************************************)
EXTENDS Integers, Sequences, SequencesExt, TLC

Bytes == 0 .. 255
Surrogates == 55296 .. 57343
MaxScalar == 1114111

-----------------------------------------------------------------------------
(* decode *)

SequenceLength(lead) ==
    CASE lead < 128 -> 1
      [] lead \div 32 = 6 -> 2
      [] lead \div 16 = 14 -> 3
      [] lead \div 8 = 30 -> 4
      [] OTHER -> 0

IsContinuation(b) == b \div 64 = 2

\* The bits of the lead byte, by length.
LeadBits == <<128, 32, 16, 8>>

\* The bits of the lead byte, then six of every continuation byte.
Payload(s, len) ==
    LET cp[i \in 1 .. len] == IF i = 1 THEN s[1] % LeadBits[len] ELSE cp[i - 1] * 64 + (s[i] % 64)
    IN  cp[len]

kMinCodepoint == <<0, 128, 2048, 65536>>

\* The code point a sequence of len bytes spells is one, and has no shorter spelling.
InRange(cp, len) == cp >= kMinCodepoint[len] /\ cp <= MaxScalar /\ cp \notin Surrogates

\* The first character of s, which is not empty: its code point and length; length 0 if malformed.
Decode(s) ==
    LET len == SequenceLength(s[1])
        wellFormed == /\ len # 0 /\ len <= Len(s)
                      /\ \A i \in 2 .. len : IsContinuation(s[i])
                      /\ InRange(Payload(s, len), len)
    IN  IF wellFormed THEN [codepoint |-> Payload(s, len), length |-> len]
        ELSE [codepoint |-> 0, length |-> 0]

\* Every character of s with the position of its first byte, up to the first malformed one.
Characters(s) ==
    LET from[p \in 1 .. Len(s) + 1] ==
            IF p > Len(s) THEN <<>>
            ELSE LET d == Decode(SubSeq(s, p, Len(s)))
                     c == [codepoint |-> d.codepoint, length |-> d.length, at |-> p - 1]
                 IN  <<c>> \o (IF d.length = 0 THEN <<>> ELSE from[p + d.length])
    IN  from[1]

Decodes(s) == \A k \in DOMAIN Characters(s) : Characters(s)[k].length > 0

-----------------------------------------------------------------------------
(* encode *)

Encode(cp) ==
    CASE cp < 128 -> <<cp>>
      [] 128 <= cp /\ cp < 2048 -> <<192 + (cp \div 64), 128 + (cp % 64)>>
      [] 2048 <= cp /\ cp < 65536 -> <<224 + (cp \div 4096), 128 + ((cp \div 64) % 64), 128 + (cp % 64)>>
      [] OTHER -> <<240 + (cp \div 262144), 128 + ((cp \div 4096) % 64), 128 + ((cp \div 64) % 64), 128 + (cp % 64)>>

-----------------------------------------------------------------------------
(* normalize *)

\* a-z, A-Z and 0-9 move to the full-width block; the punctuation goes by a list.
AlphaNumeric == (48 .. 57) \cup (65 .. 90) \cup (97 .. 122)
Punctuation ==
    <<40, 41, 123, 125, 60, 62, 65378, 65379, 91, 93, 45, 65374, 46, 65293, 47, 95, 44, 37, 63, 65380,
      8213, 34, 39, 65381, 9472, 43, 58, 8211, 33, 65377, 38, 42, 64, 61>>
NormalPunctuation ==
    <<65288, 65289, 65371, 65373, 65308, 65310, 12300, 12301, 65339, 65341, 8722, 12316, 12290, 12540, 65295,
      65343, 65292, 65285, 65311, 12289, 12540, 8221, 8217, 12539, 12540, 65291, 65306, 12540, 65281, 12290,
      65286, 65290, 65312, 65309>>

Normalize(cp) ==
    IF cp \in AlphaNumeric THEN cp + 65248
    ELSE IF \E i \in DOMAIN Punctuation : Punctuation[i] = cp
    THEN NormalPunctuation[CHOOSE i \in DOMAIN Punctuation : Punctuation[i] = cp]
    ELSE cp
=============================================================================
