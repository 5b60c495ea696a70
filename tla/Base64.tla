-------------------------------- MODULE Base64 --------------------------------
(***************************************************************************)
(* base64.hpp.  A character is its place in base64_chars, from 0; '=' is   *)
(* 64, and 65 is any character that is neither.                            *)
(***************************************************************************)
EXTENDS Integers, SequencesExt

Pad == 64
is_base64(c) == c < 64

\* Three bytes as four characters, and back.  A byte drops what does not fit.
Characters(b) == <<b[1] \div 4, (b[1] % 4) * 16 + b[2] \div 16, (b[2] % 16) * 4 + b[3] \div 64, b[3] % 64>>
Bytes(c) == <<(c[1] * 4 + (c[2] % 64) \div 16) % 256, ((c[2] % 16) * 16 + (c[3] % 64) \div 4) % 256,
              ((c[3] % 4) * 64 + c[4]) % 256>>

base64_encode(input) ==
    LET Group(k) ==
                LET i == IF 3 * k <= Len(input) THEN 3 ELSE Len(input) - 3 * k + 3
                filled == [j \in 1..3 |-> IF j <= i THEN input[3 * k - 3 + j] ELSE 0]
            IN  SubSeq(Characters(filled), 1, i + 1) \o [j \in 1..3 - i |-> Pad]
    IN  FlattenSeq([k \in 1..(Len(input) + 2) \div 3 |-> Group(k)])

\* The decoder stops at the first character it does not know; in the last
\* group what is missing counts as npos cut to a byte.
base64_decode(input) ==
    LET stop == SelectInSeq(input, LAMBDA c : ~is_base64(c))
        text == IF stop = 0 THEN input ELSE SubSeq(input, 1, stop - 1)
        Group(k) ==
            LET i == IF 4 * k <= Len(text) THEN 4 ELSE Len(text) - 4 * k + 4
                filled == [j \in 1..4 |-> IF j <= i THEN text[4 * k - 4 + j] ELSE 255]
            IN  SubSeq(Bytes(filled), 1, i - 1)
    IN  FlattenSeq([k \in 1..(Len(text) + 3) \div 4 |-> Group(k)])
=============================================================================
