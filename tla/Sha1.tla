--------------------------------- MODULE Sha1 ---------------------------------
(***************************************************************************)
(* sha1.hpp: the digest of the handshake's key.                            *)
(***************************************************************************)
EXTENDS Words

\* What a round mixes in: a function of three registers and a constant.
Func(round, b, c, d) ==
    CASE round < 20 -> (b \intersect c) \union (d \ b)
      [] round \in 20..39 -> Xor(Xor(b, c), d)
      [] round \in 40..59 -> (b \intersect c) \union (b \intersect d) \union (c \intersect d)
      [] OTHER -> Xor(Xor(b, c), d)

Val(round) ==
    CASE round < 20 -> Word(\h5a82, \h7999) [] round \in 20..39 -> Word(\h6ed9, \heba1)
      [] round \in 40..59 -> Word(\h8f1b, \hbcdc) [] OTHER -> Word(\hca62, \hc1d6)

\* A round takes its word, and after the first 16 it has mixed it from earlier ones.
Mixed(w, n) == IF n < 16 THEN w
               ELSE Append(w, rol(Xor(Xor(w[n - 2], w[n - 7]), Xor(w[n - 13], w[n - 15])), 1))

sha1macro(r, round) ==
    LET w == Mixed(r.w, round)
        t == Plus(Sum4(rol(r.a, 5), Func(round, r.b, r.c, r.d), r.e, Val(round)), w[round + 1])
    IN  [e |-> r.d, d |-> r.c, c |-> rol(r.b, 30), b |-> r.a, a |-> t, w |-> w]

innerHash(result, buffer) ==
    LET start == [w |-> buffer, a |-> result[1], b |-> result[2], c |-> result[3], d |-> result[4],
                  e |-> result[5]]
        last == FoldLeft(sha1macro, start, [i \in 1..80 |-> i - 1])
    IN  <<Plus(result[1], last.a), Plus(result[2], last.b), Plus(result[3], last.c),
          Plus(result[4], last.d), Plus(result[5], last.e)>>

Block(bytes) == [k \in 1..16 |-> BigEndian(SubSeq(bytes, 4 * k - 3, 4 * k))]

\* The bytes of the last block, and the one that marks their end.
Marked(rest) == [i \in 1..64 |-> IF i <= Len(rest) THEN rest[i] ELSE IF i = Len(rest) + 1 THEN 128 ELSE 0]

\* A last word that is the length.
Ended(block, length) == [k \in 1..16 |-> IF k = 16 THEN length ELSE block[k]]

\* bytelength << 3, in a word.
Length(n) == Word((n \div 2^13) % 2^16, (8 * n) % 2^16)

calc(src) ==
    LET start == <<Word(\h6745, \h2301), Word(\hefcd, \hab89), Word(\h98ba, \hdcfe),
                   Word(\h1032, \h5476), Word(\hc3d2, \he1f0)>>
        full == Len(src) \div 64
        hashed == FoldLeft(LAMBDA r, b : innerHash(r, Block(SubSeq(src, 64 * b - 63, 64 * b))),
                           start, [b \in 1..full |-> b])
        rest == SubSeq(src, 64 * full + 1, Len(src))
        marked == Block(Marked(rest))
        result == IF Len(rest) >= 56
                  THEN innerHash(innerHash(hashed, marked), Ended([k \in 1..16 |-> {}], Length(Len(src))))
                  ELSE innerHash(hashed, Ended(marked, Length(Len(src))))
    IN  [i \in 1..20 |-> ByteAt(result[((i - 1) \div 4) + 1], 8 * (3 - ((i - 1) % 4)))]
=============================================================================
