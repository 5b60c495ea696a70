--------------------------------- MODULE Md5 ---------------------------------
(***************************************************************************)
(* md5.hpp: the digest of the oldest handshake.  A message may be appended *)
(* in pieces; what does not fill a block waits in buf.  The length fits in *)
(* 29 bits, so the carry into the count's second word is left out.         *)
(***************************************************************************)
EXTENDS Words

T == <<
    Word(\hd76a, \ha478), Word(\he8c7, \hb756), Word(\h2420, \h70db), Word(\hc1bd, \hceee),
    Word(\hf57c, \h0faf), Word(\h4787, \hc62a), Word(\ha830, \h4613), Word(\hfd46, \h9501),
    Word(\h6980, \h98d8), Word(\h8b44, \hf7af), Word(\hffff, \h5bb1), Word(\h895c, \hd7be),
    Word(\h6b90, \h1122), Word(\hfd98, \h7193), Word(\ha679, \h438e), Word(\h49b4, \h0821),
    Word(\hf61e, \h2562), Word(\hc040, \hb340), Word(\h265e, \h5a51), Word(\he9b6, \hc7aa),
    Word(\hd62f, \h105d), Word(\h0244, \h1453), Word(\hd8a1, \he681), Word(\he7d3, \hfbc8),
    Word(\h21e1, \hcde6), Word(\hc337, \h07d6), Word(\hf4d5, \h0d87), Word(\h455a, \h14ed),
    Word(\ha9e3, \he905), Word(\hfcef, \ha3f8), Word(\h676f, \h02d9), Word(\h8d2a, \h4c8a),
    Word(\hfffa, \h3942), Word(\h8771, \hf681), Word(\h6d9d, \h6122), Word(\hfde5, \h380c),
    Word(\ha4be, \hea44), Word(\h4bde, \hcfa9), Word(\hf6bb, \h4b60), Word(\hbebf, \hbc70),
    Word(\h289b, \h7ec6), Word(\heaa1, \h27fa), Word(\hd4ef, \h3085), Word(\h0488, \h1d05),
    Word(\hd9d4, \hd039), Word(\he6db, \h99e5), Word(\h1fa2, \h7cf8), Word(\hc4ac, \h5665),
    Word(\hf429, \h2244), Word(\h432a, \hff97), Word(\hab94, \h23a7), Word(\hfc93, \ha039),
    Word(\h655b, \h59c3), Word(\h8f0c, \hcc92), Word(\hffef, \hf47d), Word(\h8584, \h5dd1),
    Word(\h6fa8, \h7e4f), Word(\hfe2c, \he6e0), Word(\ha301, \h4314), Word(\h4e08, \h11a1),
    Word(\hf753, \h7e82), Word(\hbd3a, \hf235), Word(\h2ad7, \hd2bb), Word(\heb86, \hd391) >>

\* The function of a round, the place of the word a step takes, and its rotation.
Mix(round, x, y, z) ==
    CASE round = 1 -> (x \intersect y) \union (z \ x)
      [] round = 2 -> (x \intersect z) \union (y \ z)
      [] round = 3 -> Xor(Xor(x, y), z)
      [] OTHER -> Xor(y, x \union Not(z))

Index(round, step) ==
    CASE round = 1 -> step [] round = 2 -> 5 * step + 1
      [] round = 3 -> 3 * step + 5 [] OTHER -> 7 * step

Rotations == << <<7, 12, 17, 22>>, <<5, 9, 14, 20>>, <<4, 11, 16, 23>>, <<6, 10, 15, 21>> >>

\* Step i of 64.  The registers change places where the code changes their names.
SET(r, X, i) ==
    LET round == ((i - 1) \div 16) + 1
        step == (i - 1) % 16
        t == Sum4(r[1], Mix(round, r[2], r[3], r[4]), X[(Index(round, step) % 16) + 1], T[i])
    IN  <<r[4], Plus(rol(t, Rotations[round][(step % 4) + 1]), r[2]), r[2], r[3]>>

md5_process(abcd, data) ==
    LET X == [k \in 1..16 |-> LittleEndian(SubSeq(data, 4 * k - 3, 4 * k))]
        r == FoldLeft(LAMBDA regs, i : SET(regs, X, i), abcd, [i \in 1..64 |-> i])
    IN  [k \in 1..4 |-> Plus(abcd[k], r[k])]

md5_init ==
    [count |-> 0, buf |-> <<>>,
     abcd |-> <<Word(\h6745, \h2301), Word(\hefcd, \hab89), Word(\h98ba, \hdcfe), Word(\h1032, \h5476)>>]

\* A partial block is filled first, then whole blocks are taken; the rest waits.
md5_append(pms, data) ==
    LET offset == pms.count % 64
        waiting == SubSeq(pms.buf, 1, offset) \o data
        blocks == Len(waiting) \div 64
    IN  IF data = <<>> THEN pms
        ELSE [count |-> pms.count + Len(data),
              buf |-> SubSeq(waiting, 64 * blocks + 1, Len(waiting)),
              abcd |-> FoldLeft(LAMBDA regs, b : md5_process(regs, SubSeq(waiting, 64 * b - 63, 64 * b)),
                                pms.abcd, [b \in 1..blocks |-> b])]

md5_finish(pms) ==
    LET bits == 8 * pms.count
        data == [i \in 1..8 |-> IF i <= 4 THEN (bits \div 256^(i - 1)) % 256 ELSE 0]
        pad == [i \in 1..((55 - pms.count) % 64) + 1 |-> IF i = 1 THEN 128 ELSE 0]
        last == md5_append(md5_append(pms, pad), data)
    IN  [i \in 1..16 |-> ByteAt(last.abcd[((i - 1) \div 4) + 1], 8 * ((i - 1) % 4))]

md5_hash_string(s) == md5_finish(md5_append(md5_init, s))

\* Two digits for each byte.
md5_hash_hex(input) ==
    LET hash == md5_hash_string(input)
    IN  [i \in 1..32 |-> LET byte == hash[(i + 1) \div 2]
                         IN  IF i % 2 = 1 THEN byte \div 16 ELSE byte % 16]
=============================================================================
