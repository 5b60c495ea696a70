------------------------------ MODULE WireProofs ------------------------------
(***************************************************************************)
(* Proofs about what a connection reads: whatever handshake and frames a   *)
(* peer sends and however the reads cut them.                              *)
(***************************************************************************)
EXTENDS Wire, Utf8Proofs

\* The code's sizes.  The smaller ones of the model checker leave basic sizes that have
\* no meaning, which its peers do not send.
CodeSizes == payload_size_basic = 125 /\ payload_size_extended = 65535 /\ SizeT >= 4294967296

-----------------------------------------------------------------------------
(***************************************************************************)
(* Numbers and masks.                                                      *)
(***************************************************************************)
Sum(f, bytes, n) == IF n = 0 THEN 0 ELSE 256 * f[n - 1] + bytes[n]

LEMMA NumberIs ==
  ASSUME NEW bytes \in Seq(Byte)
  PROVE  \E f : /\ Number(bytes) = f[Len(bytes)]
                /\ f = [n \in 0 .. Len(bytes) |-> Sum(f, bytes, n)]
<1> DEFINE T == {n \in Nat : \E f : f = [m \in 0 .. n |-> Sum(f, bytes, m)]}
<1>1. 0 \in T
  <2>1. [m \in 0 .. 0 |-> 0] = [m \in 0 .. 0 |-> Sum([k \in 0 .. 0 |-> 0], bytes, m)]
    BY DEF Sum
  <2>. QED
    BY <2>1
<1>2. ASSUME NEW n \in Nat, n \in T PROVE n + 1 \in T
  <2>1. PICK f : f = [m \in 0 .. n |-> Sum(f, bytes, m)]
    BY <1>2
  <2> DEFINE g == [m \in 0 .. n + 1 |-> IF m = n + 1 THEN 256 * f[n] + bytes[n + 1] ELSE f[m]]
  <2>2. ASSUME NEW m \in 0 .. n + 1 PROVE g[m] = Sum(g, bytes, m)
    BY <2>1 DEF Sum
  <2>3. g = [m \in 0 .. n + 1 |-> g[m]]
    OBVIOUS
  <2> HIDE DEF g
  <2>4. g = [m \in 0 .. n + 1 |-> Sum(g, bytes, m)]
    BY <2>2, <2>3, Zenon
  <2>. QED
    BY <2>4
<1>3. Len(bytes) \in T
  <2> HIDE DEF T
  <2>. QED
    BY <1>1, <1>2, EveryNumber
<1> DEFINE f == CHOOSE g : g = [n \in 0 .. Len(bytes) |-> Sum(g, bytes, n)]
<1>4. f = [n \in 0 .. Len(bytes) |-> Sum(f, bytes, n)]
  BY <1>3
<1>5. Number(bytes) = f[Len(bytes)]
  BY Zenon DEF Number, Sum
<1>. QED
  BY <1>4, <1>5

LEMMA Bytes ==
  /\ \A byte \in Byte : byte \in Nat /\ byte <= 255
  /\ \A byte \in Nat : byte <= 255 => byte \in Byte
BY DEF Byte

LEMMA NumberIsNat ==
  ASSUME NEW bytes \in Seq(Byte)
  PROVE  Number(bytes) \in Nat
<1>1. PICK f : /\ Number(bytes) = f[Len(bytes)]
               /\ f = [n \in 0 .. Len(bytes) |-> Sum(f, bytes, n)]
  BY NumberIs
<1> DEFINE T == {n \in Nat : n <= Len(bytes) => f[n] \in Nat}
<1>2. \A n \in 0 .. Len(bytes) : f[n] = Sum(f, bytes, n)
  BY <1>1, Zenon
<1>3. 0 \in T
  BY <1>2 DEF Sum
<1>4. ASSUME NEW n \in Nat, n \in T PROVE n + 1 \in T
  <2>1. SUFFICES ASSUME n + 1 <= Len(bytes) PROVE f[n + 1] \in Nat
    OBVIOUS
  <2>2. f[n] \in Nat /\ bytes[n + 1] \in Nat
    BY <1>4, <2>1, Bytes
  <2>3. f[n + 1] = 256 * f[n] + bytes[n + 1]
    <3>1. f[n + 1] = Sum(f, bytes, n + 1)
      BY <1>2, <2>1
    <3>2. (n + 1) - 1 = n /\ n + 1 # 0
      OBVIOUS
    <3>. QED
      BY <3>1, <3>2, Zenon DEF Sum
  <2>. QED
    BY <2>2, <2>3
<1>5. Len(bytes) \in T
  <2> HIDE DEF T
  <2>. QED
    BY <1>3, <1>4, EveryNumber
<1>. QED
  BY <1>1, <1>5

LEMMA NumberOfTwo ==
  ASSUME NEW bytes \in Seq(Byte), Len(bytes) = 2
  PROVE  Number(bytes) \in Nat /\ Number(bytes) <= 65535
<1>1. PICK f : /\ Number(bytes) = f[Len(bytes)]
               /\ f = [n \in 0 .. Len(bytes) |-> Sum(f, bytes, n)]
  BY NumberIs
<1>2. \A n \in 0 .. Len(bytes) : f[n] = Sum(f, bytes, n)
  BY <1>1, Zenon
<1>3. f[0] = 0 /\ f[1] = 256 * f[0] + bytes[1] /\ f[2] = 256 * f[1] + bytes[2]
  <2>1. f[0] = Sum(f, bytes, 0) /\ f[1] = Sum(f, bytes, 1) /\ f[2] = Sum(f, bytes, 2)
    BY <1>2
  <2>2. /\ Sum(f, bytes, 0) = 0 /\ Sum(f, bytes, 1) = 256 * f[0] + bytes[1]
        /\ Sum(f, bytes, 2) = 256 * f[1] + bytes[2]
    BY DEF Sum
  <2>. QED
    BY <2>1, <2>2, SMT
<1>4. bytes[1] \in Nat /\ bytes[1] <= 255 /\ bytes[2] \in Nat /\ bytes[2] <= 255
  <2>1. bytes[1] \in Byte /\ bytes[2] \in Byte
    OBVIOUS
  <2>. QED
    BY <2>1, Bytes
<1>. QED
  BY <1>1, <1>3, <1>4

LEMMA XorIsByte ==
  ASSUME NEW a \in Byte, NEW b \in Byte
  PROVE  Xor(a, b) \in Byte
<1>1. ASSUME NEW w \in {1, 2, 4, 8, 16, 32, 64, 128}
      PROVE  (a \div w + b \div w) % 2 \in 0 .. 1
  <2>1. a \div w \in Nat /\ b \div w \in Nat
    BY DEF Byte
  <2>. QED
    BY <2>1
<1> DEFINE bit(w) == (a \div w + b \div w) % 2
<1>2. /\ bit(1) \in 0 .. 1 /\ bit(2) \in 0 .. 1 /\ bit(4) \in 0 .. 1 /\ bit(8) \in 0 .. 1
      /\ bit(16) \in 0 .. 1 /\ bit(32) \in 0 .. 1 /\ bit(64) \in 0 .. 1 /\ bit(128) \in 0 .. 1
  BY <1>1, ZenonT(40)
<1>3. Xor(a, b) = 128 * bit(128) + 64 * bit(64) + 32 * bit(32) + 16 * bit(16)
                  + 8 * bit(8) + 4 * bit(4) + 2 * bit(2) + 1 * bit(1)
  BY Zenon DEF Xor
<1> HIDE DEF bit
<1>. QED
  BY <1>2, <1>3 DEF Byte

\* A basic header, by its numbers.
LEMMA HeaderIs ==
  ASSUME CodeSizes, NEW h \in BasicHeader
  PROVE  /\ get_opcode(h) \in Opcode /\ get_basic_size(h) \in Nat /\ get_basic_size(h) <= 127
         /\ get_basic_size(h) <= 125 => get_masking_key_offset(h) = 0
         /\ get_basic_size(h) = 126 => get_masking_key_offset(h) = 2
         /\ get_basic_size(h) = 127 => get_masking_key_offset(h) = 8
         /\ get_masking_key_offset(h) \in {0, 2, 8} /\ get_header_len(h) \in Nat
         /\ get_masked(h) => get_header_len(h) = get_masking_key_offset(h) + 6
         /\ ~get_masked(h) => get_header_len(h) = get_masking_key_offset(h) + 2
<1>1. h.b0 \in Nat /\ h.b1 \in Nat /\ h.b1 <= 255
  BY Bytes DEF BasicHeader
<1>2. get_opcode(h) \in Opcode
  BY <1>1 DEF get_opcode, Opcode
<1>3. get_basic_size(h) \in Nat /\ get_basic_size(h) <= 127
  BY <1>1 DEF get_basic_size
<1>4. /\ get_basic_size(h) <= 125 => get_masking_key_offset(h) = 0
      /\ get_basic_size(h) = 126 => get_masking_key_offset(h) = 2
      /\ get_basic_size(h) = 127 => get_masking_key_offset(h) = 8
  BY <1>3 DEF get_masking_key_offset, payload_size_code_16bit, payload_size_code_64bit
<1>5. get_masking_key_offset(h) \in {0, 2, 8}
  BY <1>3, <1>4
<1>. QED
  BY <1>2, <1>3, <1>4, <1>5 DEF get_header_len, BASIC_HEADER_LENGTH

LEMMA KeyIs ==
  ASSUME NEW h, NEW e \in Seq(Byte), get_masking_key_offset(h) \in Nat,
         get_masked(h) => Len(e) = get_masking_key_offset(h) + 4
  PROVE  get_masking_key(h, e) \in Seq(Byte) /\ Len(get_masking_key(h, e)) = 4
<1>1. 0 \in Byte
  BY Bytes
<1>2. <<0, 0, 0, 0>> \in Seq(Byte) /\ Len(<<0, 0, 0, 0>>) = 4
  BY <1>1
<1>3. ASSUME NEW m \in Nat, Len(e) = m + 4
      PROVE  SubSeq(e, m + 1, m + 4) \in Seq(Byte) /\ Len(SubSeq(e, m + 1, m + 4)) = 4
  BY <1>3
<1>. QED
  BY <1>2, <1>3 DEF get_masking_key

LEMMA ExtendedIs ==
  ASSUME CodeSizes, NEW h \in BasicHeader, NEW e \in Seq(Byte), Len(e) + 2 = get_header_len(h)
  PROVE  /\ get_payload_size(h, e) \in Nat
         /\ get_basic_size(h) = 126 => get_payload_size(h, e) <= 65535
         /\ get_masking_key(h, e) \in Seq(Byte) /\ Len(get_masking_key(h, e)) = 4
<1> DEFINE size == get_basic_size(h)
           offset == get_masking_key_offset(h)
<1>1. /\ size \in Nat /\ size <= 127 /\ offset \in {0, 2, 8}
      /\ size = 126 => offset = 2
      /\ size = 127 => offset = 8
      /\ Len(e) = IF get_masked(h) THEN offset + 4 ELSE offset
  <2>1. Len(e) \in Nat
    OBVIOUS
  <2>. QED
    BY <2>1, HeaderIs
<1>2. get_masking_key(h, e) \in Seq(Byte) /\ Len(get_masking_key(h, e)) = 4
  <2>1. offset \in Nat /\ (get_masked(h) => Len(e) = offset + 4)
    BY <1>1
  <2>. QED
    BY <2>1, KeyIs, Zenon
<1>3. CASE size <= 125
  <2>1. get_payload_size(h, e) = size
    BY <1>3 DEF get_payload_size, CodeSizes
  <2>. QED
    BY <1>1, <1>2, <1>3, <2>1
<1>4. CASE size = 126
  <2> DEFINE b == SubSeq(e, 1, 2)
  <2>1. get_payload_size(h, e) = Number(b)
    BY <1>4 DEF get_payload_size, get_extended_size, CodeSizes, payload_size_code_16bit
  <2>2. b \in Seq(Byte) /\ Len(b) = 2
    BY <1>1, <1>4
  <2> HIDE DEF b
  <2>3. Number(b) \in Nat /\ Number(b) <= 65535
    BY <2>2, NumberOfTwo
  <2>. QED
    BY <1>1, <1>2, <2>1, <2>3
<1>5. CASE size = 127
  <2> DEFINE b == SubSeq(e, 1, 8)
  <2>1. get_payload_size(h, e) = Number(b)
    BY <1>5 DEF get_payload_size, get_jumbo_size, CodeSizes, payload_size_code_16bit
  <2>2. b \in Seq(Byte)
    BY <1>1, <1>5
  <2> HIDE DEF b
  <2>3. Number(b) \in Nat
    BY <2>2, NumberIsNat
  <2>. QED
    BY <1>1, <1>2, <1>5, <2>1, <2>3
<1>. QED
  <2>1. size <= 125 \/ size = 126 \/ size = 127
    BY <1>1
  <2>. QED
    BY <1>3, <1>4, <1>5, <2>1

\* A prepared key k is the key of the frame, rotated by n bytes.
Rotated(k, key, n) ==
  k \in Seq(Byte) /\ Len(k) = 8 /\ \A j \in 1 .. 8 : k[j] = key[1 + ((j - 1 + n) % 4)]

LEMMA RotatedFirst ==
  ASSUME NEW key \in Seq(Byte), Len(key) = 4
  PROVE  Rotated(prepare_masking_key(key), key, 0)
<1> DEFINE k == key \o key
<1>1. k \in Seq(Byte) /\ Len(k) = 8 /\ \A j \in 1 .. 8 : k[j] = IF j <= 4 THEN key[j] ELSE key[j - 4]
  <2>1. /\ k \in Seq(Byte) /\ Len(k) = Len(key) + Len(key)
        /\ \A j \in 1 .. Len(key) + Len(key) : k[j] = IF j <= Len(key) THEN key[j] ELSE key[j - Len(key)]
    BY ConcatProperties
  <2>. QED
    BY <2>1
<1>2. ASSUME NEW j \in 1 .. 8
      PROVE  1 + ((j - 1 + 0) % 4) = IF j <= 4 THEN j ELSE j - 4
  <2>1. j \in {1, 2, 3, 4} \/ j \in {5, 6, 7, 8}
    OBVIOUS
  <2>. QED
    BY <2>1
<1> HIDE DEF k
<1>3. Rotated(k, key, 0)
  BY <1>1, <1>2 DEF Rotated
<1>. QED
  BY <1>3 DEF prepare_masking_key, k

LEMMA RotatedOn ==
  ASSUME NEW k, NEW key \in Seq(Byte), Len(key) = 4, NEW n \in Nat, NEW l \in Nat, Rotated(k, key, n)
  PROVE  Rotated(circshift_prepared_key(k, l % 4), key, n + l)
<1> DEFINE place(j) == 1 + ((j - 1 + (l % 4)) % 8)
           c == circshift_prepared_key(k, l % 4)
<1>1. \A j \in 1 .. 8 : place(j) \in 1 .. 8
  OBVIOUS
<1>2. \A j \in 1 .. 8 : (place(j) - 1 + n) % 4 = (j - 1 + (n + l)) % 4
  OBVIOUS
<1>3. c = [j \in 1 .. 8 |-> k[place(j)]]
  BY DEF circshift_prepared_key
<1> HIDE DEF place, c
<1>4. ASSUME NEW j \in 1 .. 8
      PROVE  c[j] = key[1 + ((j - 1 + (n + l)) % 4)] /\ c[j] \in Byte
  <2>1. c[j] = k[place(j)] /\ place(j) \in 1 .. 8
    BY <1>1, <1>3
  <2>2. k[place(j)] = key[1 + ((place(j) - 1 + n) % 4)] /\ k[place(j)] \in Byte
    <3>1. \A m \in 1 .. 8 : k[m] = key[1 + ((m - 1 + n) % 4)]
      BY Zenon DEF Rotated
    <3>2. \A m \in 1 .. 8 : k[m] \in Byte
      BY ElementOfSeq DEF Rotated
    <3>. QED
      BY <2>1, <3>1, <3>2, Zenon
  <2>3. (place(j) - 1 + n) % 4 = (j - 1 + (n + l)) % 4
    BY <1>2
  <2>. QED
    BY <2>1, <2>2, <2>3, Zenon
<1>5. c \in Seq(Byte) /\ Len(c) = 8
  BY <1>3, <1>4
<1>. QED
  BY <1>4, <1>5 DEF Rotated, c

\* The n bytes of a stream behind the first a.
AreBytes(s, a, n) == \A i \in a + 1 .. a + n : s[i] \in Byte

IsPart(u, s, a, n) == u \in Seq(Byte) /\ Len(u) = n /\ \A i \in 1 .. n : u[i] = s[a + i]

LEMMA PartIs ==
  ASSUME NEW s, NEW a \in Nat, NEW n \in Nat, AreBytes(s, a, n)
  PROVE  IsPart(SubSeq(s, a + 1, a + n), s, a, n)
<1> DEFINE u == SubSeq(s, a + 1, a + n)
<1>1. a + 1 \in Int /\ a + n \in Int /\ \A i \in a + 1 .. a + n : s[i] \in Byte
  BY DEF AreBytes
<1>2. /\ u \in Seq(Byte) /\ Len(u) = IF a + 1 <= a + n THEN (a + n) - (a + 1) + 1 ELSE 0
      /\ \A i \in 1 .. (a + n) - (a + 1) + 1 : u[i] = s[(a + 1) + i - 1]
  BY <1>1, SubSeqProperties
<1> HIDE DEF u
<1>3. ASSUME NEW i \in 1 .. n PROVE u[i] = s[a + i]
  <2>1. i \in 1 .. (a + n) - (a + 1) + 1 /\ (a + 1) + i - 1 = a + i
    OBVIOUS
  <2>. QED
    BY <1>2, <2>1, Zenon
<1>4. Len(u) = n
  BY <1>2
<1>5. IsPart(u, s, a, n)
  BY <1>2, <1>3, <1>4, Zenon DEF IsPart
<1>. QED
  BY <1>5 DEF u

IsJoin(w, u, v, n, l) ==
  /\ w \in Seq(Byte) /\ Len(w) = n + l
  /\ \A i \in 1 .. n : w[i] = u[i]
  /\ \A i \in 1 .. l : w[n + i] = v[i]

LEMMA JoinIs ==
  ASSUME NEW u \in Seq(Byte), NEW v \in Seq(Byte), NEW n, Len(u) = n, NEW l, Len(v) = l
  PROVE  IsJoin(u \o v, u, v, n, l)
<1>1. /\ u \o v \in Seq(Byte) /\ Len(u \o v) = Len(u) + Len(v)
      /\ \A i \in 1 .. Len(u) + Len(v) : (u \o v)[i] = IF i <= Len(u) THEN u[i] ELSE v[i - Len(u)]
  BY ConcatProperties
<1>2. n \in Nat /\ l \in Nat
  OBVIOUS
<1> DEFINE w == u \o v
<1>3. \A i \in 1 .. n + l : w[i] = IF i <= n THEN u[i] ELSE v[i - n]
  BY <1>1
<1> HIDE DEF w
<1>4. ASSUME NEW i \in 1 .. n PROVE w[i] = u[i]
  BY <1>2, <1>3
<1>5. ASSUME NEW i \in 1 .. l PROVE w[n + i] = v[i]
  <2>1. n + i \in 1 .. n + l /\ ~ (n + i <= n) /\ (n + i) - n = i
    BY <1>2
  <2>2. w[n + i] = v[(n + i) - n]
    BY <1>3, <2>1, Zenon
  <2>. QED
    BY <2>1, <2>2, Zenon
<1>6. w \in Seq(Byte) /\ Len(w) = n + l
  BY <1>1 DEF w
<1>7. IsJoin(w, u, v, n, l)
  BY <1>4, <1>5, <1>6, Zenon DEF IsJoin
<1>. QED
  BY <1>7 DEF w

IsMasked(u, bytes, key) ==
  /\ u \in Seq(Byte) /\ Len(u) = Len(bytes)
  /\ \A i \in 1 .. Len(bytes) : u[i] = Xor(bytes[i], key[1 + ((i - 1) % 4)])

LEMMA MaskIs ==
  ASSUME NEW bytes \in Seq(Byte), NEW key \in Seq(Byte), Len(key) = 4
  PROVE  IsMasked(byte_mask(bytes, key), bytes, key)
<1> DEFINE X(i) == Xor(bytes[i], key[1 + ((i - 1) % 4)])
<1>1. ASSUME NEW i \in 1 .. Len(bytes) PROVE X(i) \in Byte
  <2>1. 1 + ((i - 1) % 4) \in 1 .. Len(key)
    OBVIOUS
  <2>2. bytes[i] \in Byte /\ key[1 + ((i - 1) % 4)] \in Byte
    BY <2>1, ElementOfSeq
  <2>. QED
    BY <2>2, XorIsByte
<1>2. byte_mask(bytes, key) = [i \in 1 .. Len(bytes) |-> X(i)]
  BY DEF byte_mask
<1>3. Len(bytes) \in Nat
  OBVIOUS
<1> HIDE DEF X
<1>4. [i \in 1 .. Len(bytes) |-> X(i)] \in Seq(Byte) /\ Len([i \in 1 .. Len(bytes) |-> X(i)]) = Len(bytes)
  BY <1>1, <1>3
<1>5. \A i \in 1 .. Len(bytes) : byte_mask(bytes, key)[i] = X(i)
  BY <1>2
<1>. QED
  BY <1>2, <1>4, <1>5, Zenon DEF X, IsMasked

\* The n bytes behind the first a, as the peer meant them.
Unmasked(s, a, n, masked, key) ==
  IF masked THEN byte_mask(SubSeq(s, a + 1, a + n), key) ELSE SubSeq(s, a + 1, a + n)

\* One of them.
Meant(s, a, i, masked, key) == IF masked THEN Xor(s[a + i], key[1 + ((i - 1) % 4)]) ELSE s[a + i]

Means(u, s, a, n, masked, key) ==
  u \in Seq(Byte) /\ Len(u) = n /\ \A i \in 1 .. n : u[i] = Meant(s, a, i, masked, key)

LEMMA UnmaskedIs ==
  ASSUME NEW s, NEW a \in Nat, NEW n \in Nat, AreBytes(s, a, n),
         NEW masked, NEW key \in Seq(Byte), Len(key) = 4
  PROVE  Means(Unmasked(s, a, n, masked, key), s, a, n, masked, key)
<1> DEFINE b == SubSeq(s, a + 1, a + n)
<1>1. b \in Seq(Byte) /\ Len(b) = n /\ \A i \in 1 .. n : b[i] = s[a + i]
  BY PartIs, Zenon DEF IsPart
<1> HIDE DEF b
<1>2. CASE masked
  <2>1. Unmasked(s, a, n, masked, key) = byte_mask(b, key)
    BY <1>2 DEF Unmasked, b
  <2>2. IsMasked(byte_mask(b, key), b, key)
    BY <1>1, MaskIs
  <2>. QED
    <3> DEFINE u == byte_mask(b, key)
    <3>1. u \in Seq(Byte) /\ Len(u) = Len(b) /\ \A i \in 1 .. Len(b) : u[i] = Xor(b[i], key[1 + ((i - 1) % 4)])
      BY <2>2, Zenon DEF IsMasked
    <3> HIDE DEF u
    <3>2. ASSUME NEW i \in 1 .. n PROVE u[i] = Meant(s, a, i, masked, key)
      BY <1>1, <1>2, <3>1, Zenon DEF Meant
    <3>3. Means(u, s, a, n, masked, key)
      BY <1>1, <3>1, <3>2, Zenon DEF Means
    <3>. QED
      BY <2>1, <3>3 DEF u
<1>3. CASE ~masked
  <2>1. Unmasked(s, a, n, masked, key) = b
    BY <1>3 DEF Unmasked, b
  <2>. QED
    BY <1>1, <1>3, <2>1 DEF Meant, Means
<1>. QED
  BY <1>2, <1>3

\* Taking l bytes behind the first n of a payload.
Taking(s, a, n, l, masked, k) ==
  IF masked THEN byte_mask(SubSeq(s, a + n + 1, a + n + l), SubSeq(k, 1, 4))
  ELSE SubSeq(s, a + n + 1, a + n + l)

Grows(plain, s, a, n, l, masked, key) ==
  /\ plain \in Seq(Byte) /\ Len(plain) = l
  /\ Unmasked(s, a, n + l, masked, key) = Unmasked(s, a, n, masked, key) \o plain

\* The next l of them, as they are taken with the rotated key.
LEMMA UnmaskedGrows ==
  ASSUME NEW s, NEW a \in Nat, NEW n \in Nat, NEW l \in Nat,
         AreBytes(s, a, n + l),
         NEW masked, NEW key \in Seq(Byte), Len(key) = 4,
         NEW k, masked => Rotated(k, key, n)
  PROVE  Grows(Taking(s, a, n, l, masked, k), s, a, n, l, masked, key)
<1> DEFINE plain == Taking(s, a, n, l, masked, k)
           b == SubSeq(s, a + n + 1, a + n + l)
           old == Unmasked(s, a, n, masked, key)
           new == Unmasked(s, a, n + l, masked, key)
<1>1. b \in Seq(Byte) /\ Len(b) = l /\ \A i \in 1 .. l : b[i] = s[(a + n) + i]
  <2>1. a + n \in Nat /\ AreBytes(s, a + n, l)
    BY DEF AreBytes
  <2>. QED
    BY <2>1, PartIs, Zenon DEF IsPart
<1>2. /\ old \in Seq(Byte) /\ Len(old) = n
      /\ \A i \in 1 .. n : old[i] = Meant(s, a, i, masked, key)
  <2>1. AreBytes(s, a, n)
    BY DEF AreBytes
  <2>2. Means(old, s, a, n, masked, key)
    BY <2>1, UnmaskedIs
  <2>. QED
    BY <2>2, Zenon DEF Means
<1>3. /\ new \in Seq(Byte) /\ Len(new) = n + l
      /\ \A i \in 1 .. n + l : new[i] = Meant(s, a, i, masked, key)
  <2>1. n + l \in Nat
    OBVIOUS
  <2>2. Means(new, s, a, n + l, masked, key)
    BY <2>1, UnmaskedIs
  <2>. QED
    BY <2>2, Zenon DEF Means
<1>0. plain = IF masked THEN byte_mask(b, SubSeq(k, 1, 4)) ELSE b
  BY Zenon DEF Taking
<1> HIDE DEF b, old, new, plain
<1>4. plain \in Seq(Byte) /\ Len(plain) = l /\ \A i \in 1 .. l : plain[i] = Meant(s, a, n + i, masked, key)
  <2>1. CASE masked
    <3> DEFINE first == SubSeq(k, 1, 4)
    <3>1. first \in Seq(Byte) /\ Len(first) = 4 /\ \A j \in 1 .. 4 : first[j] = k[j]
      <4>1. k \in Seq(Byte) /\ Len(k) = 8
        BY <2>1 DEF Rotated
      <4>2. IsPart(SubSeq(k, 0 + 1, 0 + 4), k, 0, 4)
        <5>1. AreBytes(k, 0, 4)
          <6>1. \A i \in 0 + 1 .. 0 + 4 : i \in 1 .. Len(k)
            BY <4>1
          <6>. QED
            BY <4>1, <6>1, ElementOfSeq DEF AreBytes
        <5>. QED
          BY <5>1, PartIs
      <4>. QED
        BY <4>2 DEF IsPart
    <3>2. \A j \in 1 .. 8 : k[j] = key[1 + ((j - 1 + n) % 4)]
      BY <2>1, Zenon DEF Rotated
    <3>3. plain = byte_mask(b, first)
      BY <1>0, <2>1
    <3> HIDE DEF first
    <3>4. /\ plain \in Seq(Byte) /\ Len(plain) = l
          /\ \A i \in 1 .. l : plain[i] = Xor(b[i], first[1 + ((i - 1) % 4)])
      <4>1. IsMasked(plain, b, first)
        BY <1>1, <3>1, <3>3, MaskIs
      <4>2. Len(b) = l
        BY <1>1
      <4>. QED
        BY <4>1, <4>2 DEF IsMasked
    <3>5. ASSUME NEW i \in 1 .. l PROVE plain[i] = Meant(s, a, n + i, masked, key)
      <4>1. PICK j \in 1 .. 4 : j = 1 + ((i - 1) % 4)
        OBVIOUS
      <4>2. (j - 1 + n) % 4 = (n + i - 1) % 4
        BY <4>1
      <4>3. first[j] = key[1 + ((n + i - 1) % 4)]
        <5>1. j \in 1 .. 8
          OBVIOUS
        <5>. QED
          BY <3>1, <3>2, <4>2, <5>1, Zenon
      <4>4. plain[i] = Xor(s[a + (n + i)], key[1 + ((n + i - 1) % 4)])
        <5>1. (a + n) + i = a + (n + i)
          OBVIOUS
        <5>. QED
          BY <1>1, <3>4, <4>1, <4>3, <5>1, Zenon
      <4>. QED
        BY <2>1, <4>4 DEF Meant
    <3>. QED
      BY <3>4, <3>5
  <2>2. CASE ~masked
    <3>1. plain = b
      BY <1>0, <2>2
    <3>2. ASSUME NEW i \in 1 .. l PROVE plain[i] = Meant(s, a, n + i, masked, key)
      <4>1. (a + n) + i = a + (n + i)
        OBVIOUS
      <4>. QED
        BY <1>1, <2>2, <3>1, <4>1, Zenon DEF Meant
    <3>. QED
      BY <1>1, <3>1, <3>2
  <2>. QED
    BY <2>1, <2>2
<1> DEFINE w == old \o plain
<1>5. /\ w \in Seq(Byte) /\ Len(w) = n + l
      /\ \A i \in 1 .. n : w[i] = old[i]
      /\ \A i \in 1 .. l : w[n + i] = plain[i]
  <2>1. old \in Seq(Byte) /\ Len(old) = n /\ plain \in Seq(Byte) /\ Len(plain) = l
    BY <1>2, <1>4
  <2>2. IsJoin(w, old, plain, n, l)
    BY <2>1, JoinIs
  <2>. QED
    BY <2>2, Zenon DEF IsJoin
<1> HIDE DEF w
<1>6. ASSUME NEW i \in 1 .. n + l PROVE new[i] = w[i]
  <2>1. CASE i <= n
    <3>1. i \in 1 .. n
      BY <2>1
    <3>. QED
      BY <1>2, <1>3, <1>5, <3>1, Zenon
  <2>2. CASE i > n
    <3>1. PICK j \in 1 .. l : i = n + j
      <4>1. i - n \in 1 .. l /\ i = n + (i - n)
        BY <2>2
      <4>. QED
        BY <4>1
    <3>2. new[n + j] = Meant(s, a, n + j, masked, key)
      BY <1>3, <3>1
    <3>. QED
      BY <1>4, <1>5, <3>1, <3>2, Zenon
  <2>. QED
    BY <2>1, <2>2
<1>7. new = w
  BY <1>3, <1>5, <1>6, SeqEqual
<1>8. Grows(plain, s, a, n, l, masked, key)
  BY <1>4, <1>7, Zenon DEF Grows, old, new, w
<1>. QED
  BY <1>8 DEF plain

-----------------------------------------------------------------------------
(***************************************************************************)
(* Heads.                                                                  *)
(***************************************************************************)
\* The bytes of a head: three for each line, and two.
LEMMA HeadBytesAre ==
  ASSUME NEW lines \in Seq(Nat \ Byte)
  PROVE  /\ HeadBytes(lines) \in Seq(Nat)
         /\ Len(HeadBytes(lines)) = IF lines = <<>> THEN 0 ELSE 3 * Len(lines) + 2
         /\ lines # <<>> =>
              /\ \A k \in 0 .. Len(lines) - 1 : /\ HeadBytes(lines)[3 * k + 1] = lines[k + 1]
                                               /\ HeadBytes(lines)[3 * k + 2] = CR
                                               /\ HeadBytes(lines)[3 * k + 3] = LF
              /\ HeadBytes(lines)[3 * Len(lines) + 1] = CR
              /\ HeadBytes(lines)[3 * Len(lines) + 2] = LF
<1>1. CASE lines = <<>>
  BY <1>1 DEF HeadBytes
<1>2. CASE lines # <<>>
  <2> DEFINE l == Len(lines)
             Symbol(i) == IF i < 3 * l /\ i % 3 = 1 THEN lines[1 + i \div 3]
                         ELSE IF (i < 3 * l /\ i % 3 = 2) \/ i = 3 * l + 1 THEN CR
                         ELSE LF
  <2>1. HeadBytes(lines) = [i \in 1 .. 3 * l + 2 |-> Symbol(i)]
    BY <1>2 DEF HeadBytes
  <2>2. l \in Nat
    OBVIOUS
  <2>3. ASSUME NEW i \in 1 .. 3 * l + 2 PROVE Symbol(i) \in Nat
    <3>1. i < 3 * l /\ i % 3 = 1 => 1 + i \div 3 \in 1 .. l
      BY <2>2
    <3>2. \A j \in 1 .. l : lines[j] \in Nat
      OBVIOUS
    <3>. QED
      BY <3>1, <3>2 DEF CR, LF
  <2>4. ASSUME NEW k \in 0 .. l - 1
        PROVE  Symbol(3 * k + 1) = lines[k + 1] /\ Symbol(3 * k + 2) = CR /\ Symbol(3 * k + 3) = LF
    <3>1. /\ (3 * k + 1) % 3 = 1 /\ 1 + (3 * k + 1) \div 3 = k + 1 /\ 3 * k + 1 < 3 * l
          /\ (3 * k + 2) % 3 = 2 /\ 3 * k + 2 < 3 * l
          /\ (3 * k + 3) % 3 = 0 /\ 3 * k + 3 # 3 * l + 1
      BY <2>2
    <3>. QED
      BY <3>1
  <2>5. Symbol(3 * l + 1) = CR /\ Symbol(3 * l + 2) = LF
    BY <2>2
  <2> HIDE DEF Symbol
  <2>6. 3 * l + 2 \in Nat
    BY <2>2
  <2>7. HeadBytes(lines) \in Seq(Nat) /\ Len(HeadBytes(lines)) = 3 * l + 2
    BY <2>1, <2>3, <2>6
  <2>8. \A i \in 1 .. 3 * l + 2 : HeadBytes(lines)[i] = Symbol(i)
    BY <2>1
  <2>9. ASSUME NEW k \in 0 .. l - 1
        PROVE  /\ HeadBytes(lines)[3 * k + 1] = lines[k + 1]
               /\ HeadBytes(lines)[3 * k + 2] = CR
               /\ HeadBytes(lines)[3 * k + 3] = LF
    <3>1. 3 * k + 1 \in 1 .. 3 * l + 2 /\ 3 * k + 2 \in 1 .. 3 * l + 2 /\ 3 * k + 3 \in 1 .. 3 * l + 2
      BY <2>2
    <3>. QED
      BY <2>4, <2>8, <3>1
  <2>10. HeadBytes(lines)[3 * l + 1] = CR /\ HeadBytes(lines)[3 * l + 2] = LF
    BY <2>2, <2>5, <2>8
  <2>. QED
    BY <1>2, <2>7, <2>9, <2>10
<1>. QED
  BY <1>1, <1>2

\* The symbols of the headers.
LEMMA HeaderSymbols ==
  ASSUME NEW s \in DOMAIN Header
  PROVE  /\ s \in 262 .. 275 /\ Header[s].name \in HeaderNames
         /\ Header[s].name = "Upgrade" /\ Header[s].value = "websocket" <=> s = 262
         /\ Header[s].name = "Connection" /\ Header[s].value = "Upgrade" <=> s = 264
         /\ Header[s].name = "Sec-WebSocket-Accept" /\ Header[s].value = "right" <=> s = 266
         /\ Header[s].name = "Sec-WebSocket-Version" /\ Header[s].value = "13" <=> s = 270
         /\ Header[s].name = "Content-Length" /\ Header[s].value = "2" <=> s = 273
         /\ Header[s].name = "Content-Length" /\ Header[s].value = "text" <=> s = 274
         /\ Header[s].name = "Content-Length" /\ Header[s].value = "3" <=> s = 275
<1>1. s \in 262 .. 275 /\ Header[s] = Headers[s - 261]
  BY DEF Header
<1>2. Header[s].name \in HeaderNames
  BY DEF HeaderNames
<1>3. \/ s = 262 /\ Headers[s - 261] = [name |-> "Upgrade", value |-> "websocket"]
      \/ s = 263 /\ Headers[s - 261] = [name |-> "Upgrade", value |-> "other"]
      \/ s = 264 /\ Headers[s - 261] = [name |-> "Connection", value |-> "Upgrade"]
      \/ s = 265 /\ Headers[s - 261] = [name |-> "Connection", value |-> "other"]
      \/ s = 266 /\ Headers[s - 261] = [name |-> "Sec-WebSocket-Accept", value |-> "right"]
      \/ s = 267 /\ Headers[s - 261] = [name |-> "Sec-WebSocket-Accept", value |-> "other"]
      \/ s = 268 /\ Headers[s - 261] = [name |-> "Sec-WebSocket-Key", value |-> "key"]
      \/ s = 269 /\ Headers[s - 261] = [name |-> "Host", value |-> "host"]
      \/ s = 270 /\ Headers[s - 261] = [name |-> "Sec-WebSocket-Version", value |-> "13"]
      \/ s = 271 /\ Headers[s - 261] = [name |-> "Sec-WebSocket-Version", value |-> "0"]
      \/ s = 272 /\ Headers[s - 261] = [name |-> "Sec-WebSocket-Version", value |-> "other"]
      \/ s = 273 /\ Headers[s - 261] = [name |-> "Content-Length", value |-> "2"]
      \/ s = 274 /\ Headers[s - 261] = [name |-> "Content-Length", value |-> "text"]
      \/ s = 275 /\ Headers[s - 261] = [name |-> "Content-Length", value |-> "3"]
  BY <1>1 DEF Headers
<1>. QED
  BY <1>1, <1>2, <1>3

LEMMA Names ==
  {"Upgrade", "Connection", "Sec-WebSocket-Accept", "Sec-WebSocket-Key", "Host",
   "Sec-WebSocket-Version", "Content-Length"} \subseteq HeaderNames
<1>1. {262, 264, 266, 268, 269, 270, 273} \subseteq DOMAIN Header
  BY DEF Header
<1>2. /\ Header[262].name = "Upgrade" /\ Header[264].name = "Connection"
      /\ Header[266].name = "Sec-WebSocket-Accept" /\ Header[268].name = "Sec-WebSocket-Key"
      /\ Header[269].name = "Host" /\ Header[270].name = "Sec-WebSocket-Version"
      /\ Header[273].name = "Content-Length"
  BY DEF Header, Headers
<1>. QED
  BY <1>1, <1>2 DEF HeaderNames

\* The headers of a name among the first k lines, and the values that are kept of them.
PlacesIn(lines, name, k) == {i \in 2 .. k : Header[lines[i]].name = name}

Values == {Header[s].value : s \in DOMAIN Header}

Collected(values, lines, places) ==
  /\ values \in Seq(Values)
  /\ values = <<>> <=> places = {}
  /\ values # <<>> =>
       \E i \in places : (\A j \in places : i <= j) /\ values[1] = Header[lines[i]].value
  /\ \A v : (\E j \in 1 .. Len(values) : values[j] = v)
             <=> \E i \in places : Header[lines[i]].value = v
  /\ \A v : values = <<v>> <=> \E i : places = {i} /\ Header[lines[i]].value = v

Gathered(headers, lines, k) ==
  /\ DOMAIN headers = HeaderNames
  /\ \A name \in HeaderNames : Collected(headers[name], lines, PlacesIn(lines, name, k))

LEMMA NothingGathered ==
  ASSUME NEW lines, NEW k \in 0 .. 1
  PROVE  Gathered([n \in HeaderNames |-> <<>>], lines, k)
<1>1. \A name : PlacesIn(lines, name, k) = {}
  BY DEF PlacesIn
<1>2. Collected(<<>>, lines, {})
  BY DEF Collected
<1>. QED
  BY <1>1, <1>2 DEF Gathered

LEMMA CollectedMore ==
  ASSUME NEW values, NEW lines, NEW P, NEW m \in Nat, \A i \in P : i \in Nat /\ i < m,
         Collected(values, lines, P),
         NEW value \in Values, Header[lines[m]].value = value
  PROVE  Collected(Append(values, value), lines, P \union {m})
<1> DEFINE Q == P \union {m}
           V(i) == Header[lines[i]].value
           more == Append(values, value)
<1>1. Q = P \union {m} /\ m \notin P /\ \A i \in P : i \in Nat /\ i <= m
  OBVIOUS
<1>2. /\ values \in Seq(Values)
      /\ values = <<>> <=> P = {}
      /\ values # <<>> => \E i \in P : (\A j \in P : i <= j) /\ values[1] = V(i)
      /\ \A v : (\E j \in 1 .. Len(values) : values[j] = v) <=> \E i \in P : V(i) = v
  BY Zenon DEF Collected
<1>3. V(m) = value
  OBVIOUS
<1> HIDE DEF Q, V
<1> DEFINE n == Len(values)
<1>4. n \in Nat /\ (values = <<>> <=> n = 0)
  BY <1>2
<1>5. /\ more \in Seq(Values) /\ Len(more) = n + 1
      /\ \A j \in 1 .. n : more[j] = values[j]
      /\ more[n + 1] = value
      /\ more # <<>>
  BY <1>2
<1>6. values = <<>> => more = <<value>>
  OBVIOUS
<1> HIDE DEF n, more
<1>7. Q # {} /\ m \in Q
  BY <1>1
<1>8. \E i \in Q : (\A j \in Q : i <= j) /\ more[1] = V(i)
  <2>1. CASE values = <<>>
    <3>1. Q = {m}
      BY <1>1, <1>2, <2>1
    <3>2. more[1] = value
      BY <1>6, <2>1
    <3>. QED
      BY <1>3, <3>1, <3>2
  <2>2. CASE values # <<>>
    <3>1. PICK i \in P : (\A j \in P : i <= j) /\ values[1] = V(i)
      BY <1>2, <2>2
    <3>2. 1 \in 1 .. n
      BY <1>4, <2>2
    <3>3. more[1] = values[1]
      BY <1>5, <3>2
    <3>4. \A j \in Q : i <= j
      BY <1>1, <3>1
    <3>5. i \in Q
      BY <1>1
    <3>. QED
      BY <3>1, <3>3, <3>4, <3>5, Zenon
  <2>. QED
    BY <2>1, <2>2
<1>9. ASSUME NEW v
      PROVE  (\E j \in 1 .. n + 1 : more[j] = v) <=> \E i \in Q : V(i) = v
  <2>1. (\E j \in 1 .. n : values[j] = v) <=> \E i \in P : V(i) = v
    BY <1>2, Zenon DEF n
  <2>2. 1 .. n + 1 = (1 .. n) \union {n + 1}
    BY <1>4
  <2>3. (\E j \in 1 .. n + 1 : more[j] = v) <=> (\E j \in 1 .. n : values[j] = v) \/ value = v
    BY <1>5, <2>2
  <2>4. (\E i \in Q : V(i) = v) <=> (\E i \in P : V(i) = v) \/ value = v
    BY <1>1, <1>3
  <2>. QED
    BY <2>1, <2>3, <2>4
<1>10. ASSUME NEW v
       PROVE  more = <<v>> <=> \E i : Q = {i} /\ V(i) = v
  <2>1. CASE values = <<>>
    <3>1. Q = {m}
      BY <1>1, <1>2, <2>1
    <3>2. more = <<value>>
      BY <1>6, <2>1
    <3>3. more = <<v>> <=> value = v
      BY <3>2
    <3>. QED
      BY <1>3, <3>1, <3>3
  <2>2. CASE values # <<>>
    <3>1. PICK i : i \in P
      BY <1>2, <2>2
    <3>2. i \in Q /\ i # m
      BY <1>1, <3>1
    <3>3. \A j : Q # {j}
      BY <1>7, <3>2
    <3>4. Len(more) # 1
      BY <1>4, <1>5, <2>2
    <3>5. more # <<v>>
      BY <3>4
    <3>. QED
      BY <3>3, <3>5
  <2>. QED
    BY <2>1, <2>2
<1>11. Collected(more, lines, Q)
  BY <1>5, <1>7, <1>8, <1>9, <1>10, Zenon DEF Collected, V
<1>. QED
  BY <1>11 DEF more, Q

LEMMA GatheredMore ==
  ASSUME NEW headers, NEW lines, NEW k \in Nat \ {0}, Gathered(headers, lines, k),
         lines[k + 1] \in DOMAIN Header
  PROVE  Gathered(Appended(headers, lines[k + 1]), lines, k + 1)
<1> DEFINE s == lines[k + 1]
           more == Appended(headers, s)
<1>1. Header[s].name \in HeaderNames /\ Header[s].value \in Values
  BY DEF HeaderNames, Values
<1>2. DOMAIN headers = HeaderNames
  BY DEF Gathered
<1>3. /\ DOMAIN more = HeaderNames
      /\ more[Header[s].name] = Append(headers[Header[s].name], Header[s].value)
      /\ \A name \in HeaderNames : name # Header[s].name => more[name] = headers[name]
  BY <1>1, <1>2 DEF Appended
<1>4. ASSUME NEW name \in HeaderNames
      PROVE  Collected(more[name], lines, PlacesIn(lines, name, k + 1))
  <2> DEFINE P == PlacesIn(lines, name, k)
             Q == PlacesIn(lines, name, k + 1)
  <2>1. Collected(headers[name], lines, P)
    BY DEF Gathered
  <2>2. CASE name = Header[s].name
    <3>1. Q = P \union {k + 1} /\ \A i \in P : i \in Nat /\ i < k + 1
      BY <2>2 DEF PlacesIn
    <3>2. k + 1 \in Nat
      OBVIOUS
    <3> HIDE DEF P, Q, more
    <3>3. Collected(Append(headers[name], Header[s].value), lines, P \union {k + 1})
      BY <1>1, <2>1, <3>1, <3>2, CollectedMore
    <3>. QED
      BY <1>3, <2>2, <3>1, <3>3 DEF Q
  <2>3. CASE name # Header[s].name
    <3>1. Q = P
      BY <2>3 DEF PlacesIn
    <3>2. more[name] = headers[name]
      BY <1>3, <2>3
    <3> HIDE DEF P, Q, more
    <3>. QED
      BY <2>1, <3>1, <3>2 DEF Q
  <2>. QED
    BY <2>2, <2>3
<1> HIDE DEF more
<1>5. Gathered(more, lines, k + 1)
  BY <1>3, <1>4 DEF Gathered
<1>. QED
  BY <1>5 DEF more

-----------------------------------------------------------------------------
(***************************************************************************)
(* The stream, and how a head is taken from it.                            *)
(***************************************************************************)
HeadLen == Len(HeadBytes(script.lines))

StreamInv ==
  /\ script \in Scripts
  /\ stream = HeadBytes(script.lines) \o script.bytes
  /\ at \in Nat /\ got \in Nat /\ at <= got /\ got <= Len(stream)
  /\ m_is_server = script.server /\ m_server = script.server

LEMMA StreamIs ==
  ASSUME StreamInv
  PROVE  /\ script.server \in BOOLEAN /\ script.lines \in Seq(Nat \ Byte) /\ script.bytes \in Seq(Byte)
         /\ stream \in Seq(Nat) /\ HeadLen \in Nat /\ HeadLen <= Len(stream)
         /\ \A i \in 1 .. HeadLen : stream[i] = HeadBytes(script.lines)[i]
         /\ \A i \in HeadLen + 1 .. Len(stream) : stream[i] \in Byte
<1>1. script.server \in BOOLEAN /\ script.lines \in Seq(Nat \ Byte) /\ script.bytes \in Seq(Byte)
  BY ScriptsAssumption DEF StreamInv
<1> DEFINE front == HeadBytes(script.lines)
           back == script.bytes
<1>2. front \in Seq(Nat)
  BY <1>1, HeadBytesAre
<1>3. back \in Seq(Byte) /\ back \in Seq(Nat)
  <2>1. Byte \subseteq Nat
    BY Bytes
  <2>. QED
    BY <1>1, <2>1, SeqMonotonic
<1>4. stream = front \o back
  BY DEF StreamInv
<1> HIDE DEF front, back
<1>5. /\ stream \in Seq(Nat) /\ Len(stream) = Len(front) + Len(back)
      /\ \A i \in 1 .. Len(front) + Len(back) :
            stream[i] = IF i <= Len(front) THEN front[i] ELSE back[i - Len(front)]
  BY <1>2, <1>3, <1>4, ConcatProperties
<1>6. Len(front) \in Nat /\ Len(back) \in Nat
  BY <1>2, <1>3, LenProperties
<1>7. ASSUME NEW i \in 1 .. Len(front) PROVE stream[i] = front[i]
  BY <1>5, <1>6
<1>8. ASSUME NEW i \in Len(front) + 1 .. Len(stream) PROVE stream[i] \in Byte
  <2>1. i \in 1 .. Len(front) + Len(back) /\ ~ (i <= Len(front)) /\ i - Len(front) \in 1 .. Len(back)
    BY <1>5, <1>6
  <2>2. stream[i] = back[i - Len(front)]
    BY <1>5, <2>1, Zenon
  <2>3. back[i - Len(front)] \in Byte
    BY <1>3, <2>1, ElementOfSeq
  <2>. QED
    BY <2>2, <2>3
<1>9. HeadLen = Len(front)
  BY DEF HeadLen, front
<1>10. Len(front) <= Len(stream)
  BY <1>5, <1>6
<1>. QED
  BY <1>1, <1>5, <1>6, <1>7, <1>8, <1>9, <1>10, Zenon DEF front

\* The lines of the head, where the stream has them.
LEMMA LinesAre ==
  ASSUME StreamInv, script.lines # <<>>
  PROVE  /\ Len(script.lines) \in Nat /\ Len(script.lines) >= 1 /\ HeadLen = 3 * Len(script.lines) + 2
         /\ \A k \in 0 .. Len(script.lines) - 1 :
               /\ script.lines[k + 1] \in Nat \ Byte
               /\ stream[3 * k + 1] = script.lines[k + 1]
               /\ stream[3 * k + 2] = CR /\ stream[3 * k + 3] = LF
         /\ stream[3 * Len(script.lines) + 1] = CR /\ stream[3 * Len(script.lines) + 2] = LF
<1> DEFINE l == Len(script.lines)
           b == HeadBytes(script.lines)
<1>1. script.lines \in Seq(Nat \ Byte)
  BY StreamIs
<1>2. l \in Nat /\ l >= 1
  BY <1>1
<1>3. /\ HeadLen = 3 * l + 2
      /\ \A k \in 0 .. l - 1 : b[3 * k + 1] = script.lines[k + 1] /\ b[3 * k + 2] = CR /\ b[3 * k + 3] = LF
      /\ b[3 * l + 1] = CR /\ b[3 * l + 2] = LF
  BY <1>1, HeadBytesAre DEF HeadLen
<1>4. \A i \in 1 .. HeadLen : stream[i] = b[i]
  BY StreamIs
<1> HIDE DEF b, l
<1>5. ASSUME NEW k \in 0 .. l - 1
      PROVE  /\ stream[3 * k + 1] = script.lines[k + 1]
             /\ stream[3 * k + 2] = CR /\ stream[3 * k + 3] = LF
  <2>1. 3 * k + 1 \in 1 .. HeadLen /\ 3 * k + 2 \in 1 .. HeadLen /\ 3 * k + 3 \in 1 .. HeadLen
    BY <1>2, <1>3
  <2>2. /\ stream[3 * k + 1] = b[3 * k + 1] /\ stream[3 * k + 2] = b[3 * k + 2]
        /\ stream[3 * k + 3] = b[3 * k + 3]
    BY <1>4, <2>1
  <2>. QED
    BY <1>3, <2>2
<1>6. stream[3 * l + 1] = CR /\ stream[3 * l + 2] = LF
  <2>1. 3 * l + 1 \in 1 .. HeadLen /\ 3 * l + 2 \in 1 .. HeadLen
    BY <1>2, <1>3
  <2>. QED
    BY <1>3, <1>4, <2>1, Zenon
<1>7. ASSUME NEW k \in 0 .. l - 1 PROVE script.lines[k + 1] \in Nat \ Byte
  <2>1. k + 1 \in 1 .. Len(script.lines)
    BY <1>2 DEF l
  <2>. QED
    BY <1>1, <2>1, ElementOfSeq
<1>. QED
  BY <1>2, <1>3, <1>5, <1>6, <1>7 DEF l

\* The first k lines are processed, and what else was read waits in the buffer.
Processed(k) ==
  /\ script.lines # <<>>
  /\ head = "line" <=> k = 0
  /\ 3 * k <= at
  /\ m_buf = SubSeq(stream, 3 * k + 1, at)
  /\ scanning => at = got
  /\ k > 0 => first_line = script.lines[1] /\ script.lines[1] \in FirstLines
  /\ \A i \in 2 .. k : script.lines[i] \in DOMAIN Header
  /\ Gathered(m_headers, script.lines, k)

\* What the loop finds in the buffer: a line, the blank line, or no delimiter.
FindsLine(k) ==
  /\ Delimiters # {} /\ LineEnd = 1 /\ Line = <<script.lines[k + 1]>>
  /\ 3 * (k + 1) <= at /\ Rest = SubSeq(stream, 3 * (k + 1) + 1, at)

FindsEnd ==
  /\ Delimiters # {} /\ LineEnd = 0
  /\ HeadLen <= at /\ Len(Rest) = at - HeadLen

\* A delimiter at place p of the buffer, and none before it.
LEMMA DelimiterIs ==
  ASSUME NEW p \in {1, 2}, m_buf \in Seq(Nat), p = 2 => Len(m_buf) = 0 \/ m_buf[1] # CR,
         Len(m_buf) >= p + 1 => m_buf[p] = CR /\ m_buf[p + 1] = LF
  PROVE  /\ Len(m_buf) >= p + 1 => Delimiters # {} /\ LineEnd = p - 1
         /\ Len(m_buf) < p + 1 => Delimiters = {} /\ LineEnd = Len(m_buf)
<1>1. Len(m_buf) \in Nat
  OBVIOUS
<1>2. \A i \in Delimiters : i \in Nat /\ i >= p
  BY <1>1 DEF Delimiters
<1>3. CASE Len(m_buf) >= p + 1
  <2>1. p \in Delimiters
    BY <1>1, <1>3 DEF Delimiters
  <2>2. \A i : i \in Delimiters /\ (\A j \in Delimiters : i <= j) => i = p
    BY <1>2, <2>1
  <2>3. \A j \in Delimiters : p <= j
    BY <1>2
  <2> DEFINE c == CHOOSE i \in Delimiters : \A j \in Delimiters : i <= j
  <2>4. c = p
    BY <2>1, <2>2, <2>3
  <2>5. LineEnd = IF Delimiters = {} THEN Len(m_buf) ELSE c - 1
    BY Zenon DEF LineEnd
  <2> HIDE DEF c
  <2>. QED
    BY <1>1, <1>3, <2>1, <2>4, <2>5
<1>4. CASE Len(m_buf) < p + 1
  <2>1. Delimiters = {}
    BY <1>1, <1>4 DEF Delimiters
  <2>. QED
    BY <1>1, <1>4, <2>1 DEF LineEnd
<1>. QED
  BY <1>1, <1>3, <1>4

LEMMA FirstOnly ==
  ASSUME NEW S, NEW s \in Seq(S), Len(s) >= 1
  PROVE  SubSeq(s, 1, 1) = <<s[1]>>
<1>1. \A i \in 1 .. 1 : s[i] \in S
  OBVIOUS
<1>2. /\ SubSeq(s, 1, 1) \in Seq(S) /\ Len(SubSeq(s, 1, 1)) = 1
      /\ \A i \in 1 .. 1 : SubSeq(s, 1, 1)[i] = s[i]
  OBVIOUS
<1> DEFINE t == SubSeq(s, 1, 1)
<1> HIDE DEF t
<1>3. t \in Seq(S) /\ Len(t) = 1 /\ t[1] = s[1]
  BY <1>2 DEF t
<1>4. t = <<s[1]>>
  BY <1>3
<1>. QED
  BY <1>4 DEF t

LEMMA Found ==
  ASSUME StreamInv, NEW k \in 0 .. Len(script.lines), Processed(k)
  PROVE  /\ m_buf \in Seq(Nat) /\ Len(m_buf) = at - 3 * k
         /\ Delimiters = {} => LineEnd = Len(m_buf)
         /\ Delimiters # {} => IF k < Len(script.lines) THEN FindsLine(k) ELSE FindsEnd
<1> DEFINE l == Len(script.lines)
           n == at - 3 * k
<1>1. /\ stream \in Seq(Nat) /\ at \in Nat /\ at <= Len(stream) /\ k \in Nat /\ 3 * k <= at
      /\ l \in Nat /\ k <= l /\ Len(stream) \in Nat
  <2>1. stream \in Seq(Nat) /\ script.lines \in Seq(Nat \ Byte)
    BY StreamIs
  <2>2. at \in Nat /\ at <= got /\ got \in Nat /\ got <= Len(stream) /\ 3 * k <= at
    BY DEF StreamInv, Processed
  <2>3. l \in Nat /\ Len(stream) \in Nat
    BY <2>1
  <2>. QED
    BY <2>1, <2>2, <2>3
<1>2. /\ HeadLen = 3 * l + 2
      /\ k < l => /\ stream[3 * k + 1] \in Nat \ Byte /\ stream[3 * k + 1] = script.lines[k + 1]
                  /\ stream[3 * k + 2] = CR /\ stream[3 * k + 3] = LF
      /\ k = l => stream[3 * k + 1] = CR /\ stream[3 * k + 2] = LF
  <2>1. k < l => k \in 0 .. l - 1
    BY <1>1
  <2>. QED
    BY <2>1, LinesAre DEF Processed
<1>3. /\ m_buf \in Seq(Nat) /\ Len(m_buf) = n
      /\ \A i \in 1 .. n : m_buf[i] = stream[3 * k + i]
  <2>1. /\ m_buf = SubSeq(stream, 3 * k + 1, at) /\ 3 * k + 1 \in Int /\ at \in Int
        /\ \A i \in 3 * k + 1 .. at : stream[i] \in Nat
    <3>1. m_buf = SubSeq(stream, 3 * k + 1, at)
      BY DEF Processed
    <3>2. ASSUME NEW i \in 3 * k + 1 .. at PROVE stream[i] \in Nat
      <4>1. i \in 1 .. Len(stream)
        BY <1>1
      <4>. QED
        BY <1>1, <4>1, ElementOfSeq
    <3>. QED
      BY <1>1, <3>1, <3>2
  <2>2. /\ m_buf \in Seq(Nat) /\ Len(m_buf) = IF 3 * k + 1 <= at THEN at - (3 * k + 1) + 1 ELSE 0
        /\ \A i \in 1 .. at - (3 * k + 1) + 1 : m_buf[i] = stream[(3 * k + 1) + i - 1]
    BY <2>1, SubSeqProperties
  <2>3. ASSUME NEW i \in 1 .. n PROVE m_buf[i] = stream[3 * k + i]
    <3>1. i \in 1 .. at - (3 * k + 1) + 1 /\ (3 * k + 1) + i - 1 = 3 * k + i
      BY <1>1
    <3>. QED
      BY <2>2, <3>1, Zenon
  <2>4. Len(m_buf) = n
    BY <1>1, <2>2
  <2>. QED
    BY <2>2, <2>3, <2>4, Zenon
<1> HIDE DEF l
<1>4. n \in Nat
  BY <1>1
<1>5. CR \in Byte /\ CR # LF
  BY DEF CR, LF, Byte
<1>6. CASE k < l
  <2>1. Len(m_buf) = 0 \/ m_buf[1] # CR
    <3>1. n = 0 \/ 1 \in 1 .. n
      BY <1>4
    <3>. QED
      BY <1>2, <1>3, <1>5, <1>6, <3>1
  <2>2. Len(m_buf) >= 2 + 1 => m_buf[2] = CR /\ m_buf[2 + 1] = LF
    <3>1. n >= 3 => 2 \in 1 .. n /\ 3 \in 1 .. n
      BY <1>4
    <3>. QED
      BY <1>2, <1>3, <1>6, <3>1
  <2>3. /\ Len(m_buf) >= 2 + 1 => Delimiters # {} /\ LineEnd = 2 - 1
        /\ Len(m_buf) < 2 + 1 => Delimiters = {} /\ LineEnd = Len(m_buf)
    BY <1>3, <2>1, <2>2, DelimiterIs
  <2>4. ASSUME n >= 3 PROVE FindsLine(k)
    <3>1. LineEnd = 1 /\ Delimiters # {}
      BY <1>3, <2>3, <2>4
    <3>2. Line = <<script.lines[k + 1]>>
      <4>1. Line = SubSeq(m_buf, 1, 1)
        BY <3>1 DEF Line
      <4>2. 1 \in 1 .. n /\ n >= 1
        BY <1>4, <2>4
      <4>3. m_buf[1] = script.lines[k + 1]
        BY <1>2, <1>3, <1>6, <4>2
      <4>. QED
        BY <1>3, <4>1, <4>2, <4>3, FirstOnly
    <3>3. Rest = SubSeq(stream, 3 * (k + 1) + 1, at)
      <4> DEFINE t == SubSeq(stream, 3 * (k + 1) + 1, at)
      <4>1. Rest = SubSeq(m_buf, 4, n)
        BY <1>3, <3>1 DEF Rest
      <4>2. CASE n = 3
        <5>1. Rest = <<>>
          BY <1>3, <4>1, <4>2
        <5>2. at < 3 * (k + 1) + 1
          BY <1>1, <4>2
        <5>. QED
          BY <1>1, <5>1, <5>2, SubSeqEmpty
      <4>3. CASE n > 3
        <5>1. /\ 3 * k + 1 \in 1 .. Len(stream) /\ at \in 1 .. Len(stream)
              /\ 4 \in 1 .. at - (3 * k + 1) + 1 /\ n \in 1 .. at - (3 * k + 1) + 1
              /\ (3 * k + 1) + 4 - 1 = 3 * (k + 1) + 1 /\ (3 * k + 1) + n - 1 = at
          BY <1>1, <4>3
        <5>2. SubSeq(SubSeq(stream, 3 * k + 1, at), 4, n) = SubSeq(stream, (3 * k + 1) + 4 - 1, (3 * k + 1) + n - 1)
          <6> HIDE DEF n
          <6>. QED
            BY <1>1, <5>1, SubSeqOfSubSeq
        <5>. QED
          BY <4>1, <5>1, <5>2, Zenon DEF Processed
      <4>. QED
        BY <1>4, <2>4, <4>2, <4>3
    <3>4. 3 * (k + 1) <= at
      BY <1>1, <2>4
    <3>. QED
      BY <3>1, <3>2, <3>3, <3>4 DEF FindsLine
  <2>. QED
    BY <1>3, <1>4, <1>6, <2>3, <2>4 DEF l
<1>7. CASE k = l
  <2>1. Len(m_buf) >= 1 + 1 => m_buf[1] = CR /\ m_buf[1 + 1] = LF
    <3>1. n >= 2 => 2 \in 1 .. n /\ 1 \in 1 .. n
      BY <1>4
    <3>. QED
      BY <1>2, <1>3, <1>7, <3>1
  <2>2. /\ Len(m_buf) >= 1 + 1 => Delimiters # {} /\ LineEnd = 1 - 1
        /\ Len(m_buf) < 1 + 1 => Delimiters = {} /\ LineEnd = Len(m_buf)
    BY <1>3, <2>1, DelimiterIs
  <2>3. ASSUME n >= 2 PROVE FindsEnd
    <3>1. LineEnd = 0 /\ Delimiters # {}
      BY <1>3, <2>2, <2>3
    <3>2. Rest = SubSeq(m_buf, 3, n)
      BY <1>3, <3>1 DEF Rest
    <3>3. Len(Rest) = n - 2
      BY <1>3, <1>4, <2>3, <3>2
    <3>4. HeadLen <= at /\ n - 2 = at - HeadLen
      <4>1. HeadLen = 3 * k + 2
        BY <1>2, <1>7
      <4>. QED
        BY <1>1, <2>3, <4>1
    <3>. QED
      BY <3>1, <3>3, <3>4 DEF FindsEnd
  <2>. QED
    BY <1>3, <1>4, <1>7, <2>2, <2>3 DEF l
<1>. QED
  BY <1>1, <1>6, <1>7

\* All lines are processed.
AllProcessed ==
  /\ script.lines # <<>>
  /\ script.lines[1] \in FirstLines /\ first_line = script.lines[1]
  /\ \A i \in 2 .. Len(script.lines) : script.lines[i] \in DOMAIN Header
  /\ Gathered(m_headers, script.lines, Len(script.lines))

LEMMA HeadersAre ==
  ASSUME StreamInv, AllProcessed, NEW name \in HeaderNames
  PROVE  /\ Places(name) = PlacesIn(script.lines, name, Len(script.lines))
         /\ Has(name) <=> Places(name) # {}
         /\ Has(name) => /\ FirstOf(name) \in DOMAIN Header /\ Header[FirstOf(name)].name = name
                         /\ Header[FirstOf(name)].value = Head(m_headers[name])
         /\ \A v : Says(name, v) <=> \E i \in Places(name) : Header[script.lines[i]].value = v
         /\ \A v : m_headers[name] = <<v>>
                     <=> \E i \in Places(name) : Places(name) = {i} /\ Header[script.lines[i]].value = v
<1> DEFINE lines == script.lines
           values == m_headers[name]
           P == Places(name)
           Q == PlacesIn(lines, name, Len(lines))
           V(i) == Header[lines[i]].value
<1>1. lines \in Seq(Nat \ Byte) /\ Len(lines) \in Nat /\ DOMAIN lines = 1 .. Len(lines)
  <2>1. script.lines \in Seq(Nat \ Byte)
    BY StreamIs
  <2>. QED
    BY <2>1
<1>2. lines[1] \notin DOMAIN Header
  <2>1. \A s \in FirstLines : s <= 261 /\ s >= 256
    BY DEF FirstLines, Get, Post, OldVersion, SwitchingProtocols, OtherStatus
  <2>2. \A s \in DOMAIN Header : s >= 262
    BY DEF Header
  <2>3. lines[1] \in FirstLines
    BY DEF AllProcessed
  <2>4. lines[1] \in DOMAIN Header => lines[1] >= 262 /\ lines[1] <= 261 /\ lines[1] \in Int
    <3>1. \A s \in FirstLines : s \in Int
      BY DEF FirstLines, Get, Post, OldVersion, SwitchingProtocols, OtherStatus
    <3>. QED
      BY <2>1, <2>2, <2>3, <3>1
  <2>. QED
    BY <2>4
<1>3. \A i \in 2 .. Len(lines) : lines[i] \in DOMAIN Header
  BY DEF AllProcessed
<1>4. P = Q
  <2>1. P = {i \in 1 .. Len(lines) : lines[i] \in DOMAIN Header /\ Header[lines[i]].name = name}
    BY <1>1 DEF Places
  <2>2. Q = {i \in 2 .. Len(lines) : Header[lines[i]].name = name}
    BY DEF PlacesIn
  <2> HIDE DEF P, Q, lines
  <2>3. ASSUME NEW i \in P PROVE i \in Q
    <3>1. i # 1 /\ i \in 1 .. Len(lines) /\ Header[lines[i]].name = name
      BY <1>2, <2>1
    <3>2. i \in 2 .. Len(lines)
      BY <1>1, <3>1
    <3>. QED
      BY <2>2, <3>1, <3>2
  <2>4. ASSUME NEW i \in Q PROVE i \in P
    <3>1. i \in 2 .. Len(lines) /\ Header[lines[i]].name = name
      BY <2>2
    <3>2. i \in 1 .. Len(lines)
      BY <1>1, <3>1
    <3>. QED
      BY <1>3, <2>1, <3>1, <3>2
  <2>. QED
    BY <2>3, <2>4
<1>5. Collected(values, lines, Q)
  BY DEF AllProcessed, Gathered
<1> HIDE DEF Q
<1>6. /\ values \in Seq(Values)
      /\ values = <<>> <=> P = {}
      /\ values # <<>> => \E i \in P : (\A j \in P : i <= j) /\ values[1] = V(i)
      /\ \A v : (\E j \in 1 .. Len(values) : values[j] = v) <=> \E i \in P : V(i) = v
      /\ \A v : values = <<v>> <=> \E i : P = {i} /\ V(i) = v
  BY <1>4, <1>5, Zenon DEF Collected
<1>7. Has(name) <=> values # <<>>
  BY DEF Has
<1>8. \A v : Says(name, v) <=> \E i \in P : V(i) = v
  <2>1. DOMAIN values = 1 .. Len(values)
    BY <1>6
  <2>. QED
    BY <1>6, <2>1, Zenon DEF Says
<1>9. ASSUME values # <<>>
      PROVE  /\ FirstOf(name) \in DOMAIN Header /\ Header[FirstOf(name)].name = name
             /\ Header[FirstOf(name)].value = Head(values)
  <2>1. PICK i \in P : (\A j \in P : i <= j) /\ values[1] = V(i)
    BY <1>6, <1>9
  <2>2. \A j \in P : j \in Nat
    BY <1>1 DEF Places
  <2>3. \A m : m \in P /\ (\A j \in P : m <= j) => m = i
    BY <2>1, <2>2
  <2>4. (CHOOSE m \in P : \A j \in P : m <= j) = i
    <3> HIDE DEF P
    <3>. QED
      BY <2>1, <2>3, Zenon
  <2>5. FirstOf(name) = lines[i]
    BY <2>4, Zenon DEF FirstOf
  <2>6. lines[i] \in DOMAIN Header /\ Header[lines[i]].name = name
    BY DEF Places
  <2>7. Head(values) = values[1]
    BY <1>6, <1>9
  <2>. QED
    BY <2>1, <2>5, <2>6, <2>7
<1>10. \A v : values = <<v>> <=> \E i \in P : P = {i} /\ V(i) = v
  BY <1>6
<1>. QED
  BY <1>4, <1>6, <1>7, <1>8, <1>9, <1>10, Zenon DEF Q

HeadOf(outcome) == IF outcome = "none" THEN "open" ELSE IF outcome = "http" THEN "http" ELSE "refused"

LEMMA ConcludeIs ==
  ASSUME NEW outcome, Conclude(outcome)
  PROVE  head' = HeadOf(outcome) /\ refusal' = outcome
BY DEF Conclude, HeadOf

\* What is asked of the headers, by the symbols of the lines.
LEMMA HeadersSay ==
  ASSUME StreamInv, AllProcessed
  PROVE  /\ Parsed
         /\ is_websocket_handshake <=> Upgrades
         /\ m_headers["Sec-WebSocket-Accept"] = <<"right">>
              <=> \E i \in Places("Sec-WebSocket-Accept") :
                     Places("Sec-WebSocket-Accept") = {i} /\ script.lines[i] = 266
         /\ get_websocket_version = "13" <=> /\ Places("Sec-WebSocket-Version") # {}
                                             /\ FirstOf("Sec-WebSocket-Version") = 270
         /\ Has("Content-Length") =>
              /\ Head(m_headers["Content-Length"]) = "2" <=> FirstOf("Content-Length") = 273
              /\ Head(m_headers["Content-Length"]) = "text" <=> FirstOf("Content-Length") = 274
              /\ Head(m_headers["Content-Length"]) = "3" <=> FirstOf("Content-Length") = 275
         /\ Has("Content-Length") <=> Places("Content-Length") # {}
         /\ Has("Host") <=> Places("Host") # {}
         /\ Has("Sec-WebSocket-Key") <=> Places("Sec-WebSocket-Key") # {}
<1>1. Parsed
  BY DEF AllProcessed, Parsed
<1>2. ASSUME NEW name \in HeaderNames, NEW i \in Places(name)
      PROVE  script.lines[i] \in DOMAIN Header /\ Header[script.lines[i]].name = name
  BY DEF Places
<1>3. {262, 264} \subseteq DOMAIN Header /\ Header[262].name = "Upgrade" /\ Header[264].name = "Connection"
  BY DEF Header, Headers
<1>4. is_websocket_handshake <=> Upgrades
  <2>1. Says("Upgrade", "websocket") <=> \E i \in Places("Upgrade") : Header[script.lines[i]].value = "websocket"
    BY HeadersAre, Names
  <2>2. Says("Connection", "Upgrade") <=> \E i \in Places("Connection") : Header[script.lines[i]].value = "Upgrade"
    BY HeadersAre, Names
  <2>3. (\E i \in Places("Upgrade") : Header[script.lines[i]].value = "websocket")
          <=> \E i \in DOMAIN script.lines : script.lines[i] = 262
    <3>1. ASSUME NEW i \in Places("Upgrade"), Header[script.lines[i]].value = "websocket"
          PROVE  i \in DOMAIN script.lines /\ script.lines[i] = 262
      BY <1>2, <3>1, HeaderSymbols, Names DEF Places
    <3>2. ASSUME NEW i \in DOMAIN script.lines, script.lines[i] = 262
          PROVE  i \in Places("Upgrade") /\ Header[script.lines[i]].value = "websocket"
      <4>1. i \in Places("Upgrade")
        BY <1>3, <3>2 DEF Places
      <4>. QED
        BY <1>3, <3>2, <4>1, HeaderSymbols
    <3>. QED
      BY <3>1, <3>2
  <2>4. (\E i \in Places("Connection") : Header[script.lines[i]].value = "Upgrade")
          <=> \E i \in DOMAIN script.lines : script.lines[i] = 264
    <3>1. ASSUME NEW i \in Places("Connection"), Header[script.lines[i]].value = "Upgrade"
          PROVE  i \in DOMAIN script.lines /\ script.lines[i] = 264
      BY <1>2, <3>1, HeaderSymbols, Names DEF Places
    <3>2. ASSUME NEW i \in DOMAIN script.lines, script.lines[i] = 264
          PROVE  i \in Places("Connection") /\ Header[script.lines[i]].value = "Upgrade"
      <4>1. i \in Places("Connection")
        BY <1>3, <3>2 DEF Places
      <4>. QED
        BY <1>3, <3>2, <4>1, HeaderSymbols
    <3>. QED
      BY <3>1, <3>2
  <2>5. Upgrades <=> /\ \E i \in DOMAIN script.lines : script.lines[i] = 262
                     /\ \E i \in DOMAIN script.lines : script.lines[i] = 264
    BY DEF Upgrades
  <2>. QED
    BY <2>1, <2>2, <2>3, <2>4, <2>5, Zenon DEF is_websocket_handshake
<1>5. m_headers["Sec-WebSocket-Accept"] = <<"right">>
        <=> \E i \in Places("Sec-WebSocket-Accept") :
               Places("Sec-WebSocket-Accept") = {i} /\ script.lines[i] = 266
  <2> DEFINE name == "Sec-WebSocket-Accept"
  <2>1. m_headers[name] = <<"right">>
          <=> \E i \in Places(name) : Places(name) = {i} /\ Header[script.lines[i]].value = "right"
    BY HeadersAre, Names
  <2>2. ASSUME NEW i \in Places(name) PROVE Header[script.lines[i]].value = "right" <=> script.lines[i] = 266
    BY <1>2, HeaderSymbols, Names
  <2>. QED
    BY <2>1, <2>2
<1>6. ASSUME NEW name \in HeaderNames, Has(name)
      PROVE  /\ FirstOf(name) \in DOMAIN Header /\ Header[FirstOf(name)].name = name
             /\ Header[FirstOf(name)].value = Head(m_headers[name])
  BY <1>6, HeadersAre
<1>7. \A name \in HeaderNames : Has(name) <=> Places(name) # {}
  BY HeadersAre
<1>8. get_websocket_version = "13" <=> /\ Places("Sec-WebSocket-Version") # {}
                                       /\ FirstOf("Sec-WebSocket-Version") = 270
  <2> DEFINE name == "Sec-WebSocket-Version"
  <2>1. Has(name) => (Head(m_headers[name]) = "13" <=> FirstOf(name) = 270)
    BY <1>6, HeaderSymbols, Names
  <2>. QED
    BY <1>7, <2>1, Names DEF get_websocket_version
<1>9. Has("Content-Length") =>
        /\ Head(m_headers["Content-Length"]) = "2" <=> FirstOf("Content-Length") = 273
        /\ Head(m_headers["Content-Length"]) = "text" <=> FirstOf("Content-Length") = 274
        /\ Head(m_headers["Content-Length"]) = "3" <=> FirstOf("Content-Length") = 275
  BY <1>6, HeaderSymbols, Names
<1>. QED
  BY <1>1, <1>4, <1>5, <1>7, <1>8, <1>9, Names

Host == "Host"
Length == "Content-Length"

LEMMA Judgement ==
  ASSUME StreamInv, AllProcessed
  PROVE  /\ m_is_server /\ Has(Host) /\ (Has(Length) => ContentLength <= m_body_bytes_max)
              => Verdict = HeadOf(Outcome)
         /\ m_is_server /\ ~Has(Host) => Verdict = "refused"
         /\ m_is_server /\ Has(Length) /\ ContentLength > m_body_bytes_max => Verdict = "refused"
         /\ ~m_is_server /\ Has(Length) /\ Head(m_headers[Length]) = "text" => Verdict = "refused"
         /\ ~m_is_server /\ (Has(Length) => Head(m_headers[Length]) # "text") => Verdict = HeadOf(Outcome)
<1> DEFINE first == FirstOf(Length)
           long == Places(Length) # {}
           handshake == is_websocket_handshake
           right == m_headers["Sec-WebSocket-Accept"] = <<"right">>
           v13 == get_websocket_version = "13"
           line == script.lines[1]
           key == Has("Sec-WebSocket-Key")
           tooLong == \/ first = 273 /\ 2 > m_body_bytes_max
                      \/ first = 275 /\ 3 > m_body_bytes_max
<1>1. m_is_server =>
        Verdict = IF ~Has(Host) \/ (long /\ tooLong) THEN "refused"
                  ELSE IF ~handshake THEN "http"
                  ELSE IF line = Get /\ key /\ v13 THEN "open" ELSE "refused"
  BY HeadersSay, ZenonT(40) DEF Verdict, Host, Length
<1>2. ~m_is_server =>
        Verdict = IF handshake /\ line = SwitchingProtocols /\ right /\ (~long \/ first # 274)
                  THEN "open" ELSE "refused"
  BY HeadersSay, ZenonT(40) DEF Verdict, Length
<1>3. Has(Length) <=> long
  BY HeadersSay DEF Length
<1>4. Has(Length) => /\ Head(m_headers[Length]) = "text" <=> first = 274
                     /\ ContentLength > m_body_bytes_max <=> tooLong
  <2>1. Has(Length) => /\ Head(m_headers[Length]) = "2" <=> first = 273
                       /\ Head(m_headers[Length]) = "text" <=> first = 274
                       /\ Head(m_headers[Length]) = "3" <=> first = 275
    BY HeadersSay DEF Length
  <2>2. ContentLength = IF Head(m_headers[Length]) = "2" THEN 2
                        ELSE IF Head(m_headers[Length]) = "3" THEN 3 ELSE 0
    BY DEF ContentLength, Length
  <2>3. m_body_bytes_max \in Nat
    BY HeadAssumption
  <2> HIDE DEF first, Length
  <2>. QED
    BY <2>1, <2>2, <2>3
<1>5. ContentLength \in Nat /\ m_body_bytes_max \in Nat
  BY HeadAssumption DEF ContentLength
<1>6. m_is_server => line \in {Get, Post, OldVersion}
  BY DEF AllProcessed, FirstLines
<1>7. first_line = line
  BY DEF AllProcessed
<1>8. m_is_server =>
        HeadOf(Outcome) = IF ~handshake THEN "http"
                          ELSE IF line = Get /\ key /\ v13 THEN "open" ELSE "refused"
  BY <1>6, <1>7 DEF HeadOf, Outcome, RequestOutcome, validate_handshake, Get, Post, OldVersion
<1>9. ~m_is_server =>
        HeadOf(Outcome) = IF handshake /\ line = SwitchingProtocols /\ right THEN "open" ELSE "refused"
  BY <1>7 DEF HeadOf, Outcome, validate_server_handshake_response
<1> HIDE DEF first, long, handshake, right, v13, line, key, tooLong
<1>10. ContentLength <= m_body_bytes_max <=> ~ (ContentLength > m_body_bytes_max)
  BY <1>5
<1>. QED
  BY <1>1, <1>2, <1>3, <1>4, <1>8, <1>9, <1>10

LEMMA VerdictKept ==
  ASSUME script' = script, m_is_server' = m_is_server
  PROVE  /\ Verdict' = Verdict /\ HeadLen' = HeadLen
         /\ \A name : Places(name)' = Places(name)
BY DEF Verdict, Parsed, Upgrades, Places, FirstOf, FirstLines, HeadLen

-----------------------------------------------------------------------------
(***************************************************************************)
(* The invariant of the handshake.                                         *)
(***************************************************************************)
TooLarge == "request_header_fields_too_large"

Judged == script.lines # <<>> /\ head \in {"open", "http", "refused"} /\ refusal # TooLarge => head = Verdict

\* What a body is read for.
Bodied ==
  /\ AllProcessed /\ m_is_server /\ Has(Host)
  /\ Has(Length) /\ ContentLength <= m_body_bytes_max /\ HeadLen <= at

HeadInv ==
  /\ HeadTypeOK
  /\ script.lines = <<>> => head = "open"
  /\ head \in {"line", "headers"} => \E k \in 0 .. Len(script.lines) : Processed(k)
  /\ head = "body" => Bodied
  /\ head \notin {"line", "headers"} => ~scanning
  /\ Judged

\* The part of a step that leaves the peer alone.
SamePeer == UNCHANGED <<script, stream, got, m_is_server, m_server>>

LEMMA StreamKept ==
  ASSUME StreamInv, SamePeer, at' \in Nat, at' <= got
  PROVE  StreamInv'
BY DEF StreamInv, SamePeer

\* Where the frames begin.
FramesBegin == head' = "open" => at' >= HeadLen /\ (Places(Length) = {} => at' = HeadLen)

LEMMA FillBufferKeeps ==
  ASSUME StreamInv, HeadInv, FillBuffer, UNCHANGED <<script, m_server>>
  PROVE  StreamInv' /\ HeadInv' /\ FramesBegin
<1>1. head \in {"line", "headers"} /\ head' = head /\ at' = at + (got - at) /\ scanning' = TRUE
  BY DEF FillBuffer, Use
<1>2. PICK k \in 0 .. Len(script.lines) : Processed(k)
  BY <1>1 DEF HeadInv
<1>3. at \in Nat /\ got \in Nat /\ at <= got /\ got <= Len(stream) /\ at' = got
  <2>1. at \in Nat /\ got \in Nat /\ at <= got /\ got <= Len(stream)
    BY DEF StreamInv
  <2>. QED
    BY <1>1, <2>1
<1>4. SamePeer
  BY DEF FillBuffer, Use, SamePeer
<1>5. StreamInv'
  BY <1>3, <1>4, StreamKept
<1>6. m_buf' = SubSeq(stream, 3 * k + 1, got)
  <2>1. m_buf' = SubSeq(stream, 3 * k + 1, at) \o SubSeq(stream, at + 1, got)
    BY <1>2 DEF FillBuffer, Unused, Processed
  <2>2. stream \in Seq(Nat) /\ Len(stream) \in Nat /\ k \in Nat /\ 3 * k <= at
    <3>1. stream \in Seq(Nat)
      BY StreamIs
    <3>2. script.lines \in Seq(Nat \ Byte)
      BY StreamIs
    <3>. QED
      BY <1>2, <3>1, <3>2 DEF Processed
  <2>3. 3 * k + 1 \in 1 .. Len(stream) + 1 /\ at \in (3 * k + 1) - 1 .. Len(stream) /\ got \in at .. Len(stream)
    BY <1>3, <2>2
  <2>. QED
    BY <2>1, <2>2, <2>3, ConcatAdjacentSubSeq
<1>7. Processed(k)'
  <2>1. 3 * k <= got
    <3>1. 3 * k <= at /\ k \in Int
      BY <1>2 DEF Processed
    <3>. QED
      BY <1>3, <3>1
  <2>2. /\ script' = script /\ stream' = stream /\ head' = head /\ first_line' = first_line /\ got' = got
        /\ m_headers' = m_headers /\ m_is_server' = m_is_server
    BY <1>1, <1>4 DEF FillBuffer, SamePeer
  <2>3. Gathered(m_headers, script.lines, k)
    BY <1>2 DEF Processed
  <2>. QED
    BY <1>2, <1>3, <1>6, <2>1, <2>2, <2>3 DEF Processed, FirstLines
<1>8. HeadTypeOK' /\ script' = script
  BY DEF HeadInv, HeadTypeOK, FillBuffer
<1>9. HeadInv'
  <2>1. script.lines # <<>>
    BY <1>2 DEF Processed
  <2>. QED
    BY <1>1, <1>7, <1>8, <2>1 DEF HeadInv, Judged
<1>. QED
  BY <1>1, <1>5, <1>9 DEF FramesBegin

\* A head that is refused while its lines are taken.
LEMMA ThrowKeeps ==
  ASSUME StreamInv, HeadInv, SamePeer, head \in {"line", "headers"},
         NEW what, Throw(what), what = TooLarge \/ Verdict = "refused",
         m_header_bytes' \in 0 .. max_header_size
  PROVE  StreamInv' /\ HeadInv' /\ FramesBegin
<1>1. StreamInv'
  <2>1. at \in Nat /\ at <= got /\ at' = at
    BY DEF StreamInv, Throw
  <2>. QED
    BY <2>1, StreamKept
<1>2. head' = "refused" /\ refusal' = what /\ scanning' = FALSE
  BY DEF Throw
<1>3. script' = script /\ m_is_server' = m_is_server
  BY DEF SamePeer
<1>4. script.lines # <<>>
  BY DEF HeadInv, Processed
<1>5. HeadTypeOK'
  BY <1>2, <1>3 DEF HeadInv, HeadTypeOK, Throw
<1>6. Judged'
  <2>1. Verdict' = Verdict
    BY <1>3, VerdictKept
  <2>. QED
    BY <1>2, <2>1 DEF Judged, TooLarge
<1>7. HeadInv'
  BY <1>2, <1>3, <1>4, <1>5, <1>6 DEF HeadInv
<1>. QED
  BY <1>1, <1>2, <1>7 DEF FramesBegin

LEMMA EndOfHeadKeeps ==
  ASSUME StreamInv, HeadInv, SamePeer, head \in {"line", "headers"}, scanning,
         Processed(Len(script.lines)), FindsEnd, EndOfHead, CountedBytes \in 0 .. max_header_size
  PROVE  StreamInv' /\ HeadInv' /\ FramesBegin
<1> DEFINE l == Len(script.lines)
<1>1. l \in Nat /\ l # 0 /\ script.lines # <<>> /\ script.lines \in Seq(Nat \ Byte)
  <2>1. script.lines \in Seq(Nat \ Byte) /\ script.lines # <<>>
    BY StreamIs DEF Processed
  <2>. QED
    BY <2>1
<1>2. head = "headers"
  BY <1>1 DEF Processed
<1>3. AllProcessed
  BY <1>1 DEF Processed, AllProcessed
<1>4. m_header_bytes' \in 0 .. max_header_size
  BY DEF EndOfHead
<1> DEFINE length == IF Has(Length) THEN ContentLength ELSE 0
           body == IF length < Len(Rest) THEN length ELSE Len(Rest)
           Fits == IF m_is_server THEN Has(Host) /\ length <= m_body_bytes_max
                   ELSE Has(Length) => Head(m_headers[Length]) # "text"
<1>5. length \in Nat /\ m_body_bytes_max \in Nat /\ (~Has(Length) => length = 0) /\ (Has(Length) => length = ContentLength)
  BY HeadAssumption DEF ContentLength
<1>6. \/ /\ m_is_server /\ ~Has(Host) /\ Throw("bad_request")
      \/ /\ ~m_is_server /\ Has(Length) /\ Head(m_headers[Length]) = "text" /\ Throw("bad_request")
      \/ /\ m_is_server /\ length > m_body_bytes_max /\ Throw("request_entity_too_large")
      \/ /\ Fits
         /\ at' = got - Len(Rest) + body /\ body_needed' = length - body
         /\ m_buf' = <<>> /\ scanning' = FALSE /\ UNCHANGED <<first_line, m_headers>>
         /\ IF m_is_server /\ length > body THEN head' = "body" /\ UNCHANGED refusal ELSE Conclude(Outcome)
  BY <1>2 DEF EndOfHead, Host, Length
<1> HIDE DEF length, body, Fits
<1>7. ASSUME \/ m_is_server /\ ~Has(Host)
             \/ ~m_is_server /\ Has(Length) /\ Head(m_headers[Length]) = "text"
             \/ m_is_server /\ length > m_body_bytes_max
      PROVE  Verdict = "refused"
  <2>1. length > m_body_bytes_max => Has(Length) /\ ContentLength > m_body_bytes_max
    BY <1>5
  <2>. QED
    BY <1>3, <1>7, <2>1, Judgement
<1>8. ASSUME NEW what, Throw(what), Verdict = "refused" PROVE StreamInv' /\ HeadInv' /\ FramesBegin
  BY <1>4, <1>8, ThrowKeeps
<1>9. ASSUME Fits,
             at' = got - Len(Rest) + body, body_needed' = length - body,
             m_buf' = <<>>, scanning' = FALSE, UNCHANGED <<first_line, m_headers>>,
             IF m_is_server /\ length > body THEN head' = "body" /\ UNCHANGED refusal ELSE Conclude(Outcome)
      PROVE  StreamInv' /\ HeadInv' /\ FramesBegin
  <2>1. at \in Nat /\ at = got /\ HeadLen \in Nat /\ HeadLen <= at /\ Len(Rest) = at - HeadLen
    BY StreamIs DEF StreamInv, Processed, FindsEnd
  <2>2. body \in Nat /\ body <= Len(Rest) /\ body <= length
    <3>1. Len(Rest) \in Nat
      BY <2>1
    <3>. QED
      BY <1>5, <3>1 DEF body
  <2>3. at' = HeadLen + body /\ at' \in Nat /\ at' <= got /\ at' >= HeadLen
    BY <1>9, <2>1, <2>2
  <2>4. StreamInv'
    BY <2>3, StreamKept
  <2>5. script' = script /\ m_is_server' = m_is_server /\ first_line' = first_line /\ m_headers' = m_headers
    BY <1>9 DEF SamePeer
  <2>6. m_is_server => Has(Host) /\ (Has(Length) => ContentLength <= m_body_bytes_max)
    BY <1>5, <1>9 DEF Fits
  <2>7. Verdict = HeadOf(Outcome)
    <3>1. ~m_is_server => (Has(Length) => Head(m_headers[Length]) # "text")
      BY <1>9 DEF Fits
    <3>. QED
      BY <1>3, <2>6, <3>1, Judgement
  <2>8. body_needed' \in Nat
    BY <1>5, <1>9, <2>2
  <2>9. ~ (m_is_server /\ length > body) => head' = HeadOf(Outcome)
    BY <1>9, ConcludeIs
  <2>10. head' \in {"body", "open", "http", "refused"}
    BY <1>9, <2>9 DEF HeadOf
  <2>11. HeadTypeOK'
    BY <1>4, <1>9, <2>5, <2>8, <2>10 DEF HeadInv, HeadTypeOK
  <2>12. head' = "body" => Bodied'
    <3>1. head' = "body" => m_is_server /\ length > body
      BY <2>9 DEF HeadOf
    <3>2. m_is_server /\ length > body => Has(Length) /\ Has(Host) /\ ContentLength <= m_body_bytes_max
      BY <1>5, <2>2, <2>6
    <3>3. AllProcessed'
      BY <1>3, <2>5 DEF AllProcessed, FirstLines
    <3>4. HeadLen' = HeadLen /\ Has(Length)' = Has(Length) /\ Has(Host)' = Has(Host) /\ ContentLength' = ContentLength
      BY <2>5 DEF HeadLen, Has, ContentLength
    <3>. QED
      BY <2>3, <2>5, <3>1, <3>2, <3>3, <3>4 DEF Bodied
  <2>13. Judged'
    <3>1. Verdict' = Verdict
      BY <2>5, VerdictKept
    <3>2. head' # "body" => head' = Verdict
      BY <1>9, <2>7, <2>9
    <3>. QED
      BY <3>1, <3>2 DEF Judged
  <2>14. HeadInv'
    <3>1. script.lines # <<>>
      BY <1>1
    <3>. QED
      BY <1>9, <2>5, <2>10, <2>11, <2>12, <2>13, <3>1 DEF HeadInv
  <2>15. FramesBegin
    <3>1. Places(Length) = {} => body = 0
      <4>1. Places(Length) = {} => ~Has(Length)
        BY <1>3, HeadersSay DEF Length
      <4>2. length = 0 => body = 0
        BY <2>2
      <4>. QED
        BY <1>5, <4>1, <4>2
    <3>. QED
      BY <2>1, <2>3, <3>1 DEF FramesBegin
  <2>. QED
    BY <2>4, <2>14, <2>15
<1>. QED
  BY <1>6, <1>7, <1>8, <1>9

LEMMA ProcessLineKeeps ==
  ASSUME StreamInv, HeadInv, SamePeer, head \in {"line", "headers"}, scanning,
         NEW k \in 0 .. Len(script.lines) - 1, Processed(k), FindsLine(k), ProcessLine,
         CountedBytes \in 0 .. max_header_size
  PROVE  StreamInv' /\ HeadInv' /\ FramesBegin
<1> DEFINE line == script.lines[k + 1]
<1>1. /\ script.lines # <<>> /\ script.lines \in Seq(Nat \ Byte) /\ Len(script.lines) \in Nat
      /\ k \in Nat /\ k + 1 \in 1 .. Len(script.lines)
  <2>1. script.lines \in Seq(Nat \ Byte) /\ script.lines # <<>>
    BY StreamIs DEF Processed
  <2>. QED
    BY <2>1
<1>2. m_header_bytes' \in 0 .. max_header_size
  BY DEF ProcessLine
<1>3. Len(Line) = 1 /\ Line[1] = line
  BY DEF FindsLine
<1>4. head = "line" <=> k = 0
  BY DEF Processed
<1>5. \/ /\ head = "line" /\ line \in FirstLines
         /\ first_line' = line /\ head' = "headers" /\ m_buf' = Rest
         /\ UNCHANGED <<at, scanning, m_headers, body_needed, refusal>>
      \/ /\ head = "headers" /\ line \in DOMAIN Header
         /\ m_headers' = Appended(m_headers, line) /\ m_buf' = Rest
         /\ UNCHANGED <<at, head, scanning, first_line, body_needed, refusal>>
      \/ /\ line \notin IF head = "line" THEN FirstLines ELSE DOMAIN Header
         /\ Throw("bad_request")
  BY <1>3 DEF ProcessLine
<1> HIDE DEF line
<1>6. CASE line \notin (IF head = "line" THEN FirstLines ELSE DOMAIN Header) /\ Throw("bad_request")
  <2>1. ~Parsed
    <3>1. head = "line" => line = script.lines[1]
      BY <1>4 DEF line
    <3>2. head # "line" => k + 1 \in 2 .. Len(script.lines)
      BY <1>1, <1>4
    <3>. QED
      BY <1>6, <3>1, <3>2 DEF Parsed, line
  <2>2. Verdict = "refused"
    BY <2>1 DEF Verdict
  <2>. QED
    BY <1>2, <1>6, <2>2, ThrowKeeps
<1>7. ASSUME m_buf' = Rest, UNCHANGED <<at, scanning, body_needed, refusal>>, head' = "headers",
             first_line' \in FirstLines, first_line' = script.lines[1],
             \A i \in 2 .. k + 1 : script.lines[i] \in DOMAIN Header,
             Gathered(m_headers', script.lines, k + 1)
      PROVE  StreamInv' /\ HeadInv' /\ FramesBegin
  <2>1. StreamInv'
    <3>1. at \in Nat /\ at <= got
      BY DEF StreamInv
    <3>. QED
      BY <1>7, <3>1, StreamKept
  <2>2. script' = script /\ m_is_server' = m_is_server /\ stream' = stream /\ got' = got
    BY DEF SamePeer
  <2>3. HeadTypeOK'
    <3>1. first_line' \in {0, SwitchingProtocols, OtherStatus, Get, Post, OldVersion}
      BY <1>7 DEF FirstLines
    <3>. QED
      BY <1>2, <1>7, <2>2, <3>1 DEF HeadInv, HeadTypeOK, Gathered
  <2>4. Processed(k + 1)'
    <3>1. 3 * (k + 1) <= at /\ Rest = SubSeq(stream, 3 * (k + 1) + 1, at)
      BY DEF FindsLine
    <3>2. scanning => at = got
      BY DEF Processed
    <3>3. k + 1 # 0
      BY <1>1
    <3>. QED
      BY <1>1, <1>7, <2>2, <3>1, <3>2, <3>3 DEF Processed, FirstLines
  <2>5. HeadInv'
    <3>1. k + 1 \in 0 .. Len(script'.lines)
      BY <1>1, <2>2
    <3>2. script'.lines # <<>>
      BY <1>1, <2>2
    <3> HIDE DEF Processed
    <3>. QED
      BY <1>7, <2>3, <2>4, <3>1, <3>2 DEF HeadInv, Judged
  <2>. QED
    BY <1>7, <2>1, <2>5 DEF FramesBegin
<1>8. CASE /\ head = "line" /\ line \in FirstLines
           /\ first_line' = line /\ head' = "headers" /\ m_buf' = Rest
           /\ UNCHANGED <<at, scanning, m_headers, body_needed, refusal>>
  <2>1. k = 0 /\ line = script.lines[1]
    BY <1>4, <1>8 DEF line
  <2>2. Gathered(m_headers, script.lines, 1)
    <3>1. Gathered(m_headers, script.lines, 0)
      BY <2>1 DEF Processed
    <3>2. \A name : PlacesIn(script.lines, name, 1) = PlacesIn(script.lines, name, 0)
      BY DEF PlacesIn
    <3>. QED
      BY <3>1, <3>2 DEF Gathered
  <2>3. k + 1 = 1 /\ \A i \in 2 .. k + 1 : script.lines[i] \in DOMAIN Header
    BY <2>1
  <2>. QED
    BY <1>7, <1>8, <2>1, <2>2, <2>3
<1>9. CASE /\ head = "headers" /\ line \in DOMAIN Header
           /\ m_headers' = Appended(m_headers, line) /\ m_buf' = Rest
           /\ UNCHANGED <<at, head, scanning, first_line, body_needed, refusal>>
  <2>1. k \in Nat \ {0} /\ k > 0
    BY <1>1, <1>4, <1>9
  <2>2. Gathered(m_headers', script.lines, k + 1)
    <3>1. Gathered(m_headers, script.lines, k)
      BY DEF Processed
    <3>2. script.lines[k + 1] \in DOMAIN Header /\ m_headers' = Appended(m_headers, script.lines[k + 1])
      BY <1>9 DEF line
    <3>. QED
      BY <2>1, <3>1, <3>2, GatheredMore
  <2>3. \A i \in 2 .. k + 1 : script.lines[i] \in DOMAIN Header
    <3>1. \A i \in 2 .. k : script.lines[i] \in DOMAIN Header
      BY DEF Processed
    <3>2. \A i \in 2 .. k + 1 : i \in 2 .. k \/ i = k + 1
      BY <1>1
    <3>. QED
      BY <1>9, <3>1, <3>2 DEF line
  <2>4. first_line' \in FirstLines /\ first_line' = script.lines[1]
    BY <1>9, <2>1 DEF Processed
  <2>. QED
    BY <1>7, <1>9, <2>2, <2>3, <2>4
<1>. QED
  BY <1>5, <1>6, <1>8, <1>9

LEMMA ScanLineKeeps ==
  ASSUME StreamInv, HeadInv, ScanLine, UNCHANGED <<script, m_server>>
  PROVE  StreamInv' /\ HeadInv' /\ FramesBegin
<1>1. scanning /\ head \in {"line", "headers"}
  BY DEF ScanLine, HeadInv, HeadTypeOK
<1>2. PICK k \in 0 .. Len(script.lines) : Processed(k)
  BY <1>1 DEF HeadInv
<1>3. SamePeer
  BY DEF ScanLine, SamePeer
<1>4. m_header_bytes \in Nat /\ m_header_bytes <= max_header_size /\ max_header_size \in Nat
  BY HeadAssumption DEF HeadInv, HeadTypeOK
<1>5. /\ m_buf \in Seq(Nat)
      /\ Delimiters = {} => LineEnd = Len(m_buf)
      /\ Delimiters # {} => IF k < Len(script.lines) THEN FindsLine(k) ELSE FindsEnd
  BY <1>2, Found
<1>6. CASE CountedBytes > max_header_size /\ Throw(TooLarge) /\ UNCHANGED m_header_bytes
  BY <1>1, <1>3, <1>4, <1>6, ThrowKeeps
<1>7. CASE /\ CountedBytes <= max_header_size /\ Delimiters = {}
           /\ m_header_bytes' = CountedBytes - Len(m_buf)
           /\ scanning' = FALSE
           /\ UNCHANGED <<at, head, m_buf, first_line, m_headers, body_needed, refusal>>
  <2>1. StreamInv'
    <3>1. at \in Nat /\ at <= got
      BY DEF StreamInv
    <3>. QED
      BY <1>3, <1>7, <3>1, StreamKept
  <2>2. script' = script /\ m_is_server' = m_is_server /\ stream' = stream /\ got' = got
    BY <1>3 DEF SamePeer
  <2>3. m_header_bytes' \in 0 .. max_header_size
    <3>1. Len(m_buf) \in Nat
      BY <1>5
    <3>. QED
      BY <1>4, <1>5, <1>7, <3>1 DEF CountedBytes
  <2>4. HeadTypeOK'
    BY <1>7, <2>2, <2>3 DEF HeadInv, HeadTypeOK
  <2>5. Processed(k)'
    <3>1. Gathered(m_headers, script.lines, k)
      BY <1>2 DEF Processed
    <3>. QED
      BY <1>2, <1>7, <2>2, <3>1 DEF Processed, FirstLines
  <2>6. script.lines # <<>>
    BY <1>2 DEF Processed
  <2>7. HeadInv'
    <3> HIDE DEF Processed
    <3>. QED
      BY <1>1, <1>7, <2>2, <2>4, <2>5, <2>6 DEF HeadInv, Judged
  <2>. QED
    BY <1>1, <1>7, <2>1, <2>7 DEF FramesBegin
<1>8. CASE /\ CountedBytes <= max_header_size /\ Delimiters # {}
           /\ IF LineEnd = 0 THEN EndOfHead ELSE ProcessLine
  <2>1. CASE k < Len(script.lines)
    <3>1. FindsLine(k) /\ LineEnd = 1
      BY <1>5, <1>8, <2>1 DEF FindsLine
    <3>2. CountedBytes \in 0 .. max_header_size
      BY <1>4, <1>8, <3>1 DEF CountedBytes
    <3>3. k \in 0 .. Len(script.lines) - 1
      <4>1. script.lines \in Seq(Nat \ Byte)
        BY StreamIs
      <4>. QED
        BY <2>1, <4>1
    <3>4. ProcessLine
      BY <1>8, <3>1
    <3>. QED
      BY <1>1, <1>2, <1>3, <3>1, <3>2, <3>3, <3>4, ProcessLineKeeps
  <2>2. CASE ~ (k < Len(script.lines))
    <3>1. k = Len(script.lines)
      <4>1. script.lines \in Seq(Nat \ Byte)
        BY StreamIs
      <4>. QED
        BY <2>2, <4>1
    <3>2. FindsEnd /\ LineEnd = 0
      BY <1>5, <1>8, <2>2 DEF FindsEnd
    <3>3. CountedBytes \in 0 .. max_header_size
      BY <1>4, <1>8, <3>2 DEF CountedBytes
    <3>4. EndOfHead
      BY <1>8, <3>2
    <3>. QED
      BY <1>1, <1>2, <1>3, <3>1, <3>2, <3>3, <3>4, EndOfHeadKeeps
  <2>. QED
    BY <2>1, <2>2
<1>. QED
  BY <1>6, <1>7, <1>8 DEF ScanLine, TooLarge

LEMMA process_bodyKeeps ==
  ASSUME StreamInv, HeadInv, process_body, UNCHANGED <<script, m_server>>
  PROVE  StreamInv' /\ HeadInv' /\ FramesBegin
<1> DEFINE n == IF body_needed < got - at THEN body_needed ELSE got - at
<1>1. /\ head = "body" /\ at < got /\ at' = at + n /\ stream' = stream /\ got' = got
      /\ body_needed' = body_needed - n
      /\ IF n = body_needed THEN Conclude(Outcome) ELSE UNCHANGED <<head, refusal>>
      /\ UNCHANGED <<m_is_server, m_buf, scanning, first_line, m_headers, m_header_bytes>>
  BY DEF process_body, Use
<1>2. at \in Nat /\ got \in Nat /\ body_needed \in Nat
  BY DEF StreamInv, HeadInv, HeadTypeOK
<1>3. n \in Nat /\ n <= got - at /\ n <= body_needed
  BY <1>1, <1>2
<1> HIDE DEF n
<1>4. SamePeer
  BY <1>1 DEF SamePeer
<1>5. at' \in Nat /\ at' <= got /\ at' >= at /\ body_needed' \in Nat
  BY <1>1, <1>2, <1>3
<1>6. StreamInv'
  BY <1>4, <1>5, StreamKept
<1>7. Bodied
  BY <1>1 DEF HeadInv
<1>8. Verdict = HeadOf(Outcome)
  BY <1>7, Judgement DEF Bodied
<1>9. head' = "body" \/ (head' = Verdict /\ head' \in {"open", "http", "refused"})
  <2>1. n = body_needed => head' = HeadOf(Outcome)
    BY <1>1, ConcludeIs
  <2>2. HeadOf(Outcome) \in {"open", "http", "refused"}
    BY DEF HeadOf
  <2>. QED
    BY <1>1, <1>8, <2>1, <2>2
<1>10. HeadTypeOK'
  BY <1>1, <1>5, <1>9 DEF HeadInv, HeadTypeOK
<1>11. HeadLen \in Nat
  BY StreamIs
<1>12. Bodied'
  <2>1. AllProcessed'
    BY <1>1, <1>7 DEF Bodied, AllProcessed, FirstLines
  <2>2. HeadLen' = HeadLen /\ Has(Length)' = Has(Length) /\ Has(Host)' = Has(Host) /\ ContentLength' = ContentLength
    BY <1>1 DEF HeadLen, Has, ContentLength
  <2>. QED
    BY <1>1, <1>2, <1>5, <1>7, <1>11, <2>1, <2>2 DEF Bodied
<1>13. Judged'
  <2>1. Verdict' = Verdict
    BY <1>1, VerdictKept
  <2>. QED
    BY <1>9, <2>1 DEF Judged
<1>14. HeadInv'
  <2>1. ~scanning /\ script.lines # <<>>
    BY <1>1 DEF HeadInv
  <2>. QED
    BY <1>1, <1>9, <1>10, <1>12, <1>13, <2>1 DEF HeadInv
<1>15. FramesBegin
  <2>1. Places(Length) # {}
    BY <1>7, HeadersSay DEF Bodied, Length
  <2>2. HeadLen <= at
    BY <1>7 DEF Bodied
  <2>. QED
    BY <1>2, <1>5, <1>11, <2>1, <2>2 DEF FramesBegin
<1>. QED
  BY <1>6, <1>14, <1>15

LEMMA ParseHeadKeeps ==
  ASSUME StreamInv, HeadInv, ParseHead, UNCHANGED <<script, m_server>>
  PROVE  StreamInv' /\ HeadInv' /\ FramesBegin
BY FillBufferKeeps, ScanLineKeeps, process_bodyKeeps DEF ParseHead

-----------------------------------------------------------------------------
(***************************************************************************)
(* The frame that is being read, as FrameStream has it: FrameStream reads  *)
(* headers and text with the same operators.                               *)
(***************************************************************************)
LEMMA SameHeaders ==
  ASSUME NEW hh
  PROVE  /\ Frames!get_opcode(hh) = get_opcode(hh) /\ Frames!get_basic_size(hh) = get_basic_size(hh)
         /\ Frames!get_fin(hh) <=> get_fin(hh)
         /\ Frames!get_masked(hh) <=> get_masked(hh)
         /\ (Frames!get_rsv1(hh) \/ Frames!get_rsv2(hh) \/ Frames!get_rsv3(hh))
              <=> (get_rsv1(hh) \/ get_rsv2(hh) \/ get_rsv3(hh))
         /\ Frames!get_masking_key_offset(hh) = get_masking_key_offset(hh)
         /\ Frames!get_header_len(hh) = get_header_len(hh)
<1>1. Frames!get_opcode(hh) = get_opcode(hh)
  BY Zenon DEF Frames!get_opcode, get_opcode
<1>2. Frames!get_basic_size(hh) = get_basic_size(hh)
  BY Zenon DEF Frames!get_basic_size, get_basic_size
<1>3. Frames!get_fin(hh) <=> get_fin(hh)
  BY Zenon DEF Frames!get_fin, get_fin
<1>4. Frames!get_masked(hh) <=> get_masked(hh)
  BY Zenon DEF Frames!get_masked, get_masked
<1>5. (Frames!get_rsv1(hh) \/ Frames!get_rsv2(hh) \/ Frames!get_rsv3(hh))
        <=> (get_rsv1(hh) \/ get_rsv2(hh) \/ get_rsv3(hh))
  BY Zenon DEF Frames!get_rsv1, get_rsv1, Frames!get_rsv2, get_rsv2, Frames!get_rsv3, get_rsv3
<1>6. Frames!get_masking_key_offset(hh) = get_masking_key_offset(hh)
  BY <1>2, Zenon DEF Frames!get_masking_key_offset, get_masking_key_offset,
     Frames!payload_size_code_16bit, payload_size_code_16bit,
     Frames!payload_size_code_64bit, payload_size_code_64bit
<1>7. Frames!get_header_len(hh) = get_header_len(hh)
  BY <1>4, <1>6, Zenon DEF Frames!get_header_len, get_header_len,
     Frames!BASIC_HEADER_LENGTH, BASIC_HEADER_LENGTH
<1>. QED
  BY <1>1, <1>2, <1>3, <1>4, <1>5, <1>6, <1>7

LEMMA SameOperators ==
  /\ \A op : /\ Frames!is_control(op) <=> is_control(op)
             /\ Frames!reserved_opcode(op) <=> reserved_opcode(op)
  /\ \A hh, ee : /\ Frames!get_payload_size(hh, ee) = get_payload_size(hh, ee)
                 /\ Frames!get_masking_key(hh, ee) = get_masking_key(hh, ee)
  /\ \A n : Frames!basic_value(n) = basic_value(n)
  /\ \A u, k : Frames!byte_mask(u, k) = byte_mask(u, k)
<1>1. ASSUME NEW op PROVE (Frames!is_control(op) <=> is_control(op))
                       /\ (Frames!reserved_opcode(op) <=> reserved_opcode(op))
  BY Zenon DEF Frames!is_control, is_control, Frames!reserved_opcode, reserved_opcode
<1>2. ASSUME NEW hh, NEW ee PROVE Frames!get_payload_size(hh, ee) = get_payload_size(hh, ee)
  <2>1. \A b : Frames!Number(b) = Number(b)
    BY Zenon DEF Frames!Number, Number
  <2>2. Frames!get_basic_size(hh) = get_basic_size(hh)
    BY SameHeaders, Zenon
  <2>. QED
    BY <2>1, <2>2 DEF Frames!get_payload_size, get_payload_size, Frames!get_extended_size,
       get_extended_size, Frames!get_jumbo_size, get_jumbo_size,
       Frames!payload_size_code_16bit, payload_size_code_16bit
<1>3. ASSUME NEW hh, NEW ee PROVE Frames!get_masking_key(hh, ee) = get_masking_key(hh, ee)
  BY SameHeaders, Zenon DEF Frames!get_masking_key, get_masking_key
<1>4. ASSUME NEW n PROVE Frames!basic_value(n) = basic_value(n)
  BY Zenon DEF Frames!basic_value, basic_value, Frames!payload_size_code_16bit, payload_size_code_16bit,
     Frames!payload_size_code_64bit, payload_size_code_64bit
<1>5. ASSUME NEW u, NEW k PROVE Frames!byte_mask(u, k) = byte_mask(u, k)
  <2>1. \A a, b : Frames!Xor(a, b) = Xor(a, b)
    BY Zenon DEF Frames!Xor, Xor
  <2>. QED
    BY <2>1 DEF Frames!byte_mask, byte_mask
<1>. QED
  BY <1>1, <1>2, <1>3, <1>4, <1>5

LEMMA SameText ==
  /\ \A state, b : Frames!advance(state, b) = advance(state, b)
  /\ \A state : Frames!complete(state) <=> complete(state)
  /\ Frames!utf8_accept = utf8_accept /\ Frames!utf8_reject = utf8_reject
  /\ Frames!TEXT = TEXT /\ Frames!CONTINUATION = CONTINUATION
<1>1. Frames!utf8_accept = utf8_accept /\ Frames!utf8_reject = utf8_reject
      /\ Frames!TEXT = TEXT /\ Frames!CONTINUATION = CONTINUATION
  BY DEF Frames!utf8_accept, utf8_accept, Frames!utf8_reject, utf8_reject, Frames!TEXT, TEXT,
     Frames!CONTINUATION, CONTINUATION
<1>2. \A byte : Frames!ByteType(byte) = ByteType(byte)
  BY Zenon DEF Frames!ByteType, ByteType
<1>3. Frames!Accepting = Accepting
  BY Zenon DEF Frames!Accepting, Accepting
<1>4. ASSUME NEW state, NEW byte PROVE Frames!decode(state, byte) = decode(state, byte)
  BY Zenon DEF Frames!decode, decode, Frames!Accepting, Accepting, Frames!ByteType, ByteType,
     Frames!utf8_reject, utf8_reject
<1>5. ASSUME NEW state, NEW b PROVE Frames!advance(state, b) = advance(state, b)
  BY <1>4 DEF Frames!advance, advance
<1>6. \A state : Frames!complete(state) <=> complete(state)
  BY <1>1, Zenon DEF Frames!complete, complete
<1>. QED
  BY <1>1, <1>5, <1>6

\* The frame that begins at start, in the terms of Hybi13.
H == [b0 |-> stream[start + 1], b1 |-> stream[start + 2]]
HLen == get_header_len(H)
E == SubSeq(stream, start + 3, start + HLen)
Size == get_payload_size(H, E)
FrameKey == get_masking_key(H, E)
Plain(n) == Unmasked(stream, start + HLen, n, get_masked(H), FrameKey)

Alone == kept = NoMsg \/ is_control(get_opcode(H))
Op == IF Alone THEN get_opcode(H) ELSE kept.op
Before == IF Alone THEN <<>> ELSE kept.payload
KeptSize == IF kept = NoMsg THEN 0 ELSE Len(kept.payload)

BasicOK == validate_incoming_basic_header(H, m_server, kept = NoMsg) = "none"
ExtendedOK == validate_incoming_extended_header(H, E) = "none"
Fits == ~ExceedsLimit(H, Size, kept)

LEMMA FrameKept ==
  ASSUME UNCHANGED <<stream, start, kept, m_server>>
  PROVE  /\ H' = H /\ HLen' = HLen /\ E' = E /\ Size' = Size /\ FrameKey' = FrameKey
         /\ Op' = Op /\ Before' = Before /\ KeptSize' = KeptSize
         /\ BasicOK' = BasicOK /\ ExtendedOK' = ExtendedOK /\ Fits' = Fits
         /\ \A n : Plain(n)' = Plain(n)
<1>1. H' = H
  BY DEF H
<1>2. HLen' = HLen
  BY <1>1 DEF HLen
<1>3. E' = E
  BY <1>2 DEF E
<1>4. Size' = Size /\ FrameKey' = FrameKey
  BY <1>1, <1>3 DEF Size, FrameKey
<1>5. Op' = Op /\ Before' = Before /\ KeptSize' = KeptSize
  BY <1>1 DEF Op, Before, KeptSize, Alone
<1>6. BasicOK' = BasicOK /\ ExtendedOK' = ExtendedOK /\ Fits' = Fits
  BY <1>1, <1>3, <1>4, <1>5 DEF BasicOK, ExtendedOK, Fits
<1>7. \A n : Plain(n)' = Plain(n)
  BY <1>1, <1>2, <1>4 DEF Plain
<1>. QED
  BY <1>1, <1>2, <1>3, <1>4, <1>5, <1>6, <1>7

KeptOK ==
  /\ kept \in Message /\ ~is_control(kept.op) /\ kept.validator # utf8_reject
  /\ kept.op = TEXT => kept.validator = advance(utf8_accept, kept.payload)

\* Where a frame may begin, and how much of it there is.
Starts == start \in Nat /\ start >= HeadLen /\ (kept = NoMsg \/ KeptOK)
HasBasic == start + 2 <= Len(stream)
HasWholeHeader == HasBasic /\ start + HLen <= Len(stream)

LEMMA FrameTypes ==
  ASSUME CodeSizes, StreamInv, Starts
  PROVE  /\ HasBasic => H \in BasicHeader /\ HLen \in Nat /\ HLen >= 2
         /\ HasWholeHeader => /\ E \in Seq(Byte) /\ Len(E) = HLen - 2
                              /\ \A i \in 1 .. HLen - 2 : E[i] = stream[start + 2 + i]
                              /\ Size \in Nat /\ (get_basic_size(H) = 126 => Size <= 65535)
                              /\ FrameKey \in Seq(Byte) /\ Len(FrameKey) = 4
<1>1. /\ start \in Nat /\ start >= HeadLen /\ HeadLen \in Nat /\ Len(stream) \in Nat
      /\ \A i \in HeadLen + 1 .. Len(stream) : stream[i] \in Byte
  <2>1. stream \in Seq(Nat)
    BY StreamIs
  <2>. QED
    BY <2>1, StreamIs DEF Starts
<1>2. \A i \in start + 1 .. Len(stream) : stream[i] \in Byte
  BY <1>1
<1>3. ASSUME HasBasic PROVE H \in BasicHeader /\ HLen \in Nat /\ HLen >= 2
  <2>1. start + 1 \in start + 1 .. Len(stream) /\ start + 2 \in start + 1 .. Len(stream)
    BY <1>1, <1>3 DEF HasBasic
  <2>2. H \in BasicHeader
    BY <1>2, <2>1 DEF H, BasicHeader
  <2>3. /\ get_masking_key_offset(H) \in {0, 2, 8} /\ get_header_len(H) \in Nat
        /\ get_masked(H) => get_header_len(H) = get_masking_key_offset(H) + 6
        /\ ~get_masked(H) => get_header_len(H) = get_masking_key_offset(H) + 2
    BY <2>2, HeaderIs
  <2>. QED
    BY <2>2, <2>3 DEF HLen
<1>4. ASSUME HasWholeHeader
      PROVE  /\ E \in Seq(Byte) /\ Len(E) = HLen - 2
             /\ \A i \in 1 .. HLen - 2 : E[i] = stream[start + 2 + i]
  <2>1. HLen \in Nat /\ HLen >= 2 /\ start + HLen <= Len(stream)
    BY <1>3, <1>4 DEF HasWholeHeader
  <2>2. start + 2 \in Nat /\ HLen - 2 \in Nat /\ (start + 2) + 1 = start + 3 /\ (start + 2) + (HLen - 2) = start + HLen
    BY <1>1, <2>1
  <2>3. AreBytes(stream, start + 2, HLen - 2)
    BY <1>1, <1>2, <2>1 DEF AreBytes
  <2>4. IsPart(SubSeq(stream, (start + 2) + 1, (start + 2) + (HLen - 2)), stream, start + 2, HLen - 2)
    BY <2>2, <2>3, PartIs
  <2>. QED
    BY <2>2, <2>4, Zenon DEF IsPart, E
<1>5. ASSUME HasWholeHeader
      PROVE  /\ Size \in Nat /\ (get_basic_size(H) = 126 => Size <= 65535)
             /\ FrameKey \in Seq(Byte) /\ Len(FrameKey) = 4
  <2>1. H \in BasicHeader /\ HLen \in Nat
    BY <1>3, <1>5 DEF HasWholeHeader
  <2>2. E \in Seq(Byte) /\ Len(E) + 2 = get_header_len(H)
    BY <1>4, <1>5, <2>1 DEF HLen
  <2>. QED
    BY <2>1, <2>2, ExtendedIs DEF Size, FrameKey
<1>. QED
  BY <1>3, <1>4, <1>5

\* What FrameStream makes of the frame.
LEMMA FrameIs ==
  /\ Frames!h = H /\ Frames!e = E /\ Frames!size = Size
  /\ Frames!get_opcode(Frames!h) = get_opcode(H) /\ (Frames!get_fin(Frames!h) <=> get_fin(H))
  /\ (Frames!get_masked(Frames!h) <=> get_masked(H)) /\ Frames!get_basic_size(Frames!h) = get_basic_size(H)
  /\ (Frames!get_rsv1(Frames!h) \/ Frames!get_rsv2(Frames!h) \/ Frames!get_rsv3(Frames!h))
        <=> (get_rsv1(H) \/ get_rsv2(H) \/ get_rsv3(H))
  /\ Frames!get_header_len(Frames!h) = HLen /\ Frames!get_masking_key(Frames!h, Frames!e) = FrameKey
  /\ Frames!FrameEnd = start + HLen + Size
<1>1. Frames!h = H
  BY DEF Frames!h, H
<1>2. Frames!get_header_len(Frames!h) = HLen
  BY <1>1, SameHeaders DEF HLen
<1>3. Frames!e = E
  BY <1>2 DEF Frames!e, E
<1>4. Frames!size = Size /\ Frames!get_masking_key(Frames!h, Frames!e) = FrameKey
  BY <1>1, <1>3, SameOperators DEF Frames!size, Size, FrameKey
<1>5. Frames!FrameEnd = start + HLen + Size
  BY <1>2, <1>4 DEF Frames!FrameEnd
<1>. QED
  BY <1>1, <1>2, <1>3, <1>4, <1>5, SameHeaders

LEMMA MessageIs ==
  ASSUME Starts
  PROVE  /\ (IF kept = NoMsg THEN NoMsg ELSE [op |-> kept.op, payload |-> kept.payload]) = NoMsg <=> kept = NoMsg
         /\ Frames!op = Op /\ Frames!Before = Before
<1> DEFINE m == IF kept = NoMsg THEN NoMsg ELSE [op |-> kept.op, payload |-> kept.payload]
<1>1. ASSUME kept # NoMsg PROVE m # NoMsg
  <2>1. kept.op \in Opcode /\ kept.payload \in Seq(Byte)
    BY <1>1 DEF Starts, KeptOK, Message
  <2>2. m = [op |-> kept.op, payload |-> kept.payload]
    BY <1>1
  <2>3. m \in [op : Opcode, payload : Seq(Byte)]
    BY <2>1, <2>2
  <2>. QED
    BY <2>3, NoMsgAssumption
<1>2. m = NoMsg <=> kept = NoMsg
  BY <1>1
<1>3. kept # NoMsg => m.op = kept.op /\ m.payload = kept.payload
  OBVIOUS
<1>4. /\ Frames!op = IF m = NoMsg \/ Frames!is_control(Frames!get_opcode(Frames!h))
                     THEN Frames!get_opcode(Frames!h) ELSE m.op
      /\ Frames!Before = IF m = NoMsg \/ Frames!is_control(Frames!get_opcode(Frames!h))
                         THEN <<>> ELSE m.payload
  BY Zenon DEF Frames!op, Frames!Before
<1>5. Frames!get_opcode(Frames!h) = get_opcode(H) /\ (Frames!is_control(get_opcode(H)) <=> is_control(get_opcode(H)))
  BY FrameIs, SameOperators
<1> HIDE DEF m
<1>6. Frames!op = Op /\ Frames!Before = Before
  BY <1>2, <1>3, <1>4, <1>5 DEF Op, Before, Alone
<1>. QED
  BY <1>2, <1>6 DEF m

LEMMA IllegalIs ==
  ASSUME CodeSizes, StreamInv, Starts, HasBasic
  PROVE  /\ ~BasicOK => Frames!Illegal
         /\ BasicOK /\ HasWholeHeader /\ ~ExtendedOK => Frames!Illegal
         /\ BasicOK /\ HasWholeHeader /\ ~Fits => Frames!Illegal
         /\ BasicOK /\ HasWholeHeader /\ ExtendedOK /\ Fits => ~Frames!Illegal
<1> DEFINE op == get_opcode(H)
           rsv == get_rsv1(H) \/ get_rsv2(H) \/ get_rsv3(H)
           big == get_basic_size(H) > payload_size_basic
           control == is_control(op)
           unassigned == reserved_opcode(op)
           fin == get_fin(H)
           masked == get_masked(H)
           new == kept = NoMsg
           more == op = CONTINUATION
           odd == big /\ basic_value(Size) # get_basic_size(H)
           huge == Size >= SizeT
           long == (IF new THEN Size ELSE (Len(kept.payload) + Size) % SizeT) > m_max_message_size
           header == start + HLen <= Len(stream)
<1>1. Frames!HasBasicHeader /\ (Frames!HasHeader <=> header)
  BY FrameIs DEF Frames!HasHeader, Frames!HasBasicHeader, HasBasic
<1>2. Frames!Illegal <=>
        \/ unassigned \/ rsv
        \/ control /\ (~fin \/ big)
        \/ ~control /\ (new <=> more)
        \/ (m_server <=> ~masked)
        \/ header /\ odd
        \/ header /\ huge
        \/ header /\ ~control /\ long
  <2>1. /\ Frames!get_opcode(Frames!h) = op /\ (Frames!get_fin(Frames!h) <=> fin)
        /\ (Frames!get_masked(Frames!h) <=> masked) /\ Frames!get_basic_size(Frames!h) = get_basic_size(H)
        /\ (Frames!get_rsv1(Frames!h) \/ Frames!get_rsv2(Frames!h) \/ Frames!get_rsv3(Frames!h)) <=> rsv
        /\ Frames!size = Size
    BY FrameIs
  <2>2. /\ Frames!is_control(op) <=> control
        /\ Frames!reserved_opcode(op) <=> unassigned
        /\ Frames!basic_value(Size) = basic_value(Size)
    BY SameOperators
  <2>3. (IF kept = NoMsg THEN NoMsg ELSE [op |-> kept.op, payload |-> kept.payload]) = NoMsg <=> new
    BY MessageIs
  <2>4. Frames!CONTINUATION = CONTINUATION
    BY SameText
  <2>6. Frames!TooBig <=> long
    <3> DEFINE m == IF kept = NoMsg THEN NoMsg ELSE [op |-> kept.op, payload |-> kept.payload]
    <3>1. Frames!TooBig <=> (IF m = NoMsg THEN Frames!size ELSE (Len(m.payload) + Frames!size) % SizeT)
                               > m_max_message_size
      BY Zenon DEF Frames!TooBig
    <3>2. ~new => m.payload = kept.payload
      OBVIOUS
    <3> HIDE DEF m, new
    <3>3. m = NoMsg <=> new
      BY <2>3 DEF m
    <3>4. CASE new
      BY <2>1, <3>1, <3>3, <3>4, Zenon
    <3>5. CASE ~new
      BY <2>1, <3>1, <3>2, <3>3, <3>5, Zenon
    <3>. QED
      BY <3>4, <3>5
  <2>5. Frames!Illegal <=>
          \/ Frames!reserved_opcode(Frames!get_opcode(Frames!h)) \/ rsv
          \/ Frames!is_control(Frames!get_opcode(Frames!h))
               /\ (~Frames!get_fin(Frames!h) \/ Frames!get_basic_size(Frames!h) > payload_size_basic)
          \/ ~Frames!is_control(Frames!get_opcode(Frames!h))
               /\ ((IF kept = NoMsg THEN NoMsg ELSE [op |-> kept.op, payload |-> kept.payload]) = NoMsg
                    <=> Frames!get_opcode(Frames!h) = Frames!CONTINUATION)
          \/ (m_server <=> ~Frames!get_masked(Frames!h))
          \/ header /\ Frames!get_basic_size(Frames!h) > payload_size_basic
               /\ Frames!basic_value(Frames!size) # Frames!get_basic_size(Frames!h)
          \/ header /\ Frames!size >= SizeT
          \/ header /\ ~Frames!is_control(Frames!get_opcode(Frames!h)) /\ Frames!TooBig
    <3>1. (Frames!get_rsv1(Frames!h) \/ Frames!get_rsv2(Frames!h) \/ Frames!get_rsv3(Frames!h)) <=> rsv
      BY <2>1
    <3> HIDE DEF rsv, header
    <3>. QED
      BY <1>1, <3>1, Zenon DEF Frames!Illegal
  <2> HIDE DEF rsv, header, op, control, unassigned, fin, masked, new, long
  <2>. QED
    BY <2>1, <2>2, <2>3, <2>4, <2>5, <2>6 DEF control, unassigned
<1>3. m_server \in BOOLEAN
  BY StreamIs DEF StreamInv
<1>4. BasicOK <=> ~ \/ unassigned \/ rsv
                    \/ control /\ (~fin \/ big)
                    \/ ~control /\ (new <=> more)
                    \/ (m_server <=> ~masked)
  <2>1. control => ~more
    BY DEF is_control, CONTINUATION
  <2> DEFINE error == validate_incoming_basic_header(H, m_server, kept = NoMsg)
  <2>2. error = IF control /\ big THEN "control_too_big"
                ELSE IF rsv THEN "invalid_rsv_bit"
                ELSE IF unassigned THEN "invalid_opcode"
                ELSE IF control /\ ~fin THEN "fragmented_control"
                ELSE IF new /\ more THEN "invalid_continuation"
                ELSE IF ~new /\ ~control /\ ~more THEN "invalid_continuation"
                ELSE IF m_server /\ ~masked THEN "masking_required"
                ELSE IF ~m_server /\ masked THEN "masking_forbidden"
                ELSE "none"
    BY Zenon DEF validate_incoming_basic_header
  <2>3. BasicOK <=> error = "none"
    BY DEF BasicOK
  <2> HIDE DEF error, rsv, header, op, control, unassigned, fin, masked, new, more, big
  <2>. QED
    BY <1>3, <2>1, <2>2, <2>3
<1>5. header => HasWholeHeader
  BY DEF HasWholeHeader
<1>6. header => (ExtendedOK <=> ~odd /\ ~huge)
  <2>1. SUFFICES ASSUME header PROVE ExtendedOK <=> ~odd /\ ~huge
    OBVIOUS
  <2>2. /\ get_basic_size(H) \in Nat /\ get_basic_size(H) <= 127
        /\ Size \in Nat /\ (get_basic_size(H) = 126 => Size <= 65535)
    BY <1>5, <2>1, FrameTypes, HeaderIs
  <2>3. payload_size_basic = 125 /\ payload_size_extended = 65535
    BY DEF CodeSizes
  <2>4. basic_value(Size) = IF Size <= 125 THEN Size ELSE IF Size <= 65535 THEN 126 ELSE 127
    BY <2>3 DEF basic_value, payload_size_code_16bit, payload_size_code_64bit
  <2>5. ExtendedOK <=> ~ \/ get_basic_size(H) = 126 /\ Size <= 125
                         \/ get_basic_size(H) = 127 /\ Size <= 65535
                         \/ huge
    BY <2>3 DEF ExtendedOK, validate_incoming_extended_header, payload_size_code_16bit,
       payload_size_code_64bit, Size
  <2> DEFINE b == get_basic_size(H)
             v == basic_value(Size)
  <2>6. odd <=> b > 125 /\ v # b
    BY <2>3
  <2> HIDE DEF b, v
  <2>. QED
    <3>1. /\ b \in Nat /\ b <= 127 /\ Size \in Nat /\ (b = 126 => Size <= 65535)
          /\ v = IF Size <= 125 THEN Size ELSE IF Size <= 65535 THEN 126 ELSE 127
          /\ ExtendedOK <=> ~ ((b = 126 /\ Size <= 125) \/ (b = 127 /\ Size <= 65535) \/ huge)
      BY <2>2, <2>4, <2>5 DEF b, v
    <3> HIDE DEF odd, huge
    <3>. QED
      BY <2>6, <3>1
<1>8. Fits <=> ~ (~control /\ long)
  BY Zenon DEF Fits, ExceedsLimit
<1>9. HasWholeHeader => header
  BY DEF HasWholeHeader
<1> HIDE DEF rsv, header, op, control, unassigned, fin, masked, new, more, big, odd, huge, long
<1>. QED
  BY <1>2, <1>4, <1>5, <1>6, <1>8, <1>9

\* The text that is there of the frame.
Shown == IF start + HLen + Size <= Len(stream) THEN Size ELSE Len(stream) - (start + HLen)

LEMMA PayloadIs ==
  ASSUME CodeSizes, StreamInv, Starts, HasWholeHeader
  PROVE  Frames!Payload = Plain(Shown) /\ Shown \in Nat /\ Shown <= Size
         /\ (Frames!Whole <=> start + HLen + Size <= Len(stream))
<1>1. Frames!Whole <=> start + HLen + Size <= Len(stream)
  BY FrameIs DEF Frames!Whole
<1>2. /\ start \in Nat /\ HLen \in Nat /\ Size \in Nat /\ Len(stream) \in Nat
      /\ start + HLen <= Len(stream)
  <2>1. stream \in Seq(Nat)
    BY StreamIs
  <2>. QED
    BY <2>1, FrameTypes DEF Starts, HasWholeHeader
<1>3. Shown \in Nat /\ Shown <= Size
  BY <1>2 DEF Shown
<1> DEFINE end == IF Frames!Whole THEN Frames!FrameEnd ELSE Len(stream)
           bytes == SubSeq(stream, start + HLen + 1, end)
<1>4. end = start + HLen + Shown
  <2>1. Frames!FrameEnd = start + HLen + Size
    BY FrameIs
  <2>2. CASE Frames!Whole
    <3>1. end = Frames!FrameEnd
      BY <2>2, Zenon
    <3>2. Shown = Size
      BY <1>1, <2>2 DEF Shown
    <3> HIDE DEF end
    <3>. QED
      BY <2>1, <3>1, <3>2
  <2>3. CASE ~Frames!Whole
    <3>1. end = Len(stream)
      BY <2>3, Zenon
    <3>2. Shown = Len(stream) - (start + HLen)
      BY <1>1, <2>3 DEF Shown
    <3> HIDE DEF end
    <3>. QED
      BY <1>2, <3>1, <3>2
  <2>. QED
    BY <2>2, <2>3
<1>5. Frames!Payload = IF get_masked(H) THEN byte_mask(bytes, FrameKey) ELSE bytes
  <2>1. \A u, k : Frames!byte_mask(u, k) = byte_mask(u, k)
    BY SameOperators
  <2>. QED
    BY <2>1, FrameIs, Zenon DEF Frames!Payload
<1>. QED
  BY <1>1, <1>3, <1>4, <1>5 DEF Plain, Unmasked

LEMMA NotTextIs ==
  ASSUME CodeSizes, StreamInv, Starts, HasWholeHeader, BasicOK, ExtendedOK, Fits
  PROVE  LET state == advance(utf8_accept, Before \o Plain(Shown))
         IN  Frames!NotText <=> /\ Op = TEXT
                                /\ \/ state = utf8_reject
                                   \/ /\ start + HLen + Size <= Len(stream) /\ get_fin(H)
                                      /\ get_opcode(H) = TEXT /\ ~complete(state)
<1>1. HasBasic /\ ~Frames!Illegal
  BY IllegalIs DEF HasWholeHeader
<1>2. Frames!HasHeader
  BY FrameIs DEF Frames!HasHeader, Frames!HasBasicHeader, HasWholeHeader, HasBasic
<1>3. Frames!op = Op /\ Frames!Before = Before
  BY MessageIs
<1>4. Frames!Payload = Plain(Shown) /\ (Frames!Whole <=> start + HLen + Size <= Len(stream))
  BY PayloadIs
<1>5. /\ (Frames!get_fin(Frames!h) <=> get_fin(H)) /\ Frames!get_opcode(Frames!h) = get_opcode(H)
  BY FrameIs
<1>. QED
  BY <1>1, <1>2, <1>3, <1>4, <1>5, SameText, Zenon DEF Frames!NotText

-----------------------------------------------------------------------------
(***************************************************************************)
(* The invariant of the frames: what was taken of the frame that begins at *)
(* start, in each state of the reader.                                     *)
(***************************************************************************)
Cur == IF m_current_msg = "control" THEN m_control_msg ELSE m_data_msg

\* The message after n bytes of the frame's payload.
Received(msg, n) ==
  /\ msg \in Message /\ msg.op = Op /\ msg.payload = Before \o Plain(n)
  /\ get_masked(H) => Rotated(msg.key, FrameKey, n)
  /\ msg.validator # utf8_reject
  /\ Op = TEXT => msg.validator = advance(utf8_accept, msg.payload)

InBasic ==
  /\ m_state = "HEADER_BASIC" /\ m_bytes_needed \in {1, 2} /\ at = start + 2 - m_bytes_needed
  /\ m_bytes_needed = 1 => m_basic_header.b0 = stream[start + 1]
  /\ m_extended_header = <<>> /\ m_data_msg = kept /\ m_control_msg = NoMsg

InExtended ==
  /\ m_state = "HEADER_EXTENDED" /\ HasBasic /\ m_basic_header = H /\ BasicOK
  /\ m_bytes_needed <= HLen - 2 /\ at = start + HLen - m_bytes_needed
  /\ m_extended_header = SubSeq(stream, start + 3, at)
  /\ m_data_msg = kept /\ m_control_msg = NoMsg

InPayload(n) ==
  /\ m_state \in {"APPLICATION", "READY"} /\ HasWholeHeader /\ m_basic_header = H
  /\ BasicOK /\ ExtendedOK /\ Fits
  /\ n <= Size /\ m_bytes_needed = Size - n /\ at = start + HLen + n
  /\ IF is_control(get_opcode(H)) THEN m_current_msg = "control" /\ m_data_msg = kept
     ELSE m_current_msg = "data" /\ m_control_msg = NoMsg
  /\ Received(Cur, n)
  /\ m_state = "READY" => /\ m_bytes_needed = 0 /\ get_fin(H)
                          /\ get_opcode(H) = TEXT => complete(Cur.validator)

Begins ==
  /\ start >= HeadLen
  /\ Places(Length) = {} => IF delivered = <<>> /\ kept = NoMsg THEN start = HeadLen ELSE start > HeadLen

InFrame == InBasic \/ InExtended \/ \E n \in Nat : InPayload(n)

FrameInv ==
  /\ FrameTypeOK
  /\ start \in Nat /\ start <= at
  /\ kept = NoMsg \/ KeptOK
  /\ head # "open" => FrameInit /\ start = 0 /\ kept = NoMsg
  /\ head = "open" => Begins
  /\ ec # "none" => m_state # "READY"
  /\ head = "open" /\ ec = "none" => InFrame

\* The bytes that a turn of the loop takes.
LEMMA TakenIs ==
  ASSUME StreamInv, at >= HeadLen, m_bytes_needed \in Nat
  PROVE  /\ Len(Taken) \in Nat /\ Len(Taken) <= m_bytes_needed /\ at + Len(Taken) <= got
         /\ Len(Taken) = m_bytes_needed \/ at + Len(Taken) = got
         /\ Taken = SubSeq(stream, at + 1, at + Len(Taken))
         /\ IsPart(Taken, stream, at, Len(Taken))
         /\ Taken \in Seq(Byte)
<1>1. /\ at \in Nat /\ got \in Nat /\ at <= got /\ got <= Len(stream) /\ Len(stream) \in Nat
      /\ stream \in Seq(Nat) /\ HeadLen \in Nat
      /\ \A i \in HeadLen + 1 .. Len(stream) : stream[i] \in Byte
  <2>1. stream \in Seq(Nat) /\ HeadLen \in Nat
    BY StreamIs
  <2>2. at \in Nat /\ got \in Nat /\ at <= got /\ got <= Len(stream)
    BY DEF StreamInv
  <2>3. \A i \in HeadLen + 1 .. Len(stream) : stream[i] \in Byte
    BY StreamIs
  <2>4. Len(stream) \in Nat
    BY <2>1
  <2>. QED
    BY <2>1, <2>2, <2>3, <2>4
<1> DEFINE l == got - at
           m == IF m_bytes_needed < l THEN m_bytes_needed ELSE l
           u == SubSeq(stream, at + 1, got)
<1>2. l \in Nat /\ at + l = got /\ AreBytes(stream, at, l)
  BY <1>1 DEF AreBytes
<1>3. u \in Seq(Byte) /\ Len(u) = l /\ \A i \in 1 .. l : u[i] = stream[at + i]
  <2>1. IsPart(SubSeq(stream, at + 1, at + l), stream, at, l)
    <3> HIDE DEF l
    <3>. QED
      BY <1>1, <1>2, PartIs
  <2>. QED
    BY <1>2, <2>1, Zenon DEF IsPart
<1>4. m \in Nat /\ m <= l /\ m <= m_bytes_needed /\ (m = m_bytes_needed \/ m = l)
  BY <1>2
<1>5. Taken = SubSeq(u, 1, m)
  <2>1. Unused = u
    BY DEF Unused
  <2>2. Len(Unused) = l
    BY <1>3, <2>1
  <2> HIDE DEF u, l
  <2>. QED
    BY <2>1, <2>2, Zenon DEF Taken
<1> DEFINE t == SubSeq(stream, at + 1, at + m)
<1>6. t \in Seq(Byte) /\ Len(t) = m /\ \A i \in 1 .. m : t[i] = stream[at + i]
  <2>1. AreBytes(stream, at, m)
    BY <1>2, <1>4, <1>1 DEF AreBytes
  <2>2. IsPart(t, stream, at, m)
    <3> HIDE DEF m
    <3>. QED
      BY <1>1, <1>4, <2>1, PartIs
  <2>. QED
    BY <2>2, Zenon DEF IsPart
<1> HIDE DEF m, u, t, l
<1>7. /\ SubSeq(u, 1, m) \in Seq(Byte) /\ Len(SubSeq(u, 1, m)) = m
      /\ \A i \in 1 .. m : SubSeq(u, 1, m)[i] = u[i]
  <2>1. AreBytes(u, 0, m)
    BY <1>2, <1>3, <1>4 DEF AreBytes
  <2>2. IsPart(SubSeq(u, 0 + 1, 0 + m), u, 0, m)
    BY <1>4, <2>1, PartIs
  <2>3. 0 + m = m /\ \A i \in 1 .. m : 0 + i = i
    BY <1>4
  <2>. QED
    BY <2>2, <2>3 DEF IsPart
<1>8. SubSeq(u, 1, m) = t
  <2>1. \A i \in 1 .. m : i \in 1 .. l
    BY <1>2, <1>4
  <2>2. \A i \in 1 .. m : SubSeq(u, 1, m)[i] = t[i]
    BY <1>3, <1>6, <1>7, <2>1
  <2>. QED
    BY <1>6, <1>7, <2>2, SeqEqual
<1>9. Taken = t /\ Len(Taken) = m
  BY <1>5, <1>6, <1>8
<1>10. at + m <= got /\ (m = m_bytes_needed \/ at + m = got)
  BY <1>1, <1>2, <1>4
<1>11. IsPart(Taken, stream, at, m)
  BY <1>6, <1>9, Zenon DEF IsPart
<1>. QED
  BY <1>4, <1>6, <1>9, <1>10, <1>11, Zenon DEF t

\* What a step inside a frame leaves alone.
SameFrame == UNCHANGED <<script, stream, got, m_is_server, m_server, head, start, kept, delivered>>

LEMMA Staying ==
  ASSUME StreamInv, FrameInv, head = "open", SameFrame, at' \in Nat, at' >= at, at' <= got,
         FrameTypeOK', ec' # "none" => m_state' # "READY", ec' = "none" => InFrame'
  PROVE  /\ StreamInv' /\ FrameInv'
         /\ ec' = ec => UNCHANGED Frames!vars
<1>1. StreamInv'
  BY StreamKept DEF SameFrame, SamePeer
<1>2. start' = start /\ kept' = kept /\ delivered' = delivered /\ head' = head
      /\ script' = script /\ m_is_server' = m_is_server
  BY DEF SameFrame
<1>3. start' \in Nat /\ start' <= at'
  <2>1. start \in Nat /\ start <= at /\ at \in Nat
    BY DEF FrameInv, StreamInv
  <2>. QED
    BY <1>2, <2>1
<1>4. kept' = NoMsg \/ KeptOK'
  BY <1>2 DEF FrameInv, KeptOK
<1>5. Begins'
  <2>1. HeadLen' = HeadLen /\ Places(Length)' = Places(Length)
    BY <1>2 DEF HeadLen, Places, Length
  <2>. QED
    BY <1>2, <2>1 DEF FrameInv, Begins
<1>6. FrameInv'
  <2> HIDE DEF InFrame
  <2>. QED
    BY <1>2, <1>3, <1>4, <1>5 DEF FrameInv
<1>7. ec' = ec => UNCHANGED Frames!vars
  BY DEF Frames!vars, SameFrame
<1>. QED
  BY <1>1, <1>6, <1>7

LEMMA Failing ==
  ASSUME StreamInv, FrameInv, head = "open", SameFrame, at' \in Nat, at' >= at, at' <= got,
         FrameTypeOK', ec = "none", ec' # "none", m_state' # "READY", Frames!Illegal \/ Frames!NotText
  PROVE  StreamInv' /\ FrameInv' /\ Frames!Next
<1>1. StreamInv' /\ FrameInv'
  BY Staying
<1>2. Frames!Fail
  BY DEF Frames!Fail, SameFrame
<1>. QED
  BY <1>1, <1>2 DEF Frames!Next

LEMMA StartsHere ==
  ASSUME StreamInv, FrameInv, head = "open"
  PROVE  Starts /\ at >= HeadLen /\ at \in Nat /\ HeadLen \in Nat
         /\ Len(stream) \in Nat /\ got \in Nat /\ at <= got /\ got <= Len(stream)
<1>1. stream \in Seq(Nat) /\ HeadLen \in Nat
  BY StreamIs
<1>2. at \in Nat /\ got \in Nat /\ at <= got /\ got <= Len(stream)
  BY DEF StreamInv
<1>3. start \in Nat /\ start <= at /\ start >= HeadLen /\ (kept = NoMsg \/ KeptOK)
  BY DEF FrameInv, Begins
<1>. QED
  BY <1>1, <1>2, <1>3 DEF Starts

LEMMA BasicStep ==
  ASSUME CodeSizes, StreamInv, FrameInv, head = "open", ReadBasicHeader, MarkFrame,
         UNCHANGED <<headVars, script>>
  PROVE  StreamInv' /\ FrameInv' /\ [Frames!Next]_Frames!vars
<1> DEFINE m == Len(Taken)
           missing == m_bytes_needed - m
<1>1. /\ Starts /\ at >= HeadLen /\ at \in Nat /\ Len(stream) \in Nat /\ got \in Nat
      /\ at <= got /\ got <= Len(stream) /\ start \in Nat /\ HeadLen \in Nat
  BY StartsHere DEF Starts
<1>2. InBasic /\ ec = "none" /\ FrameTypeOK
  BY DEF ReadBasicHeader, Consuming, FrameInv, InFrame, InExtended, InPayload
<1>3. /\ m \in Nat /\ m <= m_bytes_needed /\ at + m <= got
      /\ m = m_bytes_needed \/ at + m = got
      /\ Taken \in Seq(Byte) /\ \A i \in 1 .. m : Taken[i] = stream[at + i]
  BY <1>1, <1>2, TakenIs DEF FrameTypeOK, IsPart
<1>4. /\ at' = at + m /\ UNCHANGED <<stream, got>> /\ m_basic_header' = copy_basic_header_bytes
      /\ UNCHANGED m_extended_header
      /\ at < got \/ m_bytes_needed = 0
  BY DEF ReadBasicHeader, Use, Consuming
<1>5. m_bytes_needed \in {1, 2} /\ at = start + 2 - m_bytes_needed
  BY <1>2 DEF InBasic
<1>6. m \in {1, 2} /\ (m = 2 => m_bytes_needed = 2)
  <2>1. at < got
    BY <1>4, <1>5
  <2> HIDE DEF m
  <2>. QED
    BY <1>1, <1>3, <1>5, <2>1
<1>7. Taken[1] = stream[at + 1] /\ (m = 2 => Taken[2] = stream[at + 2]) /\ Taken[1] \in Byte
      /\ (m = 2 => Taken[2] \in Byte)
  <2>1. 1 \in 1 .. m /\ (m = 2 => 2 \in 1 .. m)
    BY <1>6
  <2>. QED
    BY <1>3, <2>1
<1>8. m_basic_header \in BasicHeader
  BY <1>2 DEF FrameTypeOK
<1>9. /\ m_basic_header' \in BasicHeader
      /\ missing = 1 => m_bytes_needed = 2 /\ m = 1 /\ m_basic_header'.b0 = stream[start + 1]
      /\ missing = 0 => m_basic_header' = H /\ at' = start + 2
      /\ missing \in {0, 1}
  <2> HIDE DEF m
  <2>1. CASE m = 2
    <3>1. m_bytes_needed = 2 /\ at = start /\ missing = 0
      BY <1>1, <1>5, <1>6, <2>1
    <3>2. m_basic_header' = [b0 |-> Taken[1], b1 |-> Taken[2]]
      BY <1>4, <2>1 DEF copy_basic_header_bytes, m
    <3>3. m_basic_header' = H
      BY <1>7, <2>1, <3>1, <3>2 DEF H
    <3>. QED
      BY <1>4, <1>7, <2>1, <3>1, <3>2, <3>3 DEF BasicHeader
  <2>2. CASE m = 1 /\ m_bytes_needed = 2
    <3>1. at = start /\ missing = 1
      BY <1>1, <1>5, <2>2
    <3>2. m_basic_header' = [m_basic_header EXCEPT !.b0 = Taken[1]]
      BY <1>4, <2>2 DEF copy_basic_header_bytes, m
    <3>. QED
      BY <1>7, <1>8, <2>2, <3>1, <3>2 DEF BasicHeader
  <2>3. CASE m = 1 /\ m_bytes_needed = 1
    <3>1. at = start + 1 /\ missing = 0
      BY <1>1, <1>5, <2>3
    <3>2. m_basic_header' = [m_basic_header EXCEPT !.b1 = Taken[1]]
      BY <1>4, <2>3 DEF copy_basic_header_bytes, m
    <3>3. m_basic_header.b0 = stream[start + 1]
      BY <1>2, <2>3 DEF InBasic
    <3>4. at + 1 = start + 2
      BY <1>1, <3>1
    <3>5. Taken[1] = stream[start + 2]
      BY <1>7, <3>4
    <3>6. m_basic_header' = H
      BY <1>8, <3>2, <3>3, <3>5 DEF BasicHeader, H
    <3>7. m_basic_header' \in BasicHeader
      BY <1>7, <1>8, <3>2 DEF BasicHeader
    <3>. QED
      BY <1>4, <2>3, <3>1, <3>4, <3>6, <3>7
  <2>. QED
    BY <1>5, <1>6, <2>1, <2>2, <2>3
<1> HIDE DEF m, missing
<1>10. at' \in Nat /\ at' >= at /\ at' <= got
  BY <1>1, <1>3, <1>4
<1> DEFINE error == validate_incoming_basic_header(m_basic_header', m_server, m_data_msg = NoMsg)
           same == UNCHANGED <<m_server, m_data_msg, m_control_msg, m_current_msg, delivered>>
<1>11. same /\ \/ missing > 0 /\ m_bytes_needed' = missing /\ UNCHANGED <<m_state, ec>>
               \/ missing = 0 /\ error # "none" /\ ec' = error /\ UNCHANGED m_state /\ m_bytes_needed' = 0
               \/ /\ missing = 0 /\ error = "none" /\ m_state' = "HEADER_EXTENDED" /\ UNCHANGED ec
                  /\ m_bytes_needed' = get_header_len(m_basic_header') - BASIC_HEADER_LENGTH
  BY DEF ReadBasicHeader, Reject, missing, m
<1>12. error \in Errors \union {"none"}
  BY DEF validate_incoming_basic_header, Errors
<1>13. error = "none" => BasicOK \/ missing # 0
  BY <1>2, <1>9 DEF BasicOK, InBasic
<1>14. missing = 0 /\ error # "none" => ~BasicOK
  BY <1>2, <1>9 DEF BasicOK, InBasic
<1>15. SameFrame
  <2>1. start' = start /\ kept' = kept
    BY <1>2 DEF MarkFrame, InBasic
  <2>. QED
    BY <1>4, <1>11, <2>1 DEF SameFrame, headVars
<1> HIDE DEF error
<1>16. CASE missing > 0 /\ m_bytes_needed' = missing /\ UNCHANGED <<m_state, ec>>
  <2>1. missing = 1
    BY <1>9, <1>16
  <2>2. FrameTypeOK'
    BY <1>2, <1>4, <1>9, <1>11, <1>16, <2>1 DEF FrameTypeOK
  <2>3. InBasic'
    <3>1. at' = start + 2 - 1
      BY <1>1, <1>4, <1>5, <1>9, <2>1
    <3>2. start' = start /\ stream' = stream /\ kept' = kept
      BY <1>15 DEF SameFrame
    <3>. QED
      BY <1>2, <1>4, <1>9, <1>11, <1>16, <2>1, <3>1, <3>2 DEF InBasic
  <2>4. InFrame' /\ ec' = "none"
    BY <1>2, <1>16, <2>3 DEF InFrame
  <2>. QED
    BY <1>2, <1>10, <1>15, <1>16, <2>2, <2>4, Staying
<1>17. CASE missing = 0 /\ error # "none" /\ ec' = error /\ UNCHANGED m_state /\ m_bytes_needed' = 0
  <2>1. FrameTypeOK'
    BY <1>2, <1>4, <1>9, <1>11, <1>12, <1>17 DEF FrameTypeOK
  <2>2. Frames!Illegal
    <3>1. HasBasic
      BY <1>1, <1>9, <1>10, <1>17 DEF HasBasic
    <3>. QED
      BY <1>1, <1>14, <1>17, <3>1, IllegalIs
  <2>3. m_state' # "READY" /\ ec' # "none"
    BY <1>2, <1>17 DEF InBasic
  <2>. QED
    BY <1>2, <1>10, <1>15, <2>1, <2>2, <2>3, Failing
<1>18. CASE /\ missing = 0 /\ error = "none" /\ m_state' = "HEADER_EXTENDED" /\ UNCHANGED ec
            /\ m_bytes_needed' = get_header_len(m_basic_header') - BASIC_HEADER_LENGTH
  <2>1. HasBasic /\ at' = start + 2 /\ m_basic_header' = H /\ BasicOK
    BY <1>1, <1>9, <1>10, <1>13, <1>18 DEF HasBasic
  <2>2. HLen \in Nat /\ HLen >= 2
    BY <1>1, <2>1, FrameTypes
  <2>3. m_bytes_needed' = HLen - 2 /\ HLen - 2 \in Nat
    BY <1>18, <2>1, <2>2 DEF HLen, BASIC_HEADER_LENGTH
  <2>4. FrameTypeOK'
    BY <1>2, <1>4, <1>9, <1>11, <1>18, <2>3 DEF FrameTypeOK
  <2>5. InExtended'
    <3>1. start' = start /\ stream' = stream /\ kept' = kept /\ m_server' = m_server
      BY <1>15 DEF SameFrame
    <3>2. H' = H /\ HLen' = HLen /\ BasicOK' = BasicOK /\ HasBasic' = HasBasic
      BY <3>1, FrameKept DEF HasBasic
    <3>3. SubSeq(stream, start + 3, start + 2) = <<>>
      BY <1>1, SubSeqEmpty
    <3>4. m_extended_header' = SubSeq(stream', start' + 3, at')
      BY <1>2, <1>4, <2>1, <3>1, <3>3 DEF InBasic
    <3>5. at' = start' + HLen' - m_bytes_needed' /\ m_bytes_needed' <= HLen' - 2
      BY <1>1, <2>1, <2>2, <2>3, <3>1, <3>2
    <3>6. m_data_msg' = kept' /\ m_control_msg' = NoMsg
      BY <1>2, <1>11, <3>1 DEF InBasic
    <3>. QED
      BY <1>18, <2>1, <3>2, <3>4, <3>5, <3>6 DEF InExtended
  <2>6. InFrame' /\ ec' = "none"
    BY <1>2, <1>18, <2>5 DEF InFrame
  <2>. QED
    BY <1>2, <1>10, <1>15, <1>18, <2>4, <2>6, Staying
<1>. QED
  BY <1>11, <1>16, <1>17, <1>18

LEMMA PartsJoin ==
  ASSUME NEW s, NEW a \in Nat, NEW n \in Nat, NEW l \in Nat, AreBytes(s, a, n + l)
  PROVE  SubSeq(s, a + 1, a + n) \o SubSeq(s, a + n + 1, a + n + l) = SubSeq(s, a + 1, a + n + l)
<1> DEFINE u == SubSeq(s, a + 1, a + n)
           v == SubSeq(s, a + n + 1, a + n + l)
           w == SubSeq(s, a + 1, a + n + l)
<1>1. IsPart(u, s, a, n)
  <2>1. AreBytes(s, a, n)
    BY DEF AreBytes
  <2>. QED
    BY <2>1, PartIs
<1>2. IsPart(v, s, a + n, l)
  <2>1. AreBytes(s, a + n, l) /\ a + n \in Nat
    BY DEF AreBytes
  <2>. QED
    BY <2>1, PartIs
<1>3. IsPart(w, s, a, n + l)
  <2>1. a + n + l = a + (n + l) /\ n + l \in Nat
    OBVIOUS
  <2>. QED
    BY <2>1, PartIs
<1> HIDE DEF u, v, w
<1>4. IsJoin(u \o v, u, v, n, l)
  BY <1>1, <1>2, JoinIs DEF IsPart
<1>5. \A i \in 1 .. n + l : (u \o v)[i] = w[i]
  <2>1. ASSUME NEW i \in 1 .. n PROVE (u \o v)[i] = w[i]
    <3>1. i \in 1 .. n + l
      OBVIOUS
    <3>. QED
      BY <1>1, <1>3, <1>4, <3>1 DEF IsPart, IsJoin
  <2>2. ASSUME NEW i \in 1 .. n + l, i > n PROVE (u \o v)[i] = w[i]
    <3>1. i - n \in 1 .. l /\ n + (i - n) = i /\ (a + n) + (i - n) = a + i
      BY <2>2
    <3>2. (u \o v)[n + (i - n)] = v[i - n]
      BY <1>4, <3>1 DEF IsJoin
    <3>3. v[i - n] = s[(a + n) + (i - n)]
      BY <1>2, <3>1 DEF IsPart
    <3>4. w[i] = s[a + i]
      BY <1>3 DEF IsPart
    <3>. QED
      BY <3>1, <3>2, <3>3, <3>4
  <2>3. \A i \in 1 .. n + l : i \in 1 .. n \/ i > n
    OBVIOUS
  <2>. QED
    BY <2>1, <2>2, <2>3, Zenon
<1>6. u \o v = w
  <2>1. u \o v \in Seq(Byte) /\ Len(u \o v) = n + l
    BY <1>4 DEF IsJoin
  <2>2. w \in Seq(Byte) /\ Len(w) = n + l
    BY <1>3 DEF IsPart
  <2>. QED
    BY <1>5, <2>1, <2>2, SeqEqual
<1>. QED
  BY <1>6 DEF u, v, w

\* The bytes of a frame.
LEMMA FrameBytes ==
  ASSUME CodeSizes, StreamInv, Starts, NEW a \in Nat, NEW n \in Nat, a >= start, a + n <= Len(stream)
  PROVE  AreBytes(stream, a, n)
<1>1. /\ start \in Nat /\ start >= HeadLen /\ HeadLen \in Nat /\ Len(stream) \in Nat
      /\ \A i \in HeadLen + 1 .. Len(stream) : stream[i] \in Byte
  <2>1. stream \in Seq(Nat)
    BY StreamIs
  <2>. QED
    BY <2>1, StreamIs DEF Starts
<1>. QED
  BY <1>1 DEF AreBytes

LEMMA PlainIs ==
  ASSUME CodeSizes, StreamInv, Starts, HasWholeHeader, NEW n \in Nat, start + HLen + n <= Len(stream)
  PROVE  Plain(n) \in Seq(Byte) /\ Len(Plain(n)) = n /\ start + HLen \in Nat
<1>1. /\ start \in Nat /\ HLen \in Nat /\ start + HLen \in Nat /\ start + HLen >= start
      /\ FrameKey \in Seq(Byte) /\ Len(FrameKey) = 4
  <2>1. start \in Nat /\ HLen \in Nat /\ FrameKey \in Seq(Byte) /\ Len(FrameKey) = 4
    BY FrameTypes DEF Starts, HasWholeHeader
  <2>. QED
    BY <2>1
<1>2. AreBytes(stream, start + HLen, n)
  BY <1>1, FrameBytes
<1>3. Means(Plain(n), stream, start + HLen, n, get_masked(H), FrameKey)
  BY <1>1, <1>2, UnmaskedIs DEF Plain
<1>. QED
  BY <1>1, <1>3, Zenon DEF Means

LEMMA BeforeIs ==
  ASSUME CodeSizes, StreamInv, Starts, HasBasic
  PROVE  /\ Before \in Seq(Byte) /\ Op \in Opcode
         /\ is_control(Op) <=> is_control(get_opcode(H))
<1>1. H \in BasicHeader
  BY FrameTypes
<1>2. get_opcode(H) \in Opcode
  BY <1>1, HeaderIs
<1>3. CASE Alone
  <2>1. Before = <<>> /\ Op = get_opcode(H)
    BY <1>3 DEF Before, Op
  <2>. QED
    BY <1>2, <2>1
<1>4. CASE ~Alone
  <2>1. Before = kept.payload /\ Op = kept.op /\ kept # NoMsg /\ ~is_control(get_opcode(H))
    BY <1>4 DEF Before, Op, Alone
  <2>2. kept \in Message /\ ~is_control(kept.op)
    BY <2>1 DEF Starts, KeptOK
  <2>3. kept.payload \in Seq(Byte) /\ kept.op \in Opcode
    BY <2>2 DEF Message
  <2>. QED
    BY <2>1, <2>2, <2>3
<1>. QED
  BY <1>3, <1>4

\* What a frame finds when its header is complete.
LEMMA StartIs ==
  ASSUME CodeSizes, StreamInv, Starts, HasWholeHeader, NEW msg,
         ~is_control(get_opcode(H)) => msg = kept
  PROVE  Received(StartOrContinue(msg, H, E), 0)
<1> DEFINE key == prepare_masking_key(FrameKey)
           new == StartOrContinue(msg, H, E)
<1>1. FrameKey \in Seq(Byte) /\ Len(FrameKey) = 4
  BY FrameTypes
<1>2. Rotated(key, FrameKey, 0)
  BY <1>1, RotatedFirst
<1>3. key \in Seq(Byte)
  BY <1>2 DEF Rotated
<1>4. Plain(0) = <<>>
  <2>1. start + HLen + 0 <= Len(stream)
    <3>1. start \in Nat /\ HLen \in Nat /\ start + HLen <= Len(stream)
      BY FrameTypes DEF Starts, HasWholeHeader
    <3>. QED
      BY <3>1
  <2>2. Plain(0) \in Seq(Byte) /\ Len(Plain(0)) = 0
    BY <2>1, PlainIs
  <2>. QED
    BY <2>2, EmptySeq
<1>5. Before \in Seq(Byte) /\ Op \in Opcode
  BY BeforeIs DEF HasWholeHeader
<1>6. Before \o Plain(0) = Before
  BY <1>4, <1>5
<1> HIDE DEF key
<1>7. CASE Alone
  <2>1. new = [op |-> get_opcode(H), payload |-> <<>>, key |-> key, validator |-> utf8_accept]
    BY <1>7, Zenon DEF StartOrContinue, Alone, FrameKey, key
  <2>2. Op = get_opcode(H) /\ Before = <<>>
    BY <1>7 DEF Op, Before
  <2>3. advance(utf8_accept, <<>>) = utf8_accept
    BY AdvanceNothing
  <2>4. new \in Message
    BY <1>3, <1>5, <2>1, <2>2 DEF Message, utf8_accept
  <2>. QED
    BY <1>2, <1>6, <2>1, <2>2, <2>3, <2>4 DEF Received, utf8_accept, utf8_reject
<1>8. CASE ~Alone
  <2>1. kept # NoMsg /\ msg = kept /\ KeptOK
    BY <1>8 DEF Alone, Starts
  <2>2. new = [kept EXCEPT !.key = key]
    BY <1>8, <2>1, Zenon DEF StartOrContinue, Alone, FrameKey, key
  <2>3. Op = kept.op /\ Before = kept.payload
    BY <1>8 DEF Op, Before
  <2>4. kept \in Message /\ kept.validator # utf8_reject
        /\ (kept.op = TEXT => kept.validator = advance(utf8_accept, kept.payload))
    BY <2>1 DEF KeptOK
  <2>5. /\ new \in Message /\ new.op = kept.op /\ new.payload = kept.payload /\ new.key = key
        /\ new.validator = kept.validator
    BY <1>3, <2>2, <2>4 DEF Message
  <2> HIDE DEF new
  <2>6. Received(new, 0)
    BY <1>2, <1>6, <2>3, <2>4, <2>5 DEF Received
  <2>. QED
    BY <2>6 DEF new
<1>. QED
  BY <1>7, <1>8

LEMMA ExtendedStep ==
  ASSUME CodeSizes, StreamInv, FrameInv, head = "open", ReadExtendedHeader, MarkFrame,
         UNCHANGED <<headVars, script>>
  PROVE  StreamInv' /\ FrameInv' /\ [Frames!Next]_Frames!vars
<1> DEFINE m == Len(Taken)
           missing == m_bytes_needed - m
<1>1. /\ Starts /\ at >= HeadLen /\ at \in Nat /\ Len(stream) \in Nat /\ got \in Nat
      /\ at <= got /\ got <= Len(stream) /\ start \in Nat
  BY StartsHere DEF Starts
<1>2. InExtended /\ ec = "none" /\ FrameTypeOK
  BY DEF ReadExtendedHeader, Consuming, FrameInv, InFrame, InBasic, InPayload
<1>3. HasBasic /\ m_basic_header = H /\ BasicOK /\ m_bytes_needed \in Nat
      /\ m_bytes_needed <= HLen - 2 /\ at = start + HLen - m_bytes_needed
      /\ m_extended_header = SubSeq(stream, start + 3, at)
      /\ m_data_msg = kept /\ m_control_msg = NoMsg
  BY <1>2 DEF InExtended, FrameTypeOK
<1>4. HLen \in Nat /\ HLen >= 2 /\ H \in BasicHeader
  BY <1>1, <1>3, FrameTypes
<1>5. /\ m \in Nat /\ m <= m_bytes_needed /\ at + m <= got
      /\ Taken = SubSeq(stream, at + 1, at + m) /\ Taken \in Seq(Byte)
  BY <1>1, <1>3, TakenIs
<1>6. /\ at' = at + m /\ UNCHANGED <<stream, got, m_basic_header>>
      /\ m_extended_header' = m_extended_header \o Taken
  BY DEF ReadExtendedHeader, Use
<1>7. at' \in Nat /\ at' >= at /\ at' <= got
  BY <1>1, <1>5, <1>6
<1> HIDE DEF m, missing
<1>8. missing \in Nat /\ missing <= m_bytes_needed /\ at' = start + HLen - missing
  BY <1>1, <1>3, <1>4, <1>5, <1>6 DEF missing
<1>9. m_extended_header' = SubSeq(stream, start + 3, at') /\ m_extended_header' \in Seq(Byte)
  <2> DEFINE a == start + 2
             n == HLen - 2 - m_bytes_needed
  <2>1. /\ a \in Nat /\ n \in Nat /\ a >= start /\ a + 1 = start + 3 /\ a + n = at
        /\ a + (n + m) <= Len(stream) /\ n + m \in Nat /\ a + n + m = at + m
    BY <1>1, <1>3, <1>4, <1>5
  <2> HIDE DEF a, n
  <2>2. AreBytes(stream, a, n + m)
    BY <1>1, <2>1, FrameBytes
  <2>3. SubSeq(stream, a + 1, a + n) \o SubSeq(stream, a + n + 1, a + n + m) = SubSeq(stream, a + 1, a + n + m)
    <3>1. a \in Nat /\ n \in Nat /\ m \in Nat
      BY <1>5, <2>1
    <3>. QED
      BY <2>2, <3>1, PartsJoin
  <2>4. m_extended_header' = SubSeq(stream, start + 3, at')
    BY <1>3, <1>5, <1>6, <2>1, <2>3
  <2>5. m_extended_header \in Seq(Byte)
    BY <1>2 DEF FrameTypeOK
  <2>6. m_extended_header \o Taken \in Seq(Byte)
    BY <1>5, <2>5, JoinIs DEF IsJoin
  <2>. QED
    BY <1>6, <2>4, <2>6, Zenon
<1> DEFINE error == validate_incoming_extended_header(m_basic_header, m_extended_header')
           size == get_payload_size(m_basic_header, m_extended_header')
           over == ExceedsLimit(m_basic_header, size, m_data_msg)
           control == is_control(get_opcode(m_basic_header))
<1>10. UNCHANGED <<m_server, delivered>>
       /\ IF m < m_bytes_needed
          THEN /\ m_bytes_needed' = missing
               /\ UNCHANGED <<m_state, m_data_msg, m_control_msg, m_current_msg, ec>>
          ELSE IF error # "none"
          THEN /\ ec' = error /\ m_bytes_needed' = 0
               /\ UNCHANGED <<m_state, m_data_msg, m_control_msg, m_current_msg>>
          ELSE /\ m_bytes_needed' = size /\ m_state' = "APPLICATION"
               /\ \/ /\ over /\ ec' = "message_too_big"
                     /\ UNCHANGED <<m_data_msg, m_control_msg, m_current_msg>>
                  \/ /\ control
                     /\ m_control_msg' = StartOrContinue(m_control_msg, m_basic_header, m_extended_header')
                     /\ m_current_msg' = "control"
                     /\ UNCHANGED <<m_data_msg, ec>>
                  \/ /\ ~control /\ ~over
                     /\ m_data_msg' = StartOrContinue(m_data_msg, m_basic_header, m_extended_header')
                     /\ m_current_msg' = "data"
                     /\ UNCHANGED <<m_control_msg, ec>>
  BY DEF ReadExtendedHeader, Reject, missing, m
<1>11. SameFrame
  <2>1. start' = start /\ kept' = kept
    <3>1. m_state' # "HEADER_BASIC"
      BY <1>2, <1>10 DEF InExtended
    <3>. QED
      BY <3>1 DEF MarkFrame
  <2>. QED
    BY <1>6, <1>10, <2>1 DEF SameFrame, headVars
<1>12. start' = start /\ stream' = stream /\ kept' = kept /\ m_server' = m_server
  BY <1>11 DEF SameFrame
<1>13. /\ H' = H /\ HLen' = HLen /\ E' = E /\ Size' = Size /\ FrameKey' = FrameKey
       /\ Op' = Op /\ Before' = Before
       /\ BasicOK' = BasicOK /\ ExtendedOK' = ExtendedOK /\ Fits' = Fits
       /\ HasBasic' = HasBasic /\ HasWholeHeader' = HasWholeHeader /\ Plain(0)' = Plain(0)
  BY <1>12, FrameKept DEF HasBasic, HasWholeHeader
<1>14. CASE m < m_bytes_needed
  <2>1. m_bytes_needed' = missing /\ UNCHANGED <<m_state, m_data_msg, m_control_msg, m_current_msg, ec>>
    BY <1>10, <1>14
  <2>2. FrameTypeOK'
    BY <1>2, <1>6, <1>8, <1>9, <1>10, <2>1 DEF FrameTypeOK
  <2>3. InExtended'
    <3>1. m_bytes_needed' <= HLen' - 2
      BY <1>3, <1>4, <1>8, <1>13, <2>1
    <3>2. at' = start' + HLen' - m_bytes_needed'
      BY <1>8, <1>12, <1>13, <2>1
    <3>3. m_state' = "HEADER_EXTENDED"
      BY <1>2, <2>1 DEF InExtended
    <3>. QED
      BY <1>3, <1>6, <1>9, <1>12, <1>13, <2>1, <3>1, <3>2, <3>3 DEF InExtended
  <2>4. InFrame' /\ ec' = "none"
    BY <1>2, <2>1, <2>3 DEF InFrame
  <2>. QED
    BY <1>2, <1>7, <1>11, <2>1, <2>2, <2>4, Staying
<1>15. CASE ~(m < m_bytes_needed)
  <2>1. m = m_bytes_needed /\ at' = start + HLen
    BY <1>1, <1>3, <1>4, <1>5, <1>6, <1>15
  <2>2. HasWholeHeader
    BY <1>1, <1>3, <1>7, <2>1 DEF HasWholeHeader
  <2>3. m_extended_header' = E
    BY <1>9, <2>1 DEF E
  <2>4. error = "none" <=> ExtendedOK
    BY <1>3, <2>3 DEF ExtendedOK
  <2>5. size = Size /\ Size \in Nat
    BY <1>1, <1>3, <2>2, <2>3, FrameTypes DEF Size
  <2>6. over <=> ~Fits
    <3> HIDE DEF size
    <3>. QED
      BY <1>3, <2>5 DEF Fits
  <2>7. control <=> is_control(get_opcode(H))
    BY <1>3
  <2>8. error \in {"none", "non_minimal_encoding", "requires_64bit"}
    BY DEF validate_incoming_extended_header
  <2> HIDE DEF error, size, over, control
  <2>9. CASE error # "none"
    <3>1. ec' \in {"non_minimal_encoding", "requires_64bit"} /\ m_bytes_needed' = 0
          /\ UNCHANGED <<m_state, m_data_msg, m_control_msg, m_current_msg>>
      BY <1>10, <1>15, <2>8, <2>9
    <3>2. FrameTypeOK'
      <4>1. "non_minimal_encoding" \in Errors /\ "requires_64bit" \in Errors
        BY DEF Errors
      <4>. QED
        BY <1>2, <1>6, <1>9, <1>10, <3>1, <4>1 DEF FrameTypeOK
    <3>3. Frames!Illegal
      BY <1>1, <1>3, <2>2, <2>4, <2>9, IllegalIs
    <3>4. m_state' # "READY"
      BY <1>2, <3>1 DEF InExtended
    <3>. QED
      BY <1>2, <1>7, <1>11, <3>1, <3>2, <3>3, <3>4, Failing
  <2>10. CASE error = "none" /\ over /\ ec' = "message_too_big"
              /\ UNCHANGED <<m_data_msg, m_control_msg, m_current_msg>>
    <3>1. m_bytes_needed' = Size /\ m_state' = "APPLICATION"
      BY <1>10, <1>15, <2>5, <2>10
    <3>2. FrameTypeOK'
      <4>1. "message_too_big" \in Errors
        BY DEF Errors
      <4>. QED
        BY <1>2, <1>6, <1>9, <1>10, <2>5, <2>10, <3>1, <4>1 DEF FrameTypeOK
    <3>3. Frames!Illegal
      BY <1>1, <1>3, <2>2, <2>6, <2>10, IllegalIs
    <3>. QED
      BY <1>2, <1>7, <1>11, <2>10, <3>1, <3>2, <3>3, Failing
  <2>11. ASSUME error = "none", ~over, ec' = ec,
                IF is_control(get_opcode(H))
                THEN /\ m_control_msg' = StartOrContinue(m_control_msg, H, E) /\ m_current_msg' = "control"
                     /\ UNCHANGED m_data_msg
                ELSE /\ m_data_msg' = StartOrContinue(m_data_msg, H, E) /\ m_current_msg' = "data"
                     /\ UNCHANGED m_control_msg
         PROVE  StreamInv' /\ FrameInv' /\ [Frames!Next]_Frames!vars
    <3>1. m_bytes_needed' = Size /\ m_state' = "APPLICATION"
      BY <1>10, <1>15, <2>5, <2>11, Zenon
    <3>2. Cur' = StartOrContinue(IF is_control(get_opcode(H)) THEN m_control_msg ELSE m_data_msg, H, E)
      BY <2>11 DEF Cur
    <3>3. Received(Cur', 0)
      BY <1>1, <1>3, <2>2, <3>2, StartIs
    <3>4. Received(Cur, 0)'
      BY <1>13, <3>3 DEF Received
    <3>5. Cur' \in Message
      BY <3>3 DEF Received
    <3>6. FrameTypeOK'
      <4>1. m_data_msg' \in Message \union {NoMsg} /\ m_control_msg' \in Message \union {NoMsg}
            /\ m_current_msg' \in {"none", "data", "control"}
        BY <1>2, <2>11, <3>5 DEF FrameTypeOK, Cur
      <4>. QED
        BY <1>2, <1>6, <1>9, <1>10, <2>5, <2>11, <3>1, <4>1 DEF FrameTypeOK
    <3>7. InPayload(0)'
      <4>1. 0 <= Size' /\ m_bytes_needed' = Size' - 0 /\ at' = start' + HLen' + 0
        BY <1>1, <1>4, <1>12, <1>13, <2>1, <2>5, <3>1
      <4>2. ExtendedOK /\ Fits
        BY <2>4, <2>6, <2>11
      <4>3. IF is_control(get_opcode(H')) THEN m_current_msg' = "control" /\ m_data_msg' = kept'
            ELSE m_current_msg' = "data" /\ m_control_msg' = NoMsg
        BY <1>3, <1>12, <1>13, <2>11
      <4>. QED
        BY <1>3, <1>6, <1>13, <2>2, <3>1, <3>4, <4>1, <4>2, <4>3 DEF InPayload
    <3>8. InFrame' /\ ec' = "none"
      BY <1>2, <2>11, <3>7 DEF InFrame
    <3>9. m_state' # "READY"
      BY <3>1
    <3>. QED
      BY <1>2, <1>7, <1>11, <2>11, <3>6, <3>8, <3>9, Staying
  <2>12. CASE error = "none" /\ control /\ ~over
              /\ m_control_msg' = StartOrContinue(m_control_msg, m_basic_header, m_extended_header')
              /\ m_current_msg' = "control" /\ UNCHANGED <<m_data_msg, ec>>
    BY <1>3, <2>3, <2>7, <2>11, <2>12
  <2>13. CASE error = "none" /\ ~control /\ ~over
              /\ m_data_msg' = StartOrContinue(m_data_msg, m_basic_header, m_extended_header')
              /\ m_current_msg' = "data" /\ UNCHANGED <<m_control_msg, ec>>
    BY <1>3, <2>3, <2>7, <2>11, <2>13
  <2>14. control => ~over
    BY DEF control, over, ExceedsLimit
  <2>. QED
    BY <1>10, <1>15, <2>9, <2>10, <2>12, <2>13, <2>14
<1>. QED
  BY <1>14, <1>15

\* The message after the next l bytes of the payload, accepted or not.
Grown(new, n) ==
  /\ new \in Message /\ new.op = Op /\ new.payload = Before \o Plain(n)
  /\ get_masked(H) => Rotated(new.key, FrameKey, n)
  /\ Op = TEXT => new.validator = advance(utf8_accept, new.payload)
  /\ Op # TEXT => new.validator # utf8_reject

LEMMA ReceivedMore ==
  ASSUME CodeSizes, StreamInv, Starts, HasWholeHeader, m_basic_header = H,
         NEW msg, NEW n \in Nat, NEW l \in Nat, Received(msg, n),
         start + HLen + n + l <= Len(stream),
         Taken = SubSeq(stream, start + HLen + n + 1, start + HLen + n + l)
  PROVE  Grown(process_payload_bytes(msg), n + l)
<1> DEFINE a == start + HLen
           masked == get_masked(H)
           plain == IF masked THEN byte_mask(Taken, SubSeq(msg.key, 1, 4)) ELSE Taken
           new == process_payload_bytes(msg)
<1>1. /\ start \in Nat /\ HLen \in Nat /\ Len(stream) \in Nat /\ a \in Nat /\ a >= start
      /\ FrameKey \in Seq(Byte) /\ Len(FrameKey) = 4
  <2>1. start \in Nat /\ HLen \in Nat /\ FrameKey \in Seq(Byte) /\ Len(FrameKey) = 4
    BY FrameTypes DEF Starts, HasWholeHeader
  <2>2. stream \in Seq(Nat)
    BY StreamIs
  <2>. QED
    BY <2>1, <2>2
<1>2. /\ msg \in Message /\ msg.op = Op /\ msg.payload = Before \o Plain(n)
      /\ masked => Rotated(msg.key, FrameKey, n)
      /\ msg.validator # utf8_reject
      /\ Op = TEXT => msg.validator = advance(utf8_accept, msg.payload)
  BY DEF Received
<1>3. AreBytes(stream, a, n + l) /\ AreBytes(stream, a + n, l) /\ a + n \in Nat /\ n + l \in Nat
      /\ a + (n + l) <= Len(stream) /\ a + n <= Len(stream) /\ a + n + l = a + (n + l)
  <2>1. a + n \in Nat /\ n + l \in Nat /\ a + n >= start
        /\ a + (n + l) <= Len(stream) /\ a + n <= Len(stream) /\ a + n + l = a + (n + l)
    BY <1>1
  <2> HIDE DEF a
  <2>. QED
    BY <1>1, <2>1, FrameBytes
<1>4. Taken \in Seq(Byte) /\ Len(Taken) = l
  <2>1. IsPart(SubSeq(stream, a + n + 1, a + n + l), stream, a + n, l)
    <3> HIDE DEF a
    <3>. QED
      BY <1>3, PartIs
  <2>. QED
    BY <2>1 DEF IsPart
<1>5. plain \in Seq(Byte) /\ Len(plain) = l /\ Plain(n + l) = Plain(n) \o plain
  <2>1. plain = Taking(stream, a, n, l, masked, msg.key)
    BY Zenon DEF Taking
  <2> HIDE DEF a, masked, plain
  <2>2. Grows(plain, stream, a, n, l, masked, FrameKey)
    BY <1>1, <1>2, <1>3, <2>1, UnmaskedGrows
  <2>3. /\ plain \in Seq(Byte) /\ Len(plain) = l
        /\ Unmasked(stream, a, n + l, masked, FrameKey) = Unmasked(stream, a, n, masked, FrameKey) \o plain
    BY <2>2, Zenon DEF Grows
  <2>. QED
    BY <2>3 DEF Plain, a, masked
<1>6. Before \in Seq(Byte) /\ Op \in Opcode
  BY BeforeIs DEF HasWholeHeader
<1>7. Plain(n) \in Seq(Byte)
  BY <1>3, PlainIs DEF a
<1>8. (Before \o Plain(n)) \o plain = Before \o Plain(n + l) /\ Before \o Plain(n) \in Seq(Byte)
      /\ Before \o Plain(n + l) \in Seq(Byte)
  <2> HIDE DEF plain
  <2>1. (Before \o Plain(n)) \o plain = Before \o (Plain(n) \o plain)
    BY <1>5, <1>6, <1>7, ConcatAssociative
  <2>2. Plain(n) \o plain \in Seq(Byte) /\ Before \o Plain(n) \in Seq(Byte)
    BY <1>5, <1>6, <1>7, ConcatProperties
  <2>3. Before \o Plain(n + l) \in Seq(Byte)
    BY <1>5, <1>6, <2>2, ConcatProperties
  <2>. QED
    BY <1>5, <2>1, <2>2, <2>3
<1> DEFINE key == IF masked THEN circshift_prepared_key(msg.key, l % 4) ELSE msg.key
           validator == IF msg.op = TEXT THEN advance(msg.validator, plain) ELSE msg.validator
<1>9. new = [op |-> msg.op, payload |-> msg.payload \o plain, key |-> key, validator |-> validator]
  BY <1>4 DEF process_payload_bytes, byte_mask_circ
<1>10. /\ key \in Seq(Byte)
       /\ masked => Rotated(key, FrameKey, n + l)
  <2>1. CASE masked
    <3>1. Rotated(circshift_prepared_key(msg.key, l % 4), FrameKey, n + l)
      BY <1>1, <1>2, <2>1, RotatedOn
    <3>. QED
      BY <2>1, <3>1 DEF Rotated
  <2>2. CASE ~masked
    BY <1>2, <2>2 DEF Message
  <2>. QED
    BY <2>1, <2>2
<1>11. validator \in 0 .. 8 /\ (Op = TEXT => validator = advance(utf8_accept, Before \o Plain(n + l)))
       /\ (Op # TEXT => validator # utf8_reject)
  <2>1. msg.validator \in 0 .. 8
    BY <1>2 DEF Message
  <2> HIDE DEF plain
  <2>2. CASE Op = TEXT
    <3>1. validator = advance(msg.validator, plain)
      BY <1>2, <2>2
    <3>2. validator \in 0 .. 8
      BY <1>5, <2>1, <3>1, StatesAre
    <3>3. advance(utf8_accept, (Before \o Plain(n)) \o plain)
            = advance(advance(utf8_accept, Before \o Plain(n)), plain)
      BY <1>5, <1>8, AdvanceConcat
    <3> HIDE DEF validator
    <3>. QED
      BY <1>2, <1>8, <2>2, <3>1, <3>2, <3>3
  <2>3. CASE Op # TEXT
    BY <1>2, <2>1, <2>3
  <2>. QED
    BY <2>2, <2>3
<1> HIDE DEF plain, key, validator, masked, new
<1>12. new.payload = Before \o Plain(n + l) /\ new.op = Op /\ new.key = key /\ new.validator = validator
  <2>1. msg.payload \o plain = Before \o Plain(n + l)
    BY <1>2, <1>8, Zenon
  <2>2. msg.op = Op
    BY <1>2, Zenon
  <2>. QED
    BY <1>9, <2>1, <2>2, Zenon
<1>13. new \in Message
  <2>1. msg.payload \o plain \in Seq(Byte) /\ msg.op \in Opcode
    BY <1>2, <1>6, <1>8
  <2>2. key \in Seq(Byte) /\ validator \in 0 .. 8
    BY <1>10, <1>11
  <2> DEFINE p == msg.payload \o plain
  <2>3. [op |-> msg.op, payload |-> p, key |-> key, validator |-> validator] \in Message
    <3> HIDE DEF p, key, validator
    <3>. QED
      BY <2>1, <2>2 DEF Message, p
  <2>. QED
    BY <1>9, <2>3, Zenon
<1> HIDE DEF new
<1>14. Grown(new, n + l)
  BY <1>10, <1>11, <1>12, <1>13 DEF Grown, masked
<1>. QED
  BY <1>14 DEF new

\* What is rejected stays so with the rest of the payload.
LEMMA RejectedSoon ==
  ASSUME CodeSizes, StreamInv, Starts, HasWholeHeader, NEW n \in Nat, n <= Shown,
         advance(utf8_accept, Before \o Plain(n)) = utf8_reject
  PROVE  advance(utf8_accept, Before \o Plain(Shown)) = utf8_reject
<1> DEFINE a == start + HLen
           l == Shown - n
           k == circshift_prepared_key(prepare_masking_key(FrameKey), n % 4)
           part == SubSeq(stream, a + n + 1, a + n + l)
           rest == IF get_masked(H) THEN byte_mask(part, SubSeq(k, 1, 4)) ELSE part
<1>1. /\ start \in Nat /\ HLen \in Nat /\ Len(stream) \in Nat /\ a \in Nat /\ a >= start
      /\ FrameKey \in Seq(Byte) /\ Len(FrameKey) = 4 /\ Size \in Nat
  <2>1. start \in Nat /\ HLen \in Nat /\ FrameKey \in Seq(Byte) /\ Len(FrameKey) = 4 /\ Size \in Nat
    BY FrameTypes DEF Starts, HasWholeHeader
  <2>2. stream \in Seq(Nat)
    BY StreamIs
  <2>. QED
    BY <2>1, <2>2
<1>2. Shown \in Nat /\ a + Shown <= Len(stream)
  <2>1. a <= Len(stream)
    BY DEF HasWholeHeader
  <2>2. Shown = IF a + Size <= Len(stream) THEN Size ELSE Len(stream) - a
    BY DEF Shown
  <2> HIDE DEF a
  <2>. QED
    BY <1>1, <2>1, <2>2
<1>3. l \in Nat /\ n + l = Shown
  BY <1>2
<1>4. Rotated(k, FrameKey, n)
  <2>1. Rotated(prepare_masking_key(FrameKey), FrameKey, 0)
    BY <1>1, RotatedFirst
  <2>2. Rotated(k, FrameKey, 0 + n)
    BY <1>1, <2>1, RotatedOn
  <2>. QED
    BY <2>2
<1> HIDE DEF l, k
<1>5. AreBytes(stream, a, n + l) /\ a + n <= Len(stream)
  <2>1. a + (n + l) <= Len(stream) /\ n + l \in Nat /\ a + n <= Len(stream)
    BY <1>1, <1>2, <1>3
  <2> HIDE DEF a
  <2>. QED
    BY <1>1, <2>1, FrameBytes
<1>6. rest \in Seq(Byte) /\ Plain(Shown) = Plain(n) \o rest
  <2>1. rest = Taking(stream, a, n, l, get_masked(H), k)
    BY Zenon DEF Taking
  <2> HIDE DEF a, rest
  <2>2. Grows(rest, stream, a, n, l, get_masked(H), FrameKey)
    BY <1>1, <1>3, <1>4, <1>5, <2>1, UnmaskedGrows
  <2>3. /\ rest \in Seq(Byte)
        /\ Unmasked(stream, a, n + l, get_masked(H), FrameKey)
             = Unmasked(stream, a, n, get_masked(H), FrameKey) \o rest
    BY <2>2, Zenon DEF Grows
  <2>. QED
    BY <1>3, <2>3 DEF Plain, a
<1> HIDE DEF rest
<1>7. Before \in Seq(Byte) /\ Plain(n) \in Seq(Byte)
  BY <1>5, BeforeIs, PlainIs DEF HasWholeHeader, a
<1>8. Before \o Plain(n) \in Seq(Byte) /\ (Before \o Plain(n)) \o rest = Before \o (Plain(n) \o rest)
  BY <1>6, <1>7, ConcatProperties, ConcatAssociative
<1>9. advance(utf8_accept, (Before \o Plain(n)) \o rest) = utf8_reject
  BY <1>6, <1>8, StaysRejected
<1>. QED
  BY <1>6, <1>8, <1>9

\* What the checks of a basic header leave.
LEMMA BasicSays ==
  ASSUME BasicOK
  PROVE  /\ is_control(get_opcode(H)) => get_fin(H)
         /\ get_opcode(H) = TEXT => Op = TEXT
<1> DEFINE op == get_opcode(H)
           control == is_control(op)
           fin == get_fin(H)
<1>1. validate_incoming_basic_header(H, m_server, kept = NoMsg) = "none"
  BY DEF BasicOK
<1>2. control => fin
  BY <1>1, Zenon DEF validate_incoming_basic_header
<1>3. kept # NoMsg => control \/ op = CONTINUATION
  BY <1>1, Zenon DEF validate_incoming_basic_header
<1>4. op = TEXT => ~control /\ op # CONTINUATION
  BY DEF is_control, TEXT, CONTINUATION
<1>5. op = TEXT => Alone
  BY <1>3, <1>4 DEF Alone
<1>. QED
  BY <1>2, <1>5 DEF Op

\* Nothing of the frame is amiss.
LEMMA NothingAmiss ==
  ASSUME CodeSizes, StreamInv, Starts, HasWholeHeader, BasicOK, ExtendedOK, Fits,
         start + HLen + Size <= Len(stream), NEW msg, Received(msg, Size),
         get_fin(H) /\ get_opcode(H) = TEXT => complete(msg.validator)
  PROVE  ~Frames!Illegal /\ ~Frames!NotText /\ Frames!HasHeader /\ Frames!Whole
         /\ Frames!Payload = Plain(Size)
<1>1. ~Frames!Illegal
  BY IllegalIs DEF HasWholeHeader
<1>2. Shown = Size
  BY DEF Shown
<1>3. ~Frames!NotText
  <2>1. Op = TEXT => /\ advance(utf8_accept, Before \o Plain(Shown)) = msg.validator
                     /\ msg.validator # utf8_reject
    BY <1>2 DEF Received
  <2> DEFINE state == advance(utf8_accept, Before \o Plain(Shown))
  <2>2. Frames!NotText <=> /\ Op = TEXT
                           /\ \/ state = utf8_reject
                              \/ /\ start + HLen + Size <= Len(stream) /\ get_fin(H)
                                 /\ get_opcode(H) = TEXT /\ ~complete(state)
    BY NotTextIs
  <2> HIDE DEF state
  <2>3. Op = TEXT => state = msg.validator /\ msg.validator # utf8_reject
    BY <2>1 DEF state
  <2>. QED
    BY <2>2, <2>3
<1>4. Frames!HasHeader
  BY FrameIs DEF Frames!HasHeader, Frames!HasBasicHeader, HasWholeHeader, HasBasic
<1>5. Frames!Whole /\ Frames!Payload = Plain(Size)
  BY <1>2, PayloadIs
<1>. QED
  BY <1>1, <1>3, <1>4, <1>5

\* A frame is done with.
LEMMA NextFrameIs ==
  ASSUME CodeSizes, StreamInv, FrameInv, head = "open", ec = "none", HasWholeHeader, BasicOK, ExtendedOK,
         Fits, NEW msg, Received(msg, Size),
         get_fin(H) /\ get_opcode(H) = TEXT => complete(msg.validator),
         UNCHANGED <<script, stream, got, m_is_server, m_server, head, ec>>,
         start' = at', at' = start + HLen + Size, at' <= got,
         kept' = m_data_msg', m_control_msg' = NoMsg,
         m_state' = "HEADER_BASIC", m_bytes_needed' = BASIC_HEADER_LENGTH, m_extended_header' = <<>>,
         IF get_fin(H)
         THEN /\ delivered' = Append(delivered, [op |-> msg.op, payload |-> msg.payload])
              /\ kept' = IF is_control(get_opcode(H)) THEN kept ELSE NoMsg
         ELSE kept' = msg /\ UNCHANGED delivered,
         FrameTypeOK'
  PROVE  StreamInv' /\ FrameInv' /\ Frames!Next
<1>1. /\ Starts /\ at \in Nat /\ Len(stream) \in Nat /\ got \in Nat /\ got <= Len(stream)
      /\ start \in Nat /\ HeadLen \in Nat /\ start >= HeadLen
  BY StartsHere DEF Starts
<1>2. HLen \in Nat /\ HLen >= 2 /\ Size \in Nat
  BY <1>1, FrameTypes DEF HasWholeHeader
<1>3. at' \in Nat /\ start + HLen + Size <= Len(stream) /\ at' > start
  BY <1>1, <1>2
<1>4. msg \in Message /\ msg.op = Op /\ msg.payload = Before \o Plain(Size) /\ msg.validator # utf8_reject
      /\ (Op = TEXT => msg.validator = advance(utf8_accept, msg.payload))
  BY DEF Received
<1>5. is_control(Op) <=> is_control(get_opcode(H))
  BY <1>1, BeforeIs DEF HasWholeHeader
<1>6. is_control(get_opcode(H)) => get_fin(H)
  BY BasicSays
<1>7. kept = NoMsg \/ KeptOK
  BY <1>1 DEF Starts
<1>8. kept' = NoMsg \/ KeptOK'
  <2>1. CASE get_fin(H)
    <3>1. kept' \in {kept, NoMsg}
      BY <2>1
    <3>. QED
      BY <1>7, <3>1 DEF KeptOK
  <2>2. CASE ~get_fin(H)
    <3>1. kept' = msg /\ ~is_control(msg.op)
      BY <1>4, <1>5, <1>6, <2>2
    <3>. QED
      BY <1>4, <3>1 DEF KeptOK
  <2>. QED
    BY <2>1, <2>2
<1>9. HeadLen' = HeadLen /\ Places(Length)' = Places(Length)
  BY DEF HeadLen, Places, Length
<1>10. delivered \in Seq([op : Opcode, payload : Seq(Byte)])
  BY DEF FrameInv, FrameTypeOK
<1>11. ~(delivered' = <<>> /\ kept' = NoMsg)
  <2>1. CASE get_fin(H)
    <3>1. delivered' # <<>>
      <4>1. delivered' = Append(delivered, [op |-> msg.op, payload |-> msg.payload])
        BY <2>1
      <4>. QED
        BY <1>10, <4>1
    <3>. QED
      BY <3>1
  <2>2. CASE ~get_fin(H)
    <3>1. NoMsg \notin Message
      BY MessageAssumption DEF Message
    <3>. QED
      BY <1>4, <2>2, <3>1
  <2>. QED
    BY <2>1, <2>2
<1>12. Begins'
  <2>1. start' > HeadLen'
    BY <1>1, <1>3, <1>9
  <2>2. start' \in Nat /\ HeadLen' \in Nat
    BY <1>1, <1>3, <1>9
  <2>3. start' >= HeadLen'
    BY <2>1, <2>2
  <2>. QED
    BY <1>11, <2>1, <2>3 DEF Begins
<1>14. StreamInv'
  BY <1>3, StreamKept DEF SamePeer
<1>15. InFrame'
  <2>1. m_bytes_needed' = 2 /\ at' = start' + 2 - m_bytes_needed'
    BY <1>3 DEF BASIC_HEADER_LENGTH
  <2>. QED
    BY <2>1 DEF InFrame, InBasic
<1>16. FrameInv'
  <2>1. start' \in Nat /\ start' <= at'
    BY <1>3
  <2>2. head' = "open" /\ ec' = "none" /\ m_state' # "READY"
    OBVIOUS
  <2> HIDE DEF InFrame
  <2>. QED
    BY <1>8, <1>12, <1>15, <2>1, <2>2 DEF FrameInv
<1>17. Frames!NextFrame
  <2>1. ~Frames!Illegal /\ ~Frames!NotText /\ Frames!HasHeader /\ Frames!Whole /\ Frames!Payload = Plain(Size)
    BY <1>1, <1>3, NothingAmiss
  <2>2. start' = Frames!FrameEnd
    BY FrameIs
  <2>3. /\ (Frames!get_fin(Frames!h) <=> get_fin(H))
        /\ (Frames!is_control(Frames!get_opcode(Frames!h)) <=> is_control(get_opcode(H)))
    BY FrameIs, SameOperators
  <2>4. Frames!op = msg.op /\ Frames!Before \o Frames!Payload = msg.payload
    BY <1>1, <1>4, <2>1, MessageIs
  <2> DEFINE message == IF kept = NoMsg THEN NoMsg ELSE [op |-> kept.op, payload |-> kept.payload]
  <2>5. IF get_fin(H)
        THEN /\ delivered' = Append(delivered, [op |-> msg.op, payload |-> msg.payload])
             /\ message' = IF is_control(get_opcode(H)) THEN message ELSE NoMsg
        ELSE /\ message' = [op |-> msg.op, payload |-> msg.payload]
             /\ UNCHANGED delivered
    <3>1. NoMsg \notin Message
      BY MessageAssumption DEF Message
    <3>2. CASE get_fin(H) /\ is_control(get_opcode(H))
      BY <3>2
    <3>3. CASE get_fin(H) /\ ~is_control(get_opcode(H))
      BY <3>3
    <3>4. CASE ~get_fin(H)
      BY <1>4, <3>1, <3>4
    <3>. QED
      BY <3>2, <3>3, <3>4
  <2>6. UNCHANGED <<m_server, stream, head = "open", IF ec = "none" THEN "none" ELSE "failed">>
    OBVIOUS
  <2> HIDE DEF message
  <2>7. /\ head = "open" /\ (IF ec = "none" THEN "none" ELSE "failed") = "none"
    OBVIOUS
  <2>8. IF Frames!get_fin(Frames!h)
        THEN /\ delivered' = Append(delivered, [op |-> Frames!op, payload |-> Frames!Before \o Frames!Payload])
             /\ message' = IF Frames!is_control(Frames!get_opcode(Frames!h)) THEN message ELSE NoMsg
        ELSE /\ message' = [op |-> Frames!op, payload |-> Frames!Before \o Frames!Payload]
             /\ UNCHANGED delivered
    BY <2>3, <2>4, <2>5
  <2>. QED
    BY <2>1, <2>2, <2>6, <2>7, <2>8, Zenon DEF Frames!NextFrame, message
<1>. QED
  BY <1>14, <1>16, <1>17, Zenon DEF Frames!Next

LEMMA PayloadStep ==
  ASSUME CodeSizes, StreamInv, FrameInv, head = "open", ReadPayload, MarkFrame,
         UNCHANGED <<headVars, script>>
  PROVE  StreamInv' /\ FrameInv' /\ [Frames!Next]_Frames!vars
<1> DEFINE l == Len(Taken)
           missing == m_bytes_needed - l
           msg == process_payload_bytes(Cur)
<1>1. /\ Starts /\ at >= HeadLen /\ at \in Nat /\ Len(stream) \in Nat /\ got \in Nat
      /\ at <= got /\ got <= Len(stream) /\ start \in Nat
  BY StartsHere DEF Starts
<1>2. ec = "none" /\ FrameTypeOK /\ m_state = "APPLICATION" /\ \E n \in Nat : InPayload(n)
  BY DEF ReadPayload, Consuming, FrameInv, InFrame, InBasic, InExtended
<1>3. PICK n \in Nat : InPayload(n)
  BY <1>2
<1>4. /\ HasWholeHeader /\ m_basic_header = H /\ BasicOK /\ ExtendedOK /\ Fits
      /\ n <= Size /\ m_bytes_needed = Size - n /\ at = start + HLen + n
      /\ IF is_control(get_opcode(H)) THEN m_current_msg = "control" /\ m_data_msg = kept
         ELSE m_current_msg = "data" /\ m_control_msg = NoMsg
      /\ Received(Cur, n)
  BY <1>3 DEF InPayload
<1>5. HLen \in Nat /\ HLen >= 2 /\ Size \in Nat
  BY <1>1, <1>4, FrameTypes DEF HasWholeHeader
<1>6. /\ l \in Nat /\ l <= m_bytes_needed /\ at + l <= got
      /\ Taken = SubSeq(stream, at + 1, at + l)
  BY <1>1, <1>2, TakenIs DEF FrameTypeOK
<1> HIDE DEF l
<1>7. PICK k \in Nat : k = n + l
  BY <1>6
<1>8. /\ k <= Size /\ missing = Size - k /\ missing \in Nat
      /\ at + l = start + HLen + k /\ start + HLen + k <= Len(stream)
  BY <1>1, <1>4, <1>5, <1>6, <1>7
<1>9. Grown(msg, k)
  <2>1. Taken = SubSeq(stream, start + HLen + n + 1, start + HLen + n + l)
    BY <1>4, <1>6
  <2>2. start + HLen + n + l <= Len(stream)
    BY <1>1, <1>4, <1>6
  <2>3. Grown(msg, n + l)
    BY <1>1, <1>4, <1>6, <2>1, <2>2, ReceivedMore
  <2>. QED
    BY <1>7, <2>3
<1>10. Shown = IF start + HLen + Size <= Len(stream) THEN Size ELSE Len(stream) - (start + HLen)
  BY DEF Shown
<1> DEFINE control == m_current_msg = "control"
<1>11. /\ IF control THEN m_control_msg' = msg /\ UNCHANGED m_data_msg
         ELSE m_data_msg' = msg /\ UNCHANGED m_control_msg
      /\ UNCHANGED <<m_server, m_current_msg, delivered>>
      /\ \/ /\ msg.validator = utf8_reject
            /\ ec' = "invalid_utf8"
            /\ UNCHANGED <<streamVars, m_state, m_basic_header, m_extended_header, m_bytes_needed>>
         \/ /\ msg.validator # utf8_reject
            /\ Use(l)
            /\ \/ /\ missing > 0
                  /\ m_bytes_needed' = missing
                  /\ UNCHANGED <<m_state, m_basic_header, m_extended_header, ec>>
               \/ /\ missing = 0 /\ ~get_fin(m_basic_header)
                  /\ reset_headers /\ UNCHANGED ec
               \/ /\ missing = 0 /\ get_fin(m_basic_header)
                  /\ m_bytes_needed' = 0
                  /\ UNCHANGED <<m_basic_header, m_extended_header>>
                  /\ IF EndsInsideCodePoint(msg)
                     THEN ec' = "invalid_utf8" /\ UNCHANGED m_state
                     ELSE m_state' = "READY" /\ UNCHANGED ec
  BY DEF ReadPayload, Cur, l
<1> HIDE DEF msg, missing
<1>12. control <=> is_control(get_opcode(H))
  BY <1>4
<1>13. Cur' = msg /\ msg \in Message
  BY <1>9, <1>11 DEF Cur, Grown
<1>14. /\ m_data_msg' \in Message \union {NoMsg} /\ m_control_msg' \in Message \union {NoMsg}
       /\ m_current_msg' \in {"none", "data", "control"}
  BY <1>2, <1>11, <1>13 DEF FrameTypeOK
<1>15. "invalid_utf8" \in Errors
  BY DEF Errors
<1>16. IF is_control(get_opcode(H)) THEN m_current_msg' = "control" /\ m_data_msg' = kept /\ m_control_msg' = msg
       ELSE m_current_msg' = "data" /\ m_control_msg' = NoMsg /\ m_data_msg' = msg
  BY <1>4, <1>11
<1>17. UNCHANGED <<script, stream, got, m_is_server, m_server, head>>
  BY <1>11 DEF headVars, streamVars, Use
<1>18. msg.validator # utf8_reject => Received(msg, k)
  BY <1>9 DEF Grown, Received
<1>19. CASE m_state' # "HEADER_BASIC"
  <2>1. start' = start /\ kept' = kept /\ stream' = stream /\ m_server' = m_server
    BY <1>11, <1>17, <1>19 DEF MarkFrame
  <2>2. SameFrame
    BY <1>11, <1>17, <2>1 DEF SameFrame
  <2>3. CASE /\ msg.validator = utf8_reject /\ ec' = "invalid_utf8"
             /\ UNCHANGED <<streamVars, m_state, m_basic_header, m_extended_header, m_bytes_needed>>
    <3>1. FrameTypeOK'
      BY <1>2, <1>11, <1>14, <1>15, <2>3 DEF FrameTypeOK
    <3>2. Op = TEXT /\ advance(utf8_accept, Before \o Plain(k)) = utf8_reject
      BY <1>9, <2>3 DEF Grown
    <3>3. k <= Shown
      BY <1>1, <1>5, <1>8, <1>10
    <3>4. advance(utf8_accept, Before \o Plain(Shown)) = utf8_reject
      BY <1>1, <1>4, <1>8, <3>2, <3>3, RejectedSoon
    <3>5. Frames!NotText
      BY <1>1, <1>4, <3>2, <3>4, NotTextIs
    <3>6. at' \in Nat /\ at' >= at /\ at' <= got
      BY <1>1, <2>3 DEF streamVars
    <3>. QED
      BY <1>2, <2>2, <2>3, <3>1, <3>5, <3>6, Failing
  <2>4. ASSUME msg.validator # utf8_reject, Use(l)
        PROVE  at' = at + l /\ at' \in Nat /\ at' >= at /\ at' <= got /\ Received(msg, k)
    BY <1>1, <1>6, <1>18, <2>4 DEF Use
  <2>5. CASE /\ msg.validator # utf8_reject /\ Use(l) /\ missing > 0 /\ m_bytes_needed' = missing
             /\ UNCHANGED <<m_state, m_basic_header, m_extended_header, ec>>
    <3>1. FrameTypeOK'
      BY <1>2, <1>8, <1>11, <1>14, <2>5 DEF FrameTypeOK
    <3>2. InPayload(k)'
      <4>1. m_state' = "APPLICATION" /\ m_basic_header' = H
        BY <1>2, <1>4, <2>5
      <4>2. at' = start + HLen + k /\ m_bytes_needed' = Size - k
        BY <1>8, <2>4, <2>5
      <4>3. Received(msg, k)
        BY <2>4, <2>5
      <4>4. /\ H' = H /\ HLen' = HLen /\ E' = E /\ Size' = Size /\ FrameKey' = FrameKey
            /\ Op' = Op /\ Before' = Before
            /\ BasicOK' = BasicOK /\ ExtendedOK' = ExtendedOK /\ Fits' = Fits
            /\ HasBasic' = HasBasic /\ HasWholeHeader' = HasWholeHeader /\ Plain(k)' = Plain(k)
        <5>1. /\ H' = H /\ HLen' = HLen /\ E' = E /\ Size' = Size /\ FrameKey' = FrameKey
              /\ Op' = Op /\ Before' = Before
              /\ BasicOK' = BasicOK /\ ExtendedOK' = ExtendedOK /\ Fits' = Fits
          BY <2>1, FrameKept
        <5>2. HasBasic' = HasBasic /\ HasWholeHeader' = HasWholeHeader
          BY <2>1, <5>1 DEF HasBasic, HasWholeHeader
        <5>3. Plain(k)' = Plain(k)
          BY <2>1, <5>1 DEF Plain
        <5>. QED
          BY <5>1, <5>2, <5>3
      <4>5. Received(Cur, k)'
        BY <1>13, <4>3, <4>4 DEF Received
      <4>6. IF is_control(get_opcode(H')) THEN m_current_msg' = "control" /\ m_data_msg' = kept'
            ELSE m_current_msg' = "data" /\ m_control_msg' = NoMsg
        BY <1>16, <2>1, <4>4
      <4>. QED
        BY <1>4, <1>8, <2>1, <4>1, <4>2, <4>4, <4>5, <4>6 DEF InPayload
    <3>3. InFrame' /\ ec' = "none" /\ m_state' # "READY"
      BY <1>2, <1>8, <2>5, <3>2 DEF InFrame
    <3>. QED
      BY <1>2, <2>2, <2>4, <2>5, <3>1, <3>3, Staying
  <2>6. CASE /\ msg.validator # utf8_reject /\ Use(l) /\ missing = 0 /\ get_fin(m_basic_header)
             /\ m_bytes_needed' = 0 /\ UNCHANGED <<m_basic_header, m_extended_header>>
             /\ EndsInsideCodePoint(msg) /\ ec' = "invalid_utf8" /\ UNCHANGED m_state
    <3>1. FrameTypeOK'
      BY <1>2, <1>11, <1>14, <1>15, <2>6 DEF FrameTypeOK
    <3>2. get_opcode(H) = TEXT /\ ~complete(msg.validator) /\ get_fin(H)
      BY <1>4, <2>6 DEF EndsInsideCodePoint
    <3>3. Op = TEXT
      BY <1>4, <3>2, BasicSays
    <3>4. k = Size /\ start + HLen + Size <= Len(stream) /\ Shown = Size
      BY <1>1, <1>5, <1>8, <1>10, <2>6
    <3>5. msg.validator = advance(utf8_accept, Before \o Plain(Shown))
      BY <2>4, <2>6, <3>3, <3>4 DEF Received
    <3>6. Frames!NotText
      BY <1>1, <1>4, <3>2, <3>3, <3>4, <3>5, NotTextIs
    <3>. QED
      BY <1>2, <2>2, <2>4, <2>6, <3>1, <3>6, Failing
  <2>7. CASE /\ msg.validator # utf8_reject /\ Use(l) /\ missing = 0 /\ get_fin(m_basic_header)
             /\ m_bytes_needed' = 0 /\ UNCHANGED <<m_basic_header, m_extended_header>>
             /\ ~EndsInsideCodePoint(msg) /\ m_state' = "READY" /\ UNCHANGED ec
    <3>1. FrameTypeOK'
      BY <1>2, <1>11, <1>14, <2>7 DEF FrameTypeOK
    <3>2. InPayload(Size)'
      <4>1. m_basic_header' = H
        BY <1>4, <2>7
      <4>2. k = Size
        BY <1>5, <1>8, <2>7
      <4>3. at' = start + HLen + Size /\ m_bytes_needed' = Size - Size
        BY <1>5, <1>8, <2>4, <2>7, <4>2
      <4>4. Received(msg, Size)
        BY <2>4, <2>7, <4>2
      <4>5. /\ H' = H /\ HLen' = HLen /\ E' = E /\ Size' = Size /\ FrameKey' = FrameKey
            /\ Op' = Op /\ Before' = Before
            /\ BasicOK' = BasicOK /\ ExtendedOK' = ExtendedOK /\ Fits' = Fits
            /\ HasBasic' = HasBasic /\ HasWholeHeader' = HasWholeHeader /\ Plain(Size)' = Plain(Size)
        <5>1. /\ H' = H /\ HLen' = HLen /\ E' = E /\ Size' = Size /\ FrameKey' = FrameKey
              /\ Op' = Op /\ Before' = Before
              /\ BasicOK' = BasicOK /\ ExtendedOK' = ExtendedOK /\ Fits' = Fits
          BY <2>1, FrameKept
        <5>2. HasBasic' = HasBasic /\ HasWholeHeader' = HasWholeHeader
          BY <2>1, <5>1 DEF HasBasic, HasWholeHeader
        <5>3. Plain(Size)' = Plain(Size)
          BY <2>1, <5>1 DEF Plain
        <5>. QED
          BY <5>1, <5>2, <5>3
      <4>6. Received(Cur', Size)
        BY <1>13, <4>4
      <4>7. Received(Cur, Size)'
        BY <4>5, <4>6 DEF Received
      <4>8. IF is_control(get_opcode(H')) THEN m_current_msg' = "control" /\ m_data_msg' = kept'
            ELSE m_current_msg' = "data" /\ m_control_msg' = NoMsg
        BY <1>16, <2>1, <4>5
      <4>9. get_fin(H') /\ (get_opcode(H') = TEXT => complete(Cur'.validator))
        BY <1>4, <1>13, <2>7, <4>5 DEF EndsInsideCodePoint
      <4>. QED
        BY <1>4, <1>5, <2>1, <2>7, <4>1, <4>3, <4>5, <4>7, <4>8, <4>9 DEF InPayload
    <3>3. InFrame' /\ ec' = "none"
      <4>1. Size' \in Nat
        BY <1>5, <2>1, FrameKept
      <4>. QED
        BY <1>2, <2>7, <3>2, <4>1 DEF InFrame
    <3>. QED
      BY <1>2, <2>2, <2>4, <2>7, <3>1, <3>3, Staying
  <2>. QED
    BY <1>11, <1>19, <2>3, <2>5, <2>6, <2>7 DEF reset_headers
<1>20. CASE m_state' = "HEADER_BASIC"
  <2>1. /\ msg.validator # utf8_reject /\ Use(l) /\ missing = 0 /\ ~get_fin(H) /\ reset_headers /\ ec' = ec
    BY <1>2, <1>4, <1>11, <1>20
  <2>2. start' = at' /\ kept' = m_data_msg'
    BY <1>2, <1>20 DEF MarkFrame
  <2>3. k = Size /\ at' = start + HLen + Size /\ at' <= got
    BY <1>1, <1>5, <1>6, <1>8, <2>1 DEF Use
  <2>4. Received(msg, Size)
    BY <1>18, <2>1, <2>3
  <2>5. ~is_control(get_opcode(H))
    BY <1>4, <2>1, BasicSays
  <2>6. FrameTypeOK'
    <3>1. EmptyHeader \in BasicHeader
      BY Bytes DEF EmptyHeader, BasicHeader
    <3>. QED
      BY <1>2, <1>11, <1>14, <2>1, <3>1 DEF FrameTypeOK, reset_headers, BASIC_HEADER_LENGTH
  <2>7. m_control_msg' = NoMsg /\ m_data_msg' = msg
    BY <1>16, <2>5
  <2>. QED
    BY <1>2, <1>4, <1>11, <1>17, <1>20, <2>1, <2>2, <2>3, <2>4, <2>6, <2>7, NextFrameIs DEF reset_headers
<1>. QED
  BY <1>19, <1>20

LEMMA MessageStep ==
  ASSUME CodeSizes, StreamInv, FrameInv, head = "open", get_message, MarkFrame,
         UNCHANGED <<headVars, script>>
  PROVE  StreamInv' /\ FrameInv' /\ [Frames!Next]_Frames!vars
<1>1. /\ Starts /\ at \in Nat /\ got \in Nat /\ at <= got /\ start \in Nat
  BY StartsHere DEF Starts
<1>2. ec = "none" /\ FrameTypeOK /\ m_state = "READY" /\ \E n \in Nat : InPayload(n)
  BY DEF get_message, FrameInv, InFrame, InBasic, InExtended
<1>3. PICK n \in Nat : InPayload(n)
  BY <1>2
<1>4. /\ HasWholeHeader /\ BasicOK /\ ExtendedOK /\ Fits
      /\ n <= Size /\ m_bytes_needed = Size - n /\ at = start + HLen + n
      /\ IF is_control(get_opcode(H)) THEN m_current_msg = "control" /\ m_data_msg = kept
         ELSE m_current_msg = "data" /\ m_control_msg = NoMsg
      /\ Received(Cur, n) /\ m_bytes_needed = 0 /\ get_fin(H)
      /\ get_opcode(H) = TEXT => complete(Cur.validator)
  BY <1>2, <1>3 DEF InPayload
<1>5. HLen \in Nat /\ HLen >= 2 /\ Size \in Nat
  BY <1>1, <1>4, FrameTypes DEF HasWholeHeader
<1>6. n = Size
  BY <1>4, <1>5
<1>7. is_control(Cur.op) <=> is_control(get_opcode(H))
  BY <1>1, <1>4, BeforeIs DEF HasWholeHeader, Received
<1>8. /\ delivered' = Append(delivered, [op |-> Cur.op, payload |-> Cur.payload])
      /\ IF is_control(get_opcode(H)) THEN m_control_msg' = NoMsg /\ UNCHANGED m_data_msg
         ELSE m_data_msg' = NoMsg /\ UNCHANGED m_control_msg
      /\ reset_headers /\ UNCHANGED <<streamVars, m_server, m_current_msg, ec>>
  BY <1>7 DEF get_message, Cur
<1>9. start' = at' /\ kept' = m_data_msg'
  BY <1>2, <1>8 DEF MarkFrame, reset_headers
<1>10. Cur \in Message
  BY <1>4 DEF Received
<1>11. FrameTypeOK'
  <2>1. EmptyHeader \in BasicHeader
    BY Bytes DEF EmptyHeader, BasicHeader
  <2>2. [op |-> Cur.op, payload |-> Cur.payload] \in [op : Opcode, payload : Seq(Byte)]
    BY <1>10 DEF Message
  <2>3. delivered' \in Seq([op : Opcode, payload : Seq(Byte)])
    <3> DEFINE m == [op |-> Cur.op, payload |-> Cur.payload]
    <3>1. delivered' = Append(delivered, m) /\ m \in [op : Opcode, payload : Seq(Byte)]
      BY <1>8, <2>2
    <3> HIDE DEF m
    <3>. QED
      BY <1>2, <3>1 DEF FrameTypeOK
  <2>4. /\ m_data_msg' \in Message \union {NoMsg} /\ m_control_msg' \in Message \union {NoMsg}
    BY <1>2, <1>8 DEF FrameTypeOK
  <2>. QED
    BY <1>2, <1>8, <2>1, <2>3, <2>4 DEF FrameTypeOK, reset_headers, BASIC_HEADER_LENGTH
<1>12. /\ at' = start + HLen + Size /\ at' <= got
       /\ UNCHANGED <<script, stream, got, m_is_server, m_server, head, ec>>
  BY <1>1, <1>4, <1>6, <1>8 DEF streamVars, headVars
<1>13. m_control_msg' = NoMsg /\ m_data_msg' = IF is_control(get_opcode(H)) THEN kept ELSE NoMsg
  BY <1>4, <1>8
<1>. QED
  BY <1>2, <1>4, <1>6, <1>8, <1>9, <1>11, <1>12, <1>13, NextFrameIs DEF reset_headers

-----------------------------------------------------------------------------
(***************************************************************************)
(* The whole connection.                                                   *)
(***************************************************************************)
Inv == StreamInv /\ HeadInv /\ FrameInv

LEMMA InitInv ==
  ASSUME Init
  PROVE  Inv /\ Frames!Init
<1>1. /\ script \in Scripts /\ stream = HeadBytes(script.lines) \o script.bytes /\ got = 0 /\ at = 0
      /\ HeadInit /\ head = (IF script.lines = <<>> THEN "open" ELSE "line")
      /\ m_is_server = script.server /\ FrameInit /\ m_server = script.server
      /\ start = 0 /\ kept = NoMsg
  BY DEF Init
<1>2. script.server \in BOOLEAN /\ script.lines \in Seq(Nat \ Byte) /\ script.bytes \in Seq(Byte)
  BY <1>1, ScriptsAssumption
<1>3. HeadBytes(script.lines) \in Seq(Nat) /\ HeadLen \in Nat
  <2>1. HeadBytes(script.lines) \in Seq(Nat)
    BY <1>2, HeadBytesAre
  <2>. QED
    BY <2>1, LenProperties DEF HeadLen
<1>4. stream \in Seq(Nat)
  <2>1. Byte \subseteq Nat
    BY Bytes
  <2>2. script.bytes \in Seq(Nat)
    BY <1>2, <2>1, SeqMonotonic
  <2>. QED
    BY <1>1, <1>3, <2>2, ConcatProperties
<1>5. StreamInv
  <2>1. Len(stream) \in Nat /\ 0 <= Len(stream)
    BY <1>4
  <2>2. at \in Nat /\ got \in Nat /\ at <= got /\ got <= Len(stream)
    <3>1. at = 0 /\ got = 0
      BY <1>1
    <3>. QED
      BY <2>1, <3>1
  <2>. QED
    BY <1>1, <2>2, Zenon DEF StreamInv
<1>6. HeadInv
  <2>1. HeadTypeOK
    <3>1. m_is_server \in BOOLEAN /\ head \in {"line", "headers", "body", "open", "http", "refused"}
      BY <1>1, <1>2
    <3>2. scanning \in BOOLEAN /\ DOMAIN m_headers = HeaderNames
      BY <1>1, Zenon DEF HeadInit
    <3>3. m_header_bytes \in 0..max_header_size /\ body_needed \in Nat
          /\ first_line \in {0, SwitchingProtocols, OtherStatus, Get, Post, OldVersion}
      <4>1. m_header_bytes = 0 /\ body_needed = 0 /\ first_line = 0
        BY <1>1, Zenon DEF HeadInit
      <4>. QED
        BY <4>1, HeadAssumption
    <3>. QED
      BY <3>1, <3>2, <3>3 DEF HeadTypeOK
  <2>2. ASSUME head \in {"line", "headers"} PROVE \E k \in 0 .. Len(script.lines) : Processed(k)
    <3>1. script.lines # <<>> /\ head = "line"
      BY <1>1, <2>2
    <3>2. 0 \in 0 .. Len(script.lines)
      BY <1>2
    <3>3. Gathered(m_headers, script.lines, 0)
      BY <1>1, NothingGathered DEF HeadInit
    <3>4. m_buf = SubSeq(stream, 3 * 0 + 1, at)
      <4>1. SubSeq(stream, 1, 0) = <<>>
        BY SubSeqEmpty
      <4>. QED
        BY <1>1, <4>1 DEF HeadInit
    <3>5. Processed(0)
      BY <1>1, <3>1, <3>3, <3>4 DEF Processed
    <3>. QED
      BY <3>2, <3>5
  <2>3. Judged
    BY <1>1 DEF Judged
  <2>. QED
    BY <1>1, <2>1, <2>2, <2>3 DEF HeadInv, HeadInit
<1>7. FrameInv
  <2>1. FrameTypeOK
    <3>1. EmptyHeader \in BasicHeader
      BY Bytes DEF EmptyHeader, BasicHeader
    <3>. QED
      BY <1>1, <1>2, <3>1 DEF FrameInit, FrameTypeOK, BASIC_HEADER_LENGTH
  <2>3. head = "open" => Begins
    <3>1. ASSUME head = "open" PROVE HeadLen = 0
      <4>1. script.lines = <<>>
        BY <1>1, <3>1
      <4>. QED
        BY <4>1 DEF HeadLen, HeadBytes
    <3>. QED
      BY <1>1, <3>1 DEF Begins, FrameInit
  <2>4. InBasic
    BY <1>1 DEF FrameInit, InBasic, BASIC_HEADER_LENGTH
  <2>5. m_state # "READY" /\ start \in Nat /\ start <= at
    BY <1>1 DEF FrameInit
  <2>. QED
    BY <1>1, <2>1, <2>3, <2>4, <2>5 DEF FrameInv, InFrame
<1>8. Frames!Init
  BY <1>1, <1>2 DEF Frames!Init, FrameInit
<1>. QED
  BY <1>5, <1>6, <1>7, <1>8 DEF Inv

\* Bytes are read, and nothing is made of them yet.
GotMore ==
  /\ stream' = stream /\ at' = at /\ got' \in Nat /\ got <= got' /\ got' <= Len(stream)
  /\ UNCHANGED <<headVars, frameVars, script, start, kept>>
  /\ head \in {"line", "headers"} => ~scanning \/ got' = got

LEMMA GotMoreKeeps ==
  ASSUME Inv, GotMore
  PROVE  Inv' /\ UNCHANGED Frames!vars
<1>1. /\ stream' = stream /\ at' = at /\ got' \in Nat /\ got <= got' /\ got' <= Len(stream)
      /\ UNCHANGED <<headVars, frameVars, script, start, kept>>
      /\ head \in {"line", "headers"} => ~scanning \/ got' = got
  BY DEF GotMore
<1>2. StreamInv'
  <2>1. at <= got' /\ StreamInv
    <3>1. at \in Nat /\ got \in Nat /\ at <= got /\ StreamInv
      BY DEF Inv, StreamInv
    <3>2. got' \in Nat /\ got <= got'
      BY <1>1
    <3>. QED
      BY <3>1, <3>2
  <2>. QED
    BY <1>1, <2>1 DEF StreamInv, headVars, frameVars
<1>3. HeadInv'
  <2>1. HeadInv
    BY DEF Inv
  <2>2. /\ m_is_server' = m_is_server /\ head' = head /\ m_buf' = m_buf /\ scanning' = scanning
        /\ first_line' = first_line /\ m_headers' = m_headers /\ m_header_bytes' = m_header_bytes
        /\ body_needed' = body_needed /\ refusal' = refusal /\ script' = script
    BY <1>1 DEF headVars
  <2>3. HeadTypeOK'
    BY <2>1, <2>2 DEF HeadInv, HeadTypeOK
  <2>4. ASSUME NEW k, Processed(k), head \in {"line", "headers"} PROVE Processed(k)'
    BY <1>1, <2>2, <2>4 DEF Processed, FirstLines
  <2>5. Bodied => Bodied'
    BY <1>1, <2>2 DEF Bodied, AllProcessed, FirstLines, Has, ContentLength, HeadLen
  <2>6. Judged'
    <3>1. Verdict' = Verdict
      BY <2>2, VerdictKept
    <3>. QED
      BY <2>1, <2>2, <3>1 DEF HeadInv, Judged
  <2>7. head \in {"line", "headers"} => \E k \in 0 .. Len(script.lines) : Processed(k)'
    BY <2>1, <2>4 DEF HeadInv
  <2> HIDE DEF Judged
  <2>. QED
    BY <2>1, <2>2, <2>3, <2>5, <2>6, <2>7 DEF HeadInv
<1>4. FrameInv'
  <2>1. /\ m_server' = m_server /\ m_state' = m_state /\ m_basic_header' = m_basic_header
        /\ m_extended_header' = m_extended_header /\ m_bytes_needed' = m_bytes_needed
        /\ m_data_msg' = m_data_msg /\ m_control_msg' = m_control_msg /\ m_current_msg' = m_current_msg
        /\ ec' = ec /\ delivered' = delivered /\ start' = start /\ kept' = kept /\ head' = head
        /\ script' = script /\ at' = at /\ stream' = stream
    BY <1>1 DEF frameVars, headVars
  <2>2. FrameInv
    BY DEF Inv
  <2>3. FrameTypeOK'
    BY <2>1, <2>2 DEF FrameInv, FrameTypeOK
  <2>4. (kept = NoMsg \/ KeptOK) => (kept' = NoMsg \/ KeptOK')
    BY <2>1 DEF KeptOK
  <2>5. FrameInit => FrameInit'
    BY <2>1 DEF FrameInit
  <2>6. Begins => Begins'
    BY <2>1 DEF Begins, HeadLen, Places, Length
  <2>8. InBasic => InBasic'
    BY <2>1 DEF InBasic
  <2>9. /\ H' = H /\ HLen' = HLen /\ E' = E /\ Size' = Size /\ FrameKey' = FrameKey
        /\ Op' = Op /\ Before' = Before /\ BasicOK' = BasicOK /\ ExtendedOK' = ExtendedOK /\ Fits' = Fits
        /\ \A n : Plain(n)' = Plain(n)
    BY <2>1, FrameKept
  <2>10. HasBasic' = HasBasic /\ HasWholeHeader' = HasWholeHeader /\ Cur' = Cur
    BY <2>1, <2>9 DEF HasBasic, HasWholeHeader, Cur
  <2>11. InExtended => InExtended'
    BY <2>1, <2>9, <2>10 DEF InExtended
  <2>12. ASSUME NEW n, InPayload(n) PROVE InPayload(n)'
    <3>1. Received(Cur, n) => Received(Cur, n)'
      BY <2>9, <2>10 DEF Received
    <3>. QED
      BY <2>1, <2>9, <2>10, <2>12, <3>1 DEF InPayload
  <2>13. InFrame => InFrame'
    BY <2>8, <2>11, <2>12 DEF InFrame
  <2>. QED
    BY <2>1, <2>2, <2>3, <2>4, <2>5, <2>6, <2>13, Zenon DEF FrameInv
<1>5. UNCHANGED Frames!vars
  BY <1>1 DEF Frames!vars, frameVars, headVars
<1>. QED
  BY <1>2, <1>3, <1>4, <1>5 DEF Inv

LEMMA ReadIs ==
  ASSUME Inv, Read \/ UNCHANGED vars
  PROVE  GotMore
<1>1. got \in Nat /\ MaxRead \in Nat /\ got <= Len(stream)
  BY ReadAssumption DEF Inv, StreamInv
<1>2. CASE Read
  <2>1. PICK n \in 1 .. MaxRead : got + n <= Len(stream) /\ got' = got + n
    BY <1>2 DEF Read, async_read_at_least
  <2>2. got' \in Nat /\ got <= got' /\ got' <= Len(stream)
    BY <1>1, <2>1
  <2>. QED
    BY <1>2, <2>2 DEF GotMore, Read, async_read_at_least
<1>3. CASE UNCHANGED vars
  <2>1. got' = got /\ stream' = stream /\ at' = at
    BY <1>3 DEF vars, streamVars
  <2>2. got' \in Nat /\ got <= got' /\ got' <= Len(stream)
    BY <1>1, <2>1
  <2>. QED
    BY <1>3, <2>1, <2>2 DEF GotMore, vars
<1>. QED
  BY <1>2, <1>3

LEMMA ParseHandshakeKeeps ==
  ASSUME Inv, ParseHandshake
  PROVE  Inv' /\ [Frames!Next]_Frames!vars
<1>1. /\ ParseHead /\ UNCHANGED <<script, m_server>> /\ UNCHANGED frameVars /\ kept' = kept
      /\ start' = IF head' = "open" THEN at' ELSE start
  BY DEF ParseHandshake, frameVars
<1>2. StreamInv' /\ HeadInv' /\ FramesBegin
  BY <1>1, ParseHeadKeeps DEF Inv
<1>3. head # "open"
  BY <1>1 DEF Inv, HeadInv, ParseHead, FillBuffer, ScanLine, process_body
<1>4. FrameInit /\ start = 0 /\ kept = NoMsg /\ FrameInv
  BY <1>3 DEF Inv, FrameInv
<1>5. stream' = stream
  BY <1>1 DEF ParseHead, FillBuffer, ScanLine, process_body, Use
<1>6. /\ m_server' = m_server /\ m_state' = m_state /\ m_basic_header' = m_basic_header
      /\ m_extended_header' = m_extended_header /\ m_bytes_needed' = m_bytes_needed
      /\ m_data_msg' = m_data_msg /\ m_control_msg' = m_control_msg /\ m_current_msg' = m_current_msg
      /\ ec' = ec /\ delivered' = delivered /\ kept' = kept /\ script' = script
  BY <1>1 DEF frameVars
<1>7. FrameInit' /\ FrameTypeOK'
  BY <1>4, <1>6 DEF FrameInv, FrameInit, FrameTypeOK
<1>8. at' \in Nat /\ got' \in Nat /\ at' <= got' /\ got' <= Len(stream)
  BY <1>2, <1>5 DEF StreamInv
<1>9. start' \in Nat /\ start' <= at' /\ kept' = NoMsg /\ m_state' # "READY" /\ ec' = "none"
  <2>1. start' \in {0, at'}
    BY <1>1, <1>4
  <2>. QED
    BY <1>4, <1>6, <1>8, <2>1 DEF FrameInit
<1>10. CASE head' # "open"
  <2>1. start' = 0
    BY <1>1, <1>4, <1>10
  <2>2. FrameInv'
    BY <1>7, <1>9, <1>10, <2>1 DEF FrameInv
  <2>3. UNCHANGED Frames!vars
    BY <1>3, <1>4, <1>5, <1>6, <1>10, <2>1 DEF Frames!vars
  <2>. QED
    BY <1>2, <2>2, <2>3 DEF Inv
<1>11. CASE head' = "open"
  <2>1. start' = at'
    BY <1>1, <1>11
  <2>2. HeadLen' = HeadLen /\ Places(Length)' = Places(Length)
    BY <1>6 DEF HeadLen, Places, Length
  <2>3. Begins'
    BY <1>2, <1>7, <1>9, <1>11, <2>1, <2>2 DEF Begins, FramesBegin, FrameInit
  <2>4. InBasic'
    <3>1. m_bytes_needed' = 2 /\ at' = start' + 2 - m_bytes_needed'
      <4>1. m_bytes_needed' = 2
        BY <1>7 DEF FrameInit, BASIC_HEADER_LENGTH
      <4>2. \A x \in Nat : x = x + 2 - 2
        OBVIOUS
      <4>. QED
        BY <1>9, <2>1, <4>1, <4>2, Zenon
    <3>2. m_state' = "HEADER_BASIC" /\ m_extended_header' = <<>> /\ m_data_msg' = kept' /\ m_control_msg' = NoMsg
      BY <1>7, <1>9 DEF FrameInit
    <3>. QED
      BY <3>1, <3>2 DEF InBasic
  <2>5. FrameInv'
    BY <1>7, <1>9, <1>11, <2>3, <2>4 DEF FrameInv, InFrame
  <2>6. Frames!Open
    <3>1. start' \in 0 .. Len(stream)
      <4>1. Len(stream) \in Nat
        <5>1. stream \in Seq(Nat)
          BY StreamIs DEF Inv
        <5>. QED
          BY <5>1
      <4>. QED
        BY <1>8, <2>1, <4>1
    <3>. QED
      BY <1>3, <1>4, <1>5, <1>6, <1>11, <3>1 DEF Frames!Open
  <2>. QED
    BY <1>2, <2>5, <2>6 DEF Inv, Frames!Next
<1>. QED
  BY <1>10, <1>11

LEMMA handle_read_frameKeeps ==
  ASSUME CodeSizes, Inv, handle_read_frame
  PROVE  Inv' /\ [Frames!Next]_Frames!vars
<1>1. head = "open" /\ MarkFrame /\ UNCHANGED <<headVars, script>> /\ (consume \/ get_message)
  BY DEF handle_read_frame
<1>2. StreamInv' /\ FrameInv' /\ [Frames!Next]_Frames!vars
  <2>1. StreamInv /\ FrameInv
    BY DEF Inv
  <2>2. CASE ReadBasicHeader
    BY <1>1, <2>1, <2>2, BasicStep
  <2>3. CASE ReadExtendedHeader
    BY <1>1, <2>1, <2>3, ExtendedStep
  <2>4. CASE ReadPayload
    BY <1>1, <2>1, <2>4, PayloadStep
  <2>5. CASE get_message
    BY <1>1, <2>1, <2>5, MessageStep
  <2>. QED
    BY <1>1, <2>2, <2>3, <2>4, <2>5 DEF consume
<1>3. HeadInv'
  <2>1. HeadInv
    BY DEF Inv
  <2>2. /\ m_is_server' = m_is_server /\ head' = head /\ scanning' = scanning
        /\ first_line' = first_line /\ m_headers' = m_headers /\ m_header_bytes' = m_header_bytes
        /\ body_needed' = body_needed /\ refusal' = refusal /\ script' = script
    BY <1>1 DEF headVars
  <2>3. HeadTypeOK'
    BY <2>1, <2>2 DEF HeadInv, HeadTypeOK
  <2>4. Verdict' = Verdict
    BY <2>2, VerdictKept
  <2>5. Judged'
    BY <2>1, <2>2, <2>4 DEF HeadInv, Judged
  <2>. QED
    BY <1>1, <2>1, <2>2, <2>3, <2>5 DEF HeadInv
<1>. QED
  BY <1>2, <1>3 DEF Inv

LEMMA NextInv ==
  ASSUME CodeSizes, Inv, [Next]_vars
  PROVE  Inv' /\ [Frames!Next]_Frames!vars
<1>1. CASE Read \/ UNCHANGED vars
  BY <1>1, ReadIs, GotMoreKeeps
<1>2. CASE ParseHandshake
  BY <1>2, ParseHandshakeKeeps
<1>3. CASE handle_read_frame
  BY <1>3, handle_read_frameKeeps
<1>. QED
  BY <1>1, <1>2, <1>3 DEF Next

-----------------------------------------------------------------------------
(***************************************************************************)
(* What prepare_data_frame and prepare_control write is what is read back: *)
(* bytes and their bits, masks, lengths, headers, and a whole frame.       *)
(***************************************************************************)
\* A byte and its bits.
LEMMA BitsOf ==
  ASSUME NEW x \in Byte
  PROVE  x = 128 * ((x \div 128) % 2) + 64 * ((x \div 64) % 2) + 32 * ((x \div 32) % 2)
             + 16 * ((x \div 16) % 2) + 8 * ((x \div 8) % 2) + 4 * ((x \div 4) % 2)
             + 2 * ((x \div 2) % 2) + 1 * ((x \div 1) % 2)
<1>1. x \in Nat /\ x <= 255
  BY Bytes
<1> DEFINE Split(y) == y = 2 * (y \div 2) + (y % 2)
<1>2. ASSUME NEW y \in Nat PROVE Split(y)
  BY <1>2
<1>3. /\ x \div 4 = (x \div 2) \div 2 /\ x \div 8 = (x \div 4) \div 2
      /\ x \div 16 = (x \div 8) \div 2 /\ x \div 32 = (x \div 16) \div 2
  BY <1>1
<1>4. x \div 64 = (x \div 32) \div 2 /\ x \div 128 = (x \div 64) \div 2
  BY <1>1
<1>5. /\ x \div 2 \in Nat /\ x \div 4 \in Nat /\ x \div 8 \in Nat /\ x \div 16 \in Nat
      /\ x \div 32 \in Nat /\ x \div 64 \in Nat
  BY <1>1
<1>6. /\ x = 2 * (x \div 2) + (x % 2)
      /\ x \div 2 = 2 * (x \div 4) + ((x \div 2) % 2)
      /\ x \div 4 = 2 * (x \div 8) + ((x \div 4) % 2)
      /\ x \div 8 = 2 * (x \div 16) + ((x \div 8) % 2)
      /\ x \div 16 = 2 * (x \div 32) + ((x \div 16) % 2)
      /\ x \div 32 = 2 * (x \div 64) + ((x \div 32) % 2)
      /\ x \div 64 = 2 * (x \div 128) + ((x \div 64) % 2)
  <2> HIDE DEF Split
  <2>1. /\ Split(x) /\ Split(x \div 2) /\ Split(x \div 4) /\ Split(x \div 8)
        /\ Split(x \div 16) /\ Split(x \div 32) /\ Split(x \div 64)
    BY <1>1, <1>2, <1>5, Zenon
  <2>. QED
    BY <1>3, <1>4, <2>1, SMTT(30) DEF Split
<1>7. x \div 128 = (x \div 128) % 2 /\ x \div 1 = x
  BY <1>1
<1>. QED
  BY <1>1, <1>6, <1>7

\* x is put together from these bits, and has them.
IsSum(x, a, b, c, d, e, f, g, h) ==
  x = 128 * a + 64 * b + 32 * c + 16 * d + 8 * e + 4 * f + 2 * g + 1 * h
HasBits(x, a, b, c, d, e, f, g, h) ==
  /\ x \in Nat /\ x <= 255
  /\ (x \div 128) % 2 = a /\ (x \div 64) % 2 = b /\ (x \div 32) % 2 = c /\ (x \div 16) % 2 = d
  /\ (x \div 8) % 2 = e /\ (x \div 4) % 2 = f /\ (x \div 2) % 2 = g /\ (x \div 1) % 2 = h

LEMMA SumOfBits ==
  ASSUME NEW a \in 0 .. 1, NEW b \in 0 .. 1, NEW c \in 0 .. 1, NEW d \in 0 .. 1,
         NEW e \in 0 .. 1, NEW f \in 0 .. 1, NEW g \in 0 .. 1, NEW h \in 0 .. 1,
         NEW x, IsSum(x, a, b, c, d, e, f, g, h)
  PROVE  HasBits(x, a, b, c, d, e, f, g, h)
<1>0. x = 128 * a + 64 * b + 32 * c + 16 * d + 8 * e + 4 * f + 2 * g + 1 * h
  BY DEF IsSum
<1>1. x \in Nat /\ x <= 255
  BY <1>0
<1>2. x \div 128 = a
  BY <1>0, <1>1
<1>3. x \div 64 = 2 * a + b
  BY <1>0, <1>1
<1>4. x \div 32 = 4 * a + 2 * b + c
  BY <1>0, <1>1
<1>5. x \div 16 = 8 * a + 4 * b + 2 * c + d
  BY <1>0, <1>1
<1>6. x \div 8 = 16 * a + 8 * b + 4 * c + 2 * d + e
  BY <1>0, <1>1
<1>7. x \div 4 = 32 * a + 16 * b + 8 * c + 4 * d + 2 * e + f
  BY <1>0, <1>1
<1>8. x \div 2 = 64 * a + 32 * b + 16 * c + 8 * d + 4 * e + 2 * f + g
  BY <1>0, <1>1
<1>9. x \div 1 = x
  BY <1>0, <1>1
<1>10. (x \div 128) % 2 = a /\ (x \div 64) % 2 = b
  BY <1>2, <1>3
<1>11. (x \div 32) % 2 = c /\ (x \div 16) % 2 = d
  BY <1>4, <1>5
<1>12. (x \div 8) % 2 = e /\ (x \div 4) % 2 = f
  BY <1>6, <1>7
<1>13. (x \div 2) % 2 = g
  BY <1>8
<1>14. (x \div 1) % 2 = h
  BY <1>0, <1>1, <1>9
<1>. QED
  BY <1>1, <1>10, <1>11, <1>12, <1>13, <1>14, Zenon DEF HasBits

\* A byte masked twice is the byte.
LEMMA XorTwice ==
  ASSUME NEW a \in Byte, NEW k \in Byte
  PROVE  Xor(Xor(a, k), k) = a
<1> DEFINE bit(w) == (a \div w + k \div w) % 2
           x == Xor(a, k)
           back(w) == (x \div w + k \div w) % 2
<1>1. a \in Nat /\ k \in Nat /\ a <= 255 /\ k <= 255
  BY Bytes
<1>2. ASSUME NEW w \in {1, 2, 4, 8, 16, 32, 64, 128}
      PROVE  a \div w \in Nat /\ k \div w \in Nat /\ bit(w) \in 0 .. 1
  <2>1. a \div w \in Nat /\ k \div w \in Nat
    BY <1>1
  <2>. QED
    BY <2>1
<1>3. x = 128 * bit(128) + 64 * bit(64) + 32 * bit(32) + 16 * bit(16)
          + 8 * bit(8) + 4 * bit(4) + 2 * bit(2) + 1 * bit(1)
  BY Zenon DEF Xor
<1>4. Xor(x, k) = 128 * back(128) + 64 * back(64) + 32 * back(32) + 16 * back(16)
                  + 8 * back(8) + 4 * back(4) + 2 * back(2) + 1 * back(1)
  BY Zenon DEF Xor
<1>5. ASSUME NEW w \in {1, 2, 4, 8, 16, 32, 64, 128}, x \in Nat, (x \div w) % 2 = bit(w)
      PROVE  back(w) = (a \div w) % 2
  <2>1. x \div w \in Nat
    BY <1>5
  <2> DEFINE Parity(p, q, r) == r % 2 = (p + q) % 2 => (r + q) % 2 = p % 2
  <2>2. ASSUME NEW p \in Nat, NEW q \in Nat, NEW r \in Nat PROVE Parity(p, q, r)
    OBVIOUS
  <2>3. a \div w \in Nat /\ k \div w \in Nat
    BY <1>2, <1>5
  <2> HIDE DEF x
  <2>4. Parity(a \div w, k \div w, x \div w)
    <3> HIDE DEF Parity
    <3>. QED
      BY <2>1, <2>2, <2>3, Zenon
  <2>. QED
    BY <1>5, <2>4, Zenon
<1> HIDE DEF x
<1>6. /\ x \in Nat
      /\ (x \div 128) % 2 = bit(128) /\ (x \div 64) % 2 = bit(64) /\ (x \div 32) % 2 = bit(32)
      /\ (x \div 16) % 2 = bit(16) /\ (x \div 8) % 2 = bit(8) /\ (x \div 4) % 2 = bit(4)
      /\ (x \div 2) % 2 = bit(2) /\ (x \div 1) % 2 = bit(1)
  <2>1. /\ bit(128) \in 0 .. 1 /\ bit(64) \in 0 .. 1 /\ bit(32) \in 0 .. 1 /\ bit(16) \in 0 .. 1
        /\ bit(8) \in 0 .. 1 /\ bit(4) \in 0 .. 1 /\ bit(2) \in 0 .. 1 /\ bit(1) \in 0 .. 1
    BY <1>2
  <2> HIDE DEF bit
  <2>2. IsSum(x, bit(128), bit(64), bit(32), bit(16), bit(8), bit(4), bit(2), bit(1))
    BY <1>3, Zenon DEF IsSum
  <2>3. HasBits(x, bit(128), bit(64), bit(32), bit(16), bit(8), bit(4), bit(2), bit(1))
    BY <2>1, <2>2, SumOfBits, Zenon
  <2>. QED
    BY <2>3, Zenon DEF HasBits
<1> HIDE DEF bit, back
<1>7. /\ back(128) = (a \div 128) % 2 /\ back(64) = (a \div 64) % 2 /\ back(32) = (a \div 32) % 2
      /\ back(16) = (a \div 16) % 2 /\ back(8) = (a \div 8) % 2 /\ back(4) = (a \div 4) % 2
      /\ back(2) = (a \div 2) % 2 /\ back(1) = (a \div 1) % 2
  BY <1>5, <1>6
<1>. QED
  BY <1>4, <1>7, BitsOf DEF x

\* A number and the byte that follows it; the last byte of a number.
Shifted(high, byte) == 256 * high + byte
Low(x) == x % 256

LEMMA NumberSums ==
  ASSUME NEW bytes \in Seq(Byte)
  PROVE  \E f : /\ Number(bytes) = f[Len(bytes)] /\ f[0] = 0
                /\ \A n \in 1 .. Len(bytes) : f[n] = Shifted(f[n - 1], bytes[n])
<1>1. PICK f : /\ Number(bytes) = f[Len(bytes)]
               /\ f = [n \in 0 .. Len(bytes) |-> Sum(f, bytes, n)]
  BY NumberIs
<1>2. \A n \in 0 .. Len(bytes) : f[n] = Sum(f, bytes, n)
  BY <1>1, Zenon
<1>3. 0 \in 0 .. Len(bytes) /\ \A n \in 1 .. Len(bytes) : n \in 0 .. Len(bytes) /\ n # 0
  OBVIOUS
<1>4. f[0] = 0
  BY <1>2, <1>3 DEF Sum
<1>5. ASSUME NEW n \in 1 .. Len(bytes) PROVE f[n] = Shifted(f[n - 1], bytes[n])
  <2>1. f[n] = Sum(f, bytes, n) /\ n # 0
    BY <1>2, <1>3, Zenon
  <2>. QED
    BY <2>1, Zenon DEF Sum, Shifted
<1>. QED
  BY <1>1, <1>4, <1>5, Zenon

\* A size that fits in two bytes, or in four.
OfTwo(size) == size <= 65535
OfFour(size) == size <= 4294967295

\* A number of two or eight bytes comes back from them.
LEMMA BigEndianTwo ==
  ASSUME NEW size \in Nat, OfTwo(size), NEW bytes \in Seq(Byte), Len(bytes) = 2,
         \A i \in 1 .. 2 : bytes[i] = BigEndian(size, 2)[i]
  PROVE  Number(bytes) = size
<1>1. PICK f : /\ Number(bytes) = f[Len(bytes)] /\ f[0] = 0
               /\ \A n \in 1 .. Len(bytes) : f[n] = Shifted(f[n - 1], bytes[n])
  BY NumberSums
<1>2. f[1] = Shifted(f[0], bytes[1]) /\ f[2] = Shifted(f[1], bytes[2])
  BY <1>1
<1>3. bytes[1] = (size \div 256) % 256 /\ bytes[2] = size % 256
  BY DEF BigEndian
<1>4. size = 256 * (size \div 256) + (size % 256) /\ (size \div 256) % 256 = size \div 256
  BY DEF OfTwo
<1>5. f[0] = 0 /\ f[1] = 256 * f[0] + bytes[1] /\ f[2] = 256 * f[1] + bytes[2]
  BY <1>1, <1>2, Zenon DEF Shifted
<1>6. f[1] = size \div 256
  BY <1>3, <1>4, <1>5
<1>7. f[2] = size
  BY <1>3, <1>4, <1>5, <1>6
<1>. QED
  BY <1>1, <1>7, Zenon

LEMMA BigEndianEight ==
  ASSUME NEW size \in Nat, OfFour(size), NEW bytes \in Seq(Byte), Len(bytes) = 8,
         \A i \in 1 .. 8 : bytes[i] = BigEndian(size, 8)[i]
  PROVE  Number(bytes) = size
<1>1. PICK f : /\ Number(bytes) = f[Len(bytes)] /\ f[0] = 0
               /\ \A n \in 1 .. Len(bytes) : f[n] = Shifted(f[n - 1], bytes[n])
  BY NumberSums
<1>2. /\ f[1] = Shifted(f[0], bytes[1]) /\ f[2] = Shifted(f[1], bytes[2])
      /\ f[3] = Shifted(f[2], bytes[3]) /\ f[4] = Shifted(f[3], bytes[4])
      /\ f[5] = Shifted(f[4], bytes[5]) /\ f[6] = Shifted(f[5], bytes[6])
      /\ f[7] = Shifted(f[6], bytes[7]) /\ f[8] = Shifted(f[7], bytes[8])
  BY <1>1
<1> DEFINE q3 == size \div 16777216
           q2 == size \div 65536
           q1 == size \div 256
<1>3. /\ bytes[1] = 0 /\ bytes[2] = 0 /\ bytes[3] = 0 /\ bytes[4] = 0
      /\ bytes[5] = Low(q3) /\ bytes[6] = Low(q2) /\ bytes[7] = Low(q1)
      /\ bytes[8] = Low(size)
  BY SMTT(30) DEF BigEndian, Low
<1>4. q3 \in Nat
  BY SMTT(30)
<1>5. Low(q3) = q3
  BY SMTT(30) DEF OfFour, Low
<1>6. q2 = Shifted(q3, Low(q2))
  BY SMTT(30) DEF Low, Shifted
<1>7. q1 = Shifted(q2, Low(q1))
  BY SMTT(30) DEF Low, Shifted
<1>8. size = Shifted(q1, Low(size))
  BY SMTT(30) DEF Low, Shifted
<1> HIDE DEF q3, q2, q1
<1>9. Shifted(0, 0) = 0 /\ Shifted(0, q3) = q3
  BY <1>4, SMT DEF Shifted
<1>10. f[0] = 0
  BY <1>1, Zenon
<1>11. f[1] = 0 /\ f[2] = 0 /\ f[3] = 0 /\ f[4] = 0
  BY <1>2, <1>3, <1>9, <1>10, Zenon
<1>12. f[5] = q3
  BY <1>2, <1>3, <1>5, <1>9, <1>11, Zenon
<1>13. f[6] = q2
  BY <1>2, <1>3, <1>6, <1>12, Zenon
<1>14. f[7] = q1
  BY <1>2, <1>3, <1>7, <1>13, Zenon
<1>15. f[8] = size
  BY <1>2, <1>3, <1>8, <1>14, Zenon
<1>. QED
  BY <1>1, <1>15, Zenon

\* How many bytes of a header are for a longer length, and for the key.
Offset(size) == IF size <= 125 THEN 0 ELSE IF size <= 65535 THEN 2 ELSE 8
KeyLen(masked) == IF masked THEN 4 ELSE 0

LEMMA BytesJoined ==
  ASSUME NEW a \in Seq(Byte), NEW b \in Seq(Byte)
  PROVE  /\ a \o b \in Seq(Byte) /\ Len(a \o b) = Len(a) + Len(b)
         /\ \A i \in 1 .. Len(a) : (a \o b)[i] = a[i]
         /\ \A i \in 1 .. Len(b) : (a \o b)[Len(a) + i] = b[i]
OBVIOUS

\* What a written header says.
LEMMA HeaderFields ==
  ASSUME NEW op \in Nat, op <= 15, NEW v \in Nat, v <= 127, NEW fin \in BOOLEAN, NEW masked \in BOOLEAN,
         NEW h, h.b0 = IF fin THEN 128 + op ELSE op, h.b1 = IF masked THEN 128 + v ELSE v
  PROVE  /\ h.b0 \in Byte /\ h.b1 \in Byte
         /\ get_fin(h) <=> fin
         /\ get_masked(h) <=> masked
         /\ get_opcode(h) = op /\ get_basic_size(h) = v
         /\ ~get_rsv1(h) /\ ~get_rsv2(h) /\ ~get_rsv3(h)
<1>1. h.b0 \in Nat /\ h.b0 <= 255 /\ h.b1 \in Nat /\ h.b1 <= 255
  OBVIOUS
<1>2. h.b0 \in Byte /\ h.b1 \in Byte
  BY <1>1, Bytes
<1>3. CASE fin
  <2>1. h.b0 = 128 + op
    BY <1>3
  <2>. QED
    <3>1. CASE masked
      BY <1>2, <1>3, <2>1, <3>1 DEF get_fin, get_masked, get_opcode, get_basic_size, get_rsv1, get_rsv2, get_rsv3
    <3>2. CASE ~masked
      BY <1>2, <1>3, <2>1, <3>2 DEF get_fin, get_masked, get_opcode, get_basic_size, get_rsv1, get_rsv2, get_rsv3
    <3>. QED
      BY <3>1, <3>2
<1>4. CASE ~fin
  <2>1. h.b0 = op
    BY <1>4
  <2>. QED
    <3>1. CASE masked
      BY <1>2, <1>4, <2>1, <3>1 DEF get_fin, get_masked, get_opcode, get_basic_size, get_rsv1, get_rsv2, get_rsv3
    <3>2. CASE ~masked
      BY <1>2, <1>4, <2>1, <3>2 DEF get_fin, get_masked, get_opcode, get_basic_size, get_rsv1, get_rsv2, get_rsv3
    <3>. QED
      BY <3>1, <3>2
<1>. QED
  BY <1>3, <1>4

\* A header as it was asked for.
IsHeader(h, op, size, fin, masked) ==
  /\ h \in BasicHeader
  /\ get_fin(h) <=> fin
  /\ get_opcode(h) = op
  /\ get_masked(h) <=> masked
  /\ ~get_rsv1(h) /\ ~get_rsv2(h) /\ ~get_rsv3(h)
  /\ get_basic_size(h) = basic_value(size)
  /\ get_masking_key_offset(h) = Offset(size)
  /\ get_header_len(h) = 2 + Offset(size) + KeyLen(masked)

\* A header reads back as it was written.
LEMMA WrittenHeader ==
  ASSUME CodeSizes, NEW op \in Opcode, NEW size \in Nat, NEW fin \in BOOLEAN, NEW masked \in BOOLEAN
  PROVE  IsHeader(basic_header(op, size, fin, masked, FALSE), op, size, fin, masked)
<1> DEFINE h == basic_header(op, size, fin, masked, FALSE)
           v == basic_value(size)
<1>1. /\ v \in Nat /\ v <= 127
      /\ size <= 125 => v = size
      /\ size > 125 /\ size <= 65535 => v = 126
      /\ size > 65535 => v = 127
  BY DEF CodeSizes, basic_value, payload_size_code_16bit, payload_size_code_64bit
<1>2. op \in Nat /\ op <= 15
  BY DEF Opcode
<1>3. h = [b0 |-> h.b0, b1 |-> h.b1] /\ h.b0 = Flag(fin, 128) + Flag(FALSE, 64) + op /\ h.b1 = Flag(masked, 128) + v
  BY DEF basic_header
<1> HIDE DEF h, v
<1>4. h.b0 = IF fin THEN 128 + op ELSE op
  BY <1>2, <1>3 DEF Flag
<1>5. h.b1 = IF masked THEN 128 + v ELSE v
  BY <1>1, <1>3 DEF Flag
<1>6. /\ h.b0 \in Byte /\ h.b1 \in Byte
      /\ get_fin(h) <=> fin
      /\ get_masked(h) <=> masked
      /\ get_opcode(h) = op /\ get_basic_size(h) = v
      /\ ~get_rsv1(h) /\ ~get_rsv2(h) /\ ~get_rsv3(h)
  BY <1>1, <1>2, <1>4, <1>5, HeaderFields
<1>7. h \in BasicHeader
  BY <1>3, <1>6, Zenon DEF BasicHeader
<1>8. get_masking_key_offset(h) = Offset(size)
  BY <1>1, <1>6 DEF get_masking_key_offset, Offset, payload_size_code_16bit, payload_size_code_64bit
<1>9. get_header_len(h) = 2 + Offset(size) + KeyLen(masked)
  BY <1>6, <1>8 DEF get_header_len, KeyLen, BASIC_HEADER_LENGTH
<1>. QED
  BY <1>6, <1>7, <1>8, <1>9, Zenon DEF h, v, IsHeader

LEMMA BigEndianBytes ==
  ASSUME NEW size \in Nat, NEW n \in {2, 8}
  PROVE  BigEndian(size, n) \in Seq(Byte) /\ Len(BigEndian(size, n)) = n
<1> DEFINE b == BigEndian(size, n)
<1>1. b = [i \in 1 .. n |-> b[i]]
  BY DEF BigEndian
<1>2. /\ size % 256 \in Byte /\ (size \div 256) % 256 \in Byte
      /\ (size \div 65536) % 256 \in Byte /\ (size \div 16777216) % 256 \in Byte /\ 0 \in Byte
  <2>1. /\ size % 256 \in Nat /\ size % 256 <= 255
        /\ (size \div 256) % 256 \in Nat /\ (size \div 256) % 256 <= 255
        /\ (size \div 65536) % 256 \in Nat /\ (size \div 65536) % 256 <= 255
        /\ (size \div 16777216) % 256 \in Nat /\ (size \div 16777216) % 256 <= 255
    OBVIOUS
  <2>. QED
    BY <2>1, Bytes
<1>3. CASE n = 2
  <2>1. b[1] = (size \div 256) % 256 /\ b[2] = size % 256
    BY <1>3 DEF BigEndian
  <2> HIDE DEF b
  <2>2. \A i \in 1 .. 2 : b[i] \in Byte
    BY <1>2, <2>1
  <2>3. b \in Seq(Byte) /\ Len(b) = n
    BY <1>1, <1>3, <2>2
  <2>. QED
    BY <2>3 DEF b
<1>4. CASE n = 8
  <2>1. /\ b[1] = 0 /\ b[2] = 0 /\ b[3] = 0 /\ b[4] = 0
        /\ b[5] = (size \div 16777216) % 256 /\ b[6] = (size \div 65536) % 256
        /\ b[7] = (size \div 256) % 256 /\ b[8] = size % 256
    BY <1>4 DEF BigEndian
  <2> HIDE DEF b
  <2>2. \A i \in 1 .. 8 : b[i] \in Byte
    BY <1>2, <2>1
  <2>3. b \in Seq(Byte) /\ Len(b) = n
    BY <1>1, <1>4, <2>2
  <2>. QED
    BY <2>3 DEF b
<1>. QED
  BY <1>3, <1>4

LEMMA WrittenExtended ==
  ASSUME CodeSizes, NEW size \in Nat, NEW key \in Seq(Byte)
  PROVE  LET e == extended_header(size, key)
         IN  /\ e \in Seq(Byte) /\ Len(e) = Offset(size) + Len(key)
             /\ \A i \in 1 .. Len(key) : e[Offset(size) + i] = key[i]
             /\ Offset(size) # 0 => \A i \in 1 .. Offset(size) : e[i] = BigEndian(size, Offset(size))[i]
<1> DEFINE c == copy_payload(size)
<1>1. c \in Seq(Byte) /\ Len(c) = Offset(size) /\ (Offset(size) # 0 => c = BigEndian(size, Offset(size)))
  <2>1. CASE size <= 125
    BY <2>1 DEF copy_payload, Offset, CodeSizes
  <2>2. CASE size > 125 /\ size <= 65535
    <3>1. Offset(size) = 2 /\ c = BigEndian(size, 2)
      BY <2>2 DEF copy_payload, Offset, CodeSizes
    <3>. QED
      BY <3>1, BigEndianBytes
  <2>3. CASE size > 65535
    <3>1. Offset(size) = 8 /\ c = BigEndian(size, 8)
      BY <2>3 DEF copy_payload, Offset, CodeSizes
    <3>. QED
      BY <3>1, BigEndianBytes
  <2>. QED
    BY <2>1, <2>2, <2>3
<1>2. extended_header(size, key) = c \o key
  BY DEF extended_header
<1> HIDE DEF c
<1>3. /\ c \o key \in Seq(Byte) /\ Len(c \o key) = Len(c) + Len(key)
      /\ \A i \in 1 .. Len(c) : (c \o key)[i] = c[i]
      /\ \A i \in 1 .. Len(key) : (c \o key)[Len(c) + i] = key[i]
  BY <1>1
<1>. QED
  BY <1>1, <1>2, <1>3

\* The bytes of a frame, one by one: of its basic header h, a length of o bytes, a key, all
\* in all n bytes, and the payload.
Consists(frame, h, o, n, payload, masked, key) ==
  /\ frame \in Seq(Byte) /\ Len(frame) = n + Len(payload)
  /\ frame[1] = h.b0 /\ frame[2] = h.b1
  /\ o # 0 => \A i \in 1 .. o : frame[2 + i] = BigEndian(Len(payload), o)[i]
  /\ masked => \A i \in 1 .. 4 : frame[2 + o + i] = key[i]
  /\ \A i \in 1 .. Len(payload) :
        frame[n + i] = IF masked THEN Xor(payload[i], key[1 + ((i - 1) % 4)]) ELSE payload[i]

LEMMA EncodedIs ==
  ASSUME CodeSizes, NEW op \in Opcode, NEW payload \in Seq(Byte), NEW fin \in BOOLEAN, NEW masked \in BOOLEAN,
         NEW key \in Seq(Byte), Len(key) = 4
  PROVE  Consists(Encoded(op, payload, fin, masked, key), basic_header(op, Len(payload), fin, masked, FALSE),
                  Offset(Len(payload)), 2 + Offset(Len(payload)) + KeyLen(masked), payload, masked, key)
<1> DEFINE size == Len(payload)
           h == basic_header(op, size, fin, masked, FALSE)
           k == IF masked THEN key ELSE <<>>
           e == extended_header(size, k)
           p == IF masked THEN byte_mask(payload, key) ELSE payload
           n == 2 + Offset(size) + KeyLen(masked)
           head1 == <<h.b0, h.b1>>
<1>1. /\ h \in BasicHeader /\ get_header_len(h) = n
  <2>1. size \in Nat
    OBVIOUS
  <2> HIDE DEF size
  <2>. QED
    BY <2>1, WrittenHeader, Zenon DEF IsHeader
<1>2. k \in Seq(Byte) /\ Len(k) = KeyLen(masked)
  <2>1. CASE masked
    BY <2>1 DEF KeyLen
  <2>2. CASE ~masked
    BY <2>2 DEF KeyLen
  <2>. QED
    BY <2>1, <2>2
<1>3. /\ e \in Seq(Byte) /\ Len(e) = Offset(size) + KeyLen(masked)
      /\ masked => \A i \in 1 .. 4 : e[Offset(size) + i] = key[i]
      /\ Offset(size) # 0 => \A i \in 1 .. Offset(size) : e[i] = BigEndian(size, Offset(size))[i]
  <2> HIDE DEF k
  <2>1. size \in Nat
    OBVIOUS
  <2>2. /\ e \in Seq(Byte) /\ Len(e) = Offset(size) + Len(k)
        /\ \A i \in 1 .. Len(k) : e[Offset(size) + i] = k[i]
        /\ Offset(size) # 0 => \A i \in 1 .. Offset(size) : e[i] = BigEndian(size, Offset(size))[i]
    BY <1>2, <2>1, WrittenExtended
  <2>3. masked => k = key
    BY DEF k
  <2> HIDE DEF e, size
  <2>. QED
    BY <1>2, <2>2, <2>3
<1>4. /\ p \in Seq(Byte) /\ Len(p) = size
      /\ \A i \in 1 .. size : p[i] = IF masked THEN Xor(payload[i], key[1 + ((i - 1) % 4)]) ELSE payload[i]
  <2>1. CASE masked
    <3>1. ASSUME NEW i \in 1 .. size PROVE Xor(payload[i], key[1 + ((i - 1) % 4)]) \in Byte
      <4>1. payload[i] \in Byte /\ 1 + ((i - 1) % 4) \in 1 .. Len(key)
        OBVIOUS
      <4>2. key[1 + ((i - 1) % 4)] \in Byte
        BY <4>1, ElementOfSeq
      <4>. QED
        BY <4>1, <4>2, XorIsByte
    <3>2. p = [i \in 1 .. size |-> Xor(payload[i], key[1 + ((i - 1) % 4)])]
      BY <2>1 DEF byte_mask
    <3> HIDE DEF p
    <3>3. p \in Seq(Byte) /\ Len(p) = size
      BY <3>1, <3>2
    <3>4. \A i \in 1 .. size : p[i] = Xor(payload[i], key[1 + ((i - 1) % 4)])
      BY <3>2, Zenon
    <3>. QED
      BY <2>1, <3>3, <3>4, Zenon
  <2>2. CASE ~masked
    BY <2>2
  <2>. QED
    BY <2>1, <2>2
<1>5. head1 \in Seq(Byte) /\ Len(head1) = 2 /\ head1[1] = h.b0 /\ head1[2] = h.b1
  <2>1. h.b0 \in Byte /\ h.b1 \in Byte
    BY <1>1 DEF BasicHeader
  <2> HIDE DEF h
  <2>. QED
    BY <2>1
<1>6. Offset(size) \in {0, 2, 8} /\ KeyLen(masked) \in {0, 4} /\ size \in Nat
  BY DEF Offset, KeyLen
<1>7. n \in Nat /\ n - 2 = Len(e)
  BY <1>3, <1>6
<1>8. SubSeq(e, 1, n - 2) = e
  <2> HIDE DEF e, n
  <2>. QED
    BY <1>3, <1>7
<1>9. Encoded(op, payload, fin, masked, key) = (head1 \o e) \o p
  <2>1. Encoded(op, payload, fin, masked, key) = prepare_header(h, e) \o p
    BY Zenon DEF Encoded
  <2>2. prepare_header(h, e) = head1 \o SubSeq(e, 1, n - 2)
    BY <1>1, Zenon DEF prepare_header, BASIC_HEADER_LENGTH
  <2>. QED
    BY <1>8, <2>1, <2>2, Zenon
<1> HIDE DEF h, k, e, p, head1, n
<1> DEFINE both == head1 \o e
<1>10. /\ both \in Seq(Byte) /\ Len(both) = 2 + Len(e)
       /\ both[1] = h.b0 /\ both[2] = h.b1
       /\ \A i \in 1 .. Len(e) : both[2 + i] = e[i]
  <2>1. /\ both \in Seq(Byte) /\ Len(both) = Len(head1) + Len(e)
        /\ \A i \in 1 .. Len(head1) : both[i] = head1[i]
        /\ \A i \in 1 .. Len(e) : both[Len(head1) + i] = e[i]
    BY <1>3, <1>5, BytesJoined
  <2> HIDE DEF both
  <2>. QED
    BY <1>5, <2>1
<1>11. Len(both) = n /\ n >= 2
  BY <1>3, <1>6, <1>7, <1>10
<1> HIDE DEF both, size
<1>12. /\ both \o p \in Seq(Byte) /\ Len(both \o p) = n + size
       /\ \A i \in 1 .. n : (both \o p)[i] = both[i]
       /\ \A i \in 1 .. size : (both \o p)[n + i] = p[i]
  <2>1. /\ both \o p \in Seq(Byte) /\ Len(both \o p) = Len(both) + Len(p)
        /\ \A i \in 1 .. Len(both) : (both \o p)[i] = both[i]
        /\ \A i \in 1 .. Len(p) : (both \o p)[Len(both) + i] = p[i]
    BY <1>4, <1>10, BytesJoined
  <2>. QED
    BY <1>4, <1>11, <2>1, Zenon
<1>13. ASSUME NEW i \in 1 .. Len(e) PROVE (both \o p)[2 + i] = e[i]
  <2>1. 2 + i \in 1 .. n
    BY <1>7
  <2>. QED
    BY <1>10, <1>12, <2>1
<1>14. \A i \in 1 .. 4 : masked => Offset(size) + i \in 1 .. Len(e) /\ 2 + (Offset(size) + i) = 2 + Offset(size) + i
  <2>1. PICK o \in {0, 2, 8} : o = Offset(size)
    BY <1>6, Zenon
  <2>2. masked => KeyLen(masked) = 4
    BY Zenon DEF KeyLen
  <2>3. masked => Len(e) = o + 4
    BY <1>3, <2>1, <2>2
  <2>. QED
    BY <2>1, <2>3
<1>15. \A i \in 1 .. Offset(size) : i \in 1 .. Len(e)
  BY <1>3, <1>6
<1>16. masked => \A i \in 1 .. 4 : (both \o p)[2 + Offset(size) + i] = key[i]
  BY <1>3, <1>13, <1>14
<1>17. (both \o p)[1] = h.b0 /\ (both \o p)[2] = h.b1
  BY <1>10, <1>11, <1>12
<1>. QED
  BY <1>3, <1>4, <1>9, <1>12, <1>13, <1>15, <1>16, <1>17, Zenon DEF both, h, n, size, Consists

\* A frame that stands in a stream behind the first a bytes.
StandsAt(s, a, frame) ==
  /\ a + Len(frame) <= Len(s)
  /\ \A i \in 1 .. Len(frame) : s[a + i] = frame[i]

LEMMA Stretch ==
  ASSUME NEW s \in Seq(Nat), NEW a \in Nat, NEW n \in Nat, a + n <= Len(s)
  PROVE  /\ Len(SubSeq(s, a + 1, a + n)) = n
         /\ \A i \in 1 .. n : SubSeq(s, a + 1, a + n)[i] = s[a + i]
         /\ SubSeq(s, a + 1, a + n) \in Seq(Nat)
OBVIOUS

\* Sequences of one length with the same elements.
LEMMA SameSeq ==
  ASSUME NEW S, NEW a \in Seq(S), NEW b \in Seq(S), Len(a) = 4, Len(b) = 4,
         \A i \in 1 .. 4 : a[i] = b[i]
  PROVE  a = b
OBVIOUS

\* A frame that is read back at offset a of a stream.
IsRead(s, a, frame, op, payload, fin, masked) ==
  LET h == [b0 |-> s[a + 1], b1 |-> s[a + 2]]
      len == get_header_len(h)
      e == SubSeq(s, a + 3, a + len)
      size == Len(payload)
  IN  /\ IsHeader(h, op, size, fin, masked)
      /\ Len(frame) = len + size
      /\ get_payload_size(h, e) = size
      /\ Unmasked(s, a + len, size, masked, get_masking_key(h, e)) = payload

\* What is written is what is read, whatever the opcode, the size and the key.
LEMMA EncodedIsRead ==
  ASSUME CodeSizes, NEW op \in Opcode, NEW payload \in Seq(Byte), OfFour(Len(payload)),
         NEW fin \in BOOLEAN, NEW masked \in BOOLEAN, NEW key \in Seq(Byte), Len(key) = 4,
         NEW s \in Seq(Nat), NEW a \in Nat, StandsAt(s, a, Encoded(op, payload, fin, masked, key))
  PROVE  IsRead(s, a, Encoded(op, payload, fin, masked, key), op, payload, fin, masked)
<1> DEFINE frame == Encoded(op, payload, fin, masked, key)
           size == Len(payload)
           g == basic_header(op, size, fin, masked, FALSE)
           h == [b0 |-> s[a + 1], b1 |-> s[a + 2]]
           o == Offset(size)
           n == 2 + o + KeyLen(masked)
           e == SubSeq(s, a + 3, a + n)
<1>1. /\ frame \in Seq(Byte) /\ Len(frame) = n + size
      /\ frame[1] = g.b0 /\ frame[2] = g.b1
      /\ o # 0 => \A i \in 1 .. o : frame[2 + i] = BigEndian(size, o)[i]
      /\ masked => \A i \in 1 .. 4 : frame[2 + o + i] = key[i]
      /\ \A i \in 1 .. size : frame[n + i] = IF masked THEN Xor(payload[i], key[1 + ((i - 1) % 4)]) ELSE payload[i]
  <2>1. Consists(frame, g, o, n, payload, masked, key)
    BY EncodedIs, Zenon
  <2> HIDE DEF frame, g, o, n
  <2>. QED
    BY <2>1, Zenon DEF Consists
<1>2. size \in Nat
  OBVIOUS
<1>3. o \in {0, 2, 8} /\ KeyLen(masked) \in {0, 4} /\ (masked => KeyLen(masked) = 4) /\ n \in Nat
  BY DEF Offset, KeyLen
<1>4. a + Len(frame) <= Len(s) /\ \A i \in 1 .. Len(frame) : s[a + i] = frame[i]
  BY Zenon DEF StandsAt
<1>5. IsHeader(g, op, size, fin, masked)
  <2> HIDE DEF size
  <2>. QED
    BY <1>2, WrittenHeader, Zenon
<1> HIDE DEF frame, size, g, o, n
<1>a. /\ n \in Nat /\ n >= 2 /\ Len(s) \in Nat /\ a + n + size <= Len(s)
      /\ o \in Nat /\ n - 2 \in Nat
      /\ masked => n = o + 6
  <2>1. n = 2 + o + KeyLen(masked)
    BY DEF n
  <2>2. Len(frame) = n + size /\ a + Len(frame) <= Len(s) /\ Len(s) \in Nat
    BY <1>1, <1>4
  <2>3. PICK l \in {0, 4} : KeyLen(masked) = l /\ (masked => l = 4)
    BY <1>3
  <2>4. PICK m \in {0, 2, 8} : o = m
    BY <1>3
  <2>5. n = 2 + m + l
    BY <2>1, <2>3, <2>4
  <2>. QED
    BY <1>2, <2>2, <2>3, <2>4, <2>5
<1>6. h = g
  <2>1. 1 \in 1 .. Len(frame) /\ 2 \in 1 .. Len(frame)
    BY <1>1, <1>2, <1>3 DEF n
  <2>2. s[a + 1] = g.b0 /\ s[a + 2] = g.b1
    BY <1>1, <1>4, <2>1
  <2>3. g = [b0 |-> g.b0, b1 |-> g.b1]
    BY DEF g, basic_header
  <2>. QED
    BY <2>2, <2>3, Zenon
<1>7. IsHeader(h, op, size, fin, masked) /\ get_header_len(h) = n
  BY <1>5, <1>6, Zenon DEF IsHeader, n, o
<1> HIDE DEF h
<1>8. /\ e \in Seq(Byte) /\ Len(e) = n - 2
      /\ \A i \in 1 .. n - 2 : e[i] = frame[2 + i]
  <2>1. a + 2 \in Nat /\ n - 2 \in Nat /\ (a + 2) + (n - 2) <= Len(s) /\ (a + 2) + 1 = a + 3 /\ (a + 2) + (n - 2) = a + n
    BY <1>2, <1>a
  <2>2. Len(e) = n - 2 /\ \A i \in 1 .. n - 2 : e[i] = s[(a + 2) + i]
    <3>1. Len(SubSeq(s, (a + 2) + 1, (a + 2) + (n - 2))) = n - 2
          /\ \A i \in 1 .. n - 2 : SubSeq(s, (a + 2) + 1, (a + 2) + (n - 2))[i] = s[(a + 2) + i]
      BY <2>1, Stretch, Zenon
    <3>. QED
      BY <2>1, <3>1, Zenon
  <2>3. ASSUME NEW i \in 1 .. n - 2 PROVE s[(a + 2) + i] = frame[2 + i] /\ frame[2 + i] \in Byte
    <3>1. 2 + i \in 1 .. Len(frame) /\ (a + 2) + i = a + (2 + i)
      BY <1>1, <1>2, <1>3
    <3>. QED
      BY <1>1, <1>4, <3>1, ElementOfSeq, Zenon
  <2>4. e = [i \in 1 .. n - 2 |-> e[i]]
    <3>1. e \in Seq(Nat)
      BY <1>3, <2>1
    <3> HIDE DEF e
    <3>. QED
      BY <2>2, <3>1
  <2> HIDE DEF e
  <2>5. \A i \in 1 .. n - 2 : e[i] = frame[2 + i] /\ e[i] \in Byte
    BY <2>2, <2>3, Zenon
  <2>6. ASSUME NEW m \in Nat, NEW f, \A i \in 1 .. m : f[i] \in Byte
        PROVE  [i \in 1 .. m |-> f[i]] \in Seq(Byte)
    BY <2>6
  <2>. QED
    BY <2>1, <2>2, <2>4, <2>5, <2>6, Zenon
<1> HIDE DEF e
<1>9. get_payload_size(h, e) = size
  <2>1. get_basic_size(h) = basic_value(size)
    BY <1>7, Zenon DEF IsHeader
  <2>2. CASE size <= 125
    BY <2>1, <2>2 DEF get_payload_size, basic_value, CodeSizes
  <2>3. CASE size > 125 /\ size <= 65535
    <3>1. get_payload_size(h, e) = Number(SubSeq(e, 1, 2)) /\ o = 2
      BY <1>2, <2>1, <2>3 DEF get_payload_size, get_extended_size, basic_value, CodeSizes, payload_size_code_16bit, Offset, o
    <3> DEFINE b == SubSeq(e, 1, 2)
    <3>2. 2 <= n - 2 /\ n - 2 \in Nat
      BY <1>3, <3>1 DEF n
    <3>3. b \in Seq(Byte) /\ Len(b) = 2 /\ \A i \in 1 .. 2 : b[i] = e[i]
      BY <1>8, <3>2
    <3>4. \A i \in 1 .. 2 : e[i] = BigEndian(size, 2)[i]
      <4>1. \A i \in 1 .. 2 : i \in 1 .. n - 2
        BY <3>2
      <4>2. \A i \in 1 .. 2 : e[i] = frame[2 + i]
        BY <1>8, <4>1, Zenon
      <4>3. o = 2 /\ o # 0
        BY <3>1
      <4>4. \A i \in 1 .. o : frame[2 + i] = BigEndian(size, o)[i]
        BY <1>1, <4>3, Zenon
      <4>5. \A i \in 1 .. 2 : frame[2 + i] = BigEndian(size, 2)[i]
        BY <4>3, <4>4, Zenon
      <4>. QED
        BY <4>2, <4>5, Zenon
    <3> HIDE DEF b
    <3>5. \A i \in 1 .. 2 : b[i] = BigEndian(size, 2)[i]
      BY <3>3, <3>4, Zenon
    <3>6. OfTwo(size)
      BY <2>3 DEF OfTwo
    <3>7. Number(b) = size
      BY <1>2, <3>3, <3>5, <3>6, BigEndianTwo
    <3>. QED
      BY <3>1, <3>7 DEF b
  <2>4. CASE size > 65535
    <3>1. get_payload_size(h, e) = Number(SubSeq(e, 1, 8)) /\ o = 8
      BY <1>2, <2>1, <2>4 DEF get_payload_size, get_jumbo_size, basic_value, CodeSizes, payload_size_code_16bit, payload_size_code_64bit, Offset, o
    <3> DEFINE b == SubSeq(e, 1, 8)
    <3>2. 8 <= n - 2 /\ n - 2 \in Nat
      BY <1>3, <3>1 DEF n
    <3>3. b \in Seq(Byte) /\ Len(b) = 8 /\ \A i \in 1 .. 8 : b[i] = e[i]
      BY <1>8, <3>2
    <3>4. \A i \in 1 .. 8 : e[i] = BigEndian(size, 8)[i]
      <4>1. \A i \in 1 .. 8 : i \in 1 .. n - 2
        BY <3>2
      <4>2. \A i \in 1 .. 8 : e[i] = frame[2 + i]
        BY <1>8, <4>1, Zenon
      <4>3. o = 8 /\ o # 0
        BY <3>1
      <4>4. \A i \in 1 .. o : frame[2 + i] = BigEndian(size, o)[i]
        BY <1>1, <4>3, Zenon
      <4>5. \A i \in 1 .. 8 : frame[2 + i] = BigEndian(size, 8)[i]
        BY <4>3, <4>4, Zenon
      <4>. QED
        BY <4>2, <4>5, Zenon
    <3> HIDE DEF b
    <3>5. \A i \in 1 .. 8 : b[i] = BigEndian(size, 8)[i]
      BY <3>3, <3>4, Zenon
    <3>6. Number(b) = size
      <4>1. OfFour(size)
        BY DEF size
      <4>. QED
        BY <1>2, <3>3, <3>5, <4>1, BigEndianEight
    <3>. QED
      BY <3>1, <3>6 DEF b
  <2>. QED
    BY <1>2, <2>2, <2>3, <2>4
<1>10. masked => get_masking_key(h, e) = key
  <2>1. SUFFICES ASSUME masked PROVE get_masking_key(h, e) = key
    OBVIOUS
  <2>2. get_masked(h) /\ get_masking_key_offset(h) = o
    BY <1>7, <2>1, Zenon DEF IsHeader, o
  <2> DEFINE k == SubSeq(e, o + 1, o + 4)
  <2>3. get_masking_key(h, e) = k
    BY <2>2, Zenon DEF get_masking_key
  <2>4. o \in Nat /\ Len(e) = o + 4
    BY <1>8, <1>a, <2>1
  <2>5. k \in Seq(Byte) /\ Len(k) = 4 /\ \A i \in 1 .. 4 : k[i] = e[o + i]
    BY <1>8, <2>4
  <2>6. ASSUME NEW i \in 1 .. 4 PROVE e[o + i] = key[i]
    <3>1. o + i \in 1 .. n - 2 /\ 2 + (o + i) = 2 + o + i
      BY <1>8, <2>4
    <3>2. e[o + i] = frame[2 + (o + i)]
      BY <1>8, <3>1, Zenon
    <3>3. frame[2 + o + i] = key[i]
      BY <1>1, <2>1, Zenon
    <3>. QED
      BY <3>1, <3>2, <3>3, Zenon
  <2> HIDE DEF k
  <2>7. k = key
    <3>1. \A i \in 1 .. 4 : k[i] = key[i]
      BY <2>5, <2>6, Zenon
    <3>. QED
      BY <2>5, <3>1, SameSeq
  <2>. QED
    BY <2>3, <2>7
<1>11. Unmasked(s, a + n, size, masked, get_masking_key(h, e)) = payload
  <2> DEFINE u == SubSeq(s, (a + n) + 1, (a + n) + size)
  <2>1. a + n \in Nat /\ (a + n) + size <= Len(s)
    BY <1>2, <1>a
  <2>2. Len(u) = size /\ \A i \in 1 .. size : u[i] = s[(a + n) + i]
    BY <1>2, <2>1, Stretch, Zenon
  <2>3. u = [i \in 1 .. size |-> u[i]]
    <3>1. u \in Seq(Nat)
      BY <1>2, <2>1, Stretch, Zenon
    <3> HIDE DEF u
    <3>. QED
      BY <2>2, <3>1
  <2>4. payload = [i \in 1 .. size |-> payload[i]] /\ \A i \in 1 .. size : payload[i] \in Byte
    BY DEF size
  <2>5. Unmasked(s, a + n, size, masked, get_masking_key(h, e)) = IF masked THEN byte_mask(u, get_masking_key(h, e)) ELSE u
    BY Zenon DEF Unmasked
  <2> HIDE DEF u
  <2>6. ASSUME NEW i \in 1 .. size PROVE u[i] = IF masked THEN Xor(payload[i], key[1 + ((i - 1) % 4)]) ELSE payload[i]
    <3>1. n + i \in 1 .. Len(frame) /\ (a + n) + i = a + (n + i)
      BY <1>1, <1>2, <1>3
    <3>2. u[i] = frame[n + i]
      BY <1>4, <2>2, <3>1, Zenon
    <3>. QED
      BY <1>1, <3>2, Zenon
  <2>7. CASE ~masked
    <3>1. \A i \in 1 .. size : u[i] = payload[i]
      BY <2>6, <2>7
    <3>2. u = payload
      BY <2>3, <2>4, <3>1
    <3>. QED
      BY <2>5, <2>7, <3>2
  <2>8. CASE masked
    <3>1. byte_mask(u, key) = [i \in 1 .. size |-> Xor(u[i], key[1 + ((i - 1) % 4)])]
      BY <2>2, Zenon DEF byte_mask
    <3>2. ASSUME NEW i \in 1 .. size PROVE Xor(u[i], key[1 + ((i - 1) % 4)]) = payload[i]
      <4>1. 1 + ((i - 1) % 4) \in 1 .. Len(key)
        BY <1>2
      <4>2. key[1 + ((i - 1) % 4)] \in Byte
        BY <4>1, ElementOfSeq
      <4>3. u[i] = Xor(payload[i], key[1 + ((i - 1) % 4)]) /\ payload[i] \in Byte
        BY <2>4, <2>6, <2>8
      <4>. QED
        BY <4>2, <4>3, XorTwice, Zenon
    <3>3. byte_mask(u, key) = payload
      BY <2>4, <3>1, <3>2
    <3>. QED
      BY <1>10, <2>5, <2>8, <3>3, Zenon
  <2>. QED
    BY <2>7, <2>8
<1>. QED
  BY <1>1, <1>7, <1>9, <1>11, Zenon DEF e, h, n, size, frame, IsRead

-----------------------------------------------------------------------------
(***************************************************************************)
(* What the calls of a peer write, and the messages they add up to, call   *)
(* by call.                                                                *)
(***************************************************************************)
StepWritten(f, server, sends, k) == IF k = 0 THEN <<>> ELSE f[k - 1] \o Prepared(server, sends[k]).bytes
StepJoined(f, sends, k) == IF k = 0 THEN [message |-> NoMsg, sent |-> <<>>] ELSE Add(f[k - 1], sends[k])

LEMMA WrittenIs ==
  ASSUME NEW server, NEW sends, Len(sends) \in Nat
  PROVE  /\ Written(server, sends)[0] = <<>>
         /\ \A k \in 1 .. Len(sends) :
               Written(server, sends)[k] = Written(server, sends)[k - 1] \o Prepared(server, sends[k]).bytes
<1> DEFINE T == {n \in Nat : \E f : f = [m \in 0 .. n |-> StepWritten(f, server, sends, m)]}
<1>1. 0 \in T
  <2>1. [m \in 0 .. 0 |-> <<>>] = [m \in 0 .. 0 |-> StepWritten([k \in 0 .. 0 |-> <<>>], server, sends, m)]
    BY DEF StepWritten
  <2>. QED
    BY <2>1
<1>2. ASSUME NEW n \in Nat, n \in T PROVE n + 1 \in T
  <2>1. PICK f : f = [m \in 0 .. n |-> StepWritten(f, server, sends, m)]
    BY <1>2
  <2> DEFINE last == f[n] \o Prepared(server, sends[n + 1]).bytes
             g == [m \in 0 .. n + 1 |-> IF m = n + 1 THEN last ELSE f[m]]
  <2> HIDE DEF last
  <2>2. ASSUME NEW m \in 0 .. n + 1 PROVE g[m] = StepWritten(g, server, sends, m)
    <3>1. CASE m = n + 1
      <4>1. g[n + 1] = last /\ g[n] = f[n] /\ n + 1 # 0 /\ (n + 1) - 1 = n
        OBVIOUS
      <4> HIDE DEF g
      <4>. QED
        BY <3>1, <4>1, Zenon DEF StepWritten, last
    <3>2. CASE m # n + 1
      <4>1. m \in 0 .. n /\ g[m] = f[m]
        BY <3>2
      <4>2. m # 0 => m - 1 \in 0 .. n + 1 /\ m - 1 # n + 1
        BY <4>1
      <4>3. m # 0 => g[m - 1] = f[m - 1]
        BY <4>2
      <4>4. f[m] = StepWritten(f, server, sends, m)
        BY <2>1, <4>1, Zenon
      <4> HIDE DEF g
      <4>. QED
        BY <4>1, <4>3, <4>4, Zenon DEF StepWritten
    <3>. QED
      BY <3>1, <3>2
  <2>3. g = [m \in 0 .. n + 1 |-> g[m]]
    OBVIOUS
  <2> HIDE DEF g
  <2>4. g = [m \in 0 .. n + 1 |-> StepWritten(g, server, sends, m)]
    BY <2>2, <2>3, Zenon
  <2>. QED
    BY <2>4
<1>3. Len(sends) \in T
  <2> HIDE DEF T
  <2>. QED
    BY <1>1, <1>2, EveryNumber
<1> DEFINE f == CHOOSE g : g = [k \in 0 .. Len(sends) |-> StepWritten(g, server, sends, k)]
<1>4. f = [k \in 0 .. Len(sends) |-> StepWritten(f, server, sends, k)]
  BY <1>3
<1>5. Written(server, sends) = f
  BY Zenon DEF Written, StepWritten
<1> HIDE DEF f
<1>6. \A k \in 0 .. Len(sends) : f[k] = StepWritten(f, server, sends, k)
  BY <1>4, Zenon
<1>7. 0 \in 0 .. Len(sends) /\ \A k \in 1 .. Len(sends) : k \in 0 .. Len(sends) /\ k # 0
  OBVIOUS
<1>. QED
  BY <1>5, <1>6, <1>7, Zenon DEF StepWritten

LEMMA JoinedIs ==
  ASSUME NEW sends, Len(sends) \in Nat
  PROVE  /\ Joined(sends)[0] = [message |-> NoMsg, sent |-> <<>>]
         /\ \A k \in 1 .. Len(sends) : Joined(sends)[k] = Add(Joined(sends)[k - 1], sends[k])
<1> DEFINE none == [message |-> NoMsg, sent |-> <<>>]
           T == {n \in Nat : \E f : f = [m \in 0 .. n |-> StepJoined(f, sends, m)]}
<1>1. 0 \in T
  <2>1. [m \in 0 .. 0 |-> none] = [m \in 0 .. 0 |-> StepJoined([k \in 0 .. 0 |-> none], sends, m)]
    BY DEF StepJoined
  <2>. QED
    BY <2>1
<1>2. ASSUME NEW n \in Nat, n \in T PROVE n + 1 \in T
  <2>1. PICK f : f = [m \in 0 .. n |-> StepJoined(f, sends, m)]
    BY <1>2
  <2> DEFINE last == Add(f[n], sends[n + 1])
             g == [m \in 0 .. n + 1 |-> IF m = n + 1 THEN last ELSE f[m]]
  <2> HIDE DEF last
  <2>2. ASSUME NEW m \in 0 .. n + 1 PROVE g[m] = StepJoined(g, sends, m)
    <3>1. CASE m = n + 1
      <4>1. g[n + 1] = last /\ g[n] = f[n] /\ n + 1 # 0 /\ (n + 1) - 1 = n
        OBVIOUS
      <4> HIDE DEF g
      <4>. QED
        BY <3>1, <4>1, Zenon DEF StepJoined, last
    <3>2. CASE m # n + 1
      <4>1. m \in 0 .. n /\ g[m] = f[m]
        BY <3>2
      <4>2. m # 0 => m - 1 \in 0 .. n + 1 /\ m - 1 # n + 1
        BY <4>1
      <4>3. m # 0 => g[m - 1] = f[m - 1]
        BY <4>2
      <4>4. f[m] = StepJoined(f, sends, m)
        BY <2>1, <4>1, Zenon
      <4> HIDE DEF g
      <4>. QED
        BY <4>1, <4>3, <4>4, Zenon DEF StepJoined
    <3>. QED
      BY <3>1, <3>2
  <2>3. g = [m \in 0 .. n + 1 |-> g[m]]
    OBVIOUS
  <2> HIDE DEF g
  <2>4. g = [m \in 0 .. n + 1 |-> StepJoined(g, sends, m)]
    BY <2>2, <2>3, Zenon
  <2>. QED
    BY <2>4
<1>3. Len(sends) \in T
  <2> HIDE DEF T
  <2>. QED
    BY <1>1, <1>2, EveryNumber
<1> DEFINE f == CHOOSE g : g = [k \in 0 .. Len(sends) |-> StepJoined(g, sends, k)]
<1>4. f = [k \in 0 .. Len(sends) |-> StepJoined(f, sends, k)]
  BY <1>3
<1>5. Joined(sends) = f
  BY Zenon DEF Joined, StepJoined
<1> HIDE DEF f
<1>6. \A k \in 0 .. Len(sends) : f[k] = StepJoined(f, sends, k)
  BY <1>4, Zenon
<1>7. 0 \in 0 .. Len(sends) /\ \A k \in 1 .. Len(sends) : k \in 0 .. Len(sends) /\ k # 0
  OBVIOUS
<1>. QED
  BY <1>5, <1>6, <1>7, Zenon DEF StepJoined

\* A sequence that goes on as another one.
Extends(a, b) == Len(a) <= Len(b) /\ \A i \in 1 .. Len(a) : b[i] = a[i]

LEMMA Growing ==
  ASSUME NEW S, NEW n \in Nat, NEW f, \A k \in 0 .. n : f[k] \in Seq(S),
         \A k \in 1 .. n : Extends(f[k - 1], f[k])
  PROVE  \A j, k \in 0 .. n : j <= k => Extends(f[j], f[k])
<1> SUFFICES ASSUME NEW j \in 0 .. n PROVE \A k \in 0 .. n : j <= k => Extends(f[j], f[k])
  BY Zenon
<1> DEFINE T == {k \in Nat : j <= k /\ k <= n => Extends(f[j], f[k])}
<1>1. Extends(f[j], f[j])
  <2>1. Len(f[j]) \in Nat
    <3>1. f[j] \in Seq(S)
      OBVIOUS
    <3>. QED
      BY <3>1
  <2>. QED
    BY <2>1 DEF Extends
<1>2. 0 \in T
  <2>1. j <= 0 => j = 0
    OBVIOUS
  <2>. QED
    BY <1>1, <2>1
<1>3. ASSUME NEW k \in Nat, k \in T PROVE k + 1 \in T
  <2>1. SUFFICES ASSUME j <= k + 1, k + 1 <= n PROVE Extends(f[j], f[k + 1])
    OBVIOUS
  <2>2. CASE j = k + 1
    BY <1>1, <2>2
  <2>3. CASE j # k + 1
    <3>1. j <= k /\ k <= n /\ k \in 0 .. n /\ k + 1 \in 1 .. n /\ (k + 1) - 1 = k
      BY <2>1, <2>3
    <3>2. Extends(f[j], f[k]) /\ Extends(f[k], f[k + 1])
      <4>1. Extends(f[j], f[k])
        BY <1>3, <3>1
      <4>2. Extends(f[(k + 1) - 1], f[k + 1])
        BY <3>1, Zenon
      <4>. QED
        BY <3>1, <4>1, <4>2, Zenon
    <3>3. Len(f[j]) \in Nat /\ Len(f[k]) \in Nat /\ Len(f[k + 1]) \in Nat
      <4>1. f[j] \in Seq(S) /\ f[k] \in Seq(S) /\ f[k + 1] \in Seq(S)
        BY <2>1, <3>1
      <4>. QED
        BY <4>1
    <3>. QED
      BY <3>2, <3>3 DEF Extends
  <2>. QED
    BY <2>2, <2>3
<1>4. Nat \subseteq T
  <2> HIDE DEF T
  <2>. QED
    BY <1>2, <1>3, EveryNumber
<1>. QED
  BY <1>4

LEMMA ConcatExtends ==
  ASSUME NEW S, NEW a \in Seq(S), NEW b \in Seq(S)
  PROVE  /\ a \o b \in Seq(S) /\ Len(a \o b) = Len(a) + Len(b)
         /\ Extends(a, a \o b) /\ StandsAt(a \o b, Len(a), b)
BY DEF Extends, StandsAt

\* What stands in a sequence stands in one that it goes on as.
LEMMA StandsOn ==
  ASSUME NEW S, NEW s \in Seq(S), NEW t \in Seq(S), NEW a \in Nat, NEW frame, Len(frame) \in Nat,
         StandsAt(s, a, frame), Extends(s, t)
  PROVE  StandsAt(t, a, frame)
<1>1. Len(s) \in Nat /\ Len(t) \in Nat
  OBVIOUS
<1>2. \A i \in 1 .. Len(frame) : a + i \in 1 .. Len(s)
  BY <1>1 DEF StandsAt
<1>. QED
  BY <1>1, <1>2 DEF StandsAt, Extends

LEMMA EncodedBytes ==
  ASSUME CodeSizes, NEW op \in Opcode, NEW payload \in Seq(Byte), NEW fin \in BOOLEAN, NEW masked \in BOOLEAN,
         NEW key \in Seq(Byte), Len(key) = 4
  PROVE  Encoded(op, payload, fin, masked, key) \in Seq(Byte)
<1> DEFINE frame == Encoded(op, payload, fin, masked, key)
           n == 2 + Offset(Len(payload)) + KeyLen(masked)
<1>1. Consists(frame, basic_header(op, Len(payload), fin, masked, FALSE), Offset(Len(payload)), n, payload, masked, key)
  BY EncodedIs, Zenon
<1> HIDE DEF frame, n
<1>2. frame \in Seq(Byte)
  BY <1>1, Zenon DEF Consists
<1>. QED
  BY <1>2 DEF frame

LEMMA PreparedIs ==
  ASSUME CodeSizes, NEW server \in BOOLEAN, NEW send \in Send, NEW message, Proper(server, send, message)
  PROVE  /\ send.op \in Opcode /\ send.payload \in Seq(Byte) /\ send.fin \in BOOLEAN
         /\ send.key \in Seq(Byte) /\ Len(send.key) = 4
         /\ Prepared(server, send).bytes = Encoded(send.op, send.payload, send.fin, ~server, send.key)
         /\ is_control(send.op) => send.fin /\ Len(send.payload) <= 125
         /\ ~is_control(send.op) /\ send.op = TEXT => validate(send.payload)
         /\ Prepared(server, send).bytes \in Seq(Byte)
<1>1. send.op \in Opcode /\ send.payload \in Seq(Byte) /\ send.fin \in BOOLEAN /\ send.key \in Seq(Byte)
  BY DEF Send
<1>2. Prepared(server, send).ec = "none" /\ Len(send.key) = 4 /\ (is_control(send.op) => send.fin)
  BY DEF Proper
<1>3. CASE is_control(send.op)
  <2> DEFINE p == prepare_control(server, send.op, send.payload, send.key)
  <2>1. Prepared(server, send) = p
    BY <1>3 DEF Prepared
  <2>2. Len(send.payload) <= payload_size_basic
        /\ p.bytes = Encoded(send.op, send.payload, TRUE, ~server, send.key)
    <3>1. p.ec = "none"
      BY <1>2, <2>1
    <3>2. p = IF Len(send.payload) > payload_size_basic THEN [ec |-> "control_too_big", bytes |-> <<>>]
              ELSE [ec |-> "none", bytes |-> Encoded(send.op, send.payload, TRUE, ~server, send.key)]
      BY <1>3, Zenon DEF prepare_control
    <3> HIDE DEF p
    <3>3. ~ (Len(send.payload) > payload_size_basic)
      BY <3>1, <3>2
    <3>4. Len(send.payload) \in Nat /\ payload_size_basic \in Nat
      BY <1>1 DEF CodeSizes
    <3>5. p.bytes = Encoded(send.op, send.payload, TRUE, ~server, send.key)
      BY <3>2, <3>3
    <3>. QED
      BY <3>3, <3>4, <3>5
  <2>3. send.fin = TRUE
    BY <1>1, <1>2, <1>3
  <2>. QED
    <3>1. Len(send.payload) <= 125
      BY <2>2 DEF CodeSizes
    <3>2. Prepared(server, send).bytes = Encoded(send.op, send.payload, send.fin, ~server, send.key)
      BY <2>1, <2>2, <2>3
    <3>3. Encoded(send.op, send.payload, send.fin, ~server, send.key) \in Seq(Byte)
      <4>1. (~server) \in BOOLEAN
        OBVIOUS
      <4>. QED
        BY <1>1, <1>2, <4>1, EncodedBytes
    <3>. QED
      BY <1>1, <1>2, <1>3, <3>1, <3>2, <3>3
<1>4. CASE ~is_control(send.op)
  <2> DEFINE p == prepare_data_frame(server, send.op, send.payload, send.fin, send.key)
  <2>1. Prepared(server, send) = p
    BY <1>4 DEF Prepared
  <2>2. /\ send.op = TEXT => validate(send.payload)
        /\ p.bytes = Encoded(send.op, send.payload, send.fin, ~server, send.key)
    BY <1>2, <1>4, <2>1 DEF prepare_data_frame
  <2>3. Encoded(send.op, send.payload, send.fin, ~server, send.key) \in Seq(Byte)
    <3>1. (~server) \in BOOLEAN
      OBVIOUS
    <3>. QED
      BY <1>1, <1>2, <3>1, EncodedBytes
  <2> HIDE DEF p
  <2>. QED
    BY <1>1, <1>2, <1>4, <2>1, <2>2, <2>3
<1>. QED
  BY <1>3, <1>4

Sent == [op : Opcode, payload : Seq(Byte)]

\* A message that waits for fragments: data, and whole as far as it is text.
Waiting(m) ==
  \/ m = NoMsg
  \/ /\ m \in Sent /\ ~is_control(m.op)
     /\ m.op = TEXT => validate(m.payload)

IsJoined(j) == j = [message |-> j.message, sent |-> j.sent] /\ j.sent \in Seq(Sent) /\ Waiting(j.message)

IsContinued(m, message, send) ==
  /\ m \in Sent /\ Waiting(m) /\ m # NoMsg
  /\ message = NoMsg => m = [op |-> send.op, payload |-> send.payload]
  /\ message # NoMsg => /\ message \in Sent
                        /\ m = [op |-> message.op, payload |-> message.payload \o send.payload]

LEMMA ContinuedIs ==
  ASSUME NEW server, NEW send \in Send, NEW message, Waiting(message), Proper(server, send, message),
         ~is_control(send.op)
  PROVE  IsContinued(Continued(message, send), message, send)
<1> DEFINE m == Continued(message, send)
<1>1. send.op \in Opcode /\ send.payload \in Seq(Byte)
  BY DEF Send
<1>2. m.op = TEXT => validate(send.payload)
  BY DEF Proper
<1>3. CASE message = NoMsg
  <2>1. m = [op |-> send.op, payload |-> send.payload]
    BY <1>3 DEF Continued
  <2> HIDE DEF m
  <2>2. m \in Sent /\ m.op = send.op /\ m.payload = send.payload
    BY <1>1, <2>1 DEF Sent
  <2>3. m # NoMsg
    BY <2>2, NoMsgAssumption DEF Sent
  <2>4. Waiting(m)
    BY <1>2, <2>2 DEF Waiting
  <2>. QED
    BY <1>3, <2>1, <2>2, <2>3, <2>4, Zenon DEF m, IsContinued
<1>4. CASE message # NoMsg
  <2>1. m = [op |-> message.op, payload |-> message.payload \o send.payload]
    BY <1>4 DEF Continued
  <2>2. message \in Sent /\ ~is_control(message.op) /\ (message.op = TEXT => validate(message.payload))
    BY <1>4 DEF Waiting
  <2> HIDE DEF m
  <2>3. message.op \in Opcode /\ message.payload \in Seq(Byte)
    BY <2>2 DEF Sent
  <2> DEFINE both == message.payload \o send.payload
  <2>4. both \in Seq(Byte)
    BY <1>1, <2>3
  <2>5. m.op = TEXT => validate(both)
    <3>1. SUFFICES ASSUME m.op = TEXT PROVE validate(both)
      OBVIOUS
    <3>2. validate(message.payload) /\ validate(send.payload)
      BY <1>2, <2>1, <2>2, <3>1
    <3>3. advance(utf8_accept, both) = advance(advance(utf8_accept, message.payload), send.payload)
      BY <1>1, <2>3, AdvanceConcat
    <3>. QED
      BY <3>2, <3>3, Zenon DEF validate, complete
  <2> HIDE DEF both
  <2>6. m \in Sent /\ m.op = message.op /\ m.payload = both
    BY <2>1, <2>3, <2>4 DEF Sent, both
  <2>7. m # NoMsg
    BY <2>6, NoMsgAssumption DEF Sent
  <2>8. Waiting(m)
    BY <2>2, <2>5, <2>6 DEF Waiting
  <2>. QED
    BY <1>4, <2>1, <2>2, <2>6, <2>7, <2>8, Zenon DEF m, both, IsContinued
<1>. QED
  BY <1>3, <1>4

\* What one more call adds.
Adds(b, n, message, send) ==
  /\ n.sent = IF is_control(send.op) THEN Append(b.sent, [op |-> send.op, payload |-> send.payload])
              ELSE IF send.fin THEN Append(b.sent, Continued(message, send))
              ELSE b.sent
  /\ n.message = IF is_control(send.op) THEN message
                 ELSE IF send.fin THEN NoMsg
                 ELSE Continued(message, send)

LEMMA AddIs ==
  ASSUME NEW server, NEW send \in Send, NEW b, IsJoined(b), Proper(server, send, b.message)
  PROVE  /\ IsJoined(Add(b, send)) /\ Extends(b.sent, Add(b, send).sent)
         /\ Adds(b, Add(b, send), b.message, send)
<1> DEFINE n == Add(b, send)
           c == Continued(b.message, send)
           one == [op |-> send.op, payload |-> send.payload]
<1>1. b = [message |-> b.message, sent |-> b.sent] /\ b.sent \in Seq(Sent) /\ Waiting(b.message)
  BY Zenon DEF IsJoined
<1>2. one \in Sent
  BY DEF Send, Sent
<1>3. ~is_control(send.op) => c \in Sent /\ Waiting(c)
  BY <1>1, ContinuedIs, Zenon DEF IsContinued
<1>4. ASSUME NEW m \in Sent
      PROVE  Append(b.sent, m) \in Seq(Sent) /\ Extends(b.sent, Append(b.sent, m))
  BY <1>1 DEF Extends
<1>5. Extends(b.sent, b.sent)
  BY <1>1 DEF Extends
<1>6. CASE is_control(send.op)
  <2>1. n = [b EXCEPT !.sent = Append(@, one)]
    BY <1>6 DEF Add
  <2>2. n = [message |-> b.message, sent |-> Append(b.sent, one)]
    BY <1>1, <2>1
  <2> HIDE DEF n, one
  <2>3. n.message = b.message /\ n.sent = Append(b.sent, one)
    BY <2>2
  <2>4. n = [message |-> n.message, sent |-> n.sent]
    BY <2>2
  <2>5. n.sent \in Seq(Sent) /\ Extends(b.sent, n.sent)
    BY <1>2, <1>4, <2>3
  <2>6. IsJoined(n)
    BY <1>1, <2>3, <2>4, <2>5, Zenon DEF IsJoined
  <2>7. Adds(b, n, b.message, send)
    BY <1>6, <2>3, Zenon DEF Adds, one
  <2>. QED
    BY <2>5, <2>6, <2>7 DEF n
<1>7. CASE ~is_control(send.op) /\ send.fin
  <2>1. n = [message |-> NoMsg, sent |-> Append(b.sent, c)]
    BY <1>7 DEF Add
  <2> HIDE DEF n, c
  <2>3. n.message = NoMsg /\ n.sent = Append(b.sent, c)
    BY <2>1
  <2>4. n = [message |-> n.message, sent |-> n.sent]
    BY <2>1
  <2>5. n.sent \in Seq(Sent) /\ Extends(b.sent, n.sent)
    BY <1>3, <1>4, <1>7, <2>3
  <2>6. IsJoined(n)
    BY <2>3, <2>4, <2>5, Zenon DEF IsJoined, Waiting
  <2>7. Adds(b, n, b.message, send)
    BY <1>7, <2>3, Zenon DEF Adds, c
  <2>. QED
    BY <2>5, <2>6, <2>7 DEF n
<1>8. CASE ~is_control(send.op) /\ ~send.fin
  <2>1. n = [b EXCEPT !.message = c]
    BY <1>8 DEF Add
  <2>2. n = [message |-> c, sent |-> b.sent]
    BY <1>1, <2>1
  <2> HIDE DEF n, c
  <2>3. n.message = c /\ n.sent = b.sent
    BY <2>2
  <2>4. n = [message |-> n.message, sent |-> n.sent]
    BY <2>2
  <2>5. n.sent \in Seq(Sent) /\ Extends(b.sent, n.sent)
    BY <1>1, <1>5, <2>3
  <2>6. IsJoined(n)
    BY <1>3, <1>8, <2>3, <2>4, <2>5, Zenon DEF IsJoined
  <2>7. Adds(b, n, b.message, send)
    BY <1>8, <2>3, Zenon DEF Adds, c
  <2>. QED
    BY <2>5, <2>6, <2>7 DEF n
<1>. QED
  BY <1>6, <1>7, <1>8

\* The calls of a peer that follows the protocol, in its script.
Calls == Len(script.sends)
Bytewise == Written(~script.server, script.sends)
Messages == Joined(script.sends)

LEMMA JoinedAre ==
  ASSUME NEW sends \in Seq(Send), NEW server, AllProper(server, sends)
  PROVE  \A k \in 0 .. Len(sends) : IsJoined(Joined(sends)[k])
<1> DEFINE j == Joined(sends)
           T == {k \in Nat : k <= Len(sends) => IsJoined(j[k])}
<1>1. Len(sends) \in Nat
  OBVIOUS
<1>2. j[0] = [message |-> NoMsg, sent |-> <<>>] /\ \A k \in 1 .. Len(sends) : j[k] = Add(j[k - 1], sends[k])
  BY <1>1, JoinedIs, Zenon
<1> HIDE DEF j
<1>3. 0 \in T
  <2>1. IsJoined(j[0])
    BY <1>2 DEF IsJoined, Waiting
  <2>. QED
    BY <2>1
<1>4. ASSUME NEW k \in Nat, k \in T PROVE k + 1 \in T
  <2>1. SUFFICES ASSUME k + 1 <= Len(sends) PROVE IsJoined(j[k + 1])
    OBVIOUS
  <2>2. k + 1 \in 1 .. Len(sends) /\ (k + 1) - 1 = k /\ IsJoined(j[k])
    BY <1>1, <1>4, <2>1
  <2>3. sends[k + 1] \in Send
    BY <2>2, ElementOfSeq
  <2>4. k + 1 \in DOMAIN sends
    BY <2>2
  <2>5. Proper(server, sends[k + 1], j[k].message)
    BY <2>2, <2>4, Zenon DEF AllProper, j
  <2>6. j[k + 1] = Add(j[k], sends[k + 1])
    BY <1>2, <2>2, Zenon
  <2>. QED
    BY <2>2, <2>3, <2>5, <2>6, AddIs, Zenon
<1>5. Nat \subseteq T
  <2> HIDE DEF T
  <2>. QED
    BY <1>3, <1>4, EveryNumber
<1>. QED
  BY <1>5 DEF j

\* Where a call's frame stands, and what its message adds.
StandsCall(k) ==
  LET send == script.sends[k]
      bytes == Prepared(~script.server, send).bytes
  IN  /\ send \in Send /\ Proper(~script.server, send, Messages[k - 1].message)
      /\ StandsAt(stream, Len(Bytewise[k - 1]), bytes)
      /\ Len(Bytewise[k]) = Len(Bytewise[k - 1]) + Len(bytes)
      /\ Adds(Messages[k - 1], Messages[k], Messages[k - 1].message, send)

LEMMA FormedIs ==
  ASSUME CodeSizes, StreamInv, script.formed
  PROVE  /\ Calls \in Nat /\ script.lines = <<>>
         /\ \A k \in 0 .. Calls : /\ Bytewise[k] \in Seq(Byte) /\ Len(Bytewise[k]) <= Len(stream)
                                  /\ IsJoined(Messages[k])
                                  /\ Extends(Messages[k].sent, Messages[Calls].sent)
         /\ Len(Bytewise[0]) = 0 /\ Messages[0] = [message |-> NoMsg, sent |-> <<>>]
         /\ Len(Bytewise[Calls]) = Len(stream)
         /\ \A k \in 1 .. Calls : StandsCall(k)
<1>1. /\ script.server \in BOOLEAN /\ script.lines = <<>> /\ script.sends \in Seq(Send)
      /\ script.bytes = Bytewise[Calls] /\ AllProper(~script.server, script.sends)
  <2>1. script \in Scripts /\ script.server \in BOOLEAN
    BY ScriptsAssumption DEF StreamInv
  <2>. QED
    BY <2>1, FormedAssumption, Zenon DEF Bytewise, Calls
<1>2. Calls \in Nat
  BY <1>1 DEF Calls
<1>3. \A k \in 0 .. Calls : IsJoined(Messages[k])
  BY <1>1, JoinedAre, Zenon DEF Calls, Messages
<1>4. /\ Messages[0] = [message |-> NoMsg, sent |-> <<>>]
      /\ \A k \in 1 .. Calls : Messages[k] = Add(Messages[k - 1], script.sends[k])
  BY <1>2, JoinedIs, Zenon DEF Calls, Messages
<1>5. /\ Bytewise[0] = <<>>
      /\ \A k \in 1 .. Calls : Bytewise[k] = Bytewise[k - 1] \o Prepared(~script.server, script.sends[k]).bytes
  <2>1. PICK writer \in BOOLEAN : writer = (~script.server)
    OBVIOUS
  <2>2. Bytewise = Written(writer, script.sends)
    BY <2>1 DEF Bytewise
  <2>3. /\ Written(writer, script.sends)[0] = <<>>
        /\ \A k \in 1 .. Calls :
              Written(writer, script.sends)[k]
                 = Written(writer, script.sends)[k - 1] \o Prepared(writer, script.sends[k]).bytes
    <3>1. PICK sends : sends = script.sends
      OBVIOUS
    <3>2. Len(sends) \in Nat /\ Len(sends) = Calls
      BY <1>2, <3>1 DEF Calls
    <3>3. /\ Written(writer, sends)[0] = <<>>
          /\ \A k \in 1 .. Len(sends) :
                Written(writer, sends)[k] = Written(writer, sends)[k - 1] \o Prepared(writer, sends[k]).bytes
      BY <3>2, WrittenIs
    <3>. QED
      BY <3>1, <3>2, <3>3, Zenon
  <2>4. \A send : Prepared(writer, send) = Prepared(~script.server, send)
    BY <2>1
  <2>. QED
    BY <2>2, <2>3, <2>4, Zenon
<1>6. ASSUME NEW k \in 1 .. Calls
      PROVE  /\ k - 1 \in 0 .. Calls /\ k \in 0 .. Calls
             /\ script.sends[k] \in Send /\ Proper(~script.server, script.sends[k], Messages[k - 1].message)
             /\ Prepared(~script.server, script.sends[k]).bytes \in Seq(Byte)
  <2>1. k - 1 \in 0 .. Calls /\ k \in 0 .. Calls /\ k \in 1 .. Len(script.sends)
    BY <1>2 DEF Calls
  <2>2. script.sends[k] \in Send /\ k \in DOMAIN script.sends
    <3>1. script.sends[k] \in Send
      BY <1>1, <2>1, ElementOfSeq
    <3>2. k \in DOMAIN script.sends
      BY <1>1, <2>1
    <3>. QED
      BY <3>1, <3>2
  <2>3. Proper(~script.server, script.sends[k], Messages[k - 1].message)
    BY <1>1, <2>2, Zenon DEF AllProper, Messages
  <2>4. Prepared(~script.server, script.sends[k]).bytes \in Seq(Byte)
    <3>1. (~script.server) \in BOOLEAN
      BY <1>1
    <3>. QED
      BY <2>2, <2>3, <3>1, PreparedIs
  <2>. QED
    BY <2>1, <2>2, <2>3, <2>4
<1>7. \A k \in 0 .. Calls : Bytewise[k] \in Seq(Byte)
  <2> DEFINE T == {k \in Nat : k <= Calls => Bytewise[k] \in Seq(Byte)}
  <2>1. 0 \in T
    <3>1. <<>> \in Seq(Byte)
      OBVIOUS
    <3>. QED
      BY <1>5, <3>1, Zenon
  <2>2. ASSUME NEW k \in Nat, k \in T PROVE k + 1 \in T
    <3>1. SUFFICES ASSUME k + 1 <= Calls PROVE Bytewise[k + 1] \in Seq(Byte)
      OBVIOUS
    <3>2. k + 1 \in 1 .. Calls /\ (k + 1) - 1 = k /\ Bytewise[k] \in Seq(Byte)
      BY <1>2, <2>2, <3>1
    <3>3. Prepared(~script.server, script.sends[k + 1]).bytes \in Seq(Byte)
      BY <1>6, <3>2, Zenon
    <3>4. Bytewise[k + 1] = Bytewise[k] \o Prepared(~script.server, script.sends[k + 1]).bytes
      BY <1>5, <3>2, Zenon
    <3>. QED
      BY <3>2, <3>3, <3>4, ConcatExtends
  <2>3. Nat \subseteq T
    <3> HIDE DEF T
    <3>. QED
      BY <2>1, <2>2, EveryNumber
  <2>. QED
    BY <1>2, <2>3
<1>8. stream = Bytewise[Calls]
  <2>1. Bytewise[Calls] \in Seq(Byte)
    BY <1>2, <1>7
  <2>2. HeadBytes(script.lines) = <<>>
    BY <1>1 DEF HeadBytes
  <2>3. stream = <<>> \o Bytewise[Calls]
    BY <1>1, <2>2 DEF StreamInv
  <2> HIDE DEF Bytewise
  <2>. QED
    BY <2>1, <2>3
<1>9. ASSUME NEW k \in 1 .. Calls
      PROVE  LET bytes == Prepared(~script.server, script.sends[k]).bytes
             IN  /\ Extends(Bytewise[k - 1], Bytewise[k]) /\ StandsAt(Bytewise[k], Len(Bytewise[k - 1]), bytes)
                 /\ Len(Bytewise[k]) = Len(Bytewise[k - 1]) + Len(bytes)
  <2> DEFINE bytes == Prepared(~script.server, script.sends[k]).bytes
  <2>1. bytes \in Seq(Byte) /\ Bytewise[k - 1] \in Seq(Byte)
    BY <1>6, <1>7, Zenon
  <2>2. Bytewise[k] = Bytewise[k - 1] \o bytes
    BY <1>5, Zenon
  <2> HIDE DEF bytes
  <2>3. /\ Len(Bytewise[k - 1] \o bytes) = Len(Bytewise[k - 1]) + Len(bytes)
        /\ Extends(Bytewise[k - 1], Bytewise[k - 1] \o bytes)
        /\ StandsAt(Bytewise[k - 1] \o bytes, Len(Bytewise[k - 1]), bytes)
    BY <2>1, ConcatExtends, Zenon
  <2>. QED
    BY <2>2, <2>3, Zenon DEF bytes
<1>10. \A k \in 0 .. Calls : Extends(Bytewise[k], Bytewise[Calls])
  <2>1. \A j, k \in 0 .. Calls : j <= k => Extends(Bytewise[j], Bytewise[k])
    BY <1>2, <1>7, <1>9, Growing
  <2>2. Calls \in 0 .. Calls /\ \A k \in 0 .. Calls : k <= Calls
    BY <1>2
  <2>. QED
    BY <2>1, <2>2, Zenon
<1>11. ASSUME NEW k \in 1 .. Calls
       PROVE  /\ Extends(Messages[k - 1].sent, Messages[k].sent)
              /\ Adds(Messages[k - 1], Messages[k], Messages[k - 1].message, script.sends[k])
  BY <1>3, <1>4, <1>6, AddIs, Zenon
<1>12. \A k \in 0 .. Calls : Extends(Messages[k].sent, Messages[Calls].sent)
  <2> DEFINE f == [k \in 0 .. Calls |-> Messages[k].sent]
  <2>1. \A k \in 0 .. Calls : f[k] = Messages[k].sent /\ Messages[k].sent \in Seq(Sent)
    BY <1>3, Zenon DEF IsJoined
  <2> HIDE DEF f
  <2>2. \A k \in 1 .. Calls : Extends(f[k - 1], f[k])
    BY <1>6, <1>11, <2>1, Zenon
  <2>3. \A k \in 0 .. Calls : f[k] \in Seq(Sent)
    BY <2>1
  <2>4. \A j, k \in 0 .. Calls : j <= k => Extends(f[j], f[k])
    BY <1>2, <2>2, <2>3, Growing
  <2>5. Calls \in 0 .. Calls /\ \A k \in 0 .. Calls : k <= Calls
    BY <1>2
  <2>. QED
    BY <2>1, <2>4, <2>5, Zenon
<1>13. ASSUME NEW k \in 1 .. Calls PROVE StandsCall(k)
  <2> DEFINE bytes == Prepared(~script.server, script.sends[k]).bytes
             a == Len(Bytewise[k - 1])
  <2>1. /\ bytes \in Seq(Byte) /\ Bytewise[k] \in Seq(Byte) /\ Bytewise[k - 1] \in Seq(Byte)
        /\ Bytewise[Calls] \in Seq(Byte) /\ Extends(Bytewise[k], Bytewise[Calls])
    <3>1. Calls \in 0 .. Calls
      BY <1>2
    <3>. QED
      BY <1>6, <1>7, <1>10, <3>1, Zenon
  <2>2. StandsAt(Bytewise[k], a, bytes) /\ Len(Bytewise[k]) = a + Len(bytes)
    BY <1>9, Zenon
  <2>3. a \in Nat /\ Len(bytes) \in Nat
    <3> HIDE DEF bytes
    <3>. QED
      BY <2>1
  <2> HIDE DEF a, bytes
  <2>4. StandsAt(stream, a, bytes)
    BY <1>8, <2>1, <2>2, <2>3, StandsOn
  <2>. QED
    BY <1>6, <1>11, <2>2, <2>4, Zenon DEF StandsCall, a, bytes
<1>14. ASSUME NEW k \in 0 .. Calls PROVE Len(Bytewise[k]) <= Len(stream)
  BY <1>8, <1>10, Zenon DEF Extends
<1>15. Len(Bytewise[0]) = 0
  BY <1>5
<1>. QED
  BY <1>1, <1>2, <1>3, <1>4, <1>7, <1>8, <1>12, <1>13, <1>14, <1>15, Zenon

-----------------------------------------------------------------------------
(***************************************************************************)
(* The frame that is read next is the one that the next call wrote.        *)
(***************************************************************************)
\* What FrameStream calls the message that waits.
Pending == IF kept = NoMsg THEN NoMsg ELSE [op |-> kept.op, payload |-> kept.payload]

\* The frame that begins at start is the one that a call wrote.
Stands(send, end) ==
  /\ IsHeader(H, send.op, Len(send.payload), send.fin, script.server)
  /\ Size = Len(send.payload) /\ Plain(Size) = send.payload
  /\ HasWholeHeader /\ start + HLen + Size = end /\ end <= Len(stream) /\ end >= start + 2

LEMMA SizeIsOfFour ==
  ASSUME OfFour(m_max_message_size), NEW server, NEW send \in Send, NEW message, Waiting(message),
         Proper(server, send, message), is_control(send.op) => Len(send.payload) <= 125
  PROVE  OfFour(Len(send.payload))
<1>1. Len(send.payload) \in Nat /\ send.payload \in Seq(Byte) /\ m_max_message_size \in Nat
  BY MessageAssumption DEF Send
<1>2. CASE is_control(send.op)
  <2>1. Len(send.payload) <= 125
    BY <1>2
  <2>. QED
    BY <1>1, <2>1 DEF OfFour
<1>3. CASE ~is_control(send.op)
  <2> DEFINE m == Continued(message, send)
  <2>1. Len(m.payload) <= m_max_message_size
    BY <1>3 DEF Proper
  <2>a. IsContinued(m, message, send)
    BY <1>3, ContinuedIs
  <2> HIDE DEF m
  <2>2. /\ message = NoMsg => m = [op |-> send.op, payload |-> send.payload]
        /\ message # NoMsg => /\ message \in Sent
                              /\ m = [op |-> message.op, payload |-> message.payload \o send.payload]
    BY <2>a, Zenon DEF IsContinued
  <2>3. Len(send.payload) <= Len(m.payload) /\ Len(m.payload) \in Nat
    <3>1. CASE message = NoMsg
      BY <1>1, <2>2, <3>1
    <3>2. CASE message # NoMsg
      <4>1. message.payload \in Seq(Byte) /\ m.payload = message.payload \o send.payload
        BY <2>2, <3>2 DEF Sent
      <4>2. Len(message.payload \o send.payload) = Len(message.payload) + Len(send.payload)
        BY <1>1, <4>1, BytesJoined
      <4>3. Len(message.payload) \in Nat
        BY <4>1
      <4>4. Len(m.payload) = Len(message.payload) + Len(send.payload)
        BY <4>1, <4>2, Zenon
      <4>5. ASSUME NEW x \in Nat, NEW y \in Nat, NEW z, z = x + y PROVE y <= z /\ z \in Nat
        BY <4>5
      <4>. QED
        BY <1>1, <4>3, <4>4, <4>5, Zenon
    <3>. QED
      BY <3>1, <3>2
  <2>. QED
    BY <1>1, <2>1, <2>3 DEF OfFour
<1>. QED
  BY <1>2, <1>3

LEMMA StandsHere ==
  ASSUME CodeSizes, StreamInv, OfFour(m_max_message_size), start \in Nat,
         NEW k \in 1 .. Calls, StandsCall(k), start = Len(Bytewise[k - 1]), Waiting(Messages[k - 1].message)
  PROVE  Stands(script.sends[k], Len(Bytewise[k]))
<1> DEFINE send == script.sends[k]
           frame == Encoded(send.op, send.payload, send.fin, script.server, send.key)
           size == Len(send.payload)
<1>1. script.server \in BOOLEAN /\ stream \in Seq(Nat)
  BY StreamIs
<1>2. PICK writer \in BOOLEAN : writer = (~script.server)
  OBVIOUS
<1>3. (~writer) = script.server
  BY <1>1, <1>2
<1>4. /\ send \in Send /\ Proper(writer, send, Messages[k - 1].message)
      /\ StandsAt(stream, start, Prepared(writer, send).bytes)
      /\ Len(Bytewise[k]) = start + Len(Prepared(writer, send).bytes)
  BY <1>2 DEF StandsCall
<1> HIDE DEF send
<1>5. /\ send.op \in Opcode /\ send.payload \in Seq(Byte) /\ send.fin \in BOOLEAN
      /\ send.key \in Seq(Byte) /\ Len(send.key) = 4
      /\ Prepared(writer, send).bytes = Encoded(send.op, send.payload, send.fin, ~writer, send.key)
      /\ is_control(send.op) => Len(send.payload) <= 125
  BY <1>4, PreparedIs
<1>6. Prepared(writer, send).bytes = frame
  BY <1>3, <1>5
<1>7. OfFour(size)
  BY <1>4, <1>5, SizeIsOfFour
<1>8. /\ IsHeader(H, send.op, size, send.fin, script.server)
      /\ Len(frame) = HLen + size /\ Size = size
      /\ Unmasked(stream, start + HLen, size, script.server, FrameKey) = send.payload
  <2>1. StandsAt(stream, start, frame)
    BY <1>4, <1>6
  <2> HIDE DEF frame
  <2>2. IsRead(stream, start, frame, send.op, send.payload, send.fin, script.server)
    BY <1>1, <1>5, <1>7, <2>1, EncodedIsRead, Zenon DEF frame
  <2>. QED
    BY <2>2, Zenon DEF IsRead, H, HLen, E, Size, FrameKey
<1>9. Plain(Size) = send.payload
  <2>1. get_masked(H) <=> script.server
    BY <1>8, Zenon DEF IsHeader
  <2>2. Plain(Size) = Unmasked(stream, start + HLen, size, get_masked(H), FrameKey)
    BY <1>8, Zenon DEF Plain
  <2>. QED
    BY <1>8, <2>1, <2>2, Zenon DEF Unmasked
<1>10. HLen \in Nat /\ HLen >= 2
  <2>1. HLen = 2 + Offset(size) + KeyLen(script.server)
    BY <1>8, Zenon DEF IsHeader, HLen
  <2>2. Offset(size) \in {0, 2, 8} /\ KeyLen(script.server) \in {0, 4}
    BY DEF Offset, KeyLen
  <2>. QED
    BY <2>1, <2>2
<1>11. /\ Len(Bytewise[k]) = start + HLen + Size /\ Len(Bytewise[k]) <= Len(stream)
       /\ Len(Bytewise[k]) >= start + 2 /\ HasWholeHeader
  <2>1. size \in Nat /\ Len(stream) \in Nat
    BY <1>1, <1>5
  <2>2. Len(Bytewise[k]) = start + (HLen + size) /\ start + (HLen + size) <= Len(stream)
    BY <1>4, <1>6, <1>8 DEF StandsAt
  <2> DEFINE Fine(b, header, n, payload, end) ==
               end = b + header + payload /\ end <= n /\ b + 2 <= n /\ b + header <= n /\ end >= b + 2
  <2>3. ASSUME NEW b \in Nat, NEW header \in Nat, header >= 2, NEW payload \in Nat, NEW n \in Nat,
               b + (header + payload) <= n, NEW end, end = b + (header + payload)
        PROVE  Fine(b, header, n, payload, end)
    BY <2>3
  <2> HIDE DEF size, Fine
  <2>a. Fine(start, HLen, Len(stream), size, Len(Bytewise[k]))
    BY <1>10, <2>1, <2>2, <2>3, Zenon
  <2>4. /\ Len(Bytewise[k]) = start + HLen + size /\ Len(Bytewise[k]) <= Len(stream)
        /\ start + 2 <= Len(stream) /\ start + HLen <= Len(stream) /\ Len(Bytewise[k]) >= start + 2
    BY <2>a DEF Fine
  <2>. QED
    BY <1>8, <2>4, Zenon DEF HasWholeHeader, HasBasic
<1>. QED
  BY <1>8, <1>9, <1>11, Zenon DEF Stands, send

\* The message that the frame is for, with the frame.
LEMMA ThisIs ==
  ASSUME CodeSizes, Starts, NEW server, NEW send \in Send, NEW end, Stands(send, end),
         Waiting(Pending), Proper(server, send, Pending)
  PROVE  /\ Pending = NoMsg <=> kept = NoMsg
         /\ [op |-> Op, payload |-> Before \o Plain(Size)]
               = IF is_control(send.op) THEN [op |-> send.op, payload |-> send.payload]
                 ELSE Continued(Pending, send)
         /\ Op = TEXT => validate(Before \o Plain(Size))
         /\ ~is_control(send.op) => KeptSize + Size <= m_max_message_size
<1>1. Pending = NoMsg <=> kept = NoMsg
  BY MessageIs DEF Pending
<1>2. get_opcode(H) = send.op /\ Plain(Size) = send.payload /\ Size = Len(send.payload)
  BY Zenon DEF Stands, IsHeader
<1>3. send.op \in Opcode /\ send.payload \in Seq(Byte)
  BY DEF Send
<1>4. <<>> \o send.payload = send.payload
  BY <1>3
<1>5. ~is_control(send.op) => Len(Continued(Pending, send).payload) <= m_max_message_size
  BY DEF Proper
<1>6. CASE is_control(send.op)
  <2>1. Op = send.op /\ Before = <<>>
    BY <1>2, <1>6 DEF Op, Before, Alone
  <2>2. send.op # TEXT
    BY <1>6 DEF is_control, TEXT
  <2>. QED
    BY <1>1, <1>2, <1>4, <1>6, <2>1, <2>2, Zenon
<1>7. CASE ~is_control(send.op) /\ kept = NoMsg
  <2>1. Op = send.op /\ Before = <<>> /\ KeptSize = 0
    BY <1>2, <1>7 DEF Op, Before, Alone, KeptSize
  <2>2. Continued(Pending, send) = [op |-> send.op, payload |-> send.payload]
    BY <1>1, <1>7, Zenon DEF Continued
  <2>3. Op = TEXT => validate(send.payload)
    <3>1. Continued(Pending, send).op = send.op
      BY <2>2
    <3>. QED
      BY <1>7, <2>1, <3>1, Zenon DEF Proper
  <2>4. KeptSize + Size <= m_max_message_size
    <3>1. Continued(Pending, send).payload = send.payload
      BY <2>2
    <3>2. Size \in Nat
      BY <1>2, <1>3
    <3>. QED
      BY <1>2, <1>5, <1>7, <2>1, <3>1, <3>2
  <2>. QED
    BY <1>1, <1>2, <1>4, <1>7, <2>1, <2>2, <2>3, <2>4, Zenon
<1>8. CASE ~is_control(send.op) /\ kept # NoMsg
  <2>1. Op = kept.op /\ Before = kept.payload /\ KeptSize = Len(kept.payload)
    BY <1>2, <1>8 DEF Op, Before, Alone, KeptSize
  <2>2. Pending = [op |-> kept.op, payload |-> kept.payload] /\ Pending # NoMsg
    BY <1>1, <1>8 DEF Pending
  <2>3. Pending.op = kept.op /\ Pending.payload = kept.payload
    BY <2>2
  <2>4. Continued(Pending, send) = [op |-> kept.op, payload |-> kept.payload \o send.payload]
    BY <2>2, <2>3, Zenon DEF Continued
  <2>5. Waiting(Continued(Pending, send)) /\ Continued(Pending, send) # NoMsg
    BY <1>8, ContinuedIs, Zenon DEF IsContinued
  <2>6. Continued(Pending, send).op = kept.op /\ Continued(Pending, send).payload = kept.payload \o send.payload
    <3>1. PICK both : both = kept.payload \o send.payload
      OBVIOUS
    <3>2. PICK m : m = Continued(Pending, send)
      OBVIOUS
    <3>3. m = [op |-> kept.op, payload |-> both]
      BY <2>4, <3>1, <3>2, Zenon
    <3>4. m.op = kept.op /\ m.payload = both
      BY <3>3
    <3>. QED
      BY <3>1, <3>2, <3>4, Zenon
  <2>7. Op = TEXT => validate(kept.payload \o send.payload)
    BY <2>1, <2>5, <2>6, Zenon DEF Waiting
  <2>8. KeptSize + Size <= m_max_message_size
    <3>1. kept.payload \in Seq(Byte)
      BY <1>8 DEF Starts, KeptOK, Message
    <3>2. Len(kept.payload \o send.payload) = KeptSize + Size
      BY <1>2, <1>3, <2>1, <3>1
    <3>. QED
      BY <1>5, <1>8, <2>6, <3>2
  <2>. QED
    BY <1>1, <1>2, <1>8, <2>1, <2>4, <2>7, <2>8, Zenon
<1>. QED
  BY <1>6, <1>7, <1>8

LEMMA FrameAllowed ==
  ASSUME CodeSizes, StreamInv, Starts, NEW server, NEW send \in Send, NEW end, Stands(send, end),
         Waiting(Pending), Proper(server, send, Pending),
         is_control(send.op) => send.fin /\ Len(send.payload) <= 125
  PROVE  /\ HasWholeHeader /\ BasicOK /\ ExtendedOK /\ Fits
         /\ ~Frames!Illegal /\ ~Frames!NotText
         /\ Frames!Payload = Plain(Size) /\ Frames!FrameEnd = end
<1> DEFINE op == get_opcode(H)
           size == Len(send.payload)
<1>1. /\ op = send.op /\ (get_fin(H) <=> send.fin) /\ (get_masked(H) <=> script.server)
      /\ ~get_rsv1(H) /\ ~get_rsv2(H) /\ ~get_rsv3(H) /\ get_basic_size(H) = basic_value(size)
      /\ Size = size /\ Plain(Size) = send.payload
      /\ HasWholeHeader /\ start + HLen + Size = end /\ end <= Len(stream)
  BY Zenon DEF Stands, IsHeader
<1>2. size \in Nat /\ send.op \in Opcode
  BY DEF Send
<1>3. /\ Pending = NoMsg <=> kept = NoMsg
      /\ Op = TEXT => validate(Before \o Plain(Size))
      /\ ~is_control(send.op) => KeptSize + Size <= m_max_message_size
  BY ThisIs
<1>4. m_server <=> script.server
  BY DEF StreamInv
<1>5. /\ ~reserved_opcode(send.op)
      /\ ~is_control(send.op) => (send.op = CONTINUATION <=> kept # NoMsg)
  BY <1>3, Zenon DEF Proper
<1>6. /\ size <= 125 => basic_value(size) = size
      /\ size > 125 /\ size <= 65535 => basic_value(size) = 126
      /\ size > 65535 => basic_value(size) = 127
  BY <1>2 DEF basic_value, CodeSizes, payload_size_code_16bit, payload_size_code_64bit
<1> HIDE DEF op, size
<1>7. BasicOK
  <2>1. ~ (is_control(op) /\ get_basic_size(H) > payload_size_basic)
    <3>1. is_control(op) => size <= 125
      BY <1>1 DEF size
    <3>. QED
      BY <1>1, <1>2, <1>6, <3>1 DEF CodeSizes
  <2>2. is_control(op) => op # CONTINUATION
    BY DEF is_control, CONTINUATION
  <2>3. /\ ~reserved_opcode(op) /\ ~ (is_control(op) /\ ~get_fin(H))
        /\ ~ (kept = NoMsg /\ op = CONTINUATION)
        /\ ~ (~ (kept = NoMsg) /\ ~is_control(op) /\ op # CONTINUATION)
        /\ ~ (m_server /\ ~get_masked(H)) /\ ~ (~m_server /\ get_masked(H))
    BY <1>1, <1>4, <1>5, <2>2, Zenon
  <2>. QED
    BY <1>1, <2>1, <2>3, Zenon DEF BasicOK, validate_incoming_basic_header, op
<1>8. /\ KeptSize \in Nat /\ Size \in Nat /\ m_max_message_size \in Nat /\ SizeT \in Nat
      /\ m_max_message_size < SizeT /\ SizeT > 125
  <2>1. kept # NoMsg => kept.payload \in Seq(Byte)
    BY DEF Starts, KeptOK, Message
  <2>2. KeptSize \in Nat
    BY <2>1 DEF KeptSize
  <2>. QED
    BY <1>1, <1>2, <2>2, MessageAssumption DEF CodeSizes
<1>9. ~ (size >= SizeT)
  <2>1. is_control(send.op) => size <= 125
    BY DEF size
  <2>2. ~is_control(send.op) => KeptSize + size <= m_max_message_size
    BY <1>1, <1>3, Zenon
  <2>3. KeptSize \in Nat /\ m_max_message_size \in Nat /\ SizeT \in Nat
        /\ m_max_message_size < SizeT /\ SizeT > 125
    BY <1>8
  <2>. QED
    BY <1>2, <2>1, <2>2, <2>3
<1>10. ExtendedOK
  <2> DEFINE v == get_basic_size(H)
  <2>1. v = basic_value(size) /\ get_payload_size(H, E) = size
    BY <1>1, Zenon DEF Size
  <2> HIDE DEF v
  <2>2. /\ ~ (v = payload_size_code_16bit /\ size <= payload_size_basic)
        /\ ~ (v = payload_size_code_64bit /\ size <= payload_size_extended)
    BY <1>2, <1>6, <2>1 DEF CodeSizes, payload_size_code_16bit, payload_size_code_64bit
  <2>. QED
    BY <1>9, <2>1, <2>2, Zenon DEF ExtendedOK, validate_incoming_extended_header, v
<1>11. Fits
  <2>1. SUFFICES ASSUME ~is_control(op)
                 PROVE  ~ ((IF kept = NoMsg THEN Size ELSE (Len(kept.payload) + Size) % SizeT)
                              > m_max_message_size)
    BY Zenon DEF Fits, ExceedsLimit, op
  <2>2. KeptSize + Size <= m_max_message_size
    BY <1>1, <1>3, <2>1
  <2>3. CASE kept = NoMsg
    <3>1. KeptSize = 0
      BY <2>3 DEF KeptSize
    <3>. QED
      BY <1>8, <2>2, <2>3, <3>1
  <2>4. CASE kept # NoMsg
    <3>1. Len(kept.payload) = KeptSize
      BY <2>4 DEF KeptSize
    <3>2. (KeptSize + Size) % SizeT = KeptSize + Size
      <4>1. \A n \in Nat, d \in Nat : n < d => n % d = n
        BY SMT
      <4>2. KeptSize + Size \in Nat /\ KeptSize + Size < SizeT
        BY <1>8, <2>2
      <4>. QED
        BY <1>8, <4>1, <4>2, Zenon
    <3>. QED
      BY <1>8, <2>2, <2>4, <3>1, <3>2
  <2>. QED
    BY <2>3, <2>4
<1>12. HasBasic
  BY <1>1 DEF HasWholeHeader
<1>13. ~Frames!Illegal
  BY <1>1, <1>7, <1>10, <1>11, <1>12, IllegalIs
<1>14. Shown = Size
  BY <1>1 DEF Shown
<1>15. ~Frames!NotText
  <2> DEFINE text == Before \o Plain(Shown)
             state == advance(utf8_accept, text)
  <2>1. Frames!NotText <=> /\ Op = TEXT
                           /\ \/ state = utf8_reject
                              \/ /\ start + HLen + Size <= Len(stream) /\ get_fin(H)
                                 /\ get_opcode(H) = TEXT /\ ~complete(state)
    BY <1>1, <1>7, <1>10, <1>11, NotTextIs
  <2>2. Op = TEXT => complete(state)
    BY <1>3, <1>14, Zenon DEF validate
  <2>3. complete(state) => state # utf8_reject
    BY DEF complete, utf8_accept, utf8_reject
  <2> HIDE DEF state
  <2>. QED
    BY <2>1, <2>2, <2>3
<1>16. Frames!Payload = Plain(Size)
  BY <1>1, <1>14, PayloadIs
<1>17. Frames!FrameEnd = end
  BY <1>1, FrameIs
<1>. QED
  BY <1>1, <1>7, <1>10, <1>11, <1>13, <1>15, <1>16, <1>17

\* As many of a peer's calls as were read.
ReadOf(k) ==
  start = Len(Bytewise[k]) /\ delivered = Messages[k].sent /\ Pending = Messages[k].message

SentInv == script.formed => ec = "none" /\ \E k \in 0 .. Calls : ReadOf(k)

\* A frame of a call is taken, and its message joined.
LEMMA NextCall ==
  ASSUME CodeSizes, OfFour(m_max_message_size), StreamInv, Starts, script.formed,
         NEW k \in 0 .. Calls, k # Calls, ReadOf(k)
  PROVE  /\ ~Frames!Fail
         /\ Frames!NextFrame /\ script' = script => ReadOf(k + 1)'
<1> DEFINE send == script.sends[k + 1]
           writer == ~script.server
           end == Len(Bytewise[k + 1])
<1>1. /\ Calls \in Nat /\ \A i \in 0 .. Calls : IsJoined(Messages[i])
      /\ \A i \in 1 .. Calls : StandsCall(i)
  BY FormedIs
<1>2. k + 1 \in 1 .. Calls /\ (k + 1) - 1 = k
  BY <1>1
<1>3. Waiting(Messages[k].message) /\ StandsCall(k + 1)
  BY <1>1, <1>2, Zenon DEF IsJoined
<1>4. start = Len(Bytewise[k]) /\ delivered = Messages[k].sent /\ Pending = Messages[k].message
  BY DEF ReadOf
<1>5. Stands(send, end)
  <2>1. start = Len(Bytewise[(k + 1) - 1]) /\ Waiting(Messages[(k + 1) - 1].message)
    BY <1>2, <1>3, <1>4, Zenon
  <2>2. start \in Nat
    BY DEF Starts
  <2>. QED
    BY <1>2, <1>3, <2>1, <2>2, StandsHere
<1>6. /\ send \in Send /\ Proper(writer, send, Pending)
      /\ Adds(Messages[k], Messages[k + 1], Pending, send)
  BY <1>2, <1>3, <1>4, Zenon DEF StandsCall
<1>7. is_control(send.op) => send.fin /\ Len(send.payload) <= 125
  <2>1. writer \in BOOLEAN
    OBVIOUS
  <2> HIDE DEF writer, send
  <2>. QED
    BY <1>6, <2>1, PreparedIs
<1> HIDE DEF send, writer, end
<1>8. /\ ~Frames!Illegal /\ ~Frames!NotText
      /\ Frames!Payload = Plain(Size) /\ Frames!FrameEnd = end
  BY <1>3, <1>4, <1>5, <1>6, <1>7, FrameAllowed
<1>9. ~Frames!Fail
  BY <1>8 DEF Frames!Fail
<1>10. ASSUME Frames!NextFrame, script' = script PROVE ReadOf(k + 1)'
  <2> DEFINE this == [op |-> Op, payload |-> Before \o Plain(Size)]
  <2>1. this = IF is_control(send.op) THEN [op |-> send.op, payload |-> send.payload]
               ELSE Continued(Pending, send)
    BY <1>3, <1>4, <1>5, <1>6, ThisIs
  <2>2. /\ Frames!op = Op /\ Frames!Before = Before
        /\ (Frames!get_fin(Frames!h) <=> get_fin(H))
        /\ (Frames!is_control(Frames!get_opcode(Frames!h)) <=> is_control(get_opcode(H)))
    BY MessageIs, FrameIs, SameOperators
  <2>3. (get_fin(H) <=> send.fin) /\ get_opcode(H) = send.op
    BY <1>5, Zenon DEF Stands, IsHeader
  <2>4. [op |-> Frames!op, payload |-> Frames!Before \o Frames!Payload] = this
    BY <1>8, <2>2, Zenon
  <2> HIDE DEF this
  <2>5. /\ start' = end
        /\ IF send.fin
           THEN /\ delivered' = Append(delivered, this)
                /\ Pending' = IF is_control(send.op) THEN Pending ELSE NoMsg
           ELSE Pending' = this /\ delivered' = delivered
    BY <1>8, <1>10, <2>2, <2>3, <2>4, Zenon DEF Frames!NextFrame, Pending
  <2>6. delivered' = Messages[k + 1].sent /\ Pending' = Messages[k + 1].message
    <3>1. /\ Messages[k + 1].sent = IF is_control(send.op) THEN Append(delivered, [op |-> send.op, payload |-> send.payload])
                                    ELSE IF send.fin THEN Append(delivered, Continued(Pending, send))
                                    ELSE delivered
          /\ Messages[k + 1].message = IF is_control(send.op) THEN Pending
                                       ELSE IF send.fin THEN NoMsg
                                       ELSE Continued(Pending, send)
      BY <1>4, <1>6, Zenon DEF Adds
    <3>2. CASE is_control(send.op)
      BY <1>7, <2>1, <2>5, <3>1, <3>2, Zenon
    <3>3. CASE ~is_control(send.op) /\ send.fin
      BY <2>1, <2>5, <3>1, <3>3, Zenon
    <3>4. CASE ~is_control(send.op) /\ ~send.fin
      BY <2>1, <2>5, <3>1, <3>4, Zenon
    <3>. QED
      BY <3>2, <3>3, <3>4
  <2>7. Bytewise' = Bytewise /\ Messages' = Messages
    BY <1>10, Zenon DEF Bytewise, Messages
  <2>. QED
    BY <2>5, <2>6, <2>7, Zenon DEF ReadOf, end
<1>. QED
  BY <1>9, <1>10

\* Behind the last call there is nothing.
LEMMA NoMoreCalls ==
  ASSUME CodeSizes, StreamInv, Starts, script.formed, ReadOf(Calls)
  PROVE  ~Frames!Fail /\ ~Frames!NextFrame
<1>1. start = Len(stream)
  BY FormedIs DEF ReadOf
<1>2. Len(stream) \in Nat
  <2>1. stream \in Seq(Nat)
    BY StreamIs
  <2>. QED
    BY <2>1
<1>3. ~Frames!HasBasicHeader
  BY <1>1, <1>2 DEF Frames!HasBasicHeader
<1>4. ~Frames!HasHeader
  BY <1>3 DEF Frames!HasHeader
<1>5. ~Frames!Illegal /\ ~Frames!NotText
  BY <1>3, <1>4, Zenon DEF Frames!Illegal, Frames!NotText
<1>. QED
  BY <1>4, <1>5, Zenon DEF Frames!Fail, Frames!NextFrame

LEMMA SentStep ==
  ASSUME CodeSizes, OfFour(m_max_message_size), Inv, SentInv, [Next]_vars
  PROVE  SentInv'
<1>1. Inv' /\ [Frames!Next]_Frames!vars
  BY NextInv
<1>2. script' = script
  BY DEF Next, Read, ParseHandshake, handle_read_frame, vars
<1> SUFFICES ASSUME script.formed PROVE ec' = "none" /\ \E k \in 0 .. Calls' : ReadOf(k)'
  BY <1>2 DEF SentInv
<1>3. PICK k \in 0 .. Calls : ReadOf(k)
  BY DEF SentInv
<1>4. ec = "none" /\ StreamInv /\ script.lines = <<>>
  BY FormedIs DEF SentInv, Inv
<1>5. head = "open" /\ FrameInv
  BY <1>4 DEF Inv, HeadInv
<1>6. Starts
  BY <1>5 DEF FrameInv, Starts, Begins
<1>7. /\ Calls' = Calls /\ Bytewise' = Bytewise /\ Messages' = Messages
      /\ Calls \in Nat
  BY <1>2, <1>4, FormedIs DEF Calls, Bytewise, Messages
<1>8. CASE UNCHANGED Frames!vars
  <2>1. /\ start' = start /\ delivered' = delivered /\ Pending' = Pending
        /\ (IF ec' = "none" THEN "none" ELSE "failed") = (IF ec = "none" THEN "none" ELSE "failed")
    BY <1>8 DEF Frames!vars, Pending
  <2>2. ec' = "none"
    BY <1>4, <2>1
  <2>3. ReadOf(k)'
    BY <1>3, <1>7, <2>1, Zenon DEF ReadOf
  <2>. QED
    BY <1>7, <2>2, <2>3
<1>9. CASE Frames!Next
  <2>1. ~Frames!Open
    BY <1>5 DEF Frames!Open
  <2>2. CASE k = Calls
    BY <1>3, <1>4, <1>6, <1>9, <2>1, <2>2, NoMoreCalls DEF Frames!Next
  <2>3. CASE k # Calls
    <3>1. /\ ~Frames!Fail
          /\ Frames!NextFrame /\ script' = script => ReadOf(k + 1)'
      BY <1>3, <1>4, <1>6, <2>3, NextCall
    <3>2. Frames!NextFrame
      BY <1>9, <2>1, <3>1 DEF Frames!Next
    <3>3. ec' = "none"
      <4>1. (IF ec' = "none" THEN "none" ELSE "failed") = (IF ec = "none" THEN "none" ELSE "failed")
        BY <3>2 DEF Frames!NextFrame
      <4>. QED
        BY <1>4, <4>1
    <3>4. k + 1 \in 0 .. Calls
      BY <1>7, <2>3
    <3>. QED
      BY <1>2, <1>7, <3>1, <3>2, <3>3, <3>4
  <2>. QED
    BY <2>2, <2>3
<1>. QED
  BY <1>1, <1>8, <1>9

LEMMA SentInit ==
  ASSUME CodeSizes, Init
  PROVE  SentInv
<1>1. Inv
  BY InitInv
<1> SUFFICES ASSUME script.formed PROVE ec = "none" /\ \E k \in 0 .. Calls : ReadOf(k)
  BY DEF SentInv
<1>2. /\ Calls \in Nat /\ Len(Bytewise[0]) = 0 /\ Messages[0] = [message |-> NoMsg, sent |-> <<>>]
  BY <1>1, FormedIs DEF Inv
<1>3. ec = "none" /\ start = 0 /\ delivered = <<>> /\ Pending = NoMsg
  BY DEF Init, FrameInit, Pending
<1>4. Messages[0].sent = <<>> /\ Messages[0].message = NoMsg
  BY <1>2
<1>5. ReadOf(0)
  BY <1>2, <1>3, <1>4, Zenon DEF ReadOf
<1>. QED
  BY <1>2, <1>3, <1>5

LEMMA ExtendsIsPrefix ==
  ASSUME NEW S, NEW a \in Seq(S), NEW b \in Seq(S), Extends(a, b)
  PROVE  IsPrefix(a, b)
<1>1. Len(a) \in Nat /\ Len(b) \in Nat /\ Len(a) <= Len(b) /\ \A i \in 1 .. Len(a) : b[i] = a[i]
  BY DEF Extends
<1>2. SubSeq(a, 1, Len(a)) = [i \in 1 .. Len(a) |-> a[i]]
  BY <1>1
<1>3. SubSeq(b, 1, Len(a)) = [i \in 1 .. Len(a) |-> b[i]]
  BY <1>1
<1>4. SubSeq(a, 1, Len(a)) = SubSeq(b, 1, Len(a))
  BY <1>1, <1>2, <1>3
<1>. QED
  BY <1>1, <1>4 DEF IsPrefix

-----------------------------------------------------------------------------
(***************************************************************************)
(* The theorems.                                                           *)
(***************************************************************************)
LEMMA SpecInv ==
  ASSUME CodeSizes
  PROVE  Spec => []Inv
<1>1. Init => Inv
  BY InitInv
<1>2. Inv /\ [Next]_vars => Inv'
  BY NextInv
<1>. QED
  BY <1>1, <1>2, PTL DEF Spec

\* The reader of a connection keeps its types, with the code's sizes: what it has used
\* of what it has read of what was sent, the parser of the head and its limits, and the
\* processor's header, cursor and messages.
THEOREM TypesAlways ==
  ASSUME CodeSizes
  PROVE  Spec => []TypeOK
<1>1. Inv => TypeOK
  <2>1. SUFFICES ASSUME Inv PROVE TypeOK
    OBVIOUS
  <2>2. at \in Nat /\ got \in Nat /\ at <= got /\ got <= Len(stream) /\ stream \in Seq(Nat)
    <3>1. stream \in Seq(Nat)
      BY <2>1, StreamIs DEF Inv
    <3>. QED
      BY <2>1, <3>1 DEF Inv, StreamInv
  <2>3. StreamTypeOK
    <3>1. Len(stream) \in Nat
      BY <2>2
    <3>. QED
      BY <2>2, <3>1 DEF StreamTypeOK
  <2>4. HeadTypeOK /\ FrameTypeOK /\ start \in Nat /\ start <= at /\ (kept = NoMsg \/ kept \in Message)
    BY <2>1 DEF Inv, HeadInv, FrameInv, KeptOK
  <2>. QED
    BY <2>2, <2>3, <2>4 DEF TypeOK
<1>. QED
  BY <1>1, SpecInv, PTL

\* However the reads cut what a peer sends, consume takes out of it what one who has it
\* all would: the same frames, with the same payloads unmasked, the same messages in the
\* same order, and errors in the same frame (hybi13.hpp, consume and its helpers).
THEOREM ReadsAsAWhole ==
  ASSUME CodeSizes
  PROVE  Spec => FramesSpec
<1>1. Init => Frames!Init
  BY InitInv
<1>2. Inv /\ [Next]_vars => [Frames!Next]_Frames!vars
  BY NextInv
<1>. QED
  BY <1>1, <1>2, SpecInv, PTL DEF Spec, FramesSpec, Frames!Spec

\* A TEXT message that came in one frame is well formed UTF-8 when it is handed on, and
\* one that came in fragments is but for at most three bytes at its end that begin one
\* more code point (finalize_message asks for a complete text only when the last frame
\* itself says TEXT).
THEOREM TextAlmostWhole ==
  ASSUME CodeSizes
  PROVE  Spec => TextIsAtWorstCutShort
<1> DEFINE Cut(m, n) == /\ n <= Len(m.payload)
                        /\ WellFormed(SubSeq(m.payload, 1, Len(m.payload) - n))
                        /\ StartsCodePoint(SubSeq(m.payload, Len(m.payload) - n + 1, Len(m.payload)))
           Most == IF get_opcode(m_basic_header) = TEXT THEN 0 ELSE 3
           New == {delivered'[i] : i \in DOMAIN delivered' \ DOMAIN delivered}
           Handed == [op |-> Cur.op, payload |-> Cur.payload]
<1>1. ASSUME Inv, Next PROVE \A m \in New : m.op = TEXT => \E n \in 0 .. Most : Cut(m, n)
  <2>1. delivered \in Seq([op : Opcode, payload : Seq(Byte)])
    BY <1>1 DEF Inv, FrameInv, FrameTypeOK
  <2>2. CASE UNCHANGED delivered
    BY <2>2
  <2>3. CASE head = "open" /\ get_message
    <3>1. PICK k \in Nat : InPayload(k)
      BY <1>1, <2>3 DEF Inv, FrameInv, get_message, InFrame, InBasic, InExtended
    <3>2. /\ m_basic_header = H /\ Received(Cur, k)
          /\ get_opcode(H) = TEXT => complete(Cur.validator)
      BY <2>3, <3>1 DEF InPayload, get_message
    <3>3. /\ Cur \in Message /\ Cur.validator # utf8_reject
          /\ Cur.op = TEXT => Cur.validator = advance(utf8_accept, Cur.payload)
      BY <3>2 DEF Received
    <3>4. Cur.op \in Opcode /\ Cur.payload \in Seq(Byte)
      BY <3>3 DEF Message
    <3>5. Cur.payload \in Text
      BY <3>4 DEF Text, Byte, Octet
    <3>6. \A m \in New : m = Handed
      <4>1. delivered' = Append(delivered, Handed)
        BY <2>3 DEF get_message, Cur
      <4>2. Handed \in [op : Opcode, payload : Seq(Byte)]
        BY <3>4
      <4> HIDE DEF Handed
      <4>. QED
        BY <2>1, <4>1, <4>2
    <3>7. Handed.op = Cur.op /\ Handed.payload = Cur.payload
      OBVIOUS
    <3> HIDE DEF Handed
    <3>8. ASSUME Handed.op = TEXT PROVE \E n \in 0 .. Most : Cut(Handed, n)
      <4>1. CASE get_opcode(H) = TEXT
        <5>1. WellFormed(Cur.payload)
          BY <3>2, <3>3, <3>5, <3>7, <3>8, <4>1, ValidatorIsRight DEF validate
        <5>2. /\ SubSeq(Cur.payload, 1, Len(Cur.payload) - 0) = Cur.payload
              /\ SubSeq(Cur.payload, Len(Cur.payload) - 0 + 1, Len(Cur.payload)) = <<>>
              /\ 0 <= Len(Cur.payload)
          BY <3>4
        <5>3. Cut(Handed, 0)
          BY <3>7, <5>1, <5>2 DEF StartsCodePoint
        <5>4. 0 \in 0 .. Most
          BY <3>2, <4>1
        <5>. QED
          BY <5>3, <5>4
      <4>2. CASE get_opcode(H) # TEXT
        <5>1. \E n \in 0 .. 3 : Cut(Handed, n)
          BY <3>3, <3>5, <3>7, <3>8, AtWorstCutShort
        <5>2. Most = 3
          BY <3>2, <4>2
        <5>. QED
          BY <5>1, <5>2
      <4>. QED
        BY <4>1, <4>2
    <3>. QED
      BY <3>6, <3>8
  <2>. QED
    BY <1>1, <2>2, <2>3
       DEF Next, Read, ParseHandshake, handle_read_frame, consume, ReadBasicHeader, ReadExtendedHeader,
           ReadPayload, Reject, frameVars
<1>2. ASSUME UNCHANGED vars PROVE New = {}
  BY <1>2 DEF vars, frameVars
<1>3. Inv /\ [Next]_vars =>
        [\A m \in New : m.op = TEXT => \E n \in 0 .. Most : Cut(m, n)]_vars
  BY <1>1
<1>. QED
  BY <1>3, SpecInv, PTL DEF Spec, TextIsAtWorstCutShort

\* What a handshake comes to, and where the frames begin behind it, is what its lines
\* say as a whole, however the reads cut it; but for a head that is found too large, and
\* the bytes that a response's Content-Length claims (http/parser and connection_impl).
THEOREM HandshakeJudgedAsAWhole ==
  ASSUME CodeSizes
  PROVE  Spec => []HandshakeAsAWhole
<1>1. Inv => HandshakeAsAWhole
  BY DEF Inv, HeadInv, FrameInv, Judged, Begins, HandshakeAsAWhole, HeadLen, Length, TooLarge
<1>. QED
  BY <1>1, SpecInv, PTL

\* What a peer sends through prepare_data_frame and prepare_control is received: message
\* by message, in order, with the bytes of each and its fragments joined, however the
\* reads cut it; none of it is taken for an error; and when all of it is read, all of it
\* was handed on.  For any number of calls, any keys and payloads, with the code's sizes
\* and a limit on messages that fits in 32 bits.
THEOREM SentIsReceived ==
  ASSUME CodeSizes, OfFour(m_max_message_size)
  PROVE  Spec => []ReceivesWhatWasSent
<1>1. Init => SentInv
  BY SentInit
<1>2. Inv /\ SentInv /\ [Next]_vars => SentInv'
  BY SentStep
<1>3. Inv /\ SentInv => ReceivesWhatWasSent
  <2> SUFFICES ASSUME Inv, SentInv, script.formed, head = "open"
               PROVE  LET sent == Messages[Calls].sent
                      IN  /\ ec = "none" /\ IsPrefix(delivered, sent)
                          /\ at = Len(stream) /\ m_state = "HEADER_BASIC" => delivered = sent
    BY Zenon DEF ReceivesWhatWasSent, Messages, Calls
  <2>1. ec = "none"
    BY DEF SentInv
  <2>2. PICK k \in 0 .. Calls : ReadOf(k)
    BY DEF SentInv
  <2>3. StreamInv /\ FrameInv
    BY DEF Inv
  <2>4. /\ Calls \in Nat /\ \A i \in 0 .. Calls : /\ IsJoined(Messages[i])
                                                  /\ Extends(Messages[i].sent, Messages[Calls].sent)
        /\ \A i \in 1 .. Calls : StandsCall(i)
        /\ \A i \in 0 .. Calls : Bytewise[i] \in Seq(Byte) /\ Len(Bytewise[i]) <= Len(stream)
    BY <2>3, FormedIs, Zenon
  <2>5. delivered = Messages[k].sent /\ start = Len(Bytewise[k])
    BY <2>2 DEF ReadOf
  <2>6. IsPrefix(delivered, Messages[Calls].sent)
    <3>1. Calls \in 0 .. Calls
      BY <2>4
    <3>2. Messages[k].sent \in Seq(Sent) /\ Messages[Calls].sent \in Seq(Sent)
      BY <2>4, <3>1, Zenon DEF IsJoined
    <3>3. Extends(Messages[k].sent, Messages[Calls].sent)
      BY <2>4, Zenon
    <3>. QED
      BY <2>5, <3>2, <3>3, ExtendsIsPrefix
  <2>7. ASSUME at = Len(stream), m_state = "HEADER_BASIC" PROVE delivered = Messages[Calls].sent
    <3>1. CASE k = Calls
      BY <2>5, <3>1
    <3>2. CASE k # Calls
      <4>1. k + 1 \in 1 .. Calls /\ (k + 1) - 1 = k /\ k + 1 \in 0 .. Calls
        BY <2>4, <3>2
      <4>2. Starts
        BY <2>3 DEF FrameInv, Starts, Begins
      <4>3. Stands(script.sends[k + 1], Len(Bytewise[k + 1]))
        <5>1. /\ StandsCall(k + 1) /\ start = Len(Bytewise[(k + 1) - 1])
              /\ Waiting(Messages[(k + 1) - 1].message) /\ start \in Nat
          BY <2>4, <2>5, <4>1, <4>2, Zenon DEF IsJoined, Starts
        <5>. QED
          BY <2>3, <4>1, <5>1, StandsHere
      <4>4. start + 2 <= Len(stream)
        BY <4>3, Zenon DEF Stands, HasWholeHeader, HasBasic
      <4>5. m_bytes_needed \in {1, 2} /\ at = start + 2 - m_bytes_needed
        BY <2>1, <2>3, <2>7 DEF FrameInv, InFrame, InBasic, InExtended, InPayload
      <4>6. start \in Nat /\ Len(stream) \in Nat
        <5>1. stream \in Seq(Nat)
          BY <2>3, StreamIs
        <5>. QED
          BY <4>2, <5>1 DEF Starts
      <4>. QED
        BY <2>7, <4>4, <4>5, <4>6
    <3>. QED
      BY <3>1, <3>2
  <2>. QED
    BY <2>1, <2>6, <2>7
<1>. QED
  BY <1>1, <1>2, <1>3, SpecInv, PTL DEF Spec
=============================================================================
