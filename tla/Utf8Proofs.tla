------------------------------ MODULE Utf8Proofs ------------------------------
(***************************************************************************)
(* Proofs about the validator of UTF-8, for texts of any length.  What is  *)
(* computed byte by byte is reasoned about with a set of numbers that has  *)
(* 0 and every successor.                                                  *)
(***************************************************************************)
EXTENDS Utf8, SequenceTheorems, WellFoundedInduction, TLAPS

\* Induction over numbers: the smallest number that is missing has a predecessor.
LEMMA EveryNumber ==
  ASSUME NEW T, 0 \in T, \A n \in Nat : n \in T => n + 1 \in T
  PROVE  Nat \subseteq T
<1>1. SUFFICES ASSUME Nat \ T # {} PROVE FALSE
  OBVIOUS
<1>2. IsWellFoundedOn(OpToRel(<, Nat), Nat)
  BY NatLessThanWellFounded
<1>3. PICK x \in Nat \ T : \A y \in Nat \ T : ~ (<<y, x>> \in OpToRel(<, Nat))
  <2>1. Nat \ T \subseteq Nat
    OBVIOUS
  <2>. QED
    BY <1>1, <1>2, <2>1, WFMin, Zenon
<1>4. \A y \in Nat \ T : ~ (y < x)
  BY <1>3, Zenon DEF OpToRel
<1>5. x # 0 /\ x \in Nat
  BY <1>3
<1>6. x - 1 \in T
  <2>1. x - 1 \in Nat /\ x - 1 < x
    BY <1>5
  <2>. QED
    BY <1>4, <2>1
<1>. QED
  <2>1. (x - 1) + 1 = x /\ x - 1 \in Nat
    BY <1>5
  <2>. QED
    BY <1>3, <1>6, <2>1, Zenon

-----------------------------------------------------------------------------
(***************************************************************************)
(* The state after a sequence of bytes.                                    *)
(***************************************************************************)
Step(f, state, bytes, n) == IF n = 0 THEN state ELSE decode(f[n - 1], bytes[n])

IsRun(f, state, bytes) == f = [n \in 0 .. Len(bytes) |-> Step(f, state, bytes, n)]

LEMMA RunExists ==
  ASSUME NEW S, NEW bytes \in Seq(S), NEW state
  PROVE  \E f : IsRun(f, state, bytes)
<1> DEFINE T == {n \in Nat : \E f : f = [m \in 0 .. n |-> Step(f, state, bytes, m)]}
<1>1. 0 \in T
  <2>1. [m \in 0 .. 0 |-> state] = [m \in 0 .. 0 |-> Step([k \in 0 .. 0 |-> state], state, bytes, m)]
    BY DEF Step
  <2>. QED
    BY <2>1
<1>2. ASSUME NEW n \in Nat, n \in T PROVE n + 1 \in T
  <2>1. PICK f : f = [m \in 0 .. n |-> Step(f, state, bytes, m)]
    BY <1>2
  <2> DEFINE g == [m \in 0 .. n + 1 |-> IF m = n + 1 THEN decode(f[n], bytes[n + 1]) ELSE f[m]]
  <2>2. ASSUME NEW m \in 0 .. n + 1 PROVE g[m] = Step(g, state, bytes, m)
    BY <2>1 DEF Step
  <2>3. g = [m \in 0 .. n + 1 |-> g[m]]
    OBVIOUS
  <2> HIDE DEF g
  <2>4. g = [m \in 0 .. n + 1 |-> Step(g, state, bytes, m)]
    BY <2>2, <2>3, Zenon
  <2>. QED
    BY <2>4
<1>3. Len(bytes) \in T
  <2> HIDE DEF T
  <2>. QED
    BY <1>1, <1>2, EveryNumber
<1>. QED
  BY <1>3 DEF IsRun

LEMMA RunIs ==
  ASSUME NEW S, NEW bytes \in Seq(S), NEW state
  PROVE  \E f : /\ advance(state, bytes) = f[Len(bytes)] /\ f[0] = state
                /\ \A n \in 1 .. Len(bytes) : f[n] = decode(f[n - 1], bytes[n])
<1> DEFINE f == CHOOSE g : IsRun(g, state, bytes)
<1>1. IsRun(f, state, bytes)
  BY RunExists
<1>2. advance(state, bytes) = f[Len(bytes)]
  BY Zenon DEF advance, IsRun, Step
<1> HIDE DEF f
<1>3. f[0] = state /\ \A n \in 1 .. Len(bytes) : f[n] = decode(f[n - 1], bytes[n])
  BY <1>1 DEF IsRun, Step
<1>. QED
  BY <1>2, <1>3

\* What is computed byte by byte is what any run computes.
LEMMA AdvanceIs ==
  ASSUME NEW S, NEW bytes \in Seq(S), NEW state,
         NEW f, f[0] = state, \A n \in 1 .. Len(bytes) : f[n] = decode(f[n - 1], bytes[n])
  PROVE  advance(state, bytes) = f[Len(bytes)]
<1>1. PICK g : /\ advance(state, bytes) = g[Len(bytes)] /\ g[0] = state
               /\ \A n \in 1 .. Len(bytes) : g[n] = decode(g[n - 1], bytes[n])
  BY RunIs
<1> DEFINE T == {n \in Nat : n <= Len(bytes) => f[n] = g[n]}
<1>2. 0 \in T
  BY <1>1
<1>3. ASSUME NEW n \in Nat, n \in T PROVE n + 1 \in T
  <2>1. SUFFICES ASSUME n + 1 <= Len(bytes) PROVE f[n + 1] = g[n + 1]
    OBVIOUS
  <2>2. n + 1 \in 1 .. Len(bytes) /\ (n + 1) - 1 = n /\ f[n] = g[n]
    BY <1>3, <2>1
  <2>. QED
    BY <1>1, <2>2
<1>4. Len(bytes) \in T
  <2> HIDE DEF T
  <2>. QED
    BY <1>2, <1>3, EveryNumber
<1>. QED
  BY <1>1, <1>4

LEMMA AdvanceNothing ==
  ASSUME NEW state
  PROVE  advance(state, <<>>) = state
<1>1. PICK none : none = <<>>
  OBVIOUS
<1>2. none \in Seq(Nat) /\ Len(none) = 0
  BY <1>1
<1>3. PICK f : /\ advance(state, none) = f[Len(none)] /\ f[0] = state
              /\ \A n \in 1 .. Len(none) : f[n] = decode(f[n - 1], none[n])
  <2>1. ASSUME NEW bytes \in Seq(Nat)
        PROVE  \E f : /\ advance(state, bytes) = f[Len(bytes)] /\ f[0] = state
                      /\ \A n \in 1 .. Len(bytes) : f[n] = decode(f[n - 1], bytes[n])
    BY RunIs
  <2>. QED
    BY <1>2, <2>1, Zenon
<1>. QED
  BY <1>1, <1>2, <1>3, Zenon

\* A text in two parts is validated as a whole.
LEMMA AdvanceConcat ==
  ASSUME NEW S, NEW a \in Seq(S), NEW b \in Seq(S), NEW state
  PROVE  advance(state, a \o b) = advance(advance(state, a), b)
<1>1. PICK f : /\ advance(state, a) = f[Len(a)] /\ f[0] = state
               /\ \A n \in 1 .. Len(a) : f[n] = decode(f[n - 1], a[n])
  BY RunIs
<1>2. PICK g : /\ advance(f[Len(a)], b) = g[Len(b)] /\ g[0] = f[Len(a)]
               /\ \A n \in 1 .. Len(b) : g[n] = decode(g[n - 1], b[n])
  BY RunIs
<1> DEFINE h == [n \in 0 .. Len(a) + Len(b) |-> IF n <= Len(a) THEN f[n] ELSE g[n - Len(a)]]
<1>3. /\ a \o b \in Seq(S) /\ Len(a \o b) = Len(a) + Len(b)
      /\ \A n \in 1 .. Len(a) + Len(b) : (a \o b)[n] = IF n <= Len(a) THEN a[n] ELSE b[n - Len(a)]
  OBVIOUS
<1>4. h[0] = state /\ h[Len(a) + Len(b)] = g[Len(b)]
  BY <1>1, <1>2
<1>5. ASSUME NEW n \in 1 .. Len(a) + Len(b) PROVE h[n] = decode(h[n - 1], (a \o b)[n])
  <2>1. CASE n <= Len(a)
    BY <1>1, <1>3, <2>1
  <2>2. CASE n > Len(a)
    <3>1. n - Len(a) \in 1 .. Len(b) /\ h[n] = g[n - Len(a)] /\ (a \o b)[n] = b[n - Len(a)]
      BY <1>3, <2>2
    <3>2. h[n - 1] = g[(n - Len(a)) - 1]
      BY <1>2, <2>2
    <3>. QED
      BY <1>2, <3>1, <3>2
  <2>. QED
    BY <2>1, <2>2
<1> HIDE DEF h
<1>6. advance(state, a \o b) = h[Len(a) + Len(b)]
  BY <1>3, <1>4, <1>5, AdvanceIs
<1>. QED
  BY <1>1, <1>2, <1>4, <1>6

\* What was rejected stays rejected, whatever else comes.
LEMMA StaysRejected ==
  ASSUME NEW S, NEW a \in Seq(S), NEW b \in Seq(S), NEW state, advance(state, a) = utf8_reject
  PROVE  advance(state, a \o b) = utf8_reject
<1>1. \A byte : decode(utf8_reject, byte) = utf8_reject
  BY DEF decode, Accepting, utf8_reject
<1> DEFINE f == [n \in 0 .. Len(b) |-> utf8_reject]
<1>2. f[0] = utf8_reject /\ f[Len(b)] = utf8_reject
      /\ \A n \in 1 .. Len(b) : f[n] = decode(f[n - 1], b[n])
  BY <1>1
<1> HIDE DEF f
<1>3. advance(utf8_reject, b) = utf8_reject
  BY <1>2, AdvanceIs
<1>. QED
  BY <1>3, AdvanceConcat

\* The states are the ones of the table.
LEMMA StatesAre ==
  ASSUME NEW S, NEW bytes \in Seq(S), NEW state \in 0 .. 8
  PROVE  advance(state, bytes) \in 0 .. 8
<1>1. \A from, byte : decode(from, byte) \in 0 .. 8
  <2>1. \A i \in DOMAIN Accepting : Accepting[i].to \in 0 .. 8
    BY DEF Accepting
  <2>. QED
    BY <2>1 DEF decode, utf8_reject
<1>2. PICK f : /\ advance(state, bytes) = f[Len(bytes)] /\ f[0] = state
               /\ \A n \in 1 .. Len(bytes) : f[n] = decode(f[n - 1], bytes[n])
  BY RunIs
<1>. QED
  BY <1>1, <1>2

-----------------------------------------------------------------------------
(***************************************************************************)
(* The table, by bytes instead of types.                                   *)
(***************************************************************************)
Octet == 0..255

LEMMA Types ==
  ASSUME NEW byte \in Octet
  PROVE  /\ byte <= 127 => ByteType(byte) = 0
         /\ byte \in 128..143 => ByteType(byte) = 1
         /\ byte \in 144..159 => ByteType(byte) = 9
         /\ byte \in 160..191 => ByteType(byte) = 7
         /\ byte \in {192, 193} \union 245..255 => ByteType(byte) = 8
         /\ byte \in 194..223 => ByteType(byte) = 2
         /\ byte = 224 => ByteType(byte) = 10
         /\ byte \in 225..239 \ {237} => ByteType(byte) = 3
         /\ byte = 237 => ByteType(byte) = 4
         /\ byte = 240 => ByteType(byte) = 11
         /\ byte \in 241..243 => ByteType(byte) = 6
         /\ byte = 244 => ByteType(byte) = 5
<1>1. ASSUME byte <= 127 PROVE ByteType(byte) = 0
  BY <1>1 DEF ByteType, Octet
<1>2. ASSUME byte \in 128..143 PROVE ByteType(byte) = 1
  BY <1>2 DEF ByteType, Octet
<1>3. ASSUME byte \in 144..159 PROVE ByteType(byte) = 9
  BY <1>3 DEF ByteType, Octet
<1>4. ASSUME byte \in 160..191 PROVE ByteType(byte) = 7
  BY <1>4 DEF ByteType, Octet
<1>5. ASSUME byte \in {192, 193} \union 245..255 PROVE ByteType(byte) = 8
  BY <1>5 DEF ByteType, Octet
<1>6. ASSUME byte \in 194..223 PROVE ByteType(byte) = 2
  BY <1>6 DEF ByteType, Octet
<1>7. ASSUME byte = 224 PROVE ByteType(byte) = 10
  BY <1>7 DEF ByteType, Octet
<1>8. ASSUME byte \in 225..239 \ {237} PROVE ByteType(byte) = 3
  BY <1>8 DEF ByteType, Octet
<1>9. ASSUME byte = 237 PROVE ByteType(byte) = 4
  BY <1>9 DEF ByteType, Octet
<1>10. ASSUME byte = 240 PROVE ByteType(byte) = 11
  BY <1>10 DEF ByteType, Octet
<1>11. ASSUME byte \in 241..243 PROVE ByteType(byte) = 6
  BY <1>11 DEF ByteType, Octet
<1>12. ASSUME byte = 244 PROVE ByteType(byte) = 5
  BY <1>12 DEF ByteType, Octet
<1>. QED
  BY <1>1, <1>2, <1>3, <1>4, <1>5, <1>6, <1>7, <1>8, <1>9, <1>10, <1>11, <1>12

\* The moves that are not rejections.
Moves(from, byte, to) ==
  \/ from = 0 /\ byte <= 127 /\ to = 0
  \/ from = 0 /\ byte \in 194..223 /\ to = 2
  \/ from = 0 /\ byte = 224 /\ to = 4
  \/ from = 0 /\ byte = 237 /\ to = 5
  \/ from = 0 /\ byte \in 225..239 /\ byte # 237 /\ to = 3
  \/ from = 0 /\ byte = 240 /\ to = 6
  \/ from = 0 /\ byte \in 241..243 /\ to = 7
  \/ from = 0 /\ byte = 244 /\ to = 8
  \/ from = 2 /\ byte \in 128..191 /\ to = 0
  \/ from = 3 /\ byte \in 128..191 /\ to = 2
  \/ from = 4 /\ byte \in 160..191 /\ to = 2
  \/ from = 5 /\ byte \in 128..159 /\ to = 2
  \/ from = 6 /\ byte \in 144..191 /\ to = 3
  \/ from = 7 /\ byte \in 128..191 /\ to = 3
  \/ from = 8 /\ byte \in 128..143 /\ to = 3

LEMMA Decoded ==
  ASSUME NEW from, NEW byte \in Octet
  PROVE  /\ decode(from, byte) = utf8_reject \/ Moves(from, byte, decode(from, byte))
         /\ \A to : Moves(from, byte, to) => decode(from, byte) = to
<1> DEFINE Row(i) == from \in Accepting[i].from /\ ByteType(byte) \in Accepting[i].type
           rows == {i \in DOMAIN Accepting : Row(i)}
<1>1. \A i \in DOMAIN Accepting : Row(i) => Moves(from, byte, Accepting[i].to)
  BY Types DEF Accepting, Moves, Octet
<1>2. \A to : Moves(from, byte, to) => \E i \in DOMAIN Accepting : Row(i)
  BY Types DEF Accepting, Moves, Octet
<1>3. \A s, t : Moves(from, byte, s) /\ Moves(from, byte, t) => s = t
  BY DEF Moves, Octet
<1>4. decode(from, byte) = IF rows = {} THEN utf8_reject ELSE Accepting[CHOOSE i \in rows : TRUE].to
  BY DEF decode
<1>5. CASE rows = {}
  BY <1>2, <1>4, <1>5
<1>6. CASE rows # {}
  <2>1. PICK i \in rows : decode(from, byte) = Accepting[i].to
    BY <1>4, <1>6
  <2>2. Moves(from, byte, decode(from, byte))
    BY <1>1, <2>1
  <2>. QED
    BY <1>3, <2>2
<1>. QED
  BY <1>5, <1>6

\* Inside a code point every byte is a continuation and one byte less is missing.
LEMMA MovesInside ==
  ASSUME NEW from \in 2..8, NEW byte \in Octet, NEW to, Moves(from, byte, to)
  PROVE  /\ to \in {0, 2, 3} /\ byte \in 128..191
         /\ to = 0 => from = 2
         /\ to = 2 => from \in 3..5
         /\ to = 3 => from \in 6..8
         /\ from = 6 => byte >= 144
         /\ from = 8 => byte <= 143
BY DEF Moves, Octet

\* The numbers that an encoding stands for, and the moves through it.
LEMMA OneByteMoves ==
  ASSUME NEW p \in Octet
  PROVE  p < 128 <=> Moves(0, p, 0)
BY DEF Moves, Octet

LEMMA TwoBytesMove ==
  ASSUME NEW p \in Octet, NEW q \in Octet
  PROVE  TwoBytes(p, q) <=> \E x \in 2..8 : Moves(0, p, x) /\ Moves(x, q, 0)
<1>1. ASSUME NEW x \in 2..8, Moves(0, p, x), Moves(x, q, 0) PROVE TwoBytes(p, q)
  BY <1>1 DEF Moves, Octet, Continuation, TwoBytes
<1>2. ASSUME TwoBytes(p, q) PROVE Moves(0, p, 2) /\ Moves(2, q, 0)
  BY <1>2 DEF Moves, Octet, Continuation, TwoBytes
<1>. QED
  BY <1>1, <1>2

ThreeMoves(p, q, r) ==
  \E x \in 2..8 : \E y \in 2..8 : Moves(0, p, x) /\ Moves(x, q, y) /\ Moves(y, r, 0)

LEMMA ThreeBytesMove ==
  ASSUME NEW p \in Octet, NEW q \in Octet, NEW r \in Octet
  PROVE  ThreeBytes(p, q, r) <=> ThreeMoves(p, q, r)
<1>1. ASSUME NEW x \in 2..8, NEW y \in 2..8, Moves(0, p, x), Moves(x, q, y), Moves(y, r, 0)
      PROVE  ThreeBytes(p, q, r)
  BY <1>1 DEF Moves, Octet, Continuation, ThreeBytes
<1>2. ASSUME ThreeBytes(p, q, r)
      PROVE  \E x \in 3..5 : Moves(0, p, x) /\ Moves(x, q, 2) /\ Moves(2, r, 0)
  BY <1>2 DEF Moves, Octet, Continuation, ThreeBytes
<1>3. 2 \in 2..8 /\ 3..5 \subseteq 2..8
  OBVIOUS
<1>4. ThreeBytes(p, q, r) => ThreeMoves(p, q, r)
  BY <1>2, <1>3, Zenon DEF ThreeMoves
<1>5. ThreeMoves(p, q, r) => ThreeBytes(p, q, r)
  BY <1>1, Zenon DEF ThreeMoves
<1>. QED
  BY <1>4, <1>5

FourMoves(p, q, r, s) ==
  \E x \in 2..8 : \E y \in 2..8 : \E z \in 2..8 :
    Moves(0, p, x) /\ Moves(x, q, y) /\ Moves(y, r, z) /\ Moves(z, s, 0)

LEMMA FourBytesMove ==
  ASSUME NEW p \in Octet, NEW q \in Octet, NEW r \in Octet, NEW s \in Octet
  PROVE  FourBytes(p, q, r, s) <=> FourMoves(p, q, r, s)
<1> DEFINE Path == /\ r \in 128..191 /\ s \in 128..191
                   /\ \/ p = 240 /\ q \in 144..191
                      \/ p \in 241..243 /\ q \in 128..191
                      \/ p = 244 /\ q \in 128..143
<1>1. ASSUME NEW x \in 2..8, NEW y \in 2..8, NEW z \in 2..8,
             Moves(0, p, x), Moves(x, q, y), Moves(y, r, z), Moves(z, s, 0)
      PROVE  Path
  <2>1. z = 2 /\ s \in 128..191
    BY ZenonT(40), <1>1, MovesInside
  <2>2. z \in {0, 2, 3} /\ y \in {0, 2, 3}
    BY <1>1, MovesInside, Zenon
  <2>3. y = 3 /\ r \in 128..191
    <3>1. y \in 3..5
      BY ZenonT(40), <1>1, <2>1, MovesInside
    <3>2. y = 3
      BY <2>2, <3>1
    <3>. QED
      BY ZenonT(40), <1>1, <3>2, MovesInside
  <2>4. x \in 6..8 /\ q \in 128..191 /\ (x = 6 => q >= 144) /\ (x = 8 => q <= 143)
    BY <1>1, <2>3, MovesInside
  <2>5. (x = 6 => p = 240) /\ (x = 7 => p \in 241..243) /\ (x = 8 => p = 244)
    BY <1>1 DEF Moves
  <2>. HIDE DEF Moves
  <2>. QED
    BY <2>1, <2>3, <2>4, <2>5
<1>2. ASSUME Path PROVE FourBytes(p, q, r, s)
  <2>1. CASE p = 240 /\ q \in 144..191
    BY <1>2, <2>1, SMT DEF Octet, Continuation, FourBytes
  <2>2. CASE p \in 241..243 /\ q \in 128..191
    BY <1>2, <2>2, SMT DEF Octet, Continuation, FourBytes
  <2>3. CASE p = 244 /\ q \in 128..143
    BY <1>2, <2>3, SMT DEF Octet, Continuation, FourBytes
  <2>. QED
    BY <1>2, <2>1, <2>2, <2>3
<1>3. ASSUME FourBytes(p, q, r, s) PROVE Path
  <2>1. p \in 240..247 /\ q \in 128..191 /\ r \in 128..191 /\ s \in 128..191
    BY <1>3, SMT DEF FourBytes, Continuation
  <2> DEFINE scalar == (p - 240) * 262144 + (q - 128) * 4096 + (r - 128) * 64 + (s - 128)
  <2>2. scalar >= 65536 /\ scalar <= 1114111
    BY <1>3, SMT DEF FourBytes
  <2>3. p <= 244 /\ (p = 240 => q >= 144) /\ (p = 244 => q <= 143)
    BY <2>1, <2>2, SMT
  <2>. QED
    BY <2>1, <2>3
<1>4. ASSUME Path
      PROVE  \E x \in 6..8 : Moves(0, p, x) /\ Moves(x, q, 3) /\ Moves(3, r, 2) /\ Moves(2, s, 0)
  <2>1. Moves(3, r, 2) /\ Moves(2, s, 0)
    BY <1>4 DEF Moves
  <2>2. CASE p = 240 /\ q \in 144..191
    <3>1. Moves(0, p, 6) /\ Moves(6, q, 3)
      BY <2>2 DEF Moves
    <3>. QED
      BY <2>1, <3>1
  <2>3. CASE p \in 241..243 /\ q \in 128..191
    <3>1. Moves(0, p, 7) /\ Moves(7, q, 3)
      BY <2>3 DEF Moves
    <3>. QED
      BY <2>1, <3>1
  <2>4. CASE p = 244 /\ q \in 128..143
    <3>1. Moves(0, p, 8) /\ Moves(8, q, 3)
      BY <2>4 DEF Moves
    <3>. QED
      BY <2>1, <3>1
  <2>. QED
    BY <1>4, <2>2, <2>3, <2>4
<1> HIDE DEF Path
<1>5. 2 \in 2..8 /\ 3 \in 2..8 /\ 6..8 \subseteq 2..8
  OBVIOUS
<1>. QED
  BY <1>1, <1>2, <1>3, <1>4, <1>5 DEF FourMoves

-----------------------------------------------------------------------------
(***************************************************************************)
(* What is well formed, by where its code points end.                      *)
(***************************************************************************)
Ends(f, bytes, n) == n = 0 \/ \E i \in 0 .. n - 1 : i >= n - 4 /\ f[i] /\ Encodes(SubSeq(bytes, i + 1, n))

AreEnds(f, bytes) == f = [n \in 0 .. Len(bytes) |-> Ends(f, bytes, n)]

LEMMA EndsExist ==
  ASSUME NEW S, NEW bytes \in Seq(S)
  PROVE  \E f : AreEnds(f, bytes)
<1> DEFINE T == {n \in Nat : \E f : f = [m \in 0 .. n |-> Ends(f, bytes, m)]}
<1>1. 0 \in T
  <2> DEFINE f == [m \in 0 .. 0 |-> TRUE]
  <2>1. \A m \in 0 .. 0 : Ends(f, bytes, m) = TRUE
    BY DEF Ends
  <2>2. f = [m \in 0 .. 0 |-> Ends(f, bytes, m)]
    BY <2>1, Zenon
  <2>. QED
    BY <2>2
<1>2. ASSUME NEW n \in Nat, n \in T PROVE n + 1 \in T
  <2>1. PICK f : f = [m \in 0 .. n |-> Ends(f, bytes, m)]
    BY <1>2
  <2> DEFINE g == [m \in 0 .. n + 1 |-> IF m = n + 1 THEN Ends(f, bytes, n + 1) ELSE f[m]]
  <2>2. \A m \in 0 .. n : g[m] = f[m]
    OBVIOUS
  <2>3. \A m \in 0 .. n : f[m] = Ends(f, bytes, m)
    BY <2>1, Zenon
  <2>4. g[n + 1] = Ends(f, bytes, n + 1) /\ g = [m \in 0 .. n + 1 |-> g[m]]
    OBVIOUS
  <2> HIDE DEF g
  <2>5. ASSUME NEW m \in 0 .. n + 1 PROVE Ends(g, bytes, m) = Ends(f, bytes, m)
    <3>1. \A i \in 0 .. m - 1 : i \in 0 .. n
      OBVIOUS
    <3>2. \A i \in 0 .. m - 1 : g[i] = f[i]
      BY <2>2, <3>1, Zenon
    <3>. QED
      BY <3>2, Zenon DEF Ends
  <2>6. ASSUME NEW m \in 0 .. n + 1 PROVE g[m] = Ends(g, bytes, m)
    <3>1. m \in 0 .. n \/ m = n + 1
      OBVIOUS
    <3>. QED
      BY <2>2, <2>3, <2>4, <2>5, <3>1, Zenon
  <2>7. g = [m \in 0 .. n + 1 |-> Ends(g, bytes, m)]
    BY <2>4, <2>6, Zenon
  <2>. QED
    BY <2>7
<1>3. Len(bytes) \in T
  <2> HIDE DEF T
  <2>. QED
    BY <1>1, <1>2, EveryNumber
<1>. QED
  BY <1>3 DEF AreEnds

LEMMA EndsAre ==
  ASSUME NEW S, NEW bytes \in Seq(S)
  PROVE  \E f : /\ WellFormed(bytes) = f[Len(bytes)]
                /\ \A n \in 0 .. Len(bytes) : f[n] = Ends(f, bytes, n)
<1> DEFINE f == CHOOSE g : AreEnds(g, bytes)
<1>1. AreEnds(f, bytes)
  BY EndsExist
<1>2. WellFormed(bytes) = f[Len(bytes)]
  BY Zenon DEF WellFormed, AreEnds, Ends
<1> HIDE DEF f
<1>3. \A n \in 0 .. Len(bytes) : f[n] = Ends(f, bytes, n)
  BY <1>1, Zenon DEF AreEnds
<1>. QED
  BY <1>2, <1>3

-----------------------------------------------------------------------------
(***************************************************************************)
(* A run is in state 0 exactly where a code point ends.                    *)
(***************************************************************************)
Text == Seq(Octet)

Run(f, bytes) == f[0] = utf8_accept /\ \A n \in 1 .. Len(bytes) : f[n] = decode(f[n - 1], bytes[n])

\* What is missing of a code point in a state.
Missing(state) == IF state = 2 THEN 1 ELSE IF state <= 5 THEN 2 ELSE 3

\* The last k of n bytes begin a code point.
Inside(f, bytes, n, k) ==
  /\ k <= n /\ f[n - k] = 0
  /\ \A j \in n - k + 1 .. n : f[j] \in 2..8
  /\ k > 0 => /\ bytes[n - k + 1] \in 194..244
              /\ Announced(bytes[n - k + 1]) = k + Missing(f[n])
              /\ \A j \in n - k + 2 .. n : bytes[j] \in Continuation

LEMMA MovesFirst ==
  ASSUME NEW byte \in Octet, NEW to, Moves(0, byte, to), to # 0
  PROVE  to \in 2..8 /\ byte \in 194..244 /\ Announced(byte) = 1 + Missing(to)
BY DEF Moves, Octet, Announced, Missing

LEMMA RunMoves ==
  ASSUME NEW bytes \in Text, NEW f, Run(f, bytes), NEW n \in 1 .. Len(bytes), f[n] # utf8_reject
  PROVE  bytes[n] \in Octet /\ Moves(f[n - 1], bytes[n], f[n])
<1>1. bytes[n] \in Octet
  BY DEF Text
<1>. QED
  BY <1>1, Decoded DEF Run

LEMMA InsideCodePoint ==
  ASSUME NEW bytes \in Text, NEW f, Run(f, bytes), NEW n \in 0 .. Len(bytes), f[n] # utf8_reject
  PROVE  \E k \in 0 .. 3 : Inside(f, bytes, n, k)
<1> DEFINE T == {m \in Nat : m <= Len(bytes) /\ f[m] # utf8_reject => \E k \in 0 .. 3 : Inside(f, bytes, m, k)}
<1>1. 0 \in T
  BY DEF Run, Inside, utf8_accept
<1>2. ASSUME NEW m \in Nat, m \in T PROVE m + 1 \in T
  <2>1. SUFFICES ASSUME m + 1 <= Len(bytes), f[m + 1] # utf8_reject
                 PROVE  \E k \in 0 .. 3 : Inside(f, bytes, m + 1, k)
    OBVIOUS
  <2>2. bytes[m + 1] \in Octet /\ Moves(f[m], bytes[m + 1], f[m + 1])
    <3>1. m + 1 \in 1 .. Len(bytes) /\ (m + 1) - 1 = m
      BY <2>1
    <3>. QED
      BY <2>1, <3>1, RunMoves
  <2>3. CASE f[m + 1] = 0
    <3>1. Inside(f, bytes, m + 1, 0)
      BY <2>3 DEF Inside
    <3>. QED
      BY <3>1
  <2>4. CASE f[m + 1] # 0 /\ f[m] = 0
    <3>1. /\ f[m + 1] \in 2..8 /\ bytes[m + 1] \in 194..244
          /\ Announced(bytes[m + 1]) = 1 + Missing(f[m + 1])
      <4>1. Moves(0, bytes[m + 1], f[m + 1])
        BY <2>2, <2>4
      <4>. QED
        BY <2>2, <2>4, <4>1, MovesFirst, Zenon
    <3>2. (m + 1) - 1 = m /\ (m + 1) - 1 + 1 = m + 1
      OBVIOUS
    <3>3. Inside(f, bytes, m + 1, 1)
      BY <2>4, <3>1, <3>2 DEF Inside
    <3>. QED
      BY <3>3
  <2>5. CASE f[m + 1] # 0 /\ f[m] # 0
    <3>1. f[m] # utf8_reject /\ m <= Len(bytes)
      BY <2>1, <2>2 DEF Moves, utf8_reject
    <3>2. PICK k \in 0 .. 3 : Inside(f, bytes, m, k)
      BY <1>2, <3>1
    <3>3. k # 0
      BY <2>5, <3>2 DEF Inside
    <3>4. /\ f[m] \in 2..8 /\ f[m + 1] \in 2..8 /\ bytes[m + 1] \in Continuation
          /\ Missing(f[m]) = Missing(f[m + 1]) + 1
      BY <2>2, <2>5 DEF Moves, Missing, Continuation
    <3>5. Announced(bytes[m - k + 1]) = (k + 1) + Missing(f[m + 1])
      BY <3>2, <3>3, <3>4 DEF Inside, Missing
    <3>6. k + 1 \in 0 .. 3
      BY <3>5, <3>4 DEF Announced, Missing
    <3>7. (m + 1) - (k + 1) = m - k /\ k <= m
      BY <3>2 DEF Inside
    <3>8. Inside(f, bytes, m + 1, k + 1)
      BY <3>2, <3>3, <3>4, <3>5, <3>7 DEF Inside
    <3>. QED
      BY <3>6, <3>8
  <2>. QED
    BY <2>3, <2>4, <2>5
<1>3. n \in T
  <2> HIDE DEF T
  <2>. QED
    BY <1>1, <1>2, EveryNumber
<1>. QED
  BY <1>3

\* Where a run comes back to 0 it has read an encoding.
LEMMA EncodingRead ==
  ASSUME NEW bytes \in Text, NEW f, Run(f, bytes), NEW n \in 1 .. Len(bytes), f[n] = 0
  PROVE  \E i \in 0 .. n - 1 : i >= n - 4 /\ f[i] = 0 /\ Encodes(SubSeq(bytes, i + 1, n))
<1>1. Moves(f[n - 1], bytes[n], 0) /\ bytes[n] \in Octet
  BY RunMoves DEF utf8_reject
<1>2. PICK k \in 0 .. 3 : Inside(f, bytes, n - 1, k)
  <2>1. f[n - 1] # utf8_reject /\ n - 1 \in 0 .. Len(bytes)
    BY <1>1 DEF Moves, utf8_reject
  <2>. QED
    BY <2>1, InsideCodePoint
<1>3. PICK i \in 0 .. n - 1 : i + 1 + k = n /\ i >= n - 4 /\ f[i] = 0
  <2>1. n - 1 - k \in 0 .. n - 1 /\ f[n - 1 - k] = 0
    BY <1>2 DEF Inside
  <2>. QED
    BY <2>1
<1> DEFINE b == SubSeq(bytes, i + 1, n)
<1>4. b \in Text /\ Len(b) = k + 1 /\ \A j \in 1 .. k + 1 : b[j] = bytes[i + j]
  <2>1. i + 1 \in 1 .. n /\ n \in 1 .. Len(bytes) /\ n - (i + 1) + 1 = k + 1
    BY <1>3
  <2>2. \A j \in i + 1 .. n : bytes[j] \in Octet
    BY <2>1 DEF Text
  <2>3. i + 1 \in Int /\ n \in Int
    BY <2>1
  <2>4. /\ b \in Seq(Octet) /\ Len(b) = IF i + 1 <= n THEN n - (i + 1) + 1 ELSE 0
        /\ \A j \in 1 .. n - (i + 1) + 1 : b[j] = bytes[(i + 1) + j - 1]
    <3>1. ASSUME NEW m \in Int, NEW l \in Int, \A j \in m .. l : bytes[j] \in Octet
          PROVE  /\ SubSeq(bytes, m, l) \in Seq(Octet)
                 /\ Len(SubSeq(bytes, m, l)) = IF m <= l THEN l - m + 1 ELSE 0
                 /\ \A j \in 1 .. l - m + 1 : SubSeq(bytes, m, l)[j] = bytes[m + j - 1]
      BY <3>1, SubSeqProperties
    <3>. QED
      BY <2>2, <2>3, <3>1, Zenon
  <2>5. b \in Text
    BY <2>4, Zenon DEF Text
  <2> HIDE DEF b
  <2>6. Len(b) = k + 1
    BY <2>1, <2>4
  <2>7. ASSUME NEW j \in 1 .. k + 1 PROVE b[j] = bytes[i + j]
    <3>1. j \in 1 .. n - (i + 1) + 1 /\ (i + 1) + j - 1 = i + j
      BY <1>3
    <3>. QED
      BY <2>4, <3>1, Zenon
  <2>. QED
    BY <2>5, <2>6, <2>7, Zenon
<1> HIDE DEF b
<1>5. ASSUME NEW j \in 1 .. k PROVE Moves(f[i + j - 1], b[j], f[i + j]) /\ b[j] \in Octet /\ f[i + j] \in 2..8
  <2>1. /\ i + j \in 1 .. Len(bytes) /\ (i + j) - 1 = i + j - 1
        /\ i + j \in (n - 1) - k + 1 .. n - 1 /\ b[j] = bytes[i + j]
    BY <1>3, <1>4
  <2>2. f[i + j] \in 2..8
    BY <1>2, <2>1 DEF Inside
  <2>. QED
    BY <2>1, <2>2, RunMoves DEF utf8_reject
<1>6. Moves(f[i + k], b[k + 1], 0) /\ b[k + 1] \in Octet
  <2>1. i + k = n - 1 /\ i + (k + 1) = n
    BY <1>3
  <2>. QED
    BY <1>1, <1>4, <2>1
<1>7. ASSUME k = 0 PROVE Encodes(b)
  <2>1. Moves(0, b[1], 0) /\ b[1] \in Octet
    BY <1>3, <1>6, <1>7
  <2>. QED
    BY <1>4, <1>7, <2>1, OneByteMoves DEF Encodes
<1>8. ASSUME k = 1 PROVE Encodes(b)
  <2>1. /\ Moves(0, b[1], f[i + 1]) /\ Moves(f[i + 1], b[2], 0)
        /\ f[i + 1] \in 2..8 /\ b[1] \in Octet /\ b[2] \in Octet
    BY <1>3, <1>5, <1>6, <1>8
  <2>2. TwoBytes(b[1], b[2])
    BY <2>1, TwoBytesMove
  <2>. QED
    BY <1>4, <1>8, <2>2 DEF Encodes
<1>9. ASSUME k = 2 PROVE Encodes(b)
  <2>1. /\ Moves(0, b[1], f[i + 1]) /\ Moves(f[i + 1], b[2], f[i + 2]) /\ Moves(f[i + 2], b[3], 0)
        /\ f[i + 1] \in 2..8 /\ f[i + 2] \in 2..8
        /\ b[1] \in Octet /\ b[2] \in Octet /\ b[3] \in Octet
    BY <1>3, <1>5, <1>6, <1>9
  <2>2. ThreeBytes(b[1], b[2], b[3])
    <3>1. ThreeMoves(b[1], b[2], b[3])
      BY <2>1, Zenon DEF ThreeMoves
    <3>. QED
      BY <2>1, <3>1, ThreeBytesMove, Zenon
  <2>. QED
    BY <1>4, <1>9, <2>2 DEF Encodes
<1>10. ASSUME k = 3 PROVE Encodes(b)
  <2>1. /\ Moves(0, b[1], f[i + 1]) /\ Moves(f[i + 1], b[2], f[i + 2]) /\ Moves(f[i + 2], b[3], f[i + 3])
        /\ Moves(f[i + 3], b[4], 0)
        /\ f[i + 1] \in 2..8 /\ f[i + 2] \in 2..8 /\ f[i + 3] \in 2..8
        /\ b[1] \in Octet /\ b[2] \in Octet /\ b[3] \in Octet /\ b[4] \in Octet
    BY <1>3, <1>5, <1>6, <1>10
  <2>2. FourBytes(b[1], b[2], b[3], b[4])
    <3>1. FourMoves(b[1], b[2], b[3], b[4])
      BY <2>1, Zenon DEF FourMoves
    <3>. QED
      BY <2>1, <3>1, FourBytesMove
  <2>. QED
    BY <1>4, <1>10, <2>2 DEF Encodes
<1>. QED
  <2>1. Encodes(b)
    BY <1>2, <1>7, <1>8, <1>9, <1>10
  <2>2. Encodes(SubSeq(bytes, i + 1, n))
    BY <2>1, Zenon DEF b
  <2>. QED
    BY <1>3, <2>2

\* And an encoding brings a run back to 0.
LEMMA EncodingAccepted ==
  ASSUME NEW bytes \in Text, NEW f, Run(f, bytes), NEW n \in 1 .. Len(bytes), NEW i \in 0 .. n - 1,
         f[i] = 0, Encodes(SubSeq(bytes, i + 1, n))
  PROVE  f[n] = 0
<1> DEFINE b == SubSeq(bytes, i + 1, n)
<1>1. b \in Text /\ Len(b) = n - i /\ \A j \in 1 .. n - i : b[j] = bytes[i + j]
  <2>1. i + 1 \in 1 .. n /\ n \in 1 .. Len(bytes) /\ n - (i + 1) + 1 = n - i
    OBVIOUS
  <2>. QED
    BY <2>1, SubSeqProperties DEF Text
<1>2. Encodes(b)
  OBVIOUS
<1> HIDE DEF b
<1> DEFINE g == [j \in 0 .. n - i |-> f[i + j]]
<1>3. g[0] = 0 /\ g[n - i] = f[n]
  OBVIOUS
<1>4. \A j \in 1 .. n - i : /\ b[j] \in Octet
                            /\ \A to : Moves(g[j - 1], b[j], to) => g[j] = to
  <2>1. SUFFICES ASSUME NEW j \in 1 .. n - i, NEW to
                 PROVE  b[j] \in Octet /\ (Moves(g[j - 1], b[j], to) => g[j] = to)
    OBVIOUS
  <2>2. /\ i + j \in 1 .. Len(bytes) /\ g[j - 1] = f[(i + j) - 1] /\ g[j] = f[i + j]
        /\ b[j] = bytes[i + j] /\ bytes[i + j] \in Octet
    BY <1>1 DEF Text
  <2>3. f[i + j] = decode(f[(i + j) - 1], bytes[i + j])
    BY <2>2 DEF Run
  <2>. QED
    BY <2>2, <2>3, Decoded
<1> HIDE DEF g
<1>5. /\ n - i >= 1 => b[1] \in Octet /\ \A to : Moves(0, b[1], to) => g[1] = to
      /\ n - i >= 2 => b[2] \in Octet /\ \A to : Moves(g[1], b[2], to) => g[2] = to
      /\ n - i >= 3 => b[3] \in Octet /\ \A to : Moves(g[2], b[3], to) => g[3] = to
      /\ n - i >= 4 => b[4] \in Octet /\ \A to : Moves(g[3], b[4], to) => g[4] = to
  <2>1. /\ n - i >= 1 => 1 \in 1 .. n - i /\ 1 - 1 = 0
        /\ n - i >= 2 => 2 \in 1 .. n - i /\ 2 - 1 = 1
        /\ n - i >= 3 => 3 \in 1 .. n - i /\ 3 - 1 = 2
        /\ n - i >= 4 => 4 \in 1 .. n - i /\ 4 - 1 = 3
    OBVIOUS
  <2>2. n - i >= 1 => b[1] \in Octet /\ \A to : Moves(0, b[1], to) => g[1] = to
    BY <1>3, <1>4, <2>1, Zenon
  <2>3. n - i >= 2 => b[2] \in Octet /\ \A to : Moves(g[1], b[2], to) => g[2] = to
    BY <1>4, <2>1, Zenon
  <2>4. n - i >= 3 => b[3] \in Octet /\ \A to : Moves(g[2], b[3], to) => g[3] = to
    BY <1>4, <2>1, Zenon
  <2>5. n - i >= 4 => b[4] \in Octet /\ \A to : Moves(g[3], b[4], to) => g[4] = to
    BY <1>4, <2>1, Zenon
  <2>. QED
    BY <2>2, <2>3, <2>4, <2>5, Zenon
<1>6. CASE n - i = 1 /\ b[1] < 128
  <2>1. Moves(0, b[1], 0)
    BY <1>5, <1>6, OneByteMoves
  <2>. QED
    BY <1>3, <1>5, <1>6, <2>1
<1>7. CASE n - i = 2 /\ TwoBytes(b[1], b[2])
  <2>1. PICK x \in 2..8 : Moves(0, b[1], x) /\ Moves(x, b[2], 0)
    BY <1>5, <1>7, TwoBytesMove
  <2>2. g[1] = x
    BY <1>5, <1>7, <2>1
  <2>. QED
    BY <1>3, <1>5, <1>7, <2>1, <2>2
<1>8. CASE n - i = 3 /\ ThreeBytes(b[1], b[2], b[3])
  <2>1. PICK x \in 2..8, y \in 2..8 : Moves(0, b[1], x) /\ Moves(x, b[2], y) /\ Moves(y, b[3], 0)
    <3>1. b[1] \in Octet /\ b[2] \in Octet /\ b[3] \in Octet
      BY <1>5, <1>8
    <3>2. ThreeMoves(b[1], b[2], b[3])
      BY <1>8, <3>1, ThreeBytesMove, Zenon
    <3>. QED
      BY <3>2, Zenon DEF ThreeMoves
  <2>2. g[1] = x
    BY <1>5, <1>8, <2>1
  <2>3. g[2] = y
    BY <1>5, <1>8, <2>1, <2>2
  <2>. QED
    BY <1>3, <1>5, <1>8, <2>1, <2>3
<1>9. CASE n - i = 4 /\ FourBytes(b[1], b[2], b[3], b[4])
  <2>1. PICK x \in 2..8, y \in 2..8, z \in 2..8 :
          Moves(0, b[1], x) /\ Moves(x, b[2], y) /\ Moves(y, b[3], z) /\ Moves(z, b[4], 0)
    <3>1. b[1] \in Octet /\ b[2] \in Octet /\ b[3] \in Octet /\ b[4] \in Octet
      BY <1>5, <1>9
    <3>. QED
      <4>1. FourMoves(b[1], b[2], b[3], b[4])
        BY <1>9, <3>1, FourBytesMove
      <4>. QED
        BY <4>1, Zenon DEF FourMoves
  <2>2. g[1] = x
    BY <1>5, <1>9, <2>1
  <2>3. g[2] = y
    BY <1>5, <1>9, <2>1, <2>2
  <2>4. g[3] = z
    BY <1>5, <1>9, <2>1, <2>3
  <2>5. n - i >= 4
    BY <1>9
  <2>6. g[4] = 0
    BY <1>5, <2>1, <2>4, <2>5, Zenon
  <2>. QED
    BY <1>3, <1>9, <2>6
<1>. QED
  BY <1>1, <1>2, <1>6, <1>7, <1>8, <1>9 DEF Encodes

\* The streaming validator (utf8_validator.hpp, decode and validator) accepts a text,
\* of any length, exactly if it is a sequence of shortest encodings of Unicode scalar
\* values: no overlong form, no surrogate, nothing above 10FFFF, nothing cut short.
THEOREM ValidatorIsRight ==
  ASSUME NEW bytes \in Text
  PROVE  validate(bytes) <=> WellFormed(bytes)
<1>1. PICK f : advance(utf8_accept, bytes) = f[Len(bytes)] /\ Run(f, bytes)
  <2>1. bytes \in Seq(Octet)
    BY DEF Text
  <2>. QED
    BY <2>1, RunIs DEF Run
<1>2. PICK e : /\ WellFormed(bytes) = e[Len(bytes)]
               /\ \A n \in 0 .. Len(bytes) : e[n] = Ends(e, bytes, n)
  BY EndsAre DEF Text
<1>3. \A n \in 0 .. Len(bytes) : e[n] \in BOOLEAN
  BY <1>2, Zenon DEF Ends
<1> DEFINE Agree(m) == e[m] <=> f[m] = 0
           T == {n \in Nat : \A m \in 0 .. n : m <= Len(bytes) => Agree(m)}
<1>4. 0 \in T
  <2>1. e[0] = Ends(e, bytes, 0)
    BY <1>2
  <2>2. Ends(e, bytes, 0)
    BY DEF Ends
  <2>3. Agree(0)
    BY <1>1, <2>1, <2>2 DEF Run, utf8_accept
  <2>. QED
    BY <2>3
<1>5. ASSUME NEW n \in Nat, n \in T PROVE n + 1 \in T
  <2>1. \A m \in 0 .. n : m <= Len(bytes) => Agree(m)
    BY <1>5
  <2> HIDE DEF Agree
  <2>2. SUFFICES ASSUME n + 1 <= Len(bytes) PROVE Agree(n + 1)
    BY <2>1
  <2>3. n + 1 \in 1 .. Len(bytes) /\ (n + 1) - 1 = n
    BY <2>2
  <2>4. ASSUME NEW i \in 0 .. n PROVE e[i] <=> f[i] = 0
    BY <2>1, <2>3 DEF Agree
  <2>5. e[n + 1] <=> \E i \in 0 .. n : /\ i >= (n + 1) - 4 /\ e[i]
                                      /\ Encodes(SubSeq(bytes, i + 1, n + 1))
    <3>1. e[n + 1] = Ends(e, bytes, n + 1)
      BY <1>2, <2>3
    <3>2. n + 1 # 0
      BY <2>3
    <3>. QED
      BY <2>3, <3>1, <3>2, Zenon DEF Ends
  <2>6. ASSUME e[n + 1] PROVE f[n + 1] = 0
    <3>1. PICK i \in 0 .. n : f[i] = 0 /\ Encodes(SubSeq(bytes, i + 1, n + 1))
      BY <2>4, <2>5, <2>6
    <3>2. i \in 0 .. (n + 1) - 1
      BY <2>3
    <3>. QED
      BY <1>1, <2>3, <3>1, <3>2, EncodingAccepted
  <2>7. ASSUME f[n + 1] = 0 PROVE e[n + 1]
    <3>1. \E i \in 0 .. (n + 1) - 1 : /\ i >= (n + 1) - 4 /\ f[i] = 0
                                      /\ Encodes(SubSeq(bytes, i + 1, n + 1))
      BY <1>1, <2>3, <2>7, EncodingRead
    <3>. QED
      BY <2>3, <2>4, <2>5, <3>1
  <2>. QED
    BY <2>6, <2>7 DEF Agree
<1>6. Len(bytes) \in T
  <2>1. Len(bytes) \in Nat
    BY DEF Text
  <2> HIDE DEF T
  <2>. QED
    BY <1>4, <1>5, <2>1, EveryNumber
<1>7. Agree(Len(bytes))
  BY <1>6
<1>. QED
  BY <1>1, <1>2, <1>7 DEF validate, complete, utf8_accept

\* What a text ends with when it is not rejected: at most three bytes of one more code
\* point (so a TEXT message, checked as it arrives, is at worst cut short).
THEOREM AtWorstCutShort ==
  ASSUME NEW bytes \in Text, advance(utf8_accept, bytes) # utf8_reject
  PROVE  \E n \in 0 .. 3 : /\ n <= Len(bytes)
                          /\ WellFormed(SubSeq(bytes, 1, Len(bytes) - n))
                          /\ StartsCodePoint(SubSeq(bytes, Len(bytes) - n + 1, Len(bytes)))
<1>1. PICK f : advance(utf8_accept, bytes) = f[Len(bytes)] /\ Run(f, bytes)
  <2>1. bytes \in Seq(Octet)
    BY DEF Text
  <2>. QED
    BY <2>1, RunIs DEF Run
<1> DEFINE l == Len(bytes)
<1>2. l \in Nat /\ l \in 0 .. l
  BY DEF Text
<1>3. PICK k \in 0 .. 3 : Inside(f, bytes, l, k)
  BY <1>1, <1>2, InsideCodePoint
<1> DEFINE first == SubSeq(bytes, 1, l - k)
           rest == SubSeq(bytes, l - k + 1, l)
<1>4. k <= l /\ l - k \in 0 .. l
  BY <1>2, <1>3 DEF Inside
<1>5. first \in Text /\ Len(first) = l - k /\ \A j \in 1 .. l - k : first[j] = bytes[j]
  <2>1. 1 \in 1 .. l + 1 /\ l - k \in 0 .. l
    BY <1>2, <1>4
  <2>. QED
    BY <2>1 DEF Text
<1>6. rest \in Text /\ Len(rest) = k /\ \A j \in 1 .. k : rest[j] = bytes[l - k + j]
  BY <1>2, <1>4 DEF Text
<1>7. WellFormed(first)
  <2> HIDE DEF first
  <2>1. f[0] = utf8_accept /\ \A n \in 1 .. Len(first) : f[n] = decode(f[n - 1], first[n])
    BY <1>1, <1>2, <1>4, <1>5 DEF Run
  <2>2. advance(utf8_accept, first) = f[l - k]
    BY <1>5, <2>1, AdvanceIs DEF Text
  <2>3. validate(first)
    BY <1>3, <2>2 DEF Inside, validate, complete, utf8_accept
  <2>. QED
    BY <1>5, <2>3, ValidatorIsRight
<1>8. StartsCodePoint(rest)
  <2> HIDE DEF rest, first
  <2>1. CASE k = 0
    <3>1. rest = <<>>
      BY <1>6, <2>1 DEF Text
    <3>. QED
      BY <3>1 DEF StartsCodePoint
  <2>2. CASE k > 0
    <3>1. /\ rest[1] \in 194..244 /\ Announced(rest[1]) = k + Missing(f[l])
          /\ \A j \in l - k + 2 .. l : bytes[j] \in Continuation
      <4>1. rest[1] = bytes[l - k + 1]
        BY <1>6, <2>2
      <4>. QED
        BY ZenonT(40), <1>3, <2>2, <4>1 DEF Inside
    <3>2. \A j \in 2 .. Len(rest) : rest[j] \in Continuation
      BY <1>2, <1>4, <1>6, <3>1
    <3>3. k < Announced(rest[1])
      <4>1. Missing(f[l]) \in 1 .. 3 /\ k \in Nat
        BY DEF Missing
      <4>. QED
        BY <3>1, <4>1
    <3>. QED
      BY <1>6, <3>2, <3>3 DEF StartsCodePoint
  <2>. QED
    BY <2>1, <2>2
<1>. QED
  BY <1>3, <1>4, <1>7, <1>8

\* Three moves, or fewer, from every state of the table back to 0.
LEMMA Completed ==
  ASSUME NEW state \in 0 .. 8, state # utf8_reject
  PROVE  \E more \in Text : advance(state, more) = utf8_accept
<1>1. ASSUME NEW p \in Octet, NEW q \in Octet, NEW r \in Octet, NEW x, NEW y,
             Moves(state, p, x), Moves(x, q, y), Moves(y, r, 0)
      PROVE  \E more \in Text : advance(state, more) = utf8_accept
  <2> DEFINE f == [n \in 0 .. 3 |-> IF n = 0 THEN state ELSE IF n = 1 THEN x ELSE IF n = 2 THEN y ELSE 0]
             b == <<p, q, r>>
  <2>1. b \in Seq(Octet) /\ Len(b) = 3 /\ b[1] = p /\ b[2] = q /\ b[3] = r
    OBVIOUS
  <2>2. f[0] = state /\ f[1] = x /\ f[2] = y /\ f[3] = 0
    OBVIOUS
  <2>3. decode(state, p) = x /\ decode(x, q) = y /\ decode(y, r) = 0
    BY <1>1, Decoded
  <2> HIDE DEF f, b
  <2>4. ASSUME NEW n \in 1 .. Len(b) PROVE f[n] = decode(f[n - 1], b[n])
    <3>1. n = 1 \/ n = 2 \/ n = 3
      BY <2>1
    <3>. QED
      BY <2>1, <2>2, <2>3, <3>1
  <2>5. advance(state, b) = f[Len(b)]
    BY <2>1, <2>2, <2>4, AdvanceIs
  <2>. QED
    BY <2>1, <2>2, <2>5 DEF Text, utf8_accept
<1> HIDE DEF Text
<1>2. 0 \in Octet /\ 128 \in Octet
  BY DEF Octet
<1>3. CASE state = 0
  <2>1. Moves(0, 0, 0)
    BY DEF Moves
  <2>. QED
    BY <1>2, <1>1, <1>3, <2>1, Zenon
<1>4. CASE state = 2
  <2>1. Moves(2, 128, 0) /\ Moves(0, 0, 0)
    BY DEF Moves
  <2>. QED
    BY <1>2, <1>1, <1>4, <2>1, Zenon
<1>5. CASE state \in 3..5
  <2>1. Moves(2, 128, 0) /\ Moves(0, 0, 0)
    BY DEF Moves
  <2>2. \E p \in Octet : Moves(state, p, 2)
    <3>1. Moves(3, 128, 2) /\ Moves(4, 160, 2) /\ Moves(5, 128, 2)
      BY DEF Moves
    <3>2. state = 3 \/ state = 4 \/ state = 5
      BY <1>5
    <3>. QED
      BY <3>1, <3>2 DEF Octet
  <2>. QED
    BY <1>2, <1>1, <2>1, <2>2, Zenon
<1>6. CASE state \in 6..8
  <2>1. Moves(3, 128, 2) /\ Moves(2, 128, 0)
    BY DEF Moves
  <2>2. \E p \in Octet : Moves(state, p, 3)
    <3>1. Moves(6, 144, 3) /\ Moves(7, 128, 3) /\ Moves(8, 128, 3)
      BY DEF Moves
    <3>2. state = 6 \/ state = 7 \/ state = 8
      BY <1>6
    <3>. QED
      BY <3>1, <3>2 DEF Octet
  <2>. QED
    BY <1>2, <1>1, <2>1, <2>2, Zenon
<1>. QED
  BY <1>3, <1>4, <1>5, <1>6 DEF utf8_reject

\* The validator gives a text up at the first byte that no continuation can save, no
\* earlier and no later: what it has not rejected begins a well formed text.
THEOREM RejectedOnlyIfHopeless ==
  ASSUME NEW bytes \in Text
  PROVE  advance(utf8_accept, bytes) # utf8_reject <=> \E more \in Text : WellFormed(bytes \o more)
<1> DEFINE state == advance(utf8_accept, bytes)
<1>1. state \in 0 .. 8
  BY StatesAre DEF Text, utf8_accept
<1>2. ASSUME state # utf8_reject PROVE \E more \in Text : WellFormed(bytes \o more)
  <2>1. PICK more \in Text : advance(state, more) = utf8_accept
    BY <1>1, <1>2, Completed
  <2>2. bytes \o more \in Text /\ validate(bytes \o more)
    BY <2>1, AdvanceConcat DEF Text, validate, complete
  <2>. QED
    BY <2>1, <2>2, ValidatorIsRight
<1>3. ASSUME NEW more \in Text, WellFormed(bytes \o more) PROVE state # utf8_reject
  <2>1. bytes \o more \in Text
    BY DEF Text
  <2>2. advance(utf8_accept, bytes \o more) = utf8_accept
    BY <1>3, <2>1, ValidatorIsRight DEF validate, complete
  <2>. QED
    BY <2>2, StaysRejected DEF Text, utf8_accept, utf8_reject
<1>. QED
  BY <1>2, <1>3
=============================================================================
