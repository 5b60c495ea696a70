-------------------------------- MODULE Words --------------------------------
(***************************************************************************)
(* Unsigned 32-bit words, as the set of the bits that are 1: the operators *)
(* of C++ that the digests use.  The model checker's integers are signed.  *)
(***************************************************************************)
EXTENDS Integers, SequencesExt

Bits == 0..31

\* A constant, from its upper and lower half.
Word(hi, lo) == {i \in 0..15 : (lo \div 2^i) % 2 = 1} \union {i \in 16..31 : (hi \div 2^(i - 16)) % 2 = 1}

Xor(x, y) == SymDiff(x, y)
Not(x) == Bits \ x

\* A bit that both have carries as far as at least one has the bits above it.
Plus(x, y) ==
    LET carry == {i \in 1..31 : \E j \in x \intersect y : j < i /\ (j + 1)..(i - 1) \subseteq x \union y}
    IN  Xor(Xor(x, y), carry)

Sum4(w, x, y, z) == Plus(Plus(w, x), Plus(y, z))

\* Rotate a value to the left.
rol(value, steps) == {(i + steps) % 32 : i \in value}

\* The byte that begins at a bit, and the word that has a byte there.
ByteAt(w, bit) == SumSet({2^(i - bit) : i \in w \intersect bit..(bit + 7)})
AtBit(byte, bit) == {i \in bit..(bit + 7) : (byte \div 2^(i - bit)) % 2 = 1}

LittleEndian(b) == UNION {AtBit(b[i], 8 * (i - 1)) : i \in 1..4}
BigEndian(b) == UNION {AtBit(b[i], 8 * (4 - i)) : i \in 1..4}
=============================================================================
