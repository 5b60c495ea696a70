------------------------------ MODULE ByteStream ------------------------------
(***************************************************************************)
(* What a connection reads: the bytes its peer sends, in reads that end    *)
(* anywhere.  A read is started when the bytes of the last one are used.   *)
(***************************************************************************)
EXTENDS Integers, Sequences

CONSTANT MaxRead  \* bound: bytes of one read

ASSUME ReadAssumption == MaxRead \in Nat \ {0}

VARIABLES
    stream,  \* all that the peer sends
    got,     \* how many bytes of it were read
    at       \* how many of those were used

streamVars == <<stream, got, at>>

\* The bytes read and not used: m_buf from p to bytes_transferred.
Unused == SubSeq(stream, at + 1, got)

StreamTypeOK == got \in 0..Len(stream) /\ at \in 0..got

async_read_at_least ==
    /\ at = got
    /\ \E n \in 1..MaxRead : got + n <= Len(stream) /\ got' = got + n
    /\ UNCHANGED <<stream, at>>

Use(n) == at' = at + n /\ UNCHANGED <<stream, got>>
=============================================================================
