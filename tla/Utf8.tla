-------------------------------- MODULE Utf8 --------------------------------
(***************************************************************************)
(* The streaming validator of UTF-8, which websocketpp runs over the text  *)
(* messages and close reasons it receives, and what it is meant to accept. *)
(***************************************************************************)
EXTENDS Integers, Sequences

utf8_accept == 0
utf8_reject == 1

\* The first part of the table: the type of a byte.
ByteType(byte) ==
    CASE byte <= 127 -> 0
      [] byte \in 128..143 -> 1
      [] byte \in 144..159 -> 9
      [] byte \in 160..191 -> 7
      [] byte \in {192, 193} \union 245..255 -> 8
      [] byte \in 194..223 -> 2
      [] byte = 224 -> 10
      [] byte \in 225..239 \ {237} -> 3
      [] byte = 237 -> 4
      [] byte = 240 -> 11
      [] byte \in 241..243 -> 6
      [] byte = 244 -> 5

\* The second part: the next state, for the pairs that are not rejected.
Accepting == <<
    [type |-> {0}, from |-> {0}, to |-> 0],
    [type |-> {1, 7, 9}, from |-> {2}, to |-> 0],
    [type |-> {1, 7, 9}, from |-> {3}, to |-> 2],
    [type |-> {7}, from |-> {4}, to |-> 2],
    [type |-> {1, 9}, from |-> {5}, to |-> 2],
    [type |-> {7, 9}, from |-> {6}, to |-> 3],
    [type |-> {1, 7, 9}, from |-> {7}, to |-> 3],
    [type |-> {1}, from |-> {8}, to |-> 3],
    [type |-> {2}, from |-> {0}, to |-> 2],
    [type |-> {3}, from |-> {0}, to |-> 3],
    [type |-> {10}, from |-> {0}, to |-> 4],
    [type |-> {4}, from |-> {0}, to |-> 5],
    [type |-> {11}, from |-> {0}, to |-> 6],
    [type |-> {6}, from |-> {0}, to |-> 7],
    [type |-> {5}, from |-> {0}, to |-> 8] >>

decode(state, byte) ==
    LET rows == {i \in DOMAIN Accepting :
                    state \in Accepting[i].from /\ ByteType(byte) \in Accepting[i].type}
    IN  IF rows = {} THEN utf8_reject ELSE Accepting[CHOOSE i \in rows : TRUE].to

\* validator: the state after a sequence of bytes; a rejected one stays rejected.
advance(state, bytes) ==
    LET after[n \in 0..Len(bytes)] == IF n = 0 THEN state ELSE decode(after[n - 1], bytes[n])
    IN  after[Len(bytes)]

complete(state) == state = utf8_accept

validate(bytes) == complete(advance(utf8_accept, bytes))

-----------------------------------------------------------------------------

\* What should be accepted: the encodings of the Unicode scalar values, which are
\* given here by the shortest form of each and the surrogates left out.
Continuation == 128..191

TwoBytes(a, b) ==
    /\ a \in 192..223 /\ b \in Continuation
    /\ (a - 192) * 64 + (b - 128) >= 128

ThreeBytes(a, b, c) ==
    /\ a \in 224..239 /\ b \in Continuation /\ c \in Continuation
    /\ LET scalar == (a - 224) * 4096 + (b - 128) * 64 + (c - 128)
       IN  scalar >= 2048 /\ scalar \notin 55296..57343

FourBytes(a, b, c, d) ==
    /\ a \in 240..247 /\ b \in Continuation /\ c \in Continuation /\ d \in Continuation
    /\ LET scalar == (a - 240) * 262144 + (b - 128) * 4096 + (c - 128) * 64 + (d - 128)
       IN  scalar >= 65536 /\ scalar <= 1114111

Encodes(bytes) ==
    \/ Len(bytes) = 1 /\ bytes[1] < 128
    \/ Len(bytes) = 2 /\ TwoBytes(bytes[1], bytes[2])
    \/ Len(bytes) = 3 /\ ThreeBytes(bytes[1], bytes[2], bytes[3])
    \/ Len(bytes) = 4 /\ FourBytes(bytes[1], bytes[2], bytes[3], bytes[4])

\* The length that a first byte announces.
Announced(byte) ==
    IF byte \in 194..223 THEN 2
    ELSE IF byte \in 224..239 THEN 3
    ELSE IF byte \in 240..244 THEN 4
    ELSE 0

\* Fewer bytes than the first one announces.
StartsCodePoint(bytes) ==
    \/ bytes = <<>>
    \/ /\ Len(bytes) < Announced(bytes[1])
       /\ \A i \in 2..Len(bytes) : bytes[i] \in Continuation

WellFormed(bytes) ==
    LET end[n \in 0..Len(bytes)] ==
            n = 0 \/ \E i \in 0..n-1 : i >= n - 4 /\ end[i] /\ Encodes(SubSeq(bytes, i + 1, n))
    IN  end[Len(bytes)]
=============================================================================
