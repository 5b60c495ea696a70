-------------------------------- MODULE Frame --------------------------------
(***************************************************************************)
(* The encoding of websocket frames: the two bytes of the basic header,    *)
(* the extended header with a longer length and the masking key, and the   *)
(* masking of payloads.  A byte is a number below 256; bit fields are      *)
(* taken apart with div and mod.                                           *)
(***************************************************************************)
EXTENDS Integers, Sequences

CONSTANTS payload_size_basic,    \* 125 in the code
          payload_size_extended  \* 65535 in the code

ASSUME SizesAssumption ==
    /\ payload_size_basic \in 1..125
    /\ payload_size_extended \in (payload_size_basic + 1)..65535

Byte == 0..255
BASIC_HEADER_LENGTH == 2
payload_size_code_16bit == 126
payload_size_code_64bit == 127

\* Opcodes.
CONTINUATION == 0
TEXT == 1
BINARY == 2
CLOSE == 8
PING == 9
PONG == 10
Opcode == 0..15

reserved_opcode(op) == op \in 3..7 \union 11..15
is_control(op) == op >= 8

-----------------------------------------------------------------------------
(***************************************************************************)
(* Headers.                                                                *)
(***************************************************************************)
Flag(set, bit) == IF set THEN bit ELSE 0

basic_value(size) ==
    IF size <= payload_size_basic THEN size
    ELSE IF size <= payload_size_extended THEN payload_size_code_16bit
    ELSE payload_size_code_64bit

basic_header(op, size, fin, mask, rsv1) ==
    [b0 |-> Flag(fin, 128) + Flag(rsv1, 64) + op,
     b1 |-> Flag(mask, 128) + basic_value(size)]

BasicHeader == [b0 : Byte, b1 : Byte]

get_fin(h) == h.b0 >= 128
get_rsv1(h) == (h.b0 \div 64) % 2 = 1
get_rsv2(h) == (h.b0 \div 32) % 2 = 1
get_rsv3(h) == (h.b0 \div 16) % 2 = 1
get_opcode(h) == h.b0 % 16
get_masked(h) == h.b1 >= 128
get_basic_size(h) == h.b1 % 128

get_masking_key_offset(h) ==
    CASE get_basic_size(h) = payload_size_code_16bit -> 2
      [] get_basic_size(h) = payload_size_code_64bit -> 8
      [] OTHER -> 0

get_header_len(h) ==
    BASIC_HEADER_LENGTH + get_masking_key_offset(h) + IF get_masked(h) THEN 4 ELSE 0

\* A number in network byte order.
BigEndian(number, bytes) ==
    [i \in 1..bytes |-> IF bytes - i > 3 THEN 0 ELSE (number \div 256^(bytes - i)) % 256]

Number(bytes) ==
    LET upTo[n \in 0..Len(bytes)] == IF n = 0 THEN 0 ELSE 256 * upTo[n - 1] + bytes[n]
    IN  upTo[Len(bytes)]

\* The bytes of an extended header that are sent; the key of an unmasked frame
\* is empty.
copy_payload(size) ==
    IF size <= payload_size_basic THEN <<>>
    ELSE BigEndian(size, IF size <= payload_size_extended THEN 2 ELSE 8)

extended_header(size, key) == copy_payload(size) \o key

prepare_header(h, e) == <<h.b0, h.b1>> \o SubSeq(e, 1, get_header_len(h) - BASIC_HEADER_LENGTH)

get_masking_key(h, e) ==
    IF get_masked(h)
    THEN SubSeq(e, get_masking_key_offset(h) + 1, get_masking_key_offset(h) + 4)
    ELSE <<0, 0, 0, 0>>

get_extended_size(e) == Number(SubSeq(e, 1, 2))

get_jumbo_size(e) == Number(SubSeq(e, 1, 8))

get_payload_size(h, e) ==
    LET val == get_basic_size(h)
    IN  IF val <= payload_size_basic THEN val
        ELSE IF val = payload_size_code_16bit THEN get_extended_size(e)
        ELSE get_jumbo_size(e)

-----------------------------------------------------------------------------
(***************************************************************************)
(* Masking.  A prepared key fills a machine word of eight bytes with the   *)
(* four of the key; streaming keeps it rotated to the next byte's place.   *)
(***************************************************************************)
Xor(a, b) ==
    LET bit(weight) == weight * ((a \div weight + b \div weight) % 2)
    IN  bit(128) + bit(64) + bit(32) + bit(16) + bit(8) + bit(4) + bit(2) + bit(1)

prepare_masking_key(key) == key \o key

circshift_prepared_key(prepared_key, offset) ==
    [i \in 1..8 |-> prepared_key[1 + ((i - 1 + offset) % 8)]]

byte_mask(bytes, key) == [i \in 1..Len(bytes) |-> Xor(bytes[i], key[1 + ((i - 1) % 4)])]

\* A slip: the key is not rotated.
byte_mask_circUnrotated(bytes, prepared_key) ==
    [bytes |-> byte_mask(bytes, SubSeq(prepared_key, 1, 4)), key |-> prepared_key]

\* The bytes and the key for those that follow.
byte_mask_circ(bytes, prepared_key) ==
    [bytes |-> byte_mask(bytes, SubSeq(prepared_key, 1, 4)),
     key |-> circshift_prepared_key(prepared_key, Len(bytes) % 4)]
=============================================================================
