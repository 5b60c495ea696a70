------------------------------- MODULE Deflate -------------------------------
(***************************************************************************)
(* The permessage-deflate extension: what its settings become when offers  *)
(* of the other side are negotiated, and which of them zlib is given.  The *)
(* object is a record; an operation returns the record it leaves behind.   *)
(***************************************************************************)
EXTENDS Integers, Sequences

default_max_window_bits == 15
min_max_window_bits == 8
max_max_window_bits == 15

Modes == {"accept", "decline", "largest", "smallest"}

enabled ==
    [m_enabled |-> FALSE, m_initialized |-> FALSE, m_flush |-> "none",
     m_server_no_context_takeover |-> FALSE, m_client_no_context_takeover |-> FALSE,
     m_server_max_window_bits |-> 15, m_client_max_window_bits |-> 15,
     m_server_max_window_bits_mode |-> "accept", m_client_max_window_bits_mode |-> "accept",
     ec |-> "none"]

\* zlib does not support a window of 8 bits.
Supported(bits) == IF bits = 8 THEN 9 ELSE bits
Valid(bits) == bits >= min_max_window_bits /\ bits <= max_max_window_bits

-----------------------------------------------------------------------------
(***************************************************************************)
(* Settings of the user.                                                   *)
(***************************************************************************)
set_server_max_window_bits(ext, bits, mode) ==
    IF ~Valid(bits) THEN [ext EXCEPT !.ec = "invalid_max_window_bits"]
    ELSE [ext EXCEPT !.ec = "none", !.m_server_max_window_bits = Supported(bits),
                     !.m_server_max_window_bits_mode = mode]

set_client_max_window_bits(ext, bits, mode) ==
    IF ~Valid(bits) THEN [ext EXCEPT !.ec = "invalid_max_window_bits"]
    ELSE [ext EXCEPT !.ec = "none", !.m_client_max_window_bits = Supported(bits),
                     !.m_client_max_window_bits_mode = mode]

enable_server_no_context_takeover(ext) == [ext EXCEPT !.m_server_no_context_takeover = TRUE]
enable_client_no_context_takeover(ext) == [ext EXCEPT !.m_client_no_context_takeover = TRUE]

-----------------------------------------------------------------------------
(***************************************************************************)
(* An offer: what atoi makes of each attribute's value, or an empty value. *)
(* Attributes come in the order of a map; a name that is none of the four  *)
(* comes before one of them (unknown is its place), behind all of them (5) *)
(* or not at all (6).                                                      *)
(***************************************************************************)
Attributes == <<"client_max_window_bits", "client_no_context_takeover",
                "server_max_window_bits", "server_no_context_takeover">>
AttributeNames == {Attributes[i] : i \in 1..4}
Value == [empty : BOOLEAN, number : Int]
Offer == [present : SUBSET AttributeNames, value : [AttributeNames -> Value], unknown : 1..6]

uint8(n) == n % 256

\* The window that a mode makes of the own one and the one asked for.
Negotiated(mode, own, asked) ==
    Supported(CASE mode = "accept" -> asked
                [] mode = "largest" -> IF asked < own THEN asked ELSE own
                [] mode = "smallest" -> min_max_window_bits
                [] OTHER -> default_max_window_bits)

ModeError(mode) == IF mode \in Modes THEN "none" ELSE "invalid_mode"

negotiate_server_no_context_takeover(ext, value) ==
    IF ~value.empty THEN [ext EXCEPT !.ec = "invalid_attribute_value"]
    ELSE [ext EXCEPT !.m_server_no_context_takeover = TRUE]

negotiate_client_no_context_takeover(ext, value) ==
    IF ~value.empty THEN [ext EXCEPT !.ec = "invalid_attribute_value"]
    ELSE [ext EXCEPT !.m_client_no_context_takeover = TRUE]

negotiate_server_max_window_bits(ext, value) ==
    LET bits == IF value.empty THEN 0 ELSE uint8(value.number)
        mode == ext.m_server_max_window_bits_mode
    IN  IF ~Valid(bits)
        THEN [ext EXCEPT !.ec = "invalid_attribute_value",
                         !.m_server_max_window_bits = default_max_window_bits]
        ELSE [ext EXCEPT !.ec = ModeError(mode),
                         !.m_server_max_window_bits = Negotiated(mode, @, bits)]

\* A client may say that it understands the parameter and ask for nothing.
negotiate_client_max_window_bits(ext, value) ==
    LET bits == IF value.empty THEN default_max_window_bits ELSE uint8(value.number)
        mode == ext.m_client_max_window_bits_mode
    IN  IF ~Valid(bits)
        THEN [ext EXCEPT !.ec = "invalid_attribute_value",
                         !.m_client_max_window_bits = default_max_window_bits]
        ELSE [ext EXCEPT !.ec = ModeError(mode),
                         !.m_client_max_window_bits = Negotiated(mode, @, bits)]

\* One turn of the loop over the attributes: the first error ends it.
Turn(ext, offer, i) ==
    IF ext.ec # "none" THEN ext
    ELSE IF offer.unknown = i THEN [ext EXCEPT !.ec = "invalid_attributes"]
    ELSE IF i > 4 \/ Attributes[i] \notin offer.present THEN ext
    ELSE LET value == offer.value[Attributes[i]]
         IN  CASE i = 1 -> negotiate_client_max_window_bits(ext, value)
               [] i = 2 -> negotiate_client_no_context_takeover(ext, value)
               [] i = 3 -> negotiate_server_max_window_bits(ext, value)
               [] OTHER -> negotiate_server_no_context_takeover(ext, value)

\* What was set before an error stays set.
negotiate(ext, offer) ==
    LET last == Turn(Turn(Turn(Turn(Turn([ext EXCEPT !.ec = "none"], offer, 1), offer, 2),
                               offer, 3), offer, 4), offer, 5)
    IN  IF last.ec = "none" THEN [last EXCEPT !.m_enabled = TRUE] ELSE last

\* The attributes of the answer, and the windows it gives.
generate_response(ext) ==
    [present |->
        {a \in AttributeNames :
            \/ a = "server_no_context_takeover" /\ ext.m_server_no_context_takeover
            \/ a = "client_no_context_takeover" /\ ext.m_client_no_context_takeover
            \/ a = "server_max_window_bits" /\ ext.m_server_max_window_bits < default_max_window_bits
            \/ a = "client_max_window_bits" /\ ext.m_client_max_window_bits < default_max_window_bits},
     server |-> ext.m_server_max_window_bits,
     client |-> ext.m_client_max_window_bits]

\* What a client asks for, whatever its own settings are.
generate_offer ==
    [present |-> {"client_no_context_takeover", "client_max_window_bits"},
     value |-> [a \in AttributeNames |-> [empty |-> TRUE, number |-> 0]], unknown |-> 6]

\* A client takes any answer.
validate_offer == "none"

-----------------------------------------------------------------------------
(***************************************************************************)
(* zlib.                                                                   *)
(***************************************************************************)
\* deflateInit2 and inflateInit2 of a raw stream.
zlib_takes(bits) == bits \in 9..15

init(ext, is_server) ==
    LET deflate_bits == IF is_server THEN ext.m_server_max_window_bits ELSE ext.m_client_max_window_bits
        inflate_bits == IF is_server THEN ext.m_client_max_window_bits ELSE ext.m_server_max_window_bits
        fresh == IF is_server THEN ext.m_server_no_context_takeover ELSE ext.m_client_no_context_takeover
    IN  IF ~zlib_takes(deflate_bits) \/ ~zlib_takes(inflate_bits)
        THEN [ext EXCEPT !.ec = "zlib_error"]
        ELSE [ext EXCEPT !.ec = "none", !.m_initialized = TRUE,
                         !.m_flush = IF fresh THEN "Z_FULL_FLUSH" ELSE "Z_SYNC_FLUSH"]

\* The bytes that each turn of a loop over a local buffer appends, of the
\* total that zlib has to give: a full buffer means that there may be more.
Appended(total, size) ==
    LET f[n \in 0..total] == IF n < size THEN <<n>> ELSE <<size>> \o f[n - size] IN f[total]

\* deflated: how many bytes zlib makes of the message.  An empty one is a
\* constant of 6 bytes.
compress(ext, length, deflated, size) ==
    IF ~ext.m_initialized THEN [ec |-> "uninitialized", out |-> <<>>]
    ELSE IF length = 0 THEN [ec |-> "none", out |-> <<6>>]
    ELSE [ec |-> "none", out |-> Appended(deflated, size)]

\* broken: the buffers that are filled before zlib finds an error, or -1.
decompress(ext, inflated, broken, size) ==
    IF ~ext.m_initialized THEN [ec |-> "uninitialized", out |-> <<>>]
    ELSE LET out == Appended(inflated, size)
         IN  IF broken \in 0..Len(out) - 1
             THEN [ec |-> "zlib_error", out |-> SubSeq(out, 1, broken)]
             ELSE [ec |-> "none", out |-> out]

-----------------------------------------------------------------------------
(***************************************************************************)
(* The offers of a handshake, in order: the first that can be had is       *)
(* taken.  One that failed leaves its settings to the next.                *)
(***************************************************************************)
TryOffer(ext, offer, is_server) ==
    LET negotiated == negotiate(ext, offer)
    IN  IF negotiated.ec # "none" THEN negotiated ELSE init(negotiated, is_server)

negotiate_extensions_helper(ext, offers, is_server) ==
    LET tried[n \in 0..Len(offers)] ==
            IF n = 0 THEN ext
            ELSE IF tried[n - 1].m_enabled THEN tried[n - 1]
            ELSE TryOffer(tried[n - 1], offers[n], is_server)
        last == tried[Len(offers)]
    IN  [ext |-> last,
         ec |-> IF last.m_enabled THEN last.ec ELSE "none",
         response |-> IF last.m_enabled /\ last.m_initialized THEN <<generate_response(last)>> ELSE <<>>]
=============================================================================
