-------------------------------- MODULE Hybi00 --------------------------------
(***************************************************************************)
(* The oldest protocol a server still speaks: frames between two marks,    *)
(* and a handshake whose answer is a digest of three keys.  It is given    *)
(* whole reads, so its loop is an operator on the bytes; the processor is  *)
(* a record.  Texts are sequences of bytes.                                *)
(***************************************************************************)
EXTENDS Integers, SequencesExt

Digest == INSTANCE Md5
U == INSTANCE Uri
Text == INSTANCE Utf8

msg_hdr == 0
msg_ftr == 255

hybi00 == [m_state |-> "HEADER", m_msg |-> <<>>, ec |-> "none"]

-----------------------------------------------------------------------------
(***************************************************************************)
(* The handshake.  A request is a record of the headers that matter, each  *)
(* <<>> when it is missing.                                                *)
(***************************************************************************)
validate_handshake(r) ==
    IF r.method # "GET" THEN "invalid_http_method"
    ELSE IF r.version # "HTTP/1.1" THEN "invalid_http_version"
    ELSE IF <<>> \in {r.key1, r.key2, r.key3} THEN "missing_required_header"
    ELSE "none"

\* Most significant byte first: htonl.
BigEndian(n) == <<n \div 16777216, (n \div 65536) % 256, (n \div 256) % 256, n % 256>>

\* The number that the digits of a key make, by its spaces.  It is below 2^31.
decode_client_key(key) ==
    LET spaces == Cardinality({i \in DOMAIN key : key[i] = 32})
        num == FoldLeft(LAMBDA n, c : 10 * n + c - 48, 0, SelectSeq(key, LAMBDA c : c \in 48..57))
    IN  IF spaces > 0 /\ num > 0 THEN BigEndian(num \div spaces) ELSE <<0, 0, 0, 0>>

\* The digested key: of a third key that is short, the rest of key_final was
\* never written, and unset says what it holds.
key_final(r, unset) ==
    LET key3 == [i \in 1..8 |-> IF i <= Len(r.key3) THEN r.key3[i] ELSE unset]
    IN  decode_client_key(r.key1) \o decode_client_key(r.key2) \o key3

\* The host and the port of the Host header, a colon inside brackets left alone.
get_uri(r) ==
    LET scheme == IF r.secure THEN "wss" ELSE "ws"
        last_colon == SelectLastInSeq(r.host, LAMBDA c : c = ":")
        last_sbrace == SelectLastInSeq(r.host, LAMBDA c : c = "]")
    IN  IF last_colon = 0 \/ last_sbrace > last_colon
        THEN U!WithoutPort(scheme, r.host, r.resource)
        ELSE U!WithPortText(scheme, SubSeq(r.host, 1, last_colon - 1),
                            SubSeq(r.host, last_colon + 1, Len(r.host)), r.resource)

\* Headers the application has set stay.
process_handshake(r, subprotocol, res, unset) ==
    [res EXCEPT !.key3 = Digest!md5_hash_string(key_final(r, unset)),
                !.upgrade = "WebSocket", !.connection = "Upgrade",
                !.origin = IF @ = <<>> THEN r.origin ELSE @,
                !.location = IF @ = <<>> THEN U!str(get_uri(r)) ELSE @,
                !.protocol = IF subprotocol = <<>> THEN @ ELSE subprotocol]

\* The raw response: the digest is not a header of it but its body.
get_raw(res) == [headers |-> [h \in DOMAIN res \ {"key3"} |-> res[h]], body |-> res.key3]

client_handshake_request == "no_protocol_support"
validate_server_handshake_response == "no_protocol_support"

-----------------------------------------------------------------------------
(***************************************************************************)
(* Frames.                                                                 *)
(***************************************************************************)
\* The bytes of a read from place p on: what the processor becomes, and how
\* many it took.  no_buffer: the message manager has none to give.
consume(proc, buf, no_buffer) ==
    LET Footer(p) == U!Find(buf, p, {msg_ftr})
        turn[p \in 1..Len(buf) + 1, s \in {"HEADER", "PAYLOAD", "READY", "FATAL_ERROR"}] ==
            IF p > Len(buf) \/ s \in {"READY", "FATAL_ERROR"}
            THEN [m_state |-> s, bytes |-> <<>>, ec |-> "none", taken |-> p - 1]
            ELSE IF s = "HEADER"
            THEN IF buf[p] # msg_hdr
                 THEN [m_state |-> "FATAL_ERROR", bytes |-> <<>>, ec |-> "protocol_violation",
                       taken |-> p - 1]
                 ELSE IF no_buffer
                 THEN [m_state |-> "FATAL_ERROR", bytes |-> <<>>, ec |-> "no_incoming_buffers",
                       taken |-> p]
                 ELSE turn[p + 1, "PAYLOAD"]
            ELSE [m_state |-> IF Footer(p) <= Len(buf) THEN "READY" ELSE "PAYLOAD",
                  bytes |-> SubSeq(buf, p, Footer(p) - 1), ec |-> "none",
                  taken |-> IF Footer(p) <= Len(buf) THEN Footer(p) ELSE Len(buf)]
        last == turn[1, proc.m_state]
    IN  [proc |-> [m_state |-> last.m_state, m_msg |-> proc.m_msg \o last.bytes, ec |-> last.ec],
         taken |-> last.taken]

ready(proc) == proc.m_state = "READY"
get_error == FALSE

\* The state is HEADER whatever it was.
get_message(proc) == [proc EXCEPT !.m_state = "HEADER", !.m_msg = <<>>]

prepare_data_frame(opcode, payload) ==
    IF opcode # "text" THEN [ec |-> "invalid_opcode", bytes |-> <<>>]
    ELSE IF ~Text!validate(payload) THEN [ec |-> "invalid_payload", bytes |-> <<>>]
    ELSE [ec |-> "none", bytes |-> <<msg_hdr>> \o payload \o <<msg_ftr>>]

prepare_ping == "no_protocol_support"
prepare_pong == "no_protocol_support"

\* Code and reason are ignored.
prepare_close(code, reason) == [ec |-> "none", bytes |-> <<255, 0>>]
=============================================================================
