------------------------------- MODULE Hybi13 -------------------------------
(***************************************************************************)
(* The processor of RFC 6455 frames: what it sends for a message, and the  *)
(* state machine that takes frames out of whatever the reads deliver.      *)
(* Extensions are not negotiated: no frame is compressed.                  *)
(***************************************************************************)
EXTENDS Close, ByteStream

CONSTANTS m_max_message_size,
          SizeT, \* how many values size_t has: 2^32 or 2^64
          NoMsg  \* no message is being received

ASSUME MessageAssumption ==
    /\ SizeT \in Nat /\ m_max_message_size \in 0..SizeT - 1
    /\ NoMsg \notin [op : Opcode, payload : Seq(Byte), key : Seq(Byte), validator : 0..8]

VARIABLES
    m_server,           \* whether this end is the server
    m_state,
    m_basic_header,
    m_extended_header,  \* the bytes of it that were read: its length is m_cursor
    m_bytes_needed,     \* bytes that are missing from the part that is being read
    m_data_msg,
    m_control_msg,
    m_current_msg,      \* which of the two the frame belongs to
    ec,                 \* why consume gave up, or "none"
    delivered           \* messages that get_message returned

frameVars == <<m_server, m_state, m_basic_header, m_extended_header, m_bytes_needed,
               m_data_msg, m_control_msg, m_current_msg, ec, delivered>>

Message == [op : Opcode, payload : Seq(Byte), key : Seq(Byte), validator : 0..8]
Errors == {"control_too_big", "invalid_rsv_bit", "invalid_opcode", "fragmented_control",
           "invalid_continuation", "masking_required", "masking_forbidden",
           "non_minimal_encoding", "requires_64bit", "message_too_big", "invalid_utf8"}

FrameTypeOK ==
    /\ m_server \in BOOLEAN
    /\ m_state \in {"HEADER_BASIC", "HEADER_EXTENDED", "APPLICATION", "READY"}
    /\ m_basic_header \in BasicHeader
    /\ m_extended_header \in Seq(Byte)
    /\ m_bytes_needed \in Nat
    /\ m_data_msg \in Message \union {NoMsg}
    /\ m_control_msg \in Message \union {NoMsg}
    /\ m_current_msg \in {"none", "data", "control"}
    /\ ec \in Errors \union {"none"}
    /\ delivered \in Seq([op : Opcode, payload : Seq(Byte)])

\* The other places of the header are filled as they are read.
EmptyHeader == [b0 |-> 0, b1 |-> 0]

FrameInit ==
    /\ m_state = "HEADER_BASIC" /\ m_bytes_needed = BASIC_HEADER_LENGTH
    /\ m_basic_header = EmptyHeader /\ m_extended_header = <<>>
    /\ m_data_msg = NoMsg /\ m_control_msg = NoMsg /\ m_current_msg = "none"
    /\ ec = "none" /\ delivered = <<>>

-----------------------------------------------------------------------------
(***************************************************************************)
(* Sending.                                                                *)
(***************************************************************************)
Encoded(op, payload, fin, masked, key) ==
    prepare_header(basic_header(op, Len(payload), fin, masked, FALSE),
                   extended_header(Len(payload), IF masked THEN key ELSE <<>>))
    \o IF masked THEN byte_mask(payload, key) ELSE payload

prepare_data_frame(server, op, payload, fin, key) ==
    IF is_control(op) THEN [ec |-> "invalid_opcode", bytes |-> <<>>]
    ELSE IF op = TEXT /\ ~validate(payload) THEN [ec |-> "invalid_payload", bytes |-> <<>>]
    ELSE [ec |-> "none", bytes |-> Encoded(op, payload, fin, ~server, key)]

prepare_control(server, op, payload, key) ==
    IF ~is_control(op) THEN [ec |-> "invalid_opcode", bytes |-> <<>>]
    ELSE IF Len(payload) > payload_size_basic THEN [ec |-> "control_too_big", bytes |-> <<>>]
    ELSE [ec |-> "none", bytes |-> Encoded(op, payload, TRUE, ~server, key)]

prepare_close(server, code, reason, key) ==
    IF CloseError(code, reason) # "none"
    THEN [ec |-> CloseError(code, reason), bytes |-> <<>>]
    ELSE prepare_control(server, CLOSE, ClosePayload(code, reason), key)

-----------------------------------------------------------------------------
(***************************************************************************)
(* Checks of a frame's headers.                                            *)
(***************************************************************************)
validate_incoming_basic_header(h, server, new_msg) ==
    LET op == get_opcode(h)
    IN  IF is_control(op) /\ get_basic_size(h) > payload_size_basic THEN "control_too_big"
        ELSE IF get_rsv1(h) \/ get_rsv2(h) \/ get_rsv3(h) THEN "invalid_rsv_bit"
        ELSE IF reserved_opcode(op) THEN "invalid_opcode"
        ELSE IF is_control(op) /\ ~get_fin(h) THEN "fragmented_control"
        ELSE IF new_msg /\ op = CONTINUATION THEN "invalid_continuation"
        ELSE IF ~new_msg /\ ~is_control(op) /\ op # CONTINUATION THEN "invalid_continuation"
        ELSE IF server /\ ~get_masked(h) THEN "masking_required"
        ELSE IF ~server /\ get_masked(h) THEN "masking_forbidden"
        ELSE "none"

validate_incoming_extended_header(h, e) ==
    LET size == get_payload_size(h, e)
    IN  IF \/ get_basic_size(h) = payload_size_code_16bit /\ size <= payload_size_basic
           \/ get_basic_size(h) = payload_size_code_64bit /\ size <= payload_size_extended
        THEN "non_minimal_encoding"
        ELSE IF size >= SizeT THEN "requires_64bit"
        ELSE "none"

\* A data message may not grow past the limit.  What a continuation makes of it is added
\* up in size_t, and may come out small again.
ExceedsLimit(h, size, msg) ==
    /\ ~is_control(get_opcode(h))
    /\ (IF msg = NoMsg THEN size ELSE (Len(msg.payload) + size) % SizeT) > m_max_message_size

-----------------------------------------------------------------------------
(***************************************************************************)
(* consume: an action is one turn of its loop.                             *)
(***************************************************************************)
Consuming ==
    /\ ec = "none" /\ m_state # "READY"
    /\ at < got \/ m_bytes_needed = 0

\* The bytes that this turn takes.
Taken == SubSeq(Unused, 1, IF m_bytes_needed < Len(Unused) THEN m_bytes_needed ELSE Len(Unused))

Reject(error) ==
    /\ ec' = error
    /\ UNCHANGED <<m_server, m_state, m_data_msg, m_control_msg, m_current_msg, delivered>>

copy_basic_header_bytes ==
    IF Len(Taken) = 2 THEN [b0 |-> Taken[1], b1 |-> Taken[2]]
    ELSE IF m_bytes_needed = 2 THEN [m_basic_header EXCEPT !.b0 = Taken[1]]
    ELSE [m_basic_header EXCEPT !.b1 = Taken[1]]

ReadBasicHeader ==
    /\ Consuming /\ m_state = "HEADER_BASIC"
    /\ Use(Len(Taken))
    /\ m_basic_header' = copy_basic_header_bytes
    /\ UNCHANGED m_extended_header
    /\ LET error == validate_incoming_basic_header(m_basic_header', m_server, m_data_msg = NoMsg)
           missing == m_bytes_needed - Len(Taken)
       IN  \/ /\ missing > 0
              /\ m_bytes_needed' = missing
              /\ UNCHANGED <<m_server, m_state, m_data_msg, m_control_msg, m_current_msg,
                             ec, delivered>>
           \/ /\ missing = 0 /\ error # "none"
              /\ Reject(error) /\ m_bytes_needed' = 0
           \/ /\ missing = 0 /\ error = "none"
              /\ m_state' = "HEADER_EXTENDED"
              /\ m_bytes_needed' = get_header_len(m_basic_header') - BASIC_HEADER_LENGTH
              /\ UNCHANGED <<m_server, m_data_msg, m_control_msg, m_current_msg, ec, delivered>>

\* The message that the frame's payload is for, with the key of this frame.
StartOrContinue(msg, h, e) ==
    LET key == prepare_masking_key(get_masking_key(h, e))
    IN  IF msg = NoMsg \/ is_control(get_opcode(h))
        THEN [op |-> get_opcode(h), payload |-> <<>>, key |-> key, validator |-> utf8_accept]
        ELSE [msg EXCEPT !.key = key]

ReadExtendedHeader ==
    /\ Consuming /\ m_state = "HEADER_EXTENDED"
    /\ Use(Len(Taken))
    /\ m_extended_header' = m_extended_header \o Taken
    /\ UNCHANGED m_basic_header
    /\ LET h == m_basic_header
           e == m_extended_header'
           error == validate_incoming_extended_header(h, e)
           size == get_payload_size(h, e)
       IN  IF Len(Taken) < m_bytes_needed
           THEN /\ m_bytes_needed' = m_bytes_needed - Len(Taken)
                /\ UNCHANGED <<m_server, m_state, m_data_msg, m_control_msg, m_current_msg,
                               ec, delivered>>
           ELSE IF error # "none" THEN Reject(error) /\ m_bytes_needed' = 0
           ELSE /\ m_bytes_needed' = size  \* a size_t, as requires_64bit was not found
                /\ m_state' = "APPLICATION"
                /\ UNCHANGED <<m_server, delivered>>
                /\ \/ /\ ExceedsLimit(h, size, m_data_msg)
                      /\ ec' = "message_too_big"
                      /\ UNCHANGED <<m_data_msg, m_control_msg, m_current_msg>>
                   \/ /\ is_control(get_opcode(h))
                      /\ m_control_msg' = StartOrContinue(m_control_msg, h, e)
                      /\ m_current_msg' = "control"
                      /\ UNCHANGED <<m_data_msg, ec>>
                   \/ /\ ~is_control(get_opcode(h)) /\ ~ExceedsLimit(h, size, m_data_msg)
                      /\ m_data_msg' = StartOrContinue(m_data_msg, h, e)
                      /\ m_current_msg' = "data"
                      /\ UNCHANGED <<m_control_msg, ec>>

\* The message with the bytes that were taken: unmasked, appended, validated.
process_payload_bytes(msg) ==
    LET unmasked == byte_mask_circ(Taken, msg.key)
        plain == IF get_masked(m_basic_header) THEN unmasked.bytes ELSE Taken
    IN  [op |-> msg.op,
         payload |-> msg.payload \o plain,
         key |-> IF get_masked(m_basic_header) THEN unmasked.key ELSE msg.key,
         validator |-> IF msg.op = TEXT THEN advance(msg.validator, plain) ELSE msg.validator]

reset_headers ==
    /\ m_state' = "HEADER_BASIC" /\ m_bytes_needed' = BASIC_HEADER_LENGTH
    /\ m_basic_header' = EmptyHeader /\ m_extended_header' = <<>>

\* A slip: only a text that was found wrong is.
EndsInsideCodePointIfRejected(msg) == get_opcode(m_basic_header) = TEXT /\ msg.validator = utf8_reject

\* finalize_message looks at the opcode of the last frame.
EndsInsideCodePoint(msg) == get_opcode(m_basic_header) = TEXT /\ ~complete(msg.validator)

ReadPayload ==
    /\ Consuming /\ m_state = "APPLICATION"
    /\ LET old == IF m_current_msg = "control" THEN m_control_msg ELSE m_data_msg
           msg == process_payload_bytes(old)
           missing == m_bytes_needed - Len(Taken)
       IN  /\ IF m_current_msg = "control"
              THEN m_control_msg' = msg /\ UNCHANGED m_data_msg
              ELSE m_data_msg' = msg /\ UNCHANGED m_control_msg
           /\ UNCHANGED <<m_server, m_current_msg, delivered>>
           /\ \/ /\ msg.validator = utf8_reject
                 /\ ec' = "invalid_utf8"
                 /\ UNCHANGED <<streamVars, m_state, m_basic_header, m_extended_header,
                                m_bytes_needed>>
              \/ /\ msg.validator # utf8_reject
                 /\ Use(Len(Taken))
                 /\ \/ /\ missing > 0
                       /\ m_bytes_needed' = missing
                       /\ UNCHANGED <<m_state, m_basic_header, m_extended_header, ec>>
                    \/ /\ missing = 0 /\ ~get_fin(m_basic_header)
                       /\ reset_headers /\ UNCHANGED ec
                    \/ /\ missing = 0 /\ get_fin(m_basic_header)
                       /\ m_bytes_needed' = 0
                       /\ UNCHANGED <<m_basic_header, m_extended_header>>
                       /\ IF EndsInsideCodePoint(msg)
                          THEN ec' = "invalid_utf8" /\ UNCHANGED m_state
                          ELSE m_state' = "READY" /\ UNCHANGED ec

\* A slip: a control frame ends the data message around it.
get_messageEndsBoth ==
    /\ m_state = "READY"
    /\ LET msg == IF m_current_msg = "control" THEN m_control_msg ELSE m_data_msg
       IN  delivered' = Append(delivered, [op |-> msg.op, payload |-> msg.payload])
    /\ m_control_msg' = NoMsg /\ m_data_msg' = NoMsg
    /\ reset_headers
    /\ UNCHANGED <<streamVars, m_server, m_current_msg, ec>>

\* The message goes to the user or, a control frame, to process_control_frame.
get_message ==
    /\ m_state = "READY"
    /\ LET msg == IF m_current_msg = "control" THEN m_control_msg ELSE m_data_msg
       IN  /\ delivered' = Append(delivered, [op |-> msg.op, payload |-> msg.payload])
           /\ IF is_control(msg.op)
              THEN m_control_msg' = NoMsg /\ UNCHANGED m_data_msg
              ELSE m_data_msg' = NoMsg /\ UNCHANGED m_control_msg
    /\ reset_headers
    /\ UNCHANGED <<streamVars, m_server, m_current_msg, ec>>

consume == ReadBasicHeader \/ ReadExtendedHeader \/ ReadPayload
=============================================================================
