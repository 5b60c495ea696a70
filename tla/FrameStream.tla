----------------------------- MODULE FrameStream -----------------------------
(***************************************************************************)
(* What reading frames promises: the stream is a sequence of frames, and   *)
(* taking the next one, at once and whole, is all that ever happens.  How  *)
(* the reads cut the stream cannot be told from here.                      *)
(***************************************************************************)
EXTENDS Close

CONSTANTS m_max_message_size, SizeT, NoMsg

VARIABLES
    server, stream,
    open,       \* the handshake is over
    at,         \* where the next frame begins
    message,    \* the data message that waits for more fragments
    ec,
    delivered

vars == <<server, stream, open, at, message, ec, delivered>>

Init ==
    /\ server \in BOOLEAN /\ open \in BOOLEAN
    /\ message = NoMsg /\ ec = "none" /\ delivered = <<>>

h == [b0 |-> stream[at + 1], b1 |-> stream[at + 2]]
e == SubSeq(stream, at + 3, at + get_header_len(h))
size == get_payload_size(h, e)

HasBasicHeader == Len(stream) >= at + 2
HasHeader == HasBasicHeader /\ Len(stream) >= at + get_header_len(h)
FrameEnd == at + get_header_len(h) + size
Whole == Len(stream) >= FrameEnd

\* As much of the payload as there is.
Payload ==
    LET bytes == SubSeq(stream, at + get_header_len(h) + 1, IF Whole THEN FrameEnd ELSE Len(stream))
    IN  IF get_masked(h) THEN byte_mask(bytes, get_masking_key(h, e)) ELSE bytes

Before == IF message = NoMsg \/ is_control(get_opcode(h)) THEN <<>> ELSE message.payload
op == IF message = NoMsg \/ is_control(get_opcode(h)) THEN get_opcode(h) ELSE message.op

\* With a frame that says so much, the message is longer than the limit; unless it is a
\* continuation that says so very much that the sum is not a size_t.
TooBig == (IF message = NoMsg THEN size ELSE (Len(message.payload) + size) % SizeT) > m_max_message_size

Illegal ==
    \/ HasBasicHeader /\ (reserved_opcode(get_opcode(h)) \/ get_rsv1(h) \/ get_rsv2(h) \/ get_rsv3(h))
    \/ HasBasicHeader /\ is_control(get_opcode(h))
       /\ (~get_fin(h) \/ get_basic_size(h) > payload_size_basic)
    \/ HasBasicHeader /\ ~is_control(get_opcode(h))
       /\ ((message = NoMsg) <=> (get_opcode(h) = CONTINUATION))
    \/ HasBasicHeader /\ (server <=> ~get_masked(h))
    \/ HasHeader /\ get_basic_size(h) > payload_size_basic /\ basic_value(size) # get_basic_size(h)
    \/ HasHeader /\ size >= SizeT
    \/ HasHeader /\ ~is_control(get_opcode(h)) /\ TooBig

\* Text is looked at as it comes in, and at the end of a frame that says TEXT.
NotText ==
    /\ ~Illegal /\ HasHeader /\ op = TEXT
    /\ LET state == advance(utf8_accept, Before \o Payload)
       IN  \/ state = utf8_reject
           \/ Whole /\ get_fin(h) /\ get_opcode(h) = TEXT /\ ~complete(state)

\* Where the first frame begins is the handshake's business.
Open ==
    /\ ~open /\ open'
    /\ at' \in 0..Len(stream)
    /\ UNCHANGED <<server, stream, message, ec, delivered>>

Fail ==
    /\ open /\ ec = "none" /\ (Illegal \/ NotText)
    /\ ec' = "failed"
    /\ UNCHANGED <<server, stream, open, at, message, delivered>>

NextFrame ==
    /\ open /\ ec = "none" /\ ~Illegal /\ ~NotText /\ HasHeader /\ Whole
    /\ at' = FrameEnd
    /\ IF get_fin(h)
       THEN /\ delivered' = Append(delivered, [op |-> op, payload |-> Before \o Payload])
            /\ message' = IF is_control(get_opcode(h)) THEN message ELSE NoMsg
       ELSE /\ message' = [op |-> op, payload |-> Before \o Payload]
            /\ UNCHANGED delivered
    /\ UNCHANGED <<server, stream, open, ec>>

Next == Open \/ Fail \/ NextFrame

Spec == Init /\ [][Next]_vars
=============================================================================
