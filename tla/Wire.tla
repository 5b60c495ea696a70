--------------------------------- MODULE Wire ---------------------------------
(***************************************************************************)
(* What a connection reads from its first byte on: the handshake, then     *)
(* frames, of a peer that sends messages through prepare_data_frame and    *)
(* prepare_control, or of one that sends what it likes.                    *)
(***************************************************************************)
EXTENDS HttpHead, Hybi13

CONSTANTS
    Scripts  \* what peers do: [server, lines, bytes, formed, sends]: whether a server
             \* reads it, the lines of the head (none: the handshake is over), the bytes
             \* that follow, and, if those are formed as they should be, the calls that
             \* wrote them

ASSUME ScriptsAssumption ==
    \A s \in Scripts : /\ s.server \in BOOLEAN
                       /\ s.lines \in Seq(Nat \ Byte) /\ s.bytes \in Seq(Byte)

ASSUME NoMsgAssumption == NoMsg \notin [op : Opcode, payload : Seq(Byte)]

-----------------------------------------------------------------------------
(***************************************************************************)
(* What a peer writes that calls the library's own functions, and the      *)
(* messages that its calls add up to.                                      *)
(***************************************************************************)
Send == [op : Opcode, payload : Seq(Byte), fin : BOOLEAN, key : Seq(Byte)]

Prepared(server, send) ==
    IF is_control(send.op) THEN prepare_control(server, send.op, send.payload, send.key)
    ELSE prepare_data_frame(server, send.op, send.payload, send.fin, send.key)

\* The bytes of the first k calls.
Written(server, sends) ==
    LET upTo[k \in 0..Len(sends)] ==
            IF k = 0 THEN <<>> ELSE upTo[k - 1] \o Prepared(server, sends[k]).bytes
    IN  upTo

\* A fragment is added to the message that waits for more of them.
Continued(message, send) ==
    IF message = NoMsg THEN [op |-> send.op, payload |-> send.payload]
    ELSE [op |-> message.op, payload |-> message.payload \o send.payload]

\* What is complete after a call, and what waits.
Add(before, send) ==
    IF is_control(send.op)
    THEN [before EXCEPT !.sent = Append(@, [op |-> send.op, payload |-> send.payload])]
    ELSE LET message == Continued(before.message, send)
         IN  IF send.fin THEN [message |-> NoMsg, sent |-> Append(before.sent, message)]
             ELSE [before EXCEPT !.message = message]

Joined(sends) ==
    LET upTo[k \in 0..Len(sends)] ==
            IF k = 0 THEN [message |-> NoMsg, sent |-> <<>>] ELSE Add(upTo[k - 1], sends[k])
    IN  upTo

\* The calls of a peer that follows the protocol: fragments in order, pieces of text
\* that are text, and no message longer than the reader takes.
Proper(server, send, message) ==
    /\ Prepared(server, send).ec = "none" /\ Len(send.key) = 4
    /\ ~reserved_opcode(send.op)
    /\ IF is_control(send.op) THEN send.fin
       ELSE /\ (send.op = CONTINUATION) <=> (message # NoMsg)
            /\ Len(Continued(message, send).payload) <= m_max_message_size
            /\ Continued(message, send).op = TEXT => validate(send.payload)

AllProper(server, sends) ==
    \A k \in DOMAIN sends : Proper(server, sends[k], Joined(sends)[k - 1].message)

ASSUME FormedAssumption ==
    \A s \in Scripts : s.formed => /\ s.lines = <<>> /\ s.sends \in Seq(Send)
                                   /\ s.bytes = Written(~s.server, s.sends)[Len(s.sends)]
                                   /\ AllProper(~s.server, s.sends)

-----------------------------------------------------------------------------
VARIABLES
    script,
    start,   \* where the frame that is being read begins
    kept     \* m_data_msg at that point

vars == <<streamVars, headVars, frameVars, script, start, kept>>

\* Script is the peer's and never changes.
HeadBytes(lines) ==
    IF lines = <<>> THEN <<>>
    ELSE LET end == 3 * Len(lines)
         IN  [i \in 1..end + 2 |->
                IF i < end /\ i % 3 = 1 THEN lines[1 + i \div 3]
                ELSE IF (i < end /\ i % 3 = 2) \/ i = end + 1 THEN CR
                ELSE LF]

TypeOK ==
    /\ StreamTypeOK /\ HeadTypeOK /\ FrameTypeOK
    /\ start \in 0..at
    /\ kept = NoMsg \/ kept \in Message

Init ==
    /\ script \in Scripts
    /\ stream = HeadBytes(script.lines) \o script.bytes /\ got = 0 /\ at = 0
    /\ HeadInit /\ head = IF script.lines = <<>> THEN "open" ELSE "line"
    /\ m_is_server = script.server
    /\ FrameInit /\ m_server = script.server
    /\ start = 0 /\ kept = NoMsg

\* The handler of a read starts the next one when it has used all it was given.
Read ==
    /\ \/ head \in {"line", "headers"} /\ ~scanning
       \/ head = "body"
       \/ head = "open" /\ ~Consuming /\ m_state # "READY" /\ ec = "none"
    /\ async_read_at_least
    /\ UNCHANGED <<headVars, frameVars, script, start, kept>>

\* What follows the head in its last read is left for handle_read_frame.
ParseHandshake ==
    /\ ParseHead
    /\ start' = IF head' = "open" THEN at' ELSE start
    /\ UNCHANGED <<frameVars, script, kept>>

\* A frame begins where the last one ended.
MarkFrame ==
    IF m_state # "HEADER_BASIC" /\ m_state' = "HEADER_BASIC"
    THEN start' = at' /\ kept' = m_data_msg'
    ELSE UNCHANGED <<start, kept>>

handle_read_frame ==
    /\ head = "open"
    /\ consume \/ get_message
    /\ MarkFrame
    /\ UNCHANGED <<headVars, script>>

Next == Read \/ ParseHandshake \/ handle_read_frame

Spec == Init /\ [][Next]_vars

-----------------------------------------------------------------------------
(***************************************************************************)
(* Properties.                                                             *)
(***************************************************************************)

\* However the reads cut the stream, frames, fragments and control frames between
\* fragments come out as if each frame had been taken whole: no byte of a header
\* is lost at a boundary, the key stays in step, and errors are found in the same
\* frame.
Frames == INSTANCE FrameStream WITH
    server <- m_server,
    open <- head = "open",
    at <- start,
    message <- IF kept = NoMsg THEN NoMsg ELSE [op |-> kept.op, payload |-> kept.payload],
    ec <- IF ec = "none" THEN "none" ELSE "failed"

FramesSpec == Frames!Spec

\* What a peer sends through the library's own functions is received, message by
\* message, with its bytes, its fragments joined, and its close code; and nothing
\* of it is taken for an error.
ReceivesWhatWasSent ==
    script.formed /\ head = "open" =>
        LET sent == Joined(script.sends)[Len(script.sends)].sent
        IN  /\ ec = "none" /\ IsPrefix(delivered, sent)
            /\ at = Len(stream) /\ m_state = "HEADER_BASIC" => delivered = sent

\* A text message that comes in one frame is UTF-8 when it is handed on, and one that
\* comes in fragments but for at most three bytes, which begin a code point: its last
\* frame does not say TEXT, and finalize_message does not ask for a complete one.
TextIsAtWorstCutShort ==
    [][\A m \in {delivered'[i] : i \in DOMAIN delivered' \ DOMAIN delivered} :
        m.op = TEXT =>
            \E n \in 0..(IF get_opcode(m_basic_header) = TEXT THEN 0 ELSE 3) :
                /\ n <= Len(m.payload)
                /\ WellFormed(SubSeq(m.payload, 1, Len(m.payload) - n))
                /\ StartsCodePoint(SubSeq(m.payload, Len(m.payload) - n + 1, Len(m.payload)))]_vars

\* What a head as a whole should lead to.  The places of the headers of a name, and
\* the first of them.
Places(name) ==
    {i \in DOMAIN script.lines :
        script.lines[i] \in DOMAIN Header /\ Header[script.lines[i]].name = name}
FirstOf(name) == script.lines[CHOOSE i \in Places(name) : \A j \in Places(name) : i <= j]

Parsed ==
    /\ script.lines[1] \in FirstLines
    /\ \A i \in 2..Len(script.lines) : script.lines[i] \in DOMAIN Header

Upgrades == \E i, j \in DOMAIN script.lines : script.lines[i] = 262 /\ script.lines[j] = 264

Verdict ==
    IF ~m_is_server
    THEN IF /\ Parsed /\ Upgrades
            /\ script.lines[1] = SwitchingProtocols
            /\ \E i \in Places("Sec-WebSocket-Accept") :
                  Places("Sec-WebSocket-Accept") = {i} /\ script.lines[i] = 266
            /\ Places("Content-Length") = {} \/ FirstOf("Content-Length") # 274
         THEN "open" ELSE "refused"
    ELSE IF \/ ~Parsed \/ Places("Host") = {}
            \/ /\ Places("Content-Length") # {}
               /\ \/ FirstOf("Content-Length") = 273 /\ 2 > m_body_bytes_max
                  \/ FirstOf("Content-Length") = 275 /\ 3 > m_body_bytes_max
         THEN "refused"
    ELSE IF ~Upgrades THEN "http"
    ELSE IF /\ script.lines[1] = Get
            /\ Places("Sec-WebSocket-Key") # {}
            /\ Places("Sec-WebSocket-Version") # {}
            /\ FirstOf("Sec-WebSocket-Version") = 270
         THEN "open" ELSE "refused"

\* The verdict on a handshake, and where the frames begin, depend on what the peer
\* sent and not on the reads, but for two things the code does: a head may be too
\* large when it comes in small reads, and a Content-Length in a response eats as
\* many frame bytes as happen to be there.
HandshakeAsAWhole ==
    /\ script.lines # <<>> /\ head \in {"open", "http", "refused"}
          /\ refusal # "request_header_fields_too_large" => head = Verdict
    /\ head = "open" /\ Places("Content-Length") = {} =>
          IF delivered = <<>> /\ kept = NoMsg THEN start = Len(HeadBytes(script.lines))
          ELSE start > Len(HeadBytes(script.lines))
=============================================================================
