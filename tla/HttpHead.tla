------------------------------- MODULE HttpHead -------------------------------
(***************************************************************************)
(* The HTTP message that opens a connection: a line, headers, a blank line *)
(* and perhaps a body, parsed out of whatever the reads deliver, and what  *)
(* makes it a websocket handshake.  The text of a line is one symbol above *)
(* 255, so that only its end and its meaning are told apart.               *)
(***************************************************************************)
EXTENDS ByteStream, SequencesExt

CONSTANTS max_header_size,  \* 16000 in the code
          m_body_bytes_max  \* 32000000 in the code

ASSUME HeadAssumption == max_header_size \in Nat /\ m_body_bytes_max \in Nat

VARIABLES
    m_is_server,     \* a server parses a request, a client a response
    head,            \* how far the parser, and then the handshake, is
    m_buf,           \* head bytes that are not processed yet
    scanning,        \* the loop over m_buf is under way
    first_line,      \* the symbol of the first line, 0 before it
    m_headers,       \* [name -> values, in the order they came]
    m_header_bytes,
    body_needed,     \* m_read, or m_body_bytes_needed
    refusal          \* why the handshake failed

headVars == <<m_is_server, head, m_buf, scanning, first_line, m_headers, m_header_bytes,
              body_needed, refusal>>

CR == 13
LF == 10

\* Response lines.
SwitchingProtocols == 256
OtherStatus == 257
\* A line with no blank or colon in it.
Garbled == 258
\* Request lines: GET and HTTP/1.1, another method, another version.
Get == 259
Post == 260
OldVersion == 261

\* Headers, and what each one says: their symbols are 262 and those that follow.
Headers == <<
    [name |-> "Upgrade", value |-> "websocket"],
    [name |-> "Upgrade", value |-> "other"],
    [name |-> "Connection", value |-> "Upgrade"],
    [name |-> "Connection", value |-> "other"],
    [name |-> "Sec-WebSocket-Accept", value |-> "right"],
    [name |-> "Sec-WebSocket-Accept", value |-> "other"],
    [name |-> "Sec-WebSocket-Key", value |-> "key"],
    [name |-> "Host", value |-> "host"],
    [name |-> "Sec-WebSocket-Version", value |-> "13"],
    [name |-> "Sec-WebSocket-Version", value |-> "0"],
    [name |-> "Sec-WebSocket-Version", value |-> "other"],
    [name |-> "Content-Length", value |-> "2"],
    [name |-> "Content-Length", value |-> "text"],
    [name |-> "Content-Length", value |-> "3"] >>

Header == [symbol \in 262..275 |-> Headers[symbol - 261]]

HeaderNames == {Header[s].name : s \in DOMAIN Header}

HeadTypeOK ==
    /\ m_is_server \in BOOLEAN
    /\ head \in {"line", "headers", "body", "open", "http", "refused"}
    /\ scanning \in BOOLEAN
    /\ first_line \in {0, SwitchingProtocols, OtherStatus, Get, Post, OldVersion}
    /\ DOMAIN m_headers = HeaderNames
    /\ m_header_bytes \in 0..max_header_size
    /\ body_needed \in Nat

HeadInit ==
    /\ m_buf = <<>> /\ scanning = FALSE /\ first_line = 0
    /\ m_headers = [n \in HeaderNames |-> <<>>]
    /\ m_header_bytes = 0 /\ body_needed = 0 /\ refusal = "none"

\* get_header joins the values; what is searched or parsed in it is found in
\* any of them, or at the front.
Has(name) == m_headers[name] # <<>>
Says(name, value) == \E i \in DOMAIN m_headers[name] : m_headers[name][i] = value

\* A slip: the last value of a header replaces the others.
AppendedLast(headers, symbol) ==
    [headers EXCEPT ![Header[symbol].name] = <<Header[symbol].value>>]

\* append_header.
Appended(headers, symbol) ==
    [headers EXCEPT ![Header[symbol].name] = Append(@, Header[symbol].value)]

-----------------------------------------------------------------------------
(***************************************************************************)
(* What the head says, once it is complete.                                *)
(***************************************************************************)
is_websocket_handshake == Says("Upgrade", "websocket") /\ Says("Connection", "Upgrade")

get_websocket_version ==
    IF ~Has("Sec-WebSocket-Version") THEN "0" ELSE Head(m_headers["Sec-WebSocket-Version"])

\* An Accept header that came twice is not the one that is expected.
validate_server_handshake_response ==
    IF first_line # SwitchingProtocols THEN "invalid_http_status"
    ELSE IF ~is_websocket_handshake \/ m_headers["Sec-WebSocket-Accept"] # <<"right">>
         THEN "missing_required_header"
    ELSE "none"

validate_handshake ==
    IF first_line = Post THEN "invalid_http_method"
    ELSE IF first_line = OldVersion THEN "invalid_http_version"
    ELSE IF ~Has("Sec-WebSocket-Key") THEN "missing_required_header"
    ELSE "none"

\* initialize_processor and process_handshake_request; version 0 belongs to
\* another processor, which is not modelled and counts as refused.
RequestOutcome ==
    IF ~is_websocket_handshake THEN "http"
    ELSE IF get_websocket_version # "13" THEN "unsupported_version"
    ELSE validate_handshake

Outcome == IF m_is_server THEN RequestOutcome ELSE validate_server_handshake_response

Conclude(outcome) ==
    /\ head' = CASE outcome = "none" -> "open" [] outcome = "http" -> "http"
                 [] OTHER -> "refused"
    /\ refusal' = outcome

\* An exception: a request is answered with an error, a response drops the connection.
Throw(what) ==
    /\ head' = "refused" /\ refusal' = what
    /\ scanning' = FALSE
    /\ UNCHANGED <<at, m_buf, first_line, m_headers, body_needed>>

-----------------------------------------------------------------------------
(***************************************************************************)
(* consume: the bytes of a read are appended to what was left of the last  *)
(* one, and each turn of the loop takes a line.                            *)
(***************************************************************************)
FillBuffer ==
    /\ head \in {"line", "headers"} /\ ~scanning /\ at < got
    /\ m_buf' = m_buf \o Unused /\ Use(got - at)
    /\ scanning' = TRUE
    /\ UNCHANGED <<m_is_server, head, first_line, m_headers, m_header_bytes,
                   body_needed, refusal>>

\* Where the next delimiter begins.
Delimiters == {i \in 1..Len(m_buf) - 1 : m_buf[i] = CR /\ m_buf[i + 1] = LF}
LineEnd == IF Delimiters = {} THEN Len(m_buf) ELSE (CHOOSE i \in Delimiters : \A j \in Delimiters : i <= j) - 1
Line == SubSeq(m_buf, 1, LineEnd)
Rest == SubSeq(m_buf, LineEnd + 3, Len(m_buf))

\* The delimiter is counted with the zero that ends its array.
CountedBytes == m_header_bytes + LineEnd + 3

\* The first line, or a header's.  Symbols of one kind in the place of the
\* other cannot be parsed.
FirstLines == IF m_is_server THEN {Get, Post, OldVersion} ELSE {SwitchingProtocols, OtherStatus}

ProcessLine ==
    /\ m_header_bytes' = CountedBytes
    /\ \/ /\ head = "line" /\ Len(Line) = 1 /\ Line[1] \in FirstLines
          /\ first_line' = Line[1] /\ head' = "headers"
          /\ m_buf' = Rest
          /\ UNCHANGED <<at, scanning, m_headers, body_needed, refusal>>
       \/ /\ head = "headers" /\ Len(Line) = 1 /\ Line[1] \in DOMAIN Header
          /\ m_headers' = Appended(m_headers, Line[1])
          /\ m_buf' = Rest
          /\ UNCHANGED <<at, head, scanning, first_line, body_needed, refusal>>
       \/ /\ ~(Len(Line) = 1 /\ Line[1] \in IF head = "line" THEN FirstLines ELSE DOMAIN Header)
          /\ Throw("bad_request")

\* The length in a Content-Length header, as a stream parses it; strtoul makes
\* a zero of a text.
ContentLength ==
    CASE Head(m_headers["Content-Length"]) = "2" -> 2
      [] Head(m_headers["Content-Length"]) = "3" -> 3
      [] OTHER -> 0

\* The blank line: the rest of the buffer is body, as far as there is one, and
\* then the peer's frames.  A response opens the connection at once, a request
\* with a body is read on.
EndOfHead ==
    LET length == IF Has("Content-Length") THEN ContentLength ELSE 0
        body == IF length < Len(Rest) THEN length ELSE Len(Rest)
    IN  /\ m_header_bytes' = CountedBytes
        /\ \/ /\ head = "line" \/ (m_is_server /\ ~Has("Host"))
              /\ Throw("bad_request")
           \/ /\ head = "headers" /\ ~m_is_server
              /\ Has("Content-Length") /\ Head(m_headers["Content-Length"]) = "text"
              /\ Throw("bad_request")
           \/ /\ head = "headers" /\ m_is_server /\ Has("Host") /\ length > m_body_bytes_max
              /\ Throw("request_entity_too_large")
           \/ /\ head = "headers"
              /\ IF m_is_server THEN Has("Host") /\ length <= m_body_bytes_max
                 ELSE Has("Content-Length") => Head(m_headers["Content-Length"]) # "text"
              /\ at' = got - Len(Rest) + body
              /\ body_needed' = length - body
              /\ m_buf' = <<>> /\ scanning' = FALSE
              /\ UNCHANGED <<first_line, m_headers>>
              /\ IF m_is_server /\ length > body
                 THEN head' = "body" /\ UNCHANGED refusal
                 ELSE Conclude(Outcome)

ScanLine ==
    /\ scanning
    /\ UNCHANGED <<m_is_server, stream, got>>
    /\ \/ /\ CountedBytes > max_header_size
          /\ Throw("request_header_fields_too_large") /\ UNCHANGED m_header_bytes
       \/ /\ CountedBytes <= max_header_size /\ Delimiters = {}
          /\ m_header_bytes' = CountedBytes - Len(m_buf)
          /\ scanning' = FALSE
          /\ UNCHANGED <<at, head, m_buf, first_line, m_headers, body_needed, refusal>>
       \/ /\ CountedBytes <= max_header_size /\ Delimiters # {}
          /\ IF LineEnd = 0 THEN EndOfHead ELSE ProcessLine

\* A slip: the frame bytes behind the body are taken with it.
process_bodyTakesAll ==
    /\ head = "body" /\ at < got
    /\ Use(body_needed) /\ body_needed' = 0
    /\ Conclude(Outcome)
    /\ UNCHANGED <<m_is_server, m_buf, scanning, first_line, m_headers, m_header_bytes>>

\* The body of a request.
process_body ==
    /\ head = "body" /\ at < got
    /\ LET n == IF body_needed < got - at THEN body_needed ELSE got - at
       IN  /\ Use(n)
           /\ body_needed' = body_needed - n
           /\ IF n = body_needed THEN Conclude(Outcome) ELSE UNCHANGED <<head, refusal>>
    /\ UNCHANGED <<m_is_server, m_buf, scanning, first_line, m_headers, m_header_bytes>>

ParseHead == FillBuffer \/ ScanLine \/ process_body
=============================================================================
