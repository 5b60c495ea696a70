--------------------------------- MODULE HttpApi ---------------------------------
(***************************************************************************)
(* What an application may ask of a connection besides sending: to hold    *)
(* back reading, and to look at and to shape the handshake.  The           *)
(* connection is a record; an operation returns the record it leaves       *)
(* behind, or one that has thrown.                                         *)
(***************************************************************************)
EXTENDS HttpText

\* istate of the connection, as far as these calls tell it apart.
States == {"USER_INIT", "READ_HTTP_REQUEST", "PROCESS_HTTP_REQUEST", "PROCESS_CONNECTION"}

\* reads: the reads that the transport was asked for and has not completed.
connection(is_server) ==
    [m_is_server |-> is_server, m_internal_state |-> "USER_INIT", m_read_flag |-> TRUE, reads |-> 0,
     m_requested_subprotocols |-> <<>>, m_subprotocol |-> <<>>, m_status |-> 0,
     m_request |-> parser, m_response |-> parser, interrupts |-> 0, m_interrupt_handler |-> FALSE,
     ec |-> "none", thrown |-> FALSE]

-----------------------------------------------------------------------------
(***************************************************************************)
(* Reading.  The calls are dispatched to the connection's own thread.      *)
(***************************************************************************)
read_frame(c) == IF c.m_read_flag THEN [c EXCEPT !.reads = @ + 1] ELSE c

handle_pause_reading(c) == [c EXCEPT !.m_read_flag = FALSE]
handle_resume_reading(c) == read_frame([c EXCEPT !.m_read_flag = TRUE])

\* A read is completed, what it brought is used, and the next one begins.
handle_read_frame(c) == read_frame([c EXCEPT !.reads = @ - 1])

handle_interrupt(c) == IF c.m_interrupt_handler THEN [c EXCEPT !.interrupts = @ + 1] ELSE c

-----------------------------------------------------------------------------
(***************************************************************************)
(* Subprotocols.                                                           *)
(***************************************************************************)
add_subprotocol(c, value) ==
    IF c.m_is_server THEN [c EXCEPT !.ec = "client_only"]
    ELSE IF value = <<>> \/ \E i \in DOMAIN value : ~is_token_char(value[i])
    THEN [c EXCEPT !.ec = "invalid_subprotocol"]
    ELSE [c EXCEPT !.m_requested_subprotocols = Append(@, value)]

select_subprotocol(c, value) ==
    IF ~c.m_is_server THEN [c EXCEPT !.ec = "server_only"]
    ELSE IF value = <<>> THEN [c EXCEPT !.ec = "none"]
    ELSE IF value \notin ToSet(c.m_requested_subprotocols) THEN [c EXCEPT !.ec = "unrequested_subprotocol"]
    ELSE [c EXCEPT !.m_subprotocol = value]

-----------------------------------------------------------------------------
(***************************************************************************)
(* The handshake: a server shapes its response while it processes the      *)
(* request, a client its request before it connects.                       *)
(***************************************************************************)
Throw(c) == [c EXCEPT !.thrown = TRUE]
Processing(c) == c.m_internal_state = "PROCESS_HTTP_REQUEST"
MayShape(c) == IF c.m_is_server THEN Processing(c) ELSE c.m_internal_state = "USER_INIT"

set_status(c, code) == IF Processing(c) THEN [c EXCEPT !.m_status = code] ELSE Throw(c)
SetBody(c, value) == IF Processing(c) THEN [c EXCEPT !.m_response = set_body(@, value)] ELSE Throw(c)

AppendHeader(c, key, val) ==
    IF ~MayShape(c) THEN Throw(c)
    ELSE IF c.m_is_server THEN [c EXCEPT !.m_response = append_header(@, key, val)]
    ELSE [c EXCEPT !.m_request = append_header(@, key, val)]

ReplaceHeader(c, key, val) ==
    IF ~MayShape(c) THEN Throw(c)
    ELSE IF c.m_is_server THEN [c EXCEPT !.m_response = replace_header(@, key, val)]
    ELSE [c EXCEPT !.m_request = replace_header(@, key, val)]

RemoveHeader(c, key) ==
    IF ~MayShape(c) THEN Throw(c)
    ELSE IF c.m_is_server THEN [c EXCEPT !.m_response = remove_header(@, key)]
    ELSE [c EXCEPT !.m_request = remove_header(@, key)]

\* The handshake of a client.  One and the same subprotocol may be asked for
\* twice; the list is a header of the request.
Joined(values) ==
    FoldLeft(LAMBDA text, v : IF text = <<>> THEN v ELSE text \o <<",", " ">> \o v, <<>>, values)

\* The subprotocols of a request, as a server reads them.
extract_subprotocols(text) ==
    LET read == parse_parameter_list(text)
    IN  IF read.error THEN <<>> ELSE [i \in DOMAIN read.list |-> read.list[i].name]
=============================================================================
