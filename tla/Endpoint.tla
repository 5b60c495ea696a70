-------------------------------- MODULE Endpoint --------------------------------
(***************************************************************************)
(* A websocketpp endpoint above its transport: the settings that every new *)
(* connection is given a copy of, the calls that reach a connection by its *)
(* handle, a server's loop of accepts and a client's first steps.  A       *)
(* setting or a handler is the number of times it was set.                 *)
(***************************************************************************)
EXTENDS AsioEndpoint, FiniteSets

Handlers == {"open", "close", "fail", "ping", "pong", "pong_timeout", "interrupt", "http",
             "validate", "message"}
Timeouts == {"open_handshake", "close_handshake", "pong"}
Limits == {"max_message_size", "max_http_body_size"}
Settings == Handlers \union Timeouts \union Limits

\* 0 is the default of the configuration.  alive: the connections that someone holds.
core(is_server) ==
    [m_is_server |-> is_server, set |-> [s \in Settings |-> 0],
     connections |-> <<>>, alive |-> {}, started |-> {}, terminated |-> {}, calls |-> <<>>, ec |-> "none",
     transport |-> endpoint]

set_handler(c, handler) == [c EXCEPT !.set[handler] = @ + 1]
set_timeout(c, timeout) == [c EXCEPT !.set[timeout] = @ + 1]
set_limit(c, limit) == [c EXCEPT !.set[limit] = @ + 1]

\* A limit or a timeout that is the default is not handed on: the connection
\* has it anyway.
create_connection(c, failed) ==
    IF failed THEN c
    ELSE [c EXCEPT !.connections = Append(@, c.set), !.alive = @ \union {Len(c.connections) + 1}]

Newest(c) == Len(c.connections)

-----------------------------------------------------------------------------
(***************************************************************************)
(* Calls by handle.  The handle is weak, and the caller's error code is    *)
(* not reset: one that was set before the call counts as this call's.      *)
(***************************************************************************)
get_con_from_hdl(c, hdl, ec) == IF hdl \in c.alive THEN ec ELSE "bad_connection"

\* interrupt, pause_reading, resume_reading, send and the others.
PassThrough == {"interrupt", "pause_reading", "resume_reading", "send_http_response", "send",
                "send_bytes", "send_message", "close", "ping", "pong"}

Call(c, what, hdl, ec, answer) ==
    IF get_con_from_hdl(c, hdl, ec) # "none"
    THEN [c EXCEPT !.ec = get_con_from_hdl(c, hdl, ec)]
    ELSE [c EXCEPT !.ec = answer, !.calls = Append(@, <<what, hdl>>)]

-----------------------------------------------------------------------------
(***************************************************************************)
(* server.                                                                 *)
(***************************************************************************)
\* A connection that could not be accepted is terminated.
start_accept(c, failed) ==
    LET made == create_connection(c, failed)
        accepted == async_accept([c.transport EXCEPT !.ec = "none"])
    IN  IF ~is_listening(c.transport) THEN [c EXCEPT !.ec = "async_accept_not_listening"]
        ELSE IF failed THEN [c EXCEPT !.ec = "con_creation_failed"]
        ELSE IF accepted.ec # "none"
        THEN [made EXCEPT !.ec = accepted.ec, !.terminated = @ \union {Newest(made)}]
        ELSE [made EXCEPT !.ec = "none", !.transport = accepted]

\* The connection is started or terminated, and the next accept begins.
handle_accept(c, hdl, asio_ec, failed) ==
    LET done == [c EXCEPT !.transport.accepting = @ - 1]
    IN  start_accept(IF handle_accept_error(asio_ec) = "none"
                     THEN [done EXCEPT !.started = @ \union {hdl}]
                     ELSE [done EXCEPT !.terminated = @ \union {hdl}, !.alive = @ \ {hdl}], failed)

-----------------------------------------------------------------------------
(***************************************************************************)
(* client.                                                                 *)
(***************************************************************************)
\* location: whether it could be parsed, and whether it is secure.
get_connection(c, location, is_secure, failed) ==
    IF ~location.valid THEN [c EXCEPT !.ec = "invalid_uri"]
    ELSE IF location.secure /\ ~is_secure THEN [c EXCEPT !.ec = "endpoint_not_secure"]
    ELSE IF failed THEN [c EXCEPT !.ec = "con_creation_failed"]
    ELSE [create_connection(c, FALSE) EXCEPT !.ec = "none"]

handle_connect(c, hdl, error) ==
    IF error = "none" THEN [c EXCEPT !.started = @ \union {hdl}]
    ELSE [c EXCEPT !.terminated = @ \union {hdl}, !.alive = @ \ {hdl}]
=============================================================================
