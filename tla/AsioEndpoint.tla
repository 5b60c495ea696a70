------------------------------ MODULE AsioEndpoint ------------------------------
(***************************************************************************)
(* The endpoint of the asio transport: which io_service it runs on and who *)
(* destroys that, and its acceptor.  The endpoint is a record; an          *)
(* operation returns the record it leaves behind.  What asio answers is an *)
(* argument: TRUE when it failed.                                          *)
(***************************************************************************)
EXTENDS Integers, Sequences

endpoint ==
    [m_state |-> "UNINITIALIZED", m_io_service |-> "none", m_external_io_service |-> FALSE,
     m_acceptor |-> "none", m_work |-> FALSE, m_reuse_addr |-> FALSE, m_listen_backlog |-> "max",
     accepting |-> 0, ec |-> "none", thrown |-> "none", freed |-> {}]

\* The variants without an error code throw the one they got.
Throwing(e) == [e EXCEPT !.thrown = e.ec]

\* With an io_service of the application, or one made here for it.
InitWith(e, service) ==
    IF e.m_state # "UNINITIALIZED" THEN [e EXCEPT !.ec = "invalid_state"]
    ELSE [e EXCEPT !.m_io_service = service, !.m_external_io_service = TRUE,
                   !.m_acceptor = "closed", !.m_state = "READY", !.ec = "none"]

init_asio_external(e) == InitWith(e, "external")

\* A service that was not taken is destroyed; the flag is cleared even then.
init_asio_internal_ec(e) ==
    LET tried == InitWith(e, "own") IN [tried EXCEPT !.m_external_io_service = FALSE]

\* The exception leaves before the flag is cleared.
init_asio_internal(e) ==
    LET tried == InitWith(e, "own")
    IN  IF tried.ec = "none" THEN [tried EXCEPT !.m_external_io_service = FALSE] ELSE Throwing(tried)

set_listen_backlog(e, backlog) == [e EXCEPT !.m_listen_backlog = backlog]
set_reuse_addr(e, value) == [e EXCEPT !.m_reuse_addr = value]

\* Pending accepts are aborted when the acceptor is closed.
CloseAcceptor(e) == [e EXCEPT !.m_acceptor = "closed"]

clean_up_listen_after_error(e, error) ==
    [(IF e.m_acceptor = "open" THEN CloseAcceptor(e) ELSE e) EXCEPT !.ec = error]

\* failing: the step of opening the acceptor that does not succeed.
ListenSteps == <<"open", "set_option", "tcp_pre_bind", "bind", "listen">>

listen(e, failing) ==
    LET opened == [e EXCEPT !.m_acceptor = "open"]
    IN  IF e.m_state # "READY" THEN [e EXCEPT !.ec = "invalid_state"]
        ELSE IF failing = "open" THEN clean_up_listen_after_error(e, "open")
        ELSE IF failing \in {"set_option", "tcp_pre_bind", "bind", "listen"}
        THEN clean_up_listen_after_error(opened, failing)
        ELSE [opened EXCEPT !.m_state = "LISTENING", !.ec = "none"]

\* A host and a service are resolved first; the state is looked at afterwards.
listen_host(e, resolved, failing) ==
    IF ~resolved THEN [e EXCEPT !.ec = "invalid_host_service"] ELSE listen(e, failing)

stop_listening(e) ==
    IF e.m_state # "LISTENING" THEN [e EXCEPT !.ec = "invalid_state"]
    ELSE [CloseAcceptor(e) EXCEPT !.m_state = "READY", !.ec = "none"]

is_listening(e) == e.m_state = "LISTENING"

get_local_endpoint(e) == IF e.m_acceptor = "none" THEN "bad_descriptor" ELSE "asio"

start_perpetual(e) == [e EXCEPT !.m_work = TRUE]
stop_perpetual(e) == [e EXCEPT !.m_work = FALSE]

\* run returns when there is nothing to wait for.
RunReturns(e) == ~e.m_work /\ e.accepting = 0

async_accept(e) ==
    IF e.m_state # "LISTENING" \/ e.m_acceptor = "none"
    THEN [e EXCEPT !.ec = "async_accept_not_listening"]
    ELSE [e EXCEPT !.accepting = @ + 1]

\* What the callback of an accept, or of a timer, is told.
handle_accept_error(asio_ec) ==
    CASE asio_ec = "none" -> "none" [] asio_ec = "canceled" -> "operation_canceled" [] OTHER -> "pass_through"
handle_timer_error(asio_ec) ==
    CASE asio_ec = "none" -> "none" [] asio_ec = "canceled" -> "operation_aborted" [] OTHER -> "pass_through"

\* The destructor.
destroy(e) ==
    [e EXCEPT !.m_acceptor = "none", !.m_work = FALSE,
              !.freed = IF e.m_state # "UNINITIALIZED" /\ ~e.m_external_io_service
                        THEN @ \union {e.m_io_service} ELSE @]

\* The transport's part of a new connection.
init(e, socket_failed) == IF socket_failed THEN "pass_through" ELSE "none"
=============================================================================
