------------------------------ MODULE Connection ------------------------------
(***************************************************************************)
(* One websocketpp connection over asio: the operations of its transport,  *)
(* the opening handshake of either role, frames in and out, the closing    *)
(* handshake, and the calls other threads make on it.  Handlers of         *)
(* operations and timers run one at a time on the connection's strand;     *)
(* callers run whenever they like, and so does the part of a strand        *)
(* handler that makes the same calls (caller "io").                        *)
(***************************************************************************)
EXTENDS AsioTransport, Sequences

CONSTANTS
    Senders, Pingers, Closers,  \* threads that call send, ping, close, once each
    Roles,                      \* whether the connection may be a client's, a server's
    MaxFrames                   \* bound: frames the peer sends

Callers == Senders \union Pingers \union Closers

ASSUME CallersAssumption ==
    /\ "io" \notin Callers
    /\ Senders \intersect Pingers = {} /\ Senders \intersect Closers = {}
    /\ Pingers \intersect Closers = {}
ASSUME RolesAssumption == Roles \subseteq {"client", "server"}
ASSUME FramesAssumption == MaxFrames \in Nat

VARIABLES
    role,               \* m_is_server
    m_state,            \* session state the user sees
    m_internal_state,
    m_handshake_timer,  \* the timer that m_handshake_timer points to, or "none"
    m_ec,               \* whether it is http_connection_ended
    m_response,         \* status the server answers with
    m_http_state,       \* of a request that is no websocket handshake ("none": m_is_http is false)
    m_send_queue,
    m_current_msgs,
    m_write_flag,
    m_was_clean,
    posted,             \* calls of write_frame dispatched to the strand
    pc,                 \* callers: where they are
    io,                 \* what the strand calls
    tstat,              \* what handle_terminate is told after each shutdown
    called,             \* history: handlers of the user that were called
    received,           \* frames received so far
    revived             \* history: a closed connection was set to closing

sessionVars == <<role, m_state, m_internal_state, m_handshake_timer, m_ec,
                 m_response, m_http_state>>
writeVars == <<m_send_queue, m_current_msgs, m_write_flag, posted>>
callVars == <<m_was_clean, pc, io, revived>>
vars == <<transportVars, sessionVars, writeVars, callVars, tstat, called, received>>

Everyone == Callers \union {"io"}
Frames == {"data", "ping", "pong", "close", "last"}
CallKinds == {"send", "ping", "pong", "close", "ack"}

TypeOK ==
    /\ TransportTypeOK
    /\ role \in {"client", "server"}
    /\ m_state \in {"connecting", "open", "closing", "closed"}
    /\ m_internal_state \in {"USER_INIT", "TRANSPORT_INIT", "WRITE_HTTP_REQUEST",
            "READ_HTTP_RESPONSE", "READ_HTTP_REQUEST", "PROCESS_HTTP_REQUEST",
            "PROCESS_CONNECTION"}
    /\ m_handshake_timer \in {"none", "open", "close", "close2"}
    /\ m_ec \in {"other", "http_connection_ended"}
    /\ m_response \in {"uninitialized", "101", "other"}
    /\ m_http_state \in {"none", "init", "deferred", "body_written", "closed"}
    /\ m_send_queue \in Seq(Frames)
    /\ m_current_msgs \in Seq(Frames)
    /\ m_write_flag \in BOOLEAN
    /\ m_was_clean \in BOOLEAN
    /\ posted \in Nat
    /\ pc \in [Everyone -> {"idle", "checked", "prepared", "done"}]
    /\ io \in CallKinds \union {"none"}
    /\ tstat \in [Shutdowns -> {"unknown", "failed", "closed"}]
    /\ called \in [{"open", "fail", "close"} -> Nat]
    /\ received \in 0..MaxFrames
    /\ revived \in BOOLEAN
    /\ \A s \in Shutdowns : op[s] # "idle" => tstat[s] # "unknown"

Init ==
    /\ TransportInit
    /\ role \in Roles
    /\ m_state = "connecting" /\ m_internal_state = "USER_INIT"
    /\ m_handshake_timer = "none" /\ m_ec = "other"
    /\ m_response = "uninitialized" /\ m_http_state = "none"
    /\ m_send_queue = <<>> /\ m_current_msgs = <<>> /\ m_write_flag = FALSE /\ posted = 0
    /\ m_was_clean = FALSE
    /\ pc = [c \in Everyone |-> "idle"] /\ io = "none"
    /\ tstat = [s \in Shutdowns |-> "unknown"]
    /\ called = [h \in {"open", "fail", "close"} |-> 0]
    /\ received = 0 /\ revived = FALSE

call(c) == IF c \in Senders THEN "send" ELSE IF c \in Pingers THEN "ping"
           ELSE IF c \in Closers THEN "close" ELSE io

\* A strand handler may run: no other one is in the middle of a call.
StrandFree == io = "none"

\* m_connection_state_lock is held by close from its test to its end.
StateLockFree(c) ==
    \A d \in Everyone \ {c} : ~(call(d) = "close" /\ pc[d] \in {"checked", "prepared"})

Call(handler) == called' = [called EXCEPT ![handler] = @ + 1]

\* The values timers may have after cancel and reset of m_handshake_timer.
DropHandshakeTimer(timers) ==
    IF m_handshake_timer = "none" THEN {timers} ELSE cancel(timers, m_handshake_timer)

-----------------------------------------------------------------------------
(***************************************************************************)
(* terminate: the state decides whether this counts as a failure, as a     *)
(* close, or as nothing because it happened already.  No lock is taken.    *)
(***************************************************************************)
terminateAnyState(ec, ops, timers) ==
    LET next == IF tstat["shutdown"] = "unknown" THEN "shutdown" ELSE "shutdown2"
    IN  /\ m_ec' = IF ec = "none" THEN m_ec ELSE ec
        /\ m_handshake_timer' = "none"
        /\ m_http_state' = IF m_http_state = "none" THEN "none" ELSE "closed"
        /\ m_state' = "closed"
        /\ \E stopped \in DropHandshakeTimer(timers) :
              /\ op' = Begin(ops, next)
              /\ timer' = set_timer(stopped, next)
              /\ tstat' = [tstat EXCEPT ![next] =
                              CASE m_state = "connecting" -> "failed"
                                [] m_state = "closed" -> @
                                [] OTHER -> "closed"]

terminate(ec, ops, timers) ==
    LET next == IF tstat["shutdown"] = "unknown" THEN "shutdown" ELSE "shutdown2"
    IN  /\ m_ec' = IF ec = "none" THEN m_ec ELSE ec
        /\ m_handshake_timer' = "none"
        /\ m_http_state' = IF m_http_state = "none" THEN "none" ELSE "closed"
        /\ m_state' = "closed"
        /\ \E stopped \in DropHandshakeTimer(timers) :
              IF m_state = "closed"
              THEN /\ op' = ops /\ timer' = stopped
                   /\ UNCHANGED tstat
              ELSE /\ op' = Begin(ops, next)
                   /\ timer' = set_timer(stopped, next)
                   /\ tstat' = [tstat EXCEPT ![next] =
                                   IF m_state = "connecting" THEN "failed" ELSE "closed"]

\* terminate as the last thing a handler does that changes nothing else.
Terminate(ec, ops, timers) ==
    /\ terminate(ec, ops, timers)
    /\ UNCHANGED <<role, m_internal_state, m_response, writeVars, callVars,
                   called, received>>

handle_terminate(s) ==
    /\ \/ tstat[s] = "failed" /\ m_ec # "http_connection_ended" /\ Call("fail")
       \/ tstat[s] = "failed" /\ m_ec = "http_connection_ended" /\ UNCHANGED called
       \/ tstat[s] = "closed" /\ Call("close")
    /\ UNCHANGED <<sessionVars, writeVars, callVars, tstat, received>>

\* A handler that finds it has nothing to do.
Return(ops, timers) ==
    /\ op' = ops /\ timer' = timers
    /\ UNCHANGED <<sessionVars, writeVars, callVars, tstat, called, received>>

\* A handler that came too late, as each operation with a deadline has one.
GiveUp(o, t) == TooLate(o, t) /\ Return(End(op, o), timer)

handle_async_shutdownAlways(s) ==
    /\ StrandFree /\ op[s] # "idle"
    /\ op' = End(op, s) /\ timer' \in cancel(timer, s)
    /\ handle_terminate(s)

handle_async_shutdown(s) ==
    /\ StrandFree
    /\ \/ GiveUp(s, s)
       \/ /\ InTime(s, s)
          /\ op' = End(op, s) /\ timer' \in cancel(timer, s)
          /\ handle_terminate(s)

handle_async_shutdown_timeout(s) ==
    /\ StrandFree /\ TimerRuns(s)
    /\ op' = cancel_socket_checked(op) /\ timer' = AfterTimer(s)
    /\ handle_terminate(s)

-----------------------------------------------------------------------------
(***************************************************************************)
(* Reaching the peer.  Each stage starts an operation and its timer; the   *)
(* last one reports to handle_transport_init.                              *)
(***************************************************************************)
Untouched == UNCHANGED <<m_response, writeVars, callVars, tstat, called, received>>

connect ==
    /\ role = "client" /\ m_internal_state = "USER_INIT" /\ m_state = "connecting"
    /\ \A o \in Ops : op[o] = "idle"
    /\ \A t \in Timers : timer[t] = "off"
    /\ op' = Begin(op, "resolve") /\ timer' = set_timer(timer, "resolve")
    /\ UNCHANGED sessionVars /\ Untouched

\* async_handshake and its timer.
post_init(ops, timers) ==
    /\ op' = Begin(ops, "init") /\ timer' = set_timer(timers, "init")
    /\ m_internal_state' = "TRANSPORT_INIT"
    /\ UNCHANGED <<role, m_state, m_handshake_timer, m_ec, m_http_state>>
    /\ Untouched

proxy_write(ops, timers) ==
    /\ op' = Begin(ops, "proxy_write") /\ timer' = set_timer(timers, "proxy")
    /\ m_internal_state' = "TRANSPORT_INIT"
    /\ UNCHANGED <<role, m_state, m_handshake_timer, m_ec, m_http_state>>
    /\ Untouched

\* start, transport init and handle_pre_init are one call.
start(ops, timers) ==
    \/ m_internal_state # "USER_INIT" /\ Terminate("other", ops, timers)
    \/ m_internal_state = "USER_INIT" /\ post_init(ops, timers)
    \/ m_internal_state = "USER_INIT" /\ role = "client" /\ proxy_write(ops, timers)

handle_accept ==
    /\ role = "server" /\ m_internal_state = "USER_INIT" /\ m_state = "connecting"
    /\ start(op, timer) \/ Terminate("other", op, timer)

handle_resolve_timeout ==
    /\ StrandFree /\ TimerRuns("resolve")
    /\ Terminate("other", async_resolve_cancel(op), AfterTimer("resolve"))

handle_resolve ==
    /\ StrandFree
    /\ \/ GiveUp("resolve", "resolve")
       \/ /\ InTime("resolve", "resolve")
          /\ \E timers \in cancel(timer, "resolve") :
                \/ Terminate("other", End(op, "resolve"), timers)
                \/ /\ op' = Begin(End(op, "resolve"), "connect")
                   /\ timer' = set_timer(timers, "connect")
                   /\ UNCHANGED sessionVars /\ Untouched

handle_connect_timeout ==
    /\ StrandFree /\ TimerRuns("connect")
    /\ Terminate("other", cancel_socket_checked(op), AfterTimer("connect"))

handle_connect ==
    /\ StrandFree
    /\ \/ GiveUp("connect", "connect")
       \/ /\ InTime("connect", "connect")
          /\ \E timers \in cancel(timer, "connect") :
                \/ Terminate("other", End(op, "connect"), timers)
                \/ start(End(op, "connect"), timers)

handle_proxy_timeout ==
    /\ StrandFree /\ TimerRuns("proxy")
    /\ Terminate("other", cancel_socket_checked(op), AfterTimer("proxy"))

\* The timer goes on running until the proxy has answered.
handle_proxy_write ==
    /\ StrandFree
    /\ \/ GiveUp("proxy_write", "proxy")
       \/ /\ InTime("proxy_write", "proxy")
          /\ \/ \E timers \in cancel(timer, "proxy") :
                    Terminate("other", End(op, "proxy_write"), timers)
             \/ Return(Begin(End(op, "proxy_write"), "proxy_read"), timer)

\* The proxy's answer is bad, or opens the way to the TLS handshake.
handle_proxy_read ==
    /\ StrandFree
    /\ \/ GiveUp("proxy_read", "proxy")
       \/ /\ InTime("proxy_read", "proxy")
          /\ \E timers \in cancel(timer, "proxy") :
                \/ Terminate("other", End(op, "proxy_read"), timers)
                \/ post_init(End(op, "proxy_read"), timers)

\* cancel_socket_checked comes before the callback: the shutdown that the
\* callback starts is not canceled by it.
handle_post_init_timeout ==
    /\ StrandFree /\ TimerRuns("init")
    /\ Terminate("other", cancel_socket_checked(op), AfterTimer("init"))

-----------------------------------------------------------------------------
(***************************************************************************)
(* The opening handshake.                                                  *)
(***************************************************************************)

AwaitPeerForEver(ops, timers, o) ==
    /\ op' = Begin(ops, o) /\ timer' = timers
    /\ UNCHANGED <<role, m_state, m_handshake_timer, m_ec, m_http_state>>
    /\ Untouched

\* Set the handshake timer and start an operation.
AwaitPeer(ops, timers, o) ==
    /\ op' = Begin(ops, o) /\ timer' = set_timer(timers, "open")
    /\ m_handshake_timer' = "open"
    /\ UNCHANGED <<role, m_state, m_ec, m_http_state>>
    /\ Untouched

send_http_request(ops, timers) ==
    m_internal_state' = "WRITE_HTTP_REQUEST" /\ AwaitPeer(ops, timers, "write")

read_handshake(ops, timers) ==
    m_internal_state' = "READ_HTTP_REQUEST" /\ AwaitPeer(ops, timers, "read")

handle_transport_init(ec, ops, timers) ==
    \/ /\ ec # "ok" \/ m_internal_state # "TRANSPORT_INIT"
       /\ Terminate("other", ops, timers)
    \/ /\ ec = "ok" /\ m_internal_state = "TRANSPORT_INIT"
       /\ IF role = "server" THEN read_handshake(ops, timers) ELSE send_http_request(ops, timers)

\* Unlike the others it does not tell a canceled handshake from a failed one.
handle_post_init ==
    /\ StrandFree /\ op["init"] # "idle"
    /\ \/ Return(End(op, "init"), timer)
       \/ /\ timer["init"] = "armed"
          /\ \E timers \in cancel(timer, "init"), result \in Results("init") :
                handle_transport_init(result, End(op, "init"), timers)

\* What the handlers of the opening handshake do with an error, with a closed
\* connection, and with a handshake that is not where they expect it.
HandshakeStep(o, expected, Proceed(_)) ==
    /\ StrandFree /\ m_internal_state # "PROCESS_CONNECTION"
    /\ \E result \in Results(o) :
          \/ result = "ok" /\ m_state = "closed" /\ Return(End(op, o), timer)
          \/ result = "ok" /\ m_state = "connecting" /\ m_internal_state = expected
                /\ Proceed(End(op, o))
          \/ /\ result # "ok" \/ m_state \notin {"closed", "connecting"}
                              \/ (m_state = "connecting" /\ m_internal_state # expected)
             /\ Terminate("other", End(op, o), timer)

handle_send_http_request ==
    LET Proceed(ops) == /\ op' = Begin(ops, "read")
                     /\ m_internal_state' = "READ_HTTP_RESPONSE"
                     /\ UNCHANGED <<role, m_state, m_handshake_timer, m_ec,
                                    m_http_state, timer>>
                     /\ Untouched
    IN  role = "client" /\ HandshakeStep("write", "WRITE_HTTP_REQUEST", Proceed)

\* The connection is open: the open handler is called, and frames that came
\* with the handshake are processed before the next read.
Open(ops, timers) ==
    /\ op' = Begin(ops, "read") /\ timer' \in DropHandshakeTimer(timers)
    /\ m_handshake_timer' = "none"
    /\ m_internal_state' = "PROCESS_CONNECTION" /\ m_state' = "open"
    /\ Call("open")
    /\ UNCHANGED <<role, m_ec, m_response, m_http_state, writeVars, callVars,
                   tstat, received>>

\* The response is incomplete, cannot be parsed, does not answer the request,
\* or is what validate_server_handshake_response wants.
handle_read_http_response ==
    LET Proceed(ops) == \/ Return(Begin(ops, "read"), timer)
                     \/ Terminate("other", ops, timer)
                     \/ \E timers \in DropHandshakeTimer(timer) : Terminate("other", ops, timers)
                     \/ Open(ops, timer)
    IN  role = "client" /\ HandshakeStep("read", "READ_HTTP_RESPONSE", Proceed)

\* Server: the response is written whatever the request was.  Without a status
\* it is an internal error.
write_http_response(ec, status, ops) ==
    /\ op' = Begin(ops, "write")
    /\ m_response' = IF status = "uninitialized" THEN "other" ELSE status
    /\ m_ec' = ec
    /\ m_internal_state' = "PROCESS_HTTP_REQUEST"
    /\ UNCHANGED <<role, m_state, m_handshake_timer, timer, writeVars, callVars,
                   tstat, called, received>>

\* A request that is no websocket handshake goes to the http handler, which may
\* defer the response: the handshake timer is then canceled.
defer_http_response(ops) ==
    /\ op' = ops /\ timer' \in DropHandshakeTimer(timer)
    /\ m_handshake_timer' = "none"
    /\ m_http_state' = "deferred"
    /\ m_internal_state' = "PROCESS_HTTP_REQUEST"
    /\ UNCHANGED <<role, m_state, m_ec>> /\ Untouched

\* The handshake is refused (bad version, bad host, rejected), accepted, or is a
\* plain request that the http handler answers with a status or without one.
process_handshake_request(ops) ==
    \/ write_http_response("other", "other", ops) /\ UNCHANGED m_http_state
    \/ write_http_response("other", "101", ops) /\ UNCHANGED m_http_state
    \/ /\ \E status \in {"other", "uninitialized"} : write_http_response("other", status, ops)
       /\ m_http_state' = "init"
    \/ defer_http_response(ops)

handle_read_handshake ==
    LET Proceed(ops) == \/ Return(Begin(ops, "read"), timer)
                     \/ process_handshake_request(ops)
    IN  role = "server" /\ HandshakeStep("read", "READ_HTTP_REQUEST", Proceed)

\* The user completes a deferred response on a thread of its own.
send_http_response ==
    /\ m_http_state = "deferred" /\ op["write"] = "idle"
    /\ write_http_response("other", "other", op)
    /\ m_http_state' = "body_written"

handle_write_http_response ==
    LET Proceed(ops) ==
            IF m_response = "101" THEN Open(ops, timer)
            ELSE \E timers \in DropHandshakeTimer(timer) :
                    Terminate(IF m_http_state = "none" THEN m_ec ELSE "http_connection_ended",
                              ops, timers)
    IN  role = "server" /\ HandshakeStep("write", "PROCESS_HTTP_REQUEST", Proceed)

\* The timer's handler looks neither at the clock nor at the state.
handle_open_handshake_timeout ==
    /\ StrandFree /\ TimerRuns("open")
    /\ Terminate("other", op, AfterTimer("open"))

handle_close_handshake_timeout(t) ==
    /\ StrandFree /\ TimerRuns(t)
    /\ Terminate("other", op, AfterTimer(t))

handle_pong_timeout ==
    /\ StrandFree /\ TimerRuns("pong")
    /\ Return(op, AfterTimer("pong"))

-----------------------------------------------------------------------------
(***************************************************************************)
(* Calls.  A call tests the state (under its lock), prepares a message,    *)
(* pushes it (under the write lock), and dispatches write_frame when it    *)
(* found that nothing is being written.  Any thread may run in between.    *)
(***************************************************************************)
CallOnly == UNCHANGED <<transportVars, sessionVars, tstat, called, received>>

Step(c, from, to) == pc[c] = from /\ pc' = [pc EXCEPT ![c] = to] /\ UNCHANGED io

LastStep(c, from) ==
    /\ pc[c] = from
    /\ pc' = [pc EXCEPT ![c] = IF c = "io" THEN "idle" ELSE "done"]
    /\ io' = IF c = "io" THEN "none" ELSE io

\* send, ping, pong and close return an error unless the connection is open.
EnterCall(c) ==
    /\ call(c) \notin {"none", "ack"} /\ m_state # "connecting"
    /\ StateLockFree(c)
    /\ IF m_state = "open" THEN Step(c, "idle", "checked") ELSE LastStep(c, "idle")
    /\ CallOnly /\ UNCHANGED <<writeVars, m_was_clean, revived>>

\* ping: with a pong timeout handler, a timer is set.
SetPongTimer(c) ==
    /\ call(c) = "ping" /\ Step(c, "checked", "prepared")
    /\ timer' \in {timer, set_timer(timer, "pong")}
    /\ UNCHANGED <<op, sessionVars, writeVars, m_was_clean, revived, tstat,
                   called, received>>

SetClosingUntimed(c) ==
    /\ call(c) \in {"close", "ack"} /\ Step(c, "checked", "prepared")
    /\ m_state' = "closing"
    /\ m_was_clean' = (m_was_clean \/ call(c) = "ack")
    /\ revived' = (revived \/ (c # "io" /\ m_state = "closed"))
    /\ UNCHANGED <<transportVars, role, m_internal_state, m_handshake_timer, m_ec,
                   m_response, m_http_state, writeVars, tstat, called, received>>

\* The rest of send_close_frame before the push: the state is set without a
\* second look at it, and the close handshake is timed.
SetClosing(c) ==
    /\ call(c) \in {"close", "ack"} /\ Step(c, "checked", "prepared")
    /\ m_state' = "closing"
    /\ m_was_clean' = (m_was_clean \/ call(c) = "ack")
    /\ LET t == IF timer["close"] = "off" THEN "close" ELSE "close2"
       IN  timer' = set_timer(timer, t) /\ m_handshake_timer' = t
    /\ revived' = (revived \/ (c # "io" /\ m_state = "closed"))
    /\ UNCHANGED <<op, role, m_internal_state, m_ec, m_response,
                   m_http_state, writeVars, tstat, called, received>>

\* The acknowledgement of a close is terminal on the server's side; the frame of
\* close() is not, for the codes that this model calls it with.
Message(c) ==
    IF call(c) = "send" THEN "data"
    ELSE IF call(c) # "ack" THEN call(c)
    ELSE IF role = "server" THEN "last" ELSE "close"

write_push(c) == m_send_queue' = Append(m_send_queue, Message(c))

\* needs_writing is computed with the push.
Push(c) ==
    /\ call(c) # "none"
    /\ LastStep(c, IF call(c) \in {"send", "pong"} THEN "checked" ELSE "prepared")
    /\ write_push(c)
    /\ posted' = posted + (IF m_write_flag THEN 0 ELSE 1)
    /\ CallOnly
    /\ UNCHANGED <<m_current_msgs, m_write_flag, m_was_clean, revived>>

-----------------------------------------------------------------------------
(***************************************************************************)
(* Writing.                                                                *)
(***************************************************************************)

\* Everything queued, up to a terminal message.
Batch(queue) ==
    LET ends == {i \in DOMAIN queue : queue[i] = "last"}
        n == IF ends = {} THEN Len(queue) ELSE CHOOSE i \in ends : \A j \in ends : i <= j
    IN  SubSeq(queue, 1, n)

write_frame ==
    /\ StrandFree /\ posted > 0
    /\ posted' = posted - 1
    /\ IF m_write_flag \/ m_send_queue = <<>>
       THEN UNCHANGED <<m_send_queue, m_current_msgs, m_write_flag, op>>
       ELSE LET batch == Batch(m_send_queue)
            IN  /\ m_current_msgs' = batch
                /\ m_send_queue' = SubSeq(m_send_queue, Len(batch) + 1, Len(m_send_queue))
                /\ m_write_flag' = TRUE
                /\ op' = Begin(op, "write")
    /\ UNCHANGED <<timer, sessionVars, callVars, tstat, called, received>>

handle_write_frameOnce ==
    /\ StrandFree /\ m_current_msgs # <<>>
    /\ m_current_msgs' = <<>>
    /\ \E result \in Results("write") :
          IF result # "ok" \/ m_current_msgs[Len(m_current_msgs)] = "last"
          THEN /\ terminate(IF result = "ok" THEN "none" ELSE "other", End(op, "write"), timer)
               /\ UNCHANGED <<m_write_flag, posted>>
          ELSE /\ m_write_flag' = FALSE /\ posted' = posted
               /\ op' = End(op, "write")
               /\ UNCHANGED <<timer, m_ec, m_handshake_timer, m_http_state, m_state, tstat>>
    /\ UNCHANGED <<role, m_internal_state, m_response, m_send_queue, callVars, called, received>>

handle_write_frame ==
    /\ StrandFree /\ m_current_msgs # <<>>
    /\ m_current_msgs' = <<>>
    /\ \E result \in Results("write") :
          IF result # "ok" \/ m_current_msgs[Len(m_current_msgs)] = "last"
          THEN /\ terminate(IF result = "ok" THEN "none" ELSE "other", End(op, "write"), timer)
               /\ UNCHANGED <<m_write_flag, posted>>
          ELSE /\ m_write_flag' = FALSE
               /\ posted' = posted + (IF m_send_queue # <<>> THEN 1 ELSE 0)
               /\ op' = End(op, "write")
               /\ UNCHANGED <<timer, m_ec, m_handshake_timer, m_http_state, m_state, tstat>>
    /\ UNCHANGED <<role, m_internal_state, m_response, m_send_queue, callVars, called, received>>

-----------------------------------------------------------------------------
(***************************************************************************)
(* Reading, a frame at a time.                                             *)
(***************************************************************************)

\* The strand goes on to make a call; the next read is started first, since
\* nothing can run on the strand before the call has ended.
CallFromStrand(kind, from) ==
    /\ io' = kind
    /\ pc' = [pc EXCEPT !["io"] = from]
    /\ UNCHANGED <<sessionVars, writeVars, m_was_clean, revived, tstat, called, timer>>

ReadAgain(ops) == op' = Begin(ops, "read")

Ignore(ops, timers) ==
    /\ ReadAgain(ops) /\ timer' = timers
    /\ UNCHANGED <<sessionVars, writeVars, callVars, tstat, called>>

\* A close frame.  What its code and reason are decides only what is answered.
ReceiveClose(ops, valid) ==
    \/ (m_state = "open" \/ ~valid) /\ ReadAgain(ops) /\ CallFromStrand("ack", "checked")
    \/ /\ m_state = "closing" /\ valid /\ ~m_was_clean /\ role = "server"
       /\ m_was_clean' = TRUE
       /\ terminate("none", Begin(ops, "read"), timer)
       /\ UNCHANGED <<role, m_internal_state, m_response, writeVars, pc, io,
                      revived, called>>
    \/ /\ m_state = "closing" /\ valid /\ ~m_was_clean /\ role = "client"
       /\ ReadAgain(ops) /\ m_was_clean' = TRUE
       /\ UNCHANGED <<timer, sessionVars, writeVars, pc, io, revived, tstat, called>>
    \/ m_state = "closing" /\ valid /\ m_was_clean /\ Ignore(ops, timer)

process_control_frameAlways(frame, ops) ==
    \/ frame \in {"ping", "pong"} /\ m_state # "open" /\ Ignore(ops, timer)
    \/ frame = "ping" /\ m_state = "open" /\ ReadAgain(ops) /\ CallFromStrand("pong", "idle")
    \/ frame = "pong" /\ m_state = "open"
       /\ \E timers \in cancel(timer, "pong") : Ignore(ops, timers)
    \/ frame \in {"close", "bad close"}
       /\ ReceiveClose(ops, frame = "close" /\ m_state # "closed")

process_control_frame(frame, ops) ==
    \/ (m_state = "closed" \/ (frame \in {"ping", "pong"} /\ m_state # "open"))
       /\ Ignore(ops, timer)
    \/ frame = "ping" /\ m_state = "open" /\ ReadAgain(ops) /\ CallFromStrand("pong", "idle")
    \/ frame = "pong" /\ m_state = "open"
       /\ \E timers \in cancel(timer, "pong") : Ignore(ops, timers)
    \/ frame \in {"close", "bad close"} /\ m_state # "closed"
       /\ ReceiveClose(ops, frame = "close")

\* A frame that breaks the protocol makes the connection close itself and stop
\* reading; when it cannot close, it is dropped.
ProtocolError(ops) ==
    IF m_state = "open"
    THEN op' = ops /\ CallFromStrand("close", "idle")
    ELSE /\ terminate("other", ops, timer)
         /\ UNCHANGED <<role, m_internal_state, m_response, writeVars, callVars, called>>

handle_read_frame ==
    /\ StrandFree /\ "ok" \in Results("read") /\ m_internal_state = "PROCESS_CONNECTION"
    /\ received < MaxFrames /\ received' = received + 1
    /\ \/ Ignore(End(op, "read"), timer)
       \/ \E frame \in {"ping", "pong", "close", "bad close"} :
             process_control_frame(frame, End(op, "read"))
       \/ ProtocolError(End(op, "read"))

\* The end of the stream, or an error.  A client that is closing expects it.
handle_read_error ==
    /\ StrandFree /\ op["read"] # "idle" /\ m_internal_state = "PROCESS_CONNECTION"
    /\ IF m_state = "closed" THEN Return(End(op, "read"), timer)
       ELSE \E ec \in {"none", "other"} :
               /\ ec = "none" => m_state = "closing" /\ role = "client"
               /\ Terminate(ec, End(op, "read"), timer)

-----------------------------------------------------------------------------
\* Deadlines pass.
Timeout ==
    \/ handle_resolve_timeout \/ handle_connect_timeout \/ handle_proxy_timeout
    \/ handle_post_init_timeout
    \/ handle_open_handshake_timeout \/ handle_pong_timeout
    \/ \E t \in {"close", "close2"} : handle_close_handshake_timeout(t)
    \/ \E s \in Shutdowns : handle_async_shutdown_timeout(s)

Handshake ==
    \/ handle_accept \/ handle_resolve \/ handle_connect
    \/ handle_proxy_write \/ handle_proxy_read \/ handle_post_init
    \/ handle_send_http_request \/ handle_read_http_response
    \/ handle_read_handshake \/ handle_write_http_response

Session ==
    \/ write_frame \/ handle_write_frame
    \/ handle_read_frame \/ handle_read_error
    \/ \E s \in Shutdowns : handle_async_shutdown(s)

\* A call that was begun goes on.
Continue(c) == SetPongTimer(c) \/ SetClosing(c) \/ Push(c)

Next ==
    \/ connect \/ send_http_response
    \/ Handshake \/ Session \/ Timeout
    \/ \E c \in Everyone : EnterCall(c) \/ Continue(c)

Spec == Init /\ [][Next]_vars

(***************************************************************************)
(* Timers expire and threads run.  The network owes nothing: an operation  *)
(* may stay pending for ever.                                              *)
(***************************************************************************)
FairSpec ==
    /\ Spec
    /\ WF_vars(Timeout)
    /\ WF_vars(EnterCall("io") \/ Continue("io"))
    /\ \A c \in Callers : WF_vars(Continue(c))

-----------------------------------------------------------------------------
(***************************************************************************)
(* Properties.                                                             *)
(***************************************************************************)

\* The handlers of the user come in matching pairs (connection.hpp 50-100): open
\* at most once and never beside fail, close only after open, and close or fail
\* twice only when a close() that had tested the state brought a terminated
\* connection back, or the deadline of the shutdown passed between the look at
\* the clock and the cancel.
HandlersMatch ==
    /\ called["open"] + called["fail"] <= 1 \/ timer["shutdown"] = "over"
    /\ called["open"] <= 1 /\ (called["fail"] > 0 => called["open"] = 0)
    /\ called["close"] > 0 => called["open"] = 1
    /\ called["close"] <= 1 \/ revived \/ timer["shutdown"] = "over"

\* write_frame is dispatched only by a push that finds m_write_flag down, and by
\* the end of a write: between those two, queued frames must never be left with
\* nobody to write them, and a raised flag needs a write that will lower it.
NoLostWakeup ==
    m_state \in {"open", "closing"} /\ ~revived =>
        /\ m_send_queue # <<>> => m_write_flag \/ posted > 0
        /\ m_write_flag => op["write"] # "idle"

\* However late the handlers of a handshake run, a connection that timed out is
\* not opened again, and one that is closing does not become open: the only way
\* back is the one that revived remembers.
Rank == [connecting |-> 0, open |-> 1, closing |-> 2, closed |-> 3]
StateOnlyAdvances == [][Rank[m_state'] >= Rank[m_state] \/ (revived' /\ m_state' = "closing")]_vars

\* A connection that was started reports open or fail, whatever the network, the
\* proxy and the peer do or do not do.  A request that is no websocket handshake
\* goes to the http handler instead.
HandshakeEnds ==
    (op["resolve"] # "idle" \/ m_internal_state # "USER_INIT")
        ~> (called["open"] + called["fail"] > 0 \/ m_http_state # "none")

\* A closing connection gets to its close handler although the peer is silent.
ClosingEnds == m_state = "closing" ~> called["close"] > 0

\* connection.hpp 66: the close handler is called exactly once.
CloseHandlerOnce == called["close"] <= 1
=============================================================================
