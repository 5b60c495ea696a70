--------------------------- MODULE ConnectionProofs ---------------------------
(***************************************************************************)
(* Proofs about one websocketpp connection, for any number of senders,     *)
(* pingers and closers, either role, any number of frames and any set of   *)
(* racing timers: its types, that queued frames always find a writer, that *)
(* its state only advances, and that the user's handlers match.            *)
(*                                                                         *)
(* The types are proved handler by handler from what the functions of the  *)
(* transport make of operations and timers.  The invariant behind the rest *)
(* is Sound: a raised write flag needs a pending write, and what ends a    *)
(* write depends on everything else that writes, the handshake and the     *)
(* answer to a deferred request; so it says what stage the handshake is in *)
(* whenever anything is called, queued or written.                         *)
(***************************************************************************)
EXTENDS Connection, WellFoundedInduction, TLAPS

OpsOK(ops) ==
  /\ ops \in [Ops -> OpStatus]
  /\ \A s \in Shutdowns : ops[s] # "idle" => tstat[s] # "unknown"

TimersOK(timers) == timers \in [Timers -> TimerStatus]

SessionOK ==
  /\ role \in {"client", "server"}
  /\ m_state \in {"connecting", "open", "closing", "closed"}
  /\ m_internal_state \in {"USER_INIT", "TRANSPORT_INIT", "WRITE_HTTP_REQUEST",
          "READ_HTTP_RESPONSE", "READ_HTTP_REQUEST", "PROCESS_HTTP_REQUEST",
          "PROCESS_CONNECTION"}
  /\ m_handshake_timer \in {"none", "open", "close", "close2"}
  /\ m_ec \in {"other", "http_connection_ended"}
  /\ m_response \in {"uninitialized", "101", "other"}
  /\ m_http_state \in {"none", "init", "deferred", "body_written", "closed"}

WriteOK ==
  /\ m_send_queue \in Seq(Frames) /\ m_current_msgs \in Seq(Frames)
  /\ m_write_flag \in BOOLEAN /\ posted \in Nat

CallOK ==
  /\ m_was_clean \in BOOLEAN
  /\ pc \in [Everyone -> {"idle", "checked", "prepared", "done"}]
  /\ io \in CallKinds \union {"none"}
  /\ revived \in BOOLEAN

HistoryOK ==
  /\ tstat \in [Shutdowns -> {"unknown", "failed", "closed"}]
  /\ called \in [{"open", "fail", "close"} -> Nat]
  /\ received \in 0 .. MaxFrames

\* The type invariant in parts that steps leave alone as a whole.
LEMMA TypeInParts ==
  /\ TypeOK <=> OpsOK(op) /\ TimersOK(timer) /\ SessionOK /\ WriteOK /\ CallOK /\ HistoryOK
  /\ TypeOK' <=> OpsOK(op)' /\ TimersOK(timer)' /\ SessionOK' /\ WriteOK' /\ CallOK' /\ HistoryOK'
BY DEF TypeOK, TransportTypeOK, OpsOK, TimersOK, SessionOK, WriteOK, CallOK, HistoryOK

\* Starting, ending and canceling operations gives operations.
LEMMA OpsMade ==
  ASSUME NEW ops, OpsOK(ops)
  PROVE  /\ \A o : OpsOK(End(ops, o))
         /\ \A o \in Ops \ Shutdowns : OpsOK(Begin(ops, o))
         /\ OpsOK(cancel_socket_checked(ops))
         /\ OpsOK(async_resolve_cancel(ops))
BY DEF OpsOK, End, Begin, cancel_socket_checked, async_resolve_cancel, OpStatus, Ops, SocketOps, Shutdowns

\* Setting and canceling timers gives timers.
LEMMA TimersMade ==
  ASSUME NEW timers, TimersOK(timers)
  PROVE  /\ \A t : TimersOK(set_timer(timers, t))
         /\ \A t : \A after \in cancel(timers, t) : TimersOK(after)
         /\ \A after \in DropHandshakeTimer(timers) : TimersOK(after)
<1>1. \A t : TimersOK(set_timer(timers, t))
  BY DEF TimersOK, set_timer, TimerStatus
<1>2. \A t : \A after \in cancel(timers, t) : TimersOK(after)
  BY DEF TimersOK, cancel, TimerStatus
<1>. QED
  BY <1>1, <1>2 DEF DropHandshakeTimer

\* A timer whose handler has run is a timer.
LEMMA AfterTimerOK == ASSUME TimersOK(timer) PROVE \A t : TimersOK(AfterTimer(t))
BY DEF TimersOK, AfterTimer, TimerStatus

\* terminate begins a shutdown that has been told what to report.
LEMMA TerminateTypes ==
  ASSUME TypeOK, NEW ec \in {"none", "other", "http_connection_ended"},
         NEW ops, OpsOK(ops), NEW timers, TimersOK(timers), terminate(ec, ops, timers)
  PROVE  /\ OpsOK(op)' /\ TimersOK(timer')
         /\ tstat' \in [Shutdowns -> {"unknown", "failed", "closed"}]
         /\ m_ec' \in {"other", "http_connection_ended"}
         /\ m_handshake_timer' = "none" /\ m_state' = "closed"
         /\ m_http_state' \in {"none", "closed"}
<1> DEFINE next == IF tstat["shutdown"] = "unknown" THEN "shutdown" ELSE "shutdown2"
<1>1. next \in Shutdowns /\ Shutdowns \subseteq Ops
  BY DEF Shutdowns, Ops, SocketOps
<1>2. PICK stopped \in DropHandshakeTimer(timers) :
        IF m_state = "closed"
        THEN op' = ops /\ timer' = stopped /\ UNCHANGED tstat
        ELSE /\ op' = Begin(ops, next) /\ timer' = set_timer(stopped, next)
             /\ tstat' = [tstat EXCEPT ![next] = IF m_state = "connecting" THEN "failed" ELSE "closed"]
  BY DEF terminate
<1>3. TimersOK(stopped) /\ TimersOK(set_timer(stopped, next))
  BY TimersMade
<1>4. TimersOK(timer')
  BY <1>2, <1>3
<1>5. tstat \in [Shutdowns -> {"unknown", "failed", "closed"}]
  BY DEF TypeOK
<1>6. OpsOK(op)' /\ tstat' \in [Shutdowns -> {"unknown", "failed", "closed"}]
  <2>1. CASE m_state = "closed"
    BY <1>2, <1>5, <2>1 DEF OpsOK
  <2>2. CASE m_state # "closed"
    <3> HIDE DEF next
    <3>. QED
      BY <1>1, <1>2, <1>5, <2>2 DEF OpsOK, Begin, OpStatus
  <2>. QED
    BY <2>1, <2>2
<1>. QED
  BY <1>4, <1>6 DEF terminate, TypeOK

\* terminate as the end of a handler.
LEMMA TerminateOK ==
  ASSUME TypeOK, NEW ec \in {"none", "other", "http_connection_ended"},
         NEW ops, OpsOK(ops), NEW timers, TimersOK(timers), Terminate(ec, ops, timers)
  PROVE  TypeOK'
<1>1. terminate(ec, ops, timers)
  BY DEF Terminate
<1>2. UNCHANGED <<role, m_internal_state, m_response, m_send_queue, m_current_msgs, m_write_flag,
                  posted, m_was_clean, pc, io, revived, called, received>>
  BY DEF Terminate, writeVars, callVars
<1>3. SessionOK' /\ WriteOK' /\ CallOK' /\ HistoryOK'
  BY <1>1, <1>2, TypeInParts, TerminateTypes DEF SessionOK, WriteOK, CallOK, HistoryOK
<1>4. OpsOK(op)' /\ TimersOK(timer)'
  BY <1>1, TerminateTypes DEF TimersOK
<1>. QED
  BY <1>3, <1>4, TypeInParts

\* A handler that has nothing to do.
LEMMA ReturnOK ==
  ASSUME TypeOK, NEW ops, OpsOK(ops), NEW timers, TimersOK(timers), Return(ops, timers)
  PROVE  TypeOK'
<1>1. UNCHANGED <<sessionVars, writeVars, callVars, tstat, called, received>>
  BY DEF Return
<1>2. SessionOK' /\ WriteOK' /\ CallOK' /\ HistoryOK'
  <2>1. SessionOK /\ WriteOK /\ CallOK /\ HistoryOK
    BY TypeInParts
  <2>2. SessionOK'
    BY <1>1, <2>1 DEF SessionOK, sessionVars
  <2>3. WriteOK'
    BY <1>1, <2>1 DEF WriteOK, writeVars
  <2>4. CallOK'
    BY <1>1, <2>1 DEF CallOK, callVars
  <2>5. HistoryOK'
    BY <1>1, <2>1 DEF HistoryOK
  <2>. QED
    BY <2>2, <2>3, <2>4, <2>5
<1>3. OpsOK(op)' /\ TimersOK(timer)'
  BY <1>1 DEF Return, OpsOK, TimersOK
<1>. QED
  BY <1>2, <1>3, TypeInParts

\* A step that touches only operations, timers and the session.
LEMMA UntouchedOK ==
  ASSUME TypeOK, Untouched, OpsOK(op'), TimersOK(timer'), SessionOK'
  PROVE  TypeOK'
<1>1. WriteOK /\ CallOK /\ HistoryOK
  BY TypeInParts
<1>2. WriteOK'
  BY <1>1 DEF Untouched, WriteOK, writeVars
<1>3. CallOK'
  BY <1>1 DEF Untouched, CallOK, callVars
<1>4. HistoryOK'
  BY <1>1 DEF Untouched, HistoryOK
<1>5. OpsOK(op)' /\ TimersOK(timer)'
  BY DEF Untouched, OpsOK, TimersOK
<1>. QED
  BY <1>2, <1>3, <1>4, <1>5, TypeInParts

\* What the type lemmas want of the operations and timers of now.
LEMMA NowOK ==
  ASSUME TypeOK
  PROVE  /\ OpsOK(op) /\ TimersOK(timer) /\ SessionOK
         /\ {"resolve", "connect", "proxy_write", "proxy_read", "init", "read", "write"} \subseteq Ops \ Shutdowns
         /\ \A t : TimersOK(AfterTimer(t))
BY TypeInParts, AfterTimerOK DEF Ops, SocketOps, Shutdowns

\* The first stage, or the refusal to start twice.
LEMMA StartTypes ==
  ASSUME TypeOK, NEW ops, OpsOK(ops), NEW timers, TimersOK(timers)
  PROVE  /\ post_init(ops, timers) => TypeOK'
         /\ proxy_write(ops, timers) => TypeOK'
         /\ start(ops, timers) => TypeOK'
<1>1. ASSUME post_init(ops, timers) PROVE TypeOK'
  BY <1>1, UntouchedOK, NowOK, OpsMade, TimersMade DEF post_init, SessionOK, Untouched
<1>2. ASSUME proxy_write(ops, timers) PROVE TypeOK'
  BY <1>2, UntouchedOK, NowOK, OpsMade, TimersMade DEF proxy_write, SessionOK, Untouched
<1>. QED
  BY <1>1, <1>2, TerminateOK DEF start

\* Reaching the peer.
LEMMA ReachTypes ==
  ASSUME TypeOK,
         \/ connect \/ handle_accept \/ handle_resolve \/ handle_connect
         \/ handle_proxy_write \/ handle_proxy_read
  PROVE  TypeOK'
<1>1. CASE connect
  <2>1. SessionOK'
    BY <1>1, NowOK DEF connect, SessionOK, sessionVars
  <2>. QED
    BY <1>1, <2>1, UntouchedOK, NowOK, OpsMade, TimersMade DEF connect
<1>2. CASE handle_accept
  BY <1>2, StartTypes, TerminateOK, NowOK DEF handle_accept
<1>3. ASSUME NEW o, NEW t, GiveUp(o, t) PROVE TypeOK'
  BY <1>3, ReturnOK, NowOK, OpsMade DEF GiveUp
<1>4. \A o : OpsOK(End(op, o))
  BY NowOK, OpsMade
<1>5. \A t : \A timers \in cancel(timer, t) : TimersOK(timers)
  BY NowOK, TimersMade
<1>6. CASE handle_resolve
  <2>1. ASSUME NEW timers \in cancel(timer, "resolve"),
               op' = Begin(End(op, "resolve"), "connect"), timer' = set_timer(timers, "connect"),
               UNCHANGED sessionVars, Untouched
        PROVE  TypeOK'
    <3>1. SessionOK'
      BY <2>1, NowOK DEF SessionOK, sessionVars
    <3>2. OpsOK(op') /\ TimersOK(timer')
      BY <1>4, <1>5, <2>1, NowOK, OpsMade, TimersMade
    <3>. QED
      BY <2>1, <3>1, <3>2, UntouchedOK
  <2>. QED
    BY <1>3, <1>4, <1>5, <1>6, <2>1, TerminateOK DEF handle_resolve
<1>7. CASE handle_connect
  BY <1>3, <1>4, <1>5, <1>7, TerminateOK, StartTypes DEF handle_connect
<1>8. CASE handle_proxy_write
  <2>1. OpsOK(Begin(End(op, "proxy_write"), "proxy_read"))
    BY <1>4, NowOK, OpsMade
  <2>. QED
    BY <1>3, <1>4, <1>5, <1>8, <2>1, TerminateOK, ReturnOK, NowOK DEF handle_proxy_write
<1>9. CASE handle_proxy_read
  BY <1>3, <1>4, <1>5, <1>9, TerminateOK, StartTypes DEF handle_proxy_read
<1>. QED
  BY <1>1, <1>2, <1>6, <1>7, <1>8, <1>9

\* The opening handshake.
LEMMA OpenTypes ==
  ASSUME TypeOK, NEW ops, OpsOK(ops), NEW timers, TimersOK(timers)
  PROVE  /\ send_http_request(ops, timers) => TypeOK'
         /\ read_handshake(ops, timers) => TypeOK'
         /\ Open(ops, timers) => TypeOK'
<1>1. ASSUME AwaitPeer(ops, timers, "write"), m_internal_state' = "WRITE_HTTP_REQUEST" PROVE TypeOK'
  BY <1>1, UntouchedOK, NowOK, OpsMade, TimersMade DEF AwaitPeer, SessionOK, Untouched
<1>2. ASSUME AwaitPeer(ops, timers, "read"), m_internal_state' = "READ_HTTP_REQUEST" PROVE TypeOK'
  BY <1>2, UntouchedOK, NowOK, OpsMade, TimersMade DEF AwaitPeer, SessionOK, Untouched
<1>3. ASSUME Open(ops, timers) PROVE TypeOK'
  <2>1. SessionOK /\ WriteOK /\ CallOK /\ HistoryOK
    BY TypeInParts
  <2>2. SessionOK' /\ WriteOK' /\ CallOK'
    BY <1>3, <2>1 DEF Open, SessionOK, WriteOK, CallOK, writeVars, callVars
  <2>3. HistoryOK'
    BY <1>3, <2>1 DEF Open, HistoryOK, Call
  <2>4. OpsOK(op') /\ UNCHANGED tstat
    BY <1>3, NowOK, OpsMade DEF Open
  <2>5. OpsOK(op)'
    BY <2>4 DEF OpsOK
  <2>6. TimersOK(timer')
    BY <1>3, TimersMade DEF Open
  <2>. QED
    BY <2>2, <2>3, <2>5, <2>6, TypeInParts DEF TimersOK
<1>. QED
  BY <1>1, <1>2, <1>3 DEF send_http_request, read_handshake

\* A response is written by the server.
LEMMA ResponseTypes ==
  ASSUME TypeOK, NEW ops, OpsOK(ops), NEW status \in {"uninitialized", "101", "other"},
         write_http_response("other", status, ops),
         m_http_state' \in {"none", "init", "deferred", "body_written", "closed"}
  PROVE  TypeOK'
<1>1. SessionOK /\ WriteOK /\ CallOK /\ HistoryOK /\ TimersOK(timer)
  BY TypeInParts
<1>2. SessionOK'
  BY <1>1 DEF SessionOK, write_http_response
<1>3. WriteOK'
  BY <1>1 DEF WriteOK, write_http_response, writeVars
<1>4. CallOK'
  BY <1>1 DEF CallOK, write_http_response, callVars
<1>5. HistoryOK' /\ TimersOK(timer)'
  BY <1>1 DEF HistoryOK, TimersOK, write_http_response
<1>6. OpsOK(Begin(ops, "write"))
  BY OpsMade, NowOK
<1>7. OpsOK(op)'
  BY <1>6 DEF write_http_response, OpsOK
<1>. QED
  BY <1>2, <1>3, <1>4, <1>5, <1>7, TypeInParts

\* The handlers of the opening handshake.
LEMMA HandshakeTypes ==
  ASSUME TypeOK,
         \/ handle_post_init \/ handle_send_http_request \/ handle_read_http_response
         \/ handle_read_handshake \/ handle_write_http_response \/ send_http_response
  PROVE  TypeOK'
<1>1. /\ OpsOK(op) /\ TimersOK(timer)
      /\ \A o : OpsOK(End(op, o))
      /\ OpsOK(Begin(End(op, "read"), "read")) /\ OpsOK(Begin(End(op, "write"), "read"))
      /\ \A t : \A timers \in cancel(timer, t) : TimersOK(timers)
      /\ \A timers \in DropHandshakeTimer(timer) : TimersOK(timers)
  BY NowOK, OpsMade, TimersMade
<1>2. ASSUME NEW o, Return(End(op, o), timer) \/ Terminate("other", End(op, o), timer) PROVE TypeOK'
  BY <1>1, <1>2, ReturnOK, TerminateOK
<1>3. CASE handle_post_init
  <2>1. ASSUME NEW timers \in cancel(timer, "init"), NEW result,
               handle_transport_init(result, End(op, "init"), timers)
        PROVE  TypeOK'
    BY <1>1, <2>1, TerminateOK, OpenTypes DEF handle_transport_init
  <2>. QED
    BY <1>2, <1>3, <2>1 DEF handle_post_init
<1>4. CASE handle_send_http_request
  <2>1. ASSUME op' = Begin(End(op, "write"), "read"), m_internal_state' = "READ_HTTP_RESPONSE",
               UNCHANGED <<role, m_state, m_handshake_timer, m_ec, m_http_state, timer>>, Untouched
        PROVE  TypeOK'
    BY <1>1, <2>1, NowOK, UntouchedOK DEF SessionOK, Untouched
  <2>. QED
    BY <1>2, <1>4, <2>1 DEF handle_send_http_request, HandshakeStep
<1>5. CASE handle_read_http_response
  <2>1. ASSUME Return(Begin(End(op, "read"), "read"), timer) PROVE TypeOK'
    BY <1>1, <2>1, ReturnOK
  <2>2. ASSUME NEW timers \in DropHandshakeTimer(timer), Terminate("other", End(op, "read"), timers) PROVE TypeOK'
    BY <1>1, <2>2, TerminateOK
  <2>3. ASSUME Open(End(op, "read"), timer) PROVE TypeOK'
    BY <1>1, <2>3, OpenTypes
  <2>. QED
    BY <1>2, <1>5, <2>1, <2>2, <2>3 DEF handle_read_http_response, HandshakeStep
<1>6. m_http_state \in {"none", "init", "deferred", "body_written", "closed"}
  BY NowOK DEF SessionOK
<1>7. CASE handle_read_handshake
  <2>1. ASSUME Return(Begin(End(op, "read"), "read"), timer) PROVE TypeOK'
    BY <1>1, <2>1, ReturnOK
  <2>2. ASSUME defer_http_response(End(op, "read")) PROVE TypeOK'
    BY <1>1, <2>2, NowOK, UntouchedOK DEF defer_http_response, SessionOK, Untouched
  <2>3. ASSUME NEW status \in {"101", "other"}, write_http_response("other", status, End(op, "read")),
               UNCHANGED m_http_state
        PROVE  TypeOK'
    BY <1>1, <1>6, <2>3, ResponseTypes
  <2>4. ASSUME NEW status \in {"other", "uninitialized"},
               write_http_response("other", status, End(op, "read")), m_http_state' = "init"
        PROVE  TypeOK'
    BY <1>1, <2>4, ResponseTypes
  <2>. QED
    BY <1>2, <1>7, <2>1, <2>2, <2>3, <2>4 DEF handle_read_handshake, HandshakeStep, process_handshake_request
<1>8. CASE handle_write_http_response
  <2>1. ASSUME Open(End(op, "write"), timer) PROVE TypeOK'
    BY <1>1, <2>1, OpenTypes
  <2>2. ASSUME NEW timers \in DropHandshakeTimer(timer),
               Terminate(IF m_http_state = "none" THEN m_ec ELSE "http_connection_ended",
                         End(op, "write"), timers)
        PROVE  TypeOK'
    <3>1. m_ec \in {"other", "http_connection_ended"}
      BY NowOK DEF SessionOK
    <3>. QED
      BY <1>1, <2>2, <3>1, TerminateOK
  <2>. QED
    BY <1>2, <1>8, <2>1, <2>2 DEF handle_write_http_response, HandshakeStep
<1>9. CASE send_http_response
  BY <1>1, <1>9, ResponseTypes DEF send_http_response
<1>. QED
  BY <1>3, <1>4, <1>5, <1>7, <1>8, <1>9

\* The end of a connection, and the deadlines.
LEMMA EndTypes ==
  ASSUME TypeOK, Timeout \/ \E s \in Shutdowns : handle_async_shutdown(s)
  PROVE  TypeOK'
<1>1. /\ OpsOK(op) /\ TimersOK(timer)
      /\ \A o : OpsOK(End(op, o))
      /\ OpsOK(cancel_socket_checked(op)) /\ OpsOK(async_resolve_cancel(op))
      /\ \A t : TimersOK(AfterTimer(t))
      /\ \A t : \A timers \in cancel(timer, t) : TimersOK(timers)
  BY NowOK, OpsMade, TimersMade
<1>2. ASSUME NEW s, handle_terminate(s), OpsOK(op'), TimersOK(timer')
      PROVE  TypeOK'
  <2>1. SessionOK /\ WriteOK /\ CallOK /\ HistoryOK
    BY TypeInParts
  <2>2. SessionOK'
    BY <1>2, <2>1 DEF handle_terminate, SessionOK, sessionVars
  <2>3. WriteOK'
    BY <1>2, <2>1 DEF handle_terminate, WriteOK, writeVars
  <2>4. CallOK'
    BY <1>2, <2>1 DEF handle_terminate, CallOK, callVars
  <2>5. HistoryOK'
    BY <1>2, <2>1 DEF handle_terminate, HistoryOK, Call
  <2>6. OpsOK(op)' /\ TimersOK(timer)'
    BY <1>2 DEF handle_terminate, OpsOK, TimersOK
  <2>. QED
    BY <2>2, <2>3, <2>4, <2>5, <2>6, TypeInParts
<1>3. ASSUME NEW s \in Shutdowns, handle_async_shutdown(s) PROVE TypeOK'
  BY <1>1, <1>2, <1>3, ReturnOK DEF handle_async_shutdown, GiveUp
<1>4. ASSUME NEW s \in Shutdowns, handle_async_shutdown_timeout(s) PROVE TypeOK'
  BY <1>1, <1>2, <1>4 DEF handle_async_shutdown_timeout
<1>5. ASSUME Timeout, \A s \in Shutdowns : ~handle_async_shutdown_timeout(s) PROVE TypeOK'
  <2>1. \/ \E ops \in {op, cancel_socket_checked(op), async_resolve_cancel(op)} :
              \E t : Terminate("other", ops, AfterTimer(t))
        \/ Return(op, AfterTimer("pong"))
    BY <1>5 DEF Timeout, handle_resolve_timeout, handle_connect_timeout, handle_proxy_timeout,
         handle_post_init_timeout, handle_open_handshake_timeout, handle_pong_timeout,
         handle_close_handshake_timeout
  <2>. QED
    BY <1>1, <2>1, TerminateOK, ReturnOK
<1>. QED
  BY <1>3, <1>4, <1>5

\* The calls of the user and of the strand.
LEMMA CallTypes ==
  ASSUME TypeOK, NEW c \in Everyone, EnterCall(c) \/ Continue(c)
  PROVE  TypeOK'
<1>1. OpsOK(op) /\ TimersOK(timer) /\ SessionOK /\ WriteOK /\ CallOK /\ HistoryOK
  BY TypeInParts
<1>2. ASSUME NEW from, NEW to \in {"idle", "checked", "prepared", "done"},
             Step(c, from, to) \/ LastStep(c, from),
             m_was_clean' \in BOOLEAN, revived' \in BOOLEAN
      PROVE  CallOK'
  BY <1>1, <1>2 DEF CallOK, Step, LastStep
<1>3. CASE EnterCall(c)
  <2>1. CallOK'
    BY <1>1, <1>2, <1>3 DEF EnterCall, CallOK
  <2>2. WriteOK'
    BY <1>1, <1>3 DEF EnterCall, WriteOK, writeVars
  <2>3. UNCHANGED <<transportVars, sessionVars, tstat, called, received>>
    BY <1>3 DEF EnterCall, CallOnly
  <2>4. OpsOK(op)' /\ TimersOK(timer)' /\ SessionOK' /\ HistoryOK'
    BY <1>1, <2>3 DEF OpsOK, TimersOK, SessionOK, HistoryOK, transportVars, sessionVars
  <2>. QED
    BY <2>1, <2>2, <2>4, TypeInParts
<1>4. CASE SetPongTimer(c)
  <2>1. CallOK'
    BY <1>1, <1>2, <1>4 DEF SetPongTimer, CallOK
  <2>2. TimersOK(timer)'
    BY <1>1, <1>4, TimersMade DEF SetPongTimer, TimersOK
  <2>3. OpsOK(op)' /\ SessionOK' /\ HistoryOK' /\ WriteOK'
    BY <1>1, <1>4 DEF SetPongTimer, OpsOK, SessionOK, HistoryOK, WriteOK, sessionVars, writeVars
  <2>. QED
    BY <2>1, <2>2, <2>3, TypeInParts
<1>5. CASE SetClosing(c)
  <2>1. m_was_clean' \in BOOLEAN /\ revived' \in BOOLEAN
    BY <1>5 DEF SetClosing
  <2>2. CallOK'
    BY <1>2, <1>5, <2>1 DEF SetClosing
  <2>3. PICK t \in {"close", "close2"} : timer' = set_timer(timer, t) /\ m_handshake_timer' = t
    BY <1>5 DEF SetClosing
  <2>4. TimersOK(timer')
    BY <1>1, <2>3, TimersMade
  <2>5. SessionOK'
    BY <1>1, <1>5, <2>3 DEF SetClosing, SessionOK
  <2>6. OpsOK(op)' /\ HistoryOK' /\ WriteOK'
    BY <1>1, <1>5 DEF SetClosing, OpsOK, HistoryOK, WriteOK, writeVars
  <2>. QED
    BY <2>2, <2>4, <2>5, <2>6, TypeInParts DEF TimersOK
<1>6. CASE Push(c)
  <2>1. CallOK'
    BY <1>1, <1>2, <1>6 DEF Push, CallOK
  <2>2. call(c) \in CallKinds
    BY <1>1, <1>6 DEF call, CallOK, CallKinds, Push
  <2>3. Message(c) \in Frames
    BY <2>2 DEF Message, CallKinds, Frames
  <2>4. WriteOK'
    BY <1>1, <1>6, <2>3 DEF Push, WriteOK, write_push
  <2>5. UNCHANGED <<transportVars, sessionVars, tstat, called, received>>
    BY <1>6 DEF Push, CallOnly
  <2>6. OpsOK(op)' /\ TimersOK(timer)' /\ SessionOK' /\ HistoryOK'
    BY <1>1, <2>5 DEF OpsOK, TimersOK, SessionOK, HistoryOK, transportVars, sessionVars
  <2>. QED
    BY <2>1, <2>4, <2>6, TypeInParts
<1>. QED
  BY <1>3, <1>4, <1>5, <1>6 DEF Continue

\* A batch is the beginning of what is queued.
LEMMA BatchIsAPrefix ==
  ASSUME NEW queue \in Seq(Frames), queue # <<>>
  PROVE  /\ Batch(queue) \in Seq(Frames) /\ Len(Batch(queue)) \in 1 .. Len(queue)
         /\ SubSeq(queue, Len(Batch(queue)) + 1, Len(queue)) \in Seq(Frames)
<1> DEFINE ends == {i \in DOMAIN queue : queue[i] = "last"}
<1> DEFINE n == IF ends = {} THEN Len(queue) ELSE CHOOSE i \in ends : \A j \in ends : i <= j
<1>1. Len(queue) \in Nat \ {0}
  OBVIOUS
<1>2. ends # {} => \E i \in ends : \A j \in ends : i <= j
  <2>1. \A S \in SUBSET Nat : S # {} => \E i \in S : \A j \in S : i <= j
    <3> SUFFICES ASSUME NEW S \in SUBSET Nat, S # {}
                 PROVE  \E i \in S : \A j \in S : i <= j
      OBVIOUS
    <3>1. IsWellFoundedOn(OpToRel(<, Nat), Nat)
      BY NatLessThanWellFounded
    <3>2. PICK x \in S : \A y \in S : ~ (<<y, x>> \in OpToRel(<, Nat))
      BY <3>1, WFMin, Zenon
    <3>3. \A y \in S : ~ (y < x)
      BY <3>2, Zenon DEF OpToRel
    <3>. QED
      BY <3>3
  <2>2. ends \in SUBSET Nat
    OBVIOUS
  <2>. QED
    BY <2>1, <2>2
<1>3. n \in 1 .. Len(queue)
  BY <1>1, <1>2
<1> HIDE DEF n
<1>4. SubSeq(queue, 1, n) \in Seq(Frames) /\ Len(SubSeq(queue, 1, n)) = n
  BY <1>1, <1>3
<1>5. SubSeq(queue, n + 1, Len(queue)) \in Seq(Frames)
  BY <1>1, <1>3
<1>6. Batch(queue) = SubSeq(queue, 1, n)
  BY DEF Batch, n
<1>. QED
  BY <1>3, <1>4, <1>5, <1>6

\* Writing.
LEMMA WriteTypes ==
  ASSUME TypeOK, write_frame \/ handle_write_frame
  PROVE  TypeOK'
<1>1. OpsOK(op) /\ TimersOK(timer) /\ SessionOK /\ WriteOK /\ CallOK /\ HistoryOK
  BY TypeInParts
<1>2. OpsOK(End(op, "write")) /\ OpsOK(Begin(op, "write"))
  BY NowOK, OpsMade
<1>3. CASE write_frame
  <2>1. posted' \in Nat
    BY <1>1, <1>3 DEF write_frame, WriteOK
  <2>2. CASE UNCHANGED <<m_send_queue, m_current_msgs, m_write_flag, op>>
    <3>1. WriteOK' /\ OpsOK(op')
      BY <1>1, <2>1, <2>2 DEF WriteOK
    <3>. QED
      BY <1>1, <1>3, <3>1, TypeInParts
         DEF write_frame, OpsOK, TimersOK, SessionOK, CallOK, HistoryOK, sessionVars, callVars
  <2>3. CASE m_send_queue # <<>> /\ ~UNCHANGED <<m_send_queue, m_current_msgs, m_write_flag, op>>
    <3>1. /\ m_current_msgs' = Batch(m_send_queue)
          /\ m_send_queue' = SubSeq(m_send_queue, Len(Batch(m_send_queue)) + 1, Len(m_send_queue))
          /\ m_write_flag' = TRUE /\ op' = Begin(op, "write")
      BY <1>3, <2>3 DEF write_frame
    <3>2. WriteOK' /\ OpsOK(op')
      BY <1>1, <1>2, <2>1, <2>3, <3>1, BatchIsAPrefix DEF WriteOK
    <3>. QED
      BY <1>1, <1>3, <3>2, TypeInParts
         DEF write_frame, OpsOK, TimersOK, SessionOK, CallOK, HistoryOK, sessionVars, callVars
  <2>. QED
    BY <1>3, <2>2, <2>3 DEF write_frame
<1>4. CASE handle_write_frame
  <2>1. WriteOK'
    <3>1. m_current_msgs' = <<>> /\ m_send_queue' = m_send_queue
      BY <1>4 DEF handle_write_frame
    <3>2. posted' \in Nat /\ m_write_flag' \in BOOLEAN
      <4>1. \/ UNCHANGED <<m_write_flag, posted>>
            \/ m_write_flag' = FALSE /\ posted' = posted + (IF m_send_queue # <<>> THEN 1 ELSE 0)
        BY <1>4 DEF handle_write_frame
      <4>2. posted \in Nat /\ m_write_flag \in BOOLEAN
        BY <1>1 DEF WriteOK
      <4>3. posted' \in Nat
        BY <4>1, <4>2
      <4>4. m_write_flag' \in BOOLEAN
        BY <4>1, <4>2, Zenon
      <4>. QED
        BY <4>3, <4>4
    <3>. QED
      BY <1>1, <3>1, <3>2 DEF WriteOK
  <2>2. CallOK'
    BY <1>1, <1>4 DEF handle_write_frame, CallOK, callVars
  <2>3. ASSUME NEW ec \in {"none", "other"}, terminate(ec, End(op, "write"), timer) PROVE TypeOK'
    <3>1. SessionOK'
      BY <1>1, <1>2, <1>4, <2>3, TerminateTypes DEF handle_write_frame, SessionOK
    <3>2. HistoryOK'
      BY <1>1, <1>2, <1>4, <2>3, TerminateTypes DEF handle_write_frame, HistoryOK
    <3>3. OpsOK(op)' /\ TimersOK(timer)'
      BY <1>1, <1>2, <2>3, TerminateTypes DEF TimersOK
    <3>. QED
      BY <2>1, <2>2, <3>1, <3>2, <3>3, TypeInParts
  <2>4. ASSUME op' = End(op, "write"),
               UNCHANGED <<timer, m_ec, m_handshake_timer, m_http_state, m_state, tstat>>
        PROVE  TypeOK'
    <3>1. SessionOK' /\ HistoryOK'
      BY <1>1, <1>4, <2>4 DEF handle_write_frame, SessionOK, HistoryOK
    <3>2. OpsOK(op)' /\ TimersOK(timer)'
      BY <1>1, <1>2, <2>4 DEF OpsOK, TimersOK
    <3>. QED
      BY <2>1, <2>2, <3>1, <3>2, TypeInParts
  <2>. QED
    BY <1>4, <2>3, <2>4 DEF handle_write_frame
<1>. QED
  BY <1>3, <1>4

\* Reading.
LEMMA ReadTypes ==
  ASSUME TypeOK, handle_read_frame \/ handle_read_error
  PROVE  TypeOK'
<1>1. OpsOK(op) /\ TimersOK(timer) /\ SessionOK /\ WriteOK /\ CallOK /\ HistoryOK
  BY TypeInParts
<1>2. /\ OpsOK(End(op, "read")) /\ OpsOK(Begin(End(op, "read"), "read"))
      /\ \A t : \A timers \in cancel(timer, t) : TimersOK(timers)
  BY <1>1, NowOK, OpsMade, TimersMade
<1>3. CASE handle_read_error
  BY <1>1, <1>2, <1>3, ReturnOK, TerminateOK DEF handle_read_error
<1>4. CASE handle_read_frame
  <2> DEFINE ops == End(op, "read")
  <2>1. received' \in 0 .. MaxFrames
    <3>1. received < MaxFrames /\ received' = received + 1
      BY <1>4 DEF handle_read_frame
    <3>. QED
      BY <1>1, <3>1, FramesAssumption DEF HistoryOK
  <2>2. ASSUME NEW timers, TimersOK(timers), Ignore(ops, timers) PROVE TypeOK'
    <3>1. SessionOK' /\ WriteOK' /\ CallOK' /\ HistoryOK'
      BY <1>1, <2>1, <2>2 DEF Ignore, SessionOK, WriteOK, CallOK, HistoryOK, sessionVars, writeVars, callVars
    <3>2. OpsOK(op)' /\ TimersOK(timer)'
      BY <1>2, <2>2 DEF Ignore, ReadAgain, OpsOK, TimersOK
    <3>. QED
      BY <3>1, <3>2, TypeInParts
  <2>3. ASSUME NEW kind \in CallKinds, NEW from \in {"idle", "checked"}, CallFromStrand(kind, from), OpsOK(op')
        PROVE  TypeOK'
    <3>1. CallOK'
      BY <1>1, <2>3 DEF CallFromStrand, CallOK
    <3>2. SessionOK' /\ WriteOK' /\ HistoryOK'
      BY <1>1, <2>1, <2>3 DEF CallFromStrand, SessionOK, WriteOK, HistoryOK, sessionVars, writeVars
    <3>3. OpsOK(op)' /\ TimersOK(timer)'
      BY <1>1, <2>3 DEF CallFromStrand, OpsOK, TimersOK
    <3>. QED
      BY <3>1, <3>2, <3>3, TypeInParts
  <2>4. ASSUME NEW ec \in {"none", "other"}, NEW after, OpsOK(after), terminate(ec, after, timer),
               UNCHANGED <<role, m_internal_state, m_response, writeVars, pc, io, revived, called>>,
               m_was_clean' \in BOOLEAN
        PROVE  TypeOK'
    <3>1. SessionOK'
      BY <1>1, <2>4, TerminateTypes DEF SessionOK
    <3>2. WriteOK' /\ CallOK'
      BY <1>1, <2>4 DEF WriteOK, CallOK, writeVars
    <3>3. HistoryOK'
      BY <1>1, <2>1, <2>4, TerminateTypes DEF HistoryOK
    <3>4. OpsOK(op)' /\ TimersOK(timer)'
      BY <1>1, <2>4, TerminateTypes DEF TimersOK
    <3>. QED
      BY <3>1, <3>2, <3>3, <3>4, TypeInParts
  <2>5. ASSUME NEW valid \in BOOLEAN, ReceiveClose(ops, valid) PROVE TypeOK'
    <3>1. CASE ReadAgain(ops) /\ CallFromStrand("ack", "checked")
      BY <1>2, <2>3, <3>1 DEF ReadAgain, CallKinds
    <3>2. CASE /\ m_was_clean' = TRUE
               /\ terminate("none", Begin(ops, "read"), timer)
               /\ UNCHANGED <<role, m_internal_state, m_response, writeVars, pc, io, revived, called>>
      BY <1>2, <2>4, <3>2
    <3>3. CASE /\ ReadAgain(ops) /\ m_was_clean' = TRUE
               /\ UNCHANGED <<timer, sessionVars, writeVars, pc, io, revived, tstat, called>>
      <4>1. SessionOK' /\ WriteOK' /\ CallOK' /\ HistoryOK'
        BY <1>1, <2>1, <3>3 DEF SessionOK, WriteOK, CallOK, HistoryOK, sessionVars, writeVars
      <4>2. OpsOK(op)' /\ TimersOK(timer)'
        BY <1>1, <1>2, <3>3 DEF ReadAgain, OpsOK, TimersOK
      <4>. QED
        BY <4>1, <4>2, TypeInParts
    <3>4. CASE Ignore(ops, timer)
      BY <1>1, <2>2, <3>4
    <3>. QED
      BY <2>5, <3>1, <3>2, <3>3, <3>4 DEF ReceiveClose
  <2>6. ASSUME NEW frame, process_control_frame(frame, ops) PROVE TypeOK'
    <3>1. CASE ReadAgain(ops) /\ CallFromStrand("pong", "idle")
      BY <1>2, <2>3, <3>1 DEF ReadAgain, CallKinds
    <3>. QED
      BY <1>1, <1>2, <2>2, <2>5, <2>6, <3>1 DEF process_control_frame
  <2>7. ASSUME ProtocolError(ops) PROVE TypeOK'
    <3>1. CASE op' = ops /\ CallFromStrand("close", "idle")
      BY <1>2, <2>3, <3>1 DEF CallKinds
    <3>2. CASE /\ terminate("other", ops, timer)
               /\ UNCHANGED <<role, m_internal_state, m_response, writeVars, callVars, called>>
      <4>1. m_was_clean' \in BOOLEAN
        BY <1>1, <3>2 DEF CallOK, callVars
      <4>. QED
        BY <1>2, <2>4, <3>2, <4>1 DEF callVars
    <3>. QED
      BY <2>7, <3>1, <3>2 DEF ProtocolError
  <2> HIDE DEF ops
  <2>. QED
    BY <1>1, <1>4, <2>2, <2>6, <2>7 DEF handle_read_frame, ops
<1>. QED
  BY <1>3, <1>4

\* Every variable of a connection keeps its type, with any number of callers, and
\* whoever hears of the end of a shutdown has been told what it was
\* (connection_impl.hpp 1716-1760).
THEOREM TypeCorrect == Spec => []TypeOK
<1>1. Init => TypeOK
  <2> SUFFICES ASSUME Init PROVE TypeOK
    OBVIOUS
  <2>1. TransportTypeOK /\ \A s \in Shutdowns : op[s] = "idle"
    BY DEF Init, TransportInit, TransportTypeOK, OpStatus, TimerStatus, Ops, SocketOps
  <2>2. WriteOK
    <3>1. m_send_queue \in Seq(Frames) /\ m_current_msgs \in Seq(Frames) /\ posted \in Nat
      BY DEF Init
    <3>2. m_write_flag \in BOOLEAN
      BY Zenon DEF Init
    <3>. QED
      BY <3>1, <3>2 DEF WriteOK
  <2>3. CallOK
    BY DEF Init, CallOK
  <2>4. SessionOK
    BY RolesAssumption DEF Init, SessionOK
  <2>5. HistoryOK
    BY FramesAssumption DEF Init, HistoryOK
  <2>. QED
    BY <2>1, <2>2, <2>3, <2>4, <2>5, TypeInParts DEF TransportTypeOK, OpsOK, TimersOK
<1>2. TypeOK /\ [Next]_vars => TypeOK'
  <2>1. ASSUME TypeOK, Next PROVE TypeOK'
    BY <2>1, ReachTypes, HandshakeTypes, EndTypes, CallTypes, WriteTypes, ReadTypes
       DEF Next, Handshake, Session
  <2>2. ASSUME TypeOK, UNCHANGED vars PROVE TypeOK'
    BY <2>2 DEF vars, transportVars, sessionVars, writeVars, callVars, TypeOK, TransportTypeOK
  <2>. QED
    BY <2>1, <2>2
<1>. QED
  BY <1>1, <1>2, PTL DEF Spec

-----------------------------------------------------------------------------
(***************************************************************************)
(* Writing and the state.  Whether frames find a writer depends on the     *)
(* write that a raised flag stands for, and that one on everything else    *)
(* that ends a write: the handshake, which is over before anything can be  *)
(* queued, and the http response, which a deferred request sends late.     *)
(***************************************************************************)

\* Frames that are queued or were taken keep a writer awake.
WritersWake ==
  /\ m_send_queue # <<>> => m_write_flag \/ posted > 0
  /\ m_current_msgs # <<>> => m_write_flag

\* Somebody writes, calls, or may do so.
InUse ==
  \/ posted > 0 \/ m_write_flag \/ io # "none" \/ m_state \in {"open", "closing"}
  \/ \E c \in Everyone : pc[c] \in {"checked", "prepared"}

\* That takes a connection whose handshake is over.
UsedWhenOpen ==
  /\ InUse => m_internal_state = "PROCESS_CONNECTION"
  /\ m_internal_state = "PROCESS_CONNECTION" => m_state # "connecting"
  /\ io # "none" => m_state \in {"open", "closing"}

FlagHasWrite ==
  m_write_flag /\ ~revived /\ m_state \in {"open", "closing"} => op["write"] # "idle"

\* The stages of reaching the peer follow each other, once.
Stages ==
  /\ m_internal_state = "USER_INIT" =>
        op["init"] = "idle" /\ op["proxy_write"] = "idle" /\ op["proxy_read"] = "idle"
  /\ op["proxy_write"] # "idle" \/ op["proxy_read"] # "idle" =>
        m_internal_state = "TRANSPORT_INIT" /\ op["init"] = "idle"
  /\ op["proxy_write"] = "idle" \/ op["proxy_read"] = "idle"

\* A deferred request was not accepted as a websocket.
Answered ==
  /\ m_response # "uninitialized" => m_internal_state \in {"PROCESS_HTTP_REQUEST", "PROCESS_CONNECTION"}
  /\ m_http_state = "deferred" => m_internal_state = "PROCESS_HTTP_REQUEST" /\ m_response # "101"

Sound == WritersWake /\ UsedWhenOpen /\ FlagHasWrite /\ Stages /\ Answered

\* No stage begins.
Quiet(ops) ==
  /\ ops \in [Ops -> OpStatus]
  /\ \A o \in {"init", "proxy_write", "proxy_read"} : op[o] = "idle" => ops[o] = "idle"

KeepsWrite(ops) == op["write"] # "idle" => ops["write"] # "idle"

soundVars == <<m_state, m_internal_state, m_response, m_http_state, m_send_queue, m_current_msgs,
               m_write_flag, posted, pc, io, revived>>

\* What the steps do to operations, as far as stages and writes go.
LEMMA OpsQuiet ==
  ASSUME TypeOK
  PROVE  /\ \A o : Quiet(End(op, o)) /\ KeepsWrite(End(op, IF o = "write" THEN "read" ELSE o))
         /\ \A ops : Quiet(ops) => /\ \A o \in Ops \ {"init", "proxy_write", "proxy_read"} : Quiet(Begin(ops, o))
                                   /\ \A o : Quiet(End(ops, o))
         /\ \A ops \in [Ops -> OpStatus] : KeepsWrite(ops) => \A o : KeepsWrite(Begin(ops, o))
         /\ Quiet(op) /\ KeepsWrite(op)
         /\ Quiet(cancel_socket_checked(op)) /\ KeepsWrite(cancel_socket_checked(op))
         /\ Quiet(async_resolve_cancel(op)) /\ KeepsWrite(async_resolve_cancel(op))
<1>1. op \in [Ops -> OpStatus]
  BY DEF TypeOK, TransportTypeOK
<1>. QED
  BY <1>1 DEF Quiet, KeepsWrite, End, Begin, cancel_socket_checked, async_resolve_cancel, Ops,
              SocketOps, Shutdowns, OpStatus

\* A step that leaves the session and the calls alone.
LEMMA SameKeeps ==
  ASSUME TypeOK, Sound, UNCHANGED soundVars, Quiet(op') \/ Stages',
         KeepsWrite(op') \/ ~m_write_flag
  PROVE  Sound'
<1>1. WritersWake' /\ UsedWhenOpen' /\ Answered'
  BY DEF Sound, WritersWake, UsedWhenOpen, InUse, Answered, soundVars
<1>2. FlagHasWrite'
  BY DEF Sound, FlagHasWrite, KeepsWrite, soundVars
<1>3. Stages'
  BY DEF Sound, Stages, Quiet, soundVars
<1>. QED
  BY <1>1, <1>2, <1>3 DEF Sound

\* terminate leaves a closed connection, for which nothing is promised but that
\* the frames it took still have their flag.
LEMMA terminateKeeps ==
  ASSUME TypeOK, Sound, StrandFree, UNCHANGED io, NEW ec, NEW ops, Quiet(ops), NEW timers,
         terminate(ec, ops, timers),
         UNCHANGED <<m_internal_state, m_response, m_send_queue, pc, revived>>,
         m_current_msgs' # <<>> => m_current_msgs # <<>>,
         UNCHANGED <<m_write_flag, posted>>
  PROVE  Sound'
<1>1. m_state' = "closed" /\ m_http_state' \in {"none", "closed"}
  BY DEF terminate
<1>2. Quiet(op')
  <2>1. \/ op' = ops
        \/ \E o \in Shutdowns : op' = Begin(ops, o)
    BY DEF terminate, Shutdowns
  <2>2. Shutdowns \subseteq Ops \ {"init", "proxy_write", "proxy_read"}
    BY DEF Shutdowns, Ops, SocketOps
  <2>. QED
    BY <2>1, <2>2, OpsQuiet
<1>3. WritersWake' /\ FlagHasWrite' /\ Answered'
  BY <1>1 DEF Sound, WritersWake, FlagHasWrite, Answered
<1>4. UsedWhenOpen'
  BY <1>1 DEF Sound, UsedWhenOpen, InUse, StrandFree
<1>5. Stages'
  BY <1>2 DEF Sound, Stages, Quiet
<1>. QED
  BY <1>3, <1>4, <1>5 DEF Sound

\* The same at the end of a handler.
LEMMA TerminateKeeps ==
  ASSUME TypeOK, Sound, StrandFree, NEW ec, NEW ops, Quiet(ops), NEW timers,
         Terminate(ec, ops, timers)
  PROVE  Sound'
BY terminateKeeps DEF Terminate, writeVars, callVars

\* A handler that has nothing to do keeps the write, or there was none.
LEMMA ReturnKeeps ==
  ASSUME TypeOK, Sound, NEW ops, Quiet(ops), KeepsWrite(ops) \/ ~m_write_flag, NEW timers,
         Return(ops, timers)
  PROVE  Sound'
BY SameKeeps DEF Return, sessionVars, writeVars, callVars, soundVars

\* A stage of reaching the peer, or of the handshake, begins.
LEMMA StageKeeps ==
  ASSUME TypeOK, Sound, ~InUse, m_internal_state # "PROCESS_CONNECTION", Untouched, m_response = "uninitialized",
         UNCHANGED <<m_state, m_http_state>>, m_http_state # "deferred",
         m_internal_state' # "PROCESS_CONNECTION", Stages'
  PROVE  Sound'
<1>1. ~InUse'
  BY DEF Untouched, InUse, writeVars, callVars
<1>2. WritersWake' /\ Answered'
  BY DEF Sound, WritersWake, Answered, Untouched, writeVars, callVars
<1>3. UsedWhenOpen' /\ FlagHasWrite'
  BY <1>1 DEF Sound, UsedWhenOpen, FlagHasWrite, InUse
<1>. QED
  BY <1>2, <1>3 DEF Sound

\* Reaching the peer.
LEMMA StartKeeps ==
  ASSUME TypeOK, Sound, StrandFree, NEW ops, Quiet(ops), NEW timers, start(ops, timers)
  PROVE  Sound'
<1>1. CASE Terminate("other", ops, timers)
  BY <1>1, TerminateKeeps
<1>2. CASE m_internal_state = "USER_INIT" /\ (post_init(ops, timers) \/ proxy_write(ops, timers))
  <2>1. ~InUse /\ m_response = "uninitialized" /\ m_http_state # "deferred"
    BY <1>2 DEF Sound, UsedWhenOpen, Answered
  <2>2. Untouched /\ UNCHANGED <<m_state, m_http_state>> /\ m_internal_state' = "TRANSPORT_INIT"
    BY <1>2 DEF post_init, proxy_write
  <2>3. \E o \in {"init", "proxy_write"} : op' = Begin(ops, o)
    BY <1>2 DEF post_init, proxy_write
  <2>4. Stages'
    BY <1>2, <2>2, <2>3 DEF Sound, Stages, Quiet, Begin, Ops, SocketOps
  <2>. QED
    BY <1>2, <2>1, <2>2, <2>4, StageKeeps
<1>. QED
  BY <1>1, <1>2 DEF start

\* The handlers of the stages.
LEMMA ReachKeeps ==
  ASSUME TypeOK, Sound,
         \/ connect \/ handle_accept \/ handle_resolve \/ handle_connect
         \/ handle_proxy_write \/ handle_proxy_read
  PROVE  Sound'
<1>1. /\ \A o : Quiet(End(op, o)) /\ (o # "write" => KeepsWrite(End(op, o)))
      /\ {"resolve", "connect"} \subseteq Ops \ {"init", "proxy_write", "proxy_read"}
      /\ Quiet(op) /\ KeepsWrite(op)
  <2>1. /\ \A o : Quiet(End(op, o)) /\ KeepsWrite(End(op, IF o = "write" THEN "read" ELSE o))
        /\ Quiet(op) /\ KeepsWrite(op)
    BY OpsQuiet
  <2>. QED
    BY <2>1 DEF Ops, SocketOps
<1>2. CASE connect
  <2>1. Quiet(op') /\ KeepsWrite(op')
    BY <1>1, <1>2, OpsQuiet DEF connect, Quiet
  <2>. QED
    BY <1>2, <2>1, SameKeeps DEF connect, Untouched, sessionVars, writeVars, callVars, soundVars
<1>3. CASE handle_accept
  <2>1. StrandFree
    BY <1>3 DEF handle_accept, Sound, UsedWhenOpen, StrandFree
  <2>. QED
    BY <1>1, <1>3, <2>1, StartKeeps, TerminateKeeps DEF handle_accept
<1>4. ASSUME NEW o \in Ops \ {"write"}, NEW t, GiveUp(o, t) PROVE Sound'
  BY <1>1, <1>4, ReturnKeeps DEF GiveUp
<1>5. {"resolve", "connect", "proxy_write", "proxy_read"} \subseteq Ops \ {"write"}
  BY DEF Ops, SocketOps
<1>6. CASE handle_resolve
  <2>1. ASSUME op' = Begin(End(op, "resolve"), "connect"), UNCHANGED sessionVars, Untouched
        PROVE  Sound'
    <3>1. Quiet(op') /\ KeepsWrite(op')
      BY <1>1, <2>1, OpsQuiet DEF Quiet
    <3>. QED
      BY <2>1, <3>1, SameKeeps DEF Untouched, sessionVars, writeVars, callVars, soundVars
  <2>. QED
    BY <1>1, <1>4, <1>5, <1>6, <2>1, TerminateKeeps DEF handle_resolve
<1>7. CASE handle_connect
  BY <1>1, <1>4, <1>5, <1>7, TerminateKeeps, StartKeeps DEF handle_connect
<1>8. CASE handle_proxy_write
  <2>1. ASSUME op["proxy_write"] # "idle", Return(Begin(End(op, "proxy_write"), "proxy_read"), timer)
        PROVE  Sound'
    <3>1. op' = Begin(End(op, "proxy_write"), "proxy_read") /\ UNCHANGED soundVars
      BY <2>1 DEF Return, sessionVars, writeVars, callVars, soundVars
    <3>2. Stages' /\ KeepsWrite(op')
      BY <1>1, <2>1, <3>1 DEF Sound, Stages, KeepsWrite, Quiet, Begin, End, soundVars
    <3>. QED
      BY <3>1, <3>2, SameKeeps
  <2>. QED
    BY <1>1, <1>4, <1>5, <1>8, <2>1, TerminateKeeps DEF handle_proxy_write, InTime
<1>9. CASE handle_proxy_read
  <2>1. ASSUME NEW timers, op["proxy_read"] # "idle", post_init(End(op, "proxy_read"), timers)
        PROVE  Sound'
    <3>1. m_internal_state = "TRANSPORT_INIT" /\ op["proxy_write"] = "idle"
      BY <2>1 DEF Sound, Stages
    <3>2. ~InUse /\ m_response = "uninitialized" /\ m_http_state # "deferred"
      BY <3>1 DEF Sound, UsedWhenOpen, Answered
    <3>3. Untouched /\ UNCHANGED <<m_state, m_http_state>> /\ m_internal_state' = "TRANSPORT_INIT"
          /\ op' = Begin(End(op, "proxy_read"), "init")
      BY <2>1 DEF post_init
    <3>4. op'["proxy_write"] = "idle" /\ op'["proxy_read"] = "idle"
      BY <1>1, <3>1, <3>3 DEF Quiet, Begin, End, Ops, SocketOps
    <3>5. Stages'
      BY <3>3, <3>4 DEF Stages
    <3>. QED
      BY <3>1, <3>2, <3>3, <3>5, StageKeeps
  <2>. QED
    BY <1>1, <1>4, <1>5, <1>9, <2>1, TerminateKeeps DEF handle_proxy_read, InTime
<1>. QED
  BY <1>2, <1>3, <1>6, <1>7, <1>8, <1>9

\* The opening handshake.
LEMMA OpenKeeps ==
  ASSUME TypeOK, Sound, StrandFree, m_internal_state \notin {"TRANSPORT_INIT", "PROCESS_CONNECTION"},
         m_http_state # "deferred", NEW ops, Quiet(ops), NEW timers, Open(ops, timers)
  PROVE  Sound'
<1>1. /\ m_internal_state' = "PROCESS_CONNECTION" /\ m_state' = "open" /\ op' = Begin(ops, "read")
      /\ UNCHANGED <<m_response, m_http_state, m_send_queue, m_current_msgs, m_write_flag, posted, io, revived>>
  BY DEF Open, writeVars, callVars
<1>2. ~InUse
  BY DEF Sound, UsedWhenOpen
<1>3. WritersWake' /\ Answered'
  BY <1>1 DEF Sound, WritersWake, Answered
<1>4. UsedWhenOpen' /\ FlagHasWrite'
  BY <1>1, <1>2 DEF UsedWhenOpen, FlagHasWrite, InUse
<1>5. Quiet(op')
  BY <1>1, OpsQuiet DEF Ops, SocketOps
<1>6. Stages'
  BY <1>1, <1>5 DEF Sound, Stages, Quiet
<1>. QED
  BY <1>3, <1>4, <1>6 DEF Sound

\* A response is written.
LEMMA ResponseKeeps ==
  ASSUME TypeOK, Sound, m_internal_state \in {"READ_HTTP_REQUEST", "PROCESS_HTTP_REQUEST"},
         NEW ops, Quiet(ops), NEW status, write_http_response("other", status, ops),
         m_http_state' # "deferred"
  PROVE  Sound'
<1>1. /\ m_internal_state' = "PROCESS_HTTP_REQUEST" /\ op' = Begin(ops, "write")
      /\ UNCHANGED <<m_state, m_send_queue, m_current_msgs, m_write_flag, posted, pc, io, revived>>
  BY DEF write_http_response, writeVars, callVars
<1>2. ~InUse
  BY DEF Sound, UsedWhenOpen
<1>3. ~InUse'
  BY <1>1, <1>2 DEF InUse
<1>4. WritersWake'
  BY <1>1 DEF Sound, WritersWake
<1>5. UsedWhenOpen' /\ FlagHasWrite'
  BY <1>1, <1>3 DEF UsedWhenOpen, FlagHasWrite, InUse
<1>6. Quiet(op')
  BY <1>1, OpsQuiet DEF Ops, SocketOps
<1>7. Stages' /\ Answered'
  BY <1>1, <1>6 DEF Sound, Stages, Quiet, Answered
<1>. QED
  BY <1>4, <1>5, <1>7 DEF Sound

\* What the handlers of the opening handshake find.
LEMMA Apart ==
  ASSUME TypeOK, Sound, m_internal_state # "PROCESS_CONNECTION"
  PROVE  /\ ~InUse /\ ~m_write_flag
         /\ m_internal_state # "PROCESS_HTTP_REQUEST" => m_response = "uninitialized" /\ m_http_state # "deferred"
         /\ m_http_state = "deferred" => m_response # "101"
         /\ m_internal_state \notin {"USER_INIT", "TRANSPORT_INIT"} =>
              op["proxy_write"] = "idle" /\ op["proxy_read"] = "idle"
<1>1. ~InUse
  BY DEF Sound, UsedWhenOpen
<1>2. ~m_write_flag
  BY <1>1 DEF InUse
<1>. QED
  BY <1>1, <1>2 DEF Sound, Answered, Stages, TypeOK

\* The handlers of the opening handshake.
LEMMA HandshakeKeeps ==
  ASSUME TypeOK, Sound,
         \/ handle_post_init \/ handle_send_http_request \/ handle_read_http_response
         \/ handle_read_handshake \/ handle_write_http_response \/ send_http_response
  PROVE  Sound'
<1>1. Quiet(op) /\ \A o : Quiet(End(op, o))
  BY OpsQuiet
<1>2. Quiet(Begin(End(op, "read"), "read")) /\ Quiet(Begin(End(op, "write"), "read"))
  BY <1>1, OpsQuiet DEF Ops, SocketOps
<1>3. ASSUME NEW o, StrandFree, m_internal_state # "PROCESS_CONNECTION",
             Return(End(op, o), timer) \/ \E timers : Terminate("other", End(op, o), timers)
      PROVE  Sound'
  BY <1>1, <1>3, Apart, ReturnKeeps, TerminateKeeps
<1>4. CASE handle_post_init
  <2>1. CASE Return(End(op, "init"), timer)
    <3>1. KeepsWrite(End(op, IF "init" = "write" THEN "read" ELSE "init"))
      BY OpsQuiet
    <3>2. KeepsWrite(End(op, "init"))
      BY <3>1
    <3>. QED
      BY <1>1, <2>1, <3>2, ReturnKeeps
  <2>2. ASSUME NEW timers, NEW result, handle_transport_init(result, End(op, "init"), timers) PROVE Sound'
    <3>1. CASE Terminate("other", End(op, "init"), timers)
      BY <1>1, <1>4, <3>1, TerminateKeeps DEF handle_post_init
    <3>2. CASE /\ m_internal_state = "TRANSPORT_INIT"
               /\ \/ read_handshake(End(op, "init"), timers)
                  \/ send_http_request(End(op, "init"), timers)
      <4>1. /\ m_internal_state' \in {"READ_HTTP_REQUEST", "WRITE_HTTP_REQUEST"}
            /\ \E o \in {"read", "write"} : op' = Begin(End(op, "init"), o)
            /\ UNCHANGED <<m_state, m_http_state>> /\ Untouched
        BY <3>2 DEF read_handshake, send_http_request, AwaitPeer
      <4>2. op["proxy_write"] = "idle" /\ op["proxy_read"] = "idle"
        BY <1>4 DEF Sound, Stages, handle_post_init
      <4>3. Quiet(op')
        BY <1>1, <4>1, OpsQuiet DEF Ops, SocketOps
      <4>4. Stages'
        BY <4>1, <4>2, <4>3 DEF Stages, Quiet
      <4>5. ~InUse /\ m_response = "uninitialized" /\ m_http_state # "deferred"
        BY <3>2, Apart
      <4>6. m_internal_state # "PROCESS_CONNECTION" /\ m_internal_state' # "PROCESS_CONNECTION"
        BY <3>2, <4>1
      <4>. QED
        BY <4>1, <4>4, <4>5, <4>6, StageKeeps
    <3>. QED
      BY <2>2, <3>1, <3>2 DEF handle_transport_init
  <2>. QED
    BY <1>4, <2>1, <2>2 DEF handle_post_init
<1>5. CASE handle_send_http_request
  <2>1. ASSUME m_internal_state = "WRITE_HTTP_REQUEST",
               op' = Begin(End(op, "write"), "read"), m_internal_state' = "READ_HTTP_RESPONSE",
               UNCHANGED <<role, m_state, m_handshake_timer, m_ec, m_http_state, timer>>, Untouched
        PROVE  Sound'
    <3>1. Stages'
      BY <1>2, <2>1, Apart DEF Stages, Quiet
    <3>. QED
      BY <2>1, <3>1, Apart, StageKeeps
  <2>. QED
    BY <1>3, <1>5, <2>1 DEF handle_send_http_request, HandshakeStep
<1>6. CASE handle_read_http_response
  <2>1. ASSUME Return(Begin(End(op, "read"), "read"), timer), m_internal_state = "READ_HTTP_RESPONSE" PROVE Sound'
    BY <1>2, <2>1, Apart, ReturnKeeps
  <2>2. ASSUME Open(End(op, "read"), timer), m_internal_state = "READ_HTTP_RESPONSE", StrandFree PROVE Sound'
    BY <1>1, <2>2, Apart, OpenKeeps
  <2>. QED
    BY <1>3, <1>6, <2>1, <2>2 DEF handle_read_http_response, HandshakeStep
<1>7. CASE handle_read_handshake
  <2>1. ASSUME Return(Begin(End(op, "read"), "read"), timer), m_internal_state = "READ_HTTP_REQUEST" PROVE Sound'
    BY <1>2, <2>1, Apart, ReturnKeeps
  <2>2. ASSUME m_internal_state = "READ_HTTP_REQUEST", defer_http_response(End(op, "read")), StrandFree PROVE Sound'
    <3>1. /\ m_internal_state' = "PROCESS_HTTP_REQUEST" /\ op' = End(op, "read")
          /\ UNCHANGED <<m_state, m_response, m_send_queue, m_current_msgs, m_write_flag, posted, pc, io, revived>>
      BY <2>2 DEF defer_http_response, Untouched, writeVars, callVars
    <3>2. WritersWake'
      BY <3>1 DEF Sound, WritersWake
    <3>3. ~InUse'
      BY <2>2, <3>1, Apart DEF InUse
    <3>4. UsedWhenOpen' /\ FlagHasWrite'
      BY <3>1, <3>3 DEF UsedWhenOpen, FlagHasWrite, InUse
    <3>5. Stages' /\ Answered'
      BY <1>1, <2>2, <3>1, Apart DEF Stages, Quiet, Answered
    <3>. QED
      BY <3>2, <3>4, <3>5 DEF Sound
  <2>3. ASSUME m_internal_state = "READ_HTTP_REQUEST", NEW status,
               write_http_response("other", status, End(op, "read")),
               m_http_state' = "init" \/ UNCHANGED m_http_state
        PROVE  Sound'
    BY <1>1, <2>3, Apart, ResponseKeeps
  <2>. QED
    BY <1>3, <1>7, <2>1, <2>2, <2>3 DEF handle_read_handshake, HandshakeStep, process_handshake_request
<1>8. CASE handle_write_http_response
  <2>1. ASSUME Open(End(op, "write"), timer), m_internal_state = "PROCESS_HTTP_REQUEST", StrandFree,
               m_response = "101"
        PROVE  Sound'
    BY <1>1, <2>1, Apart, OpenKeeps
  <2>2. ASSUME NEW ec, NEW timers, Terminate(ec, End(op, "write"), timers), StrandFree PROVE Sound'
    BY <1>1, <2>2, TerminateKeeps
  <2>. QED
    BY <1>3, <1>8, <2>1, <2>2 DEF handle_write_http_response, HandshakeStep
<1>9. CASE send_http_response
  <2>1. m_internal_state = "PROCESS_HTTP_REQUEST"
    BY <1>9 DEF send_http_response, Sound, Answered
  <2>. QED
    BY <1>1, <1>9, <2>1, ResponseKeeps DEF send_http_response
<1>. QED
  BY <1>4, <1>5, <1>6, <1>7, <1>8, <1>9

\* The end of a connection, and the deadlines.
LEMMA EndKeeps ==
  ASSUME TypeOK, Sound, Timeout \/ \E s \in Shutdowns : handle_async_shutdown(s)
  PROVE  Sound'
<1>1. /\ Quiet(op) /\ KeepsWrite(op)
      /\ Quiet(cancel_socket_checked(op)) /\ KeepsWrite(cancel_socket_checked(op))
      /\ Quiet(async_resolve_cancel(op))
  BY OpsQuiet
<1>2. ASSUME NEW s \in Shutdowns PROVE Quiet(End(op, s)) /\ KeepsWrite(End(op, s))
  <2>1. s # "write"
    BY DEF Shutdowns
  <2>2. Quiet(End(op, s)) /\ KeepsWrite(End(op, IF s = "write" THEN "read" ELSE s))
    BY OpsQuiet
  <2>. QED
    BY <2>1, <2>2
<1>3. ASSUME NEW s, handle_terminate(s), Quiet(op'), KeepsWrite(op') PROVE Sound'
  BY <1>3, SameKeeps DEF handle_terminate, sessionVars, writeVars, callVars, soundVars
<1>4. ASSUME NEW s \in Shutdowns, handle_async_shutdown(s) PROVE Sound'
  BY <1>2, <1>3, <1>4, ReturnKeeps DEF handle_async_shutdown, GiveUp
<1>5. ASSUME NEW s \in Shutdowns, handle_async_shutdown_timeout(s) PROVE Sound'
  BY <1>1, <1>3, <1>5 DEF handle_async_shutdown_timeout
<1>6. ASSUME Timeout, \A s \in Shutdowns : ~handle_async_shutdown_timeout(s) PROVE Sound'
  <2>1. \/ StrandFree /\ \E ops \in {op, cancel_socket_checked(op), async_resolve_cancel(op)} :
              \E t : Terminate("other", ops, AfterTimer(t))
        \/ Return(op, AfterTimer("pong"))
    BY <1>6 DEF Timeout, handle_resolve_timeout, handle_connect_timeout, handle_proxy_timeout,
         handle_post_init_timeout, handle_open_handshake_timeout, handle_pong_timeout,
         handle_close_handshake_timeout
  <2>. QED
    BY <1>1, <2>1, TerminateKeeps, ReturnKeeps
<1>. QED
  BY <1>4, <1>5, <1>6

\* The calls: a call that goes on was begun on a connection whose handshake was over.
LEMMA CallKeeps ==
  ASSUME TypeOK, Sound, NEW c \in Everyone, EnterCall(c) \/ Continue(c)
  PROVE  Sound'
<1>1. pc \in [Everyone -> {"idle", "checked", "prepared", "done"}]
  BY DEF TypeOK
<1>2. CASE EnterCall(c)
  <2>1. /\ UNCHANGED <<op, m_state, m_internal_state, m_response, m_http_state, m_send_queue,
                       m_current_msgs, m_write_flag, posted, revived>>
        /\ io' \in {io, "none"}
    BY <1>2 DEF EnterCall, CallOnly, transportVars, sessionVars, writeVars, Step, LastStep
  <2>2. \/ m_state = "open"
        \/ m_state # "open" /\ LastStep(c, "idle")
    BY <1>2 DEF EnterCall
  <2>3. InUse' => InUse
    <3>1. CASE m_state = "open"
      BY <3>1 DEF InUse
    <3>2. CASE LastStep(c, "idle")
      <4>1. \A d \in Everyone : pc'[d] \in {"checked", "prepared"} => pc[d] \in {"checked", "prepared"}
        BY <1>1, <3>2 DEF LastStep
      <4>. QED
        BY <2>1, <4>1 DEF InUse
    <3>. QED
      BY <2>2, <3>1, <3>2
  <2>4. UsedWhenOpen'
    BY <2>1, <2>3 DEF Sound, UsedWhenOpen
  <2>5. WritersWake' /\ FlagHasWrite' /\ Stages' /\ Answered'
    BY <2>1 DEF Sound, WritersWake, FlagHasWrite, Stages, Answered
  <2>. QED
    BY <2>4, <2>5 DEF Sound
<1>3. ASSUME Continue(c) PROVE InUse
  <2>1. pc[c] \in {"checked", "prepared"}
    BY <1>3 DEF Continue, SetPongTimer, SetClosing, Push, Step, LastStep
  <2>. QED
    BY <2>1 DEF InUse
<1>4. ASSUME Continue(c) PROVE m_internal_state = "PROCESS_CONNECTION" /\ m_state # "connecting"
  BY <1>3, <1>4 DEF Sound, UsedWhenOpen
<1>5. CASE SetPongTimer(c)
  <2>1. UNCHANGED <<op, m_state, m_internal_state, m_response, m_http_state, m_send_queue,
                    m_current_msgs, m_write_flag, posted, io, revived>>
    BY <1>5 DEF SetPongTimer, sessionVars, writeVars, Step
  <2>2. UsedWhenOpen'
    BY <1>4, <1>5, <2>1 DEF Continue, Sound, UsedWhenOpen
  <2>3. WritersWake' /\ FlagHasWrite' /\ Stages' /\ Answered'
    BY <2>1 DEF Sound, WritersWake, FlagHasWrite, Stages, Answered
  <2>. QED
    BY <2>2, <2>3 DEF Sound
<1>6. CASE SetClosing(c)
  <2>1. /\ UNCHANGED <<op, m_internal_state, m_response, m_http_state, m_send_queue,
                       m_current_msgs, m_write_flag, posted, io>>
        /\ m_state' = "closing"
        /\ revived' = (revived \/ (c # "io" /\ m_state = "closed"))
    BY <1>6 DEF SetClosing, writeVars, Step
  <2>2. UsedWhenOpen'
    BY <1>4, <1>6, <2>1 DEF Continue, UsedWhenOpen
  <2>3. WritersWake' /\ Stages' /\ Answered'
    BY <2>1 DEF Sound, WritersWake, Stages, Answered
  <2>4. FlagHasWrite'
    <3>1. c = "io" => m_state \in {"open", "closing"}
      <4>1. c = "io" => call(c) = io
        BY CallersAssumption DEF call, Callers
      <4>. QED
        BY <1>6, <4>1 DEF SetClosing, Sound, UsedWhenOpen
    <3>2. ASSUME m_write_flag, ~revived' PROVE ~revived /\ m_state \in {"open", "closing"}
      <4>1. m_state \in {"connecting", "open", "closing", "closed"} /\ m_state # "connecting"
        BY <1>4, <1>6 DEF TypeOK, Continue
      <4>2. ~revived
        BY <2>1, <3>2, Zenon
      <4>3. ~(c # "io" /\ m_state = "closed")
        BY <2>1, <3>2, Zenon
      <4>. QED
        BY <3>1, <4>1, <4>2, <4>3
    <3>. QED
      BY <2>1, <3>2 DEF Sound, FlagHasWrite
  <2>. QED
    BY <2>2, <2>3, <2>4 DEF Sound
<1>7. CASE Push(c)
  <2>1. /\ UNCHANGED <<op, m_state, m_internal_state, m_response, m_http_state,
                       m_current_msgs, m_write_flag, revived>>
        /\ io' \in {io, "none"}
        /\ posted' = posted + (IF m_write_flag THEN 0 ELSE 1)
    BY <1>7 DEF Push, CallOnly, LastStep, transportVars, sessionVars
  <2>2. UsedWhenOpen'
    BY <1>4, <1>7, <2>1 DEF Continue, Sound, UsedWhenOpen
  <2>3. m_write_flag' \/ posted' > 0
    <3>1. posted \in Nat
      BY DEF TypeOK
    <3>2. CASE m_write_flag
      BY <2>1, <3>2
    <3>3. CASE ~m_write_flag
      BY <2>1, <3>1, <3>3
    <3>. QED
      BY <3>2, <3>3
  <2>4. WritersWake'
    BY <2>1, <2>3 DEF Sound, WritersWake
  <2>5. FlagHasWrite' /\ Stages' /\ Answered'
    BY <2>1 DEF Sound, FlagHasWrite, Stages, Answered
  <2>. QED
    BY <2>2, <2>4, <2>5 DEF Sound
<1>. QED
  BY <1>2, <1>5, <1>6, <1>7 DEF Continue

\* Writing: the strand lowers the flag only with the end of its write, and then
\* looks at the queue again.
LEMMA WriteKeeps ==
  ASSUME TypeOK, Sound, write_frame \/ handle_write_frame
  PROVE  Sound'
<1>1. posted \in Nat /\ m_send_queue \in Seq(Frames) /\ Quiet(op) /\ Quiet(End(op, "write"))
      /\ KeepsWrite(op)
  BY OpsQuiet DEF TypeOK
<1>2. m_internal_state = "PROCESS_CONNECTION" /\ m_state # "connecting"
  <2>1. InUse
    BY DEF write_frame, handle_write_frame, InUse, Sound, WritersWake
  <2>. QED
    BY <2>1 DEF Sound, UsedWhenOpen
<1>3. CASE write_frame
  <2>1. /\ UNCHANGED <<m_state, m_internal_state, m_response, m_http_state, pc, io, revived>>
        /\ posted' = posted - 1
    BY <1>3 DEF write_frame, sessionVars, callVars
  <2>2. UsedWhenOpen'
    BY <1>2, <2>1 DEF Sound, UsedWhenOpen
  <2>3. Answered'
    BY <2>1 DEF Sound, Answered
  <2>4. CASE (m_write_flag \/ m_send_queue = <<>>) /\ UNCHANGED <<m_send_queue, m_current_msgs, m_write_flag, op>>
    <3>1. WritersWake' /\ FlagHasWrite' /\ Stages'
      BY <2>1, <2>4 DEF Sound, WritersWake, FlagHasWrite, Stages
    <3>. QED
      BY <2>2, <2>3, <3>1 DEF Sound
  <2>5. CASE m_write_flag' = TRUE /\ op' = Begin(op, "write")
    <3>1. Quiet(op') /\ op'["write"] = "pending"
      BY <1>1, <2>5, OpsQuiet DEF Quiet, Begin, Ops, SocketOps
    <3>2. WritersWake' /\ FlagHasWrite' /\ Stages'
      BY <2>1, <2>5, <3>1 DEF Sound, WritersWake, FlagHasWrite, Stages, Quiet
    <3>. QED
      BY <2>2, <2>3, <3>2 DEF Sound
  <2>. QED
    BY <1>3, <2>4, <2>5 DEF write_frame
<1>4. CASE handle_write_frame
  <2>1. /\ UNCHANGED <<m_internal_state, m_response, m_send_queue, pc, io, revived>>
        /\ m_current_msgs' = <<>> /\ StrandFree
    BY <1>4 DEF handle_write_frame, callVars
  <2>2. ASSUME NEW ec, terminate(ec, End(op, "write"), timer), UNCHANGED <<m_write_flag, posted>>
        PROVE  Sound'
    BY <1>1, <2>1, <2>2, terminateKeeps
  <2>3. ASSUME m_write_flag' = FALSE, posted' = posted + (IF m_send_queue # <<>> THEN 1 ELSE 0),
               op' = End(op, "write"), UNCHANGED <<m_state, m_http_state>>
        PROVE  Sound'
    <3>1. m_send_queue' # <<>> => posted' > 0
      BY <1>1, <2>1, <2>3
    <3>2. WritersWake' /\ FlagHasWrite' /\ Answered'
      BY <2>1, <2>3, <3>1 DEF Sound, WritersWake, FlagHasWrite, Answered
    <3>3. UsedWhenOpen'
      BY <1>2, <2>1, <2>3 DEF Sound, UsedWhenOpen
    <3>4. Stages'
      BY <1>1, <2>1, <2>3 DEF Sound, Stages, Quiet
    <3>. QED
      BY <3>2, <3>3, <3>4 DEF Sound
  <2>. QED
    BY <1>4, <2>2, <2>3 DEF handle_write_frame
<1>. QED
  BY <1>3, <1>4

\* Reading: the strand begins a call only while the connection is open or closing.
LEMMA ReadKeeps ==
  ASSUME TypeOK, Sound, handle_read_frame \/ handle_read_error
  PROVE  Sound'
<1>1. /\ Quiet(End(op, "read")) /\ KeepsWrite(End(op, "read"))
      /\ Quiet(Begin(End(op, "read"), "read")) /\ KeepsWrite(Begin(End(op, "read"), "read"))
  <2>1. Quiet(End(op, "read")) /\ KeepsWrite(End(op, IF "read" = "write" THEN "read" ELSE "read"))
    BY OpsQuiet
  <2>2. Quiet(Begin(End(op, "read"), "read"))
    BY <2>1, OpsQuiet DEF Ops, SocketOps
  <2>3. KeepsWrite(Begin(End(op, "read"), "read"))
    BY <2>1, OpsQuiet DEF Quiet
  <2>. QED
    BY <2>1, <2>2, <2>3
<1>2. m_internal_state = "PROCESS_CONNECTION" /\ StrandFree /\ m_state # "connecting"
  BY DEF handle_read_frame, handle_read_error, Sound, UsedWhenOpen
<1>3. CASE handle_read_error
  BY <1>1, <1>2, <1>3, ReturnKeeps, TerminateKeeps DEF handle_read_error
<1>4. CASE handle_read_frame
  <2> DEFINE ops == End(op, "read")
  <2>1. ASSUME NEW timers, Ignore(ops, timers) PROVE Sound'
    BY <1>1, <2>1, SameKeeps DEF Ignore, ReadAgain, sessionVars, writeVars, callVars, soundVars
  <2>2. ASSUME NEW kind, NEW from, CallFromStrand(kind, from), m_state \in {"open", "closing"},
               Quiet(op'), KeepsWrite(op')
        PROVE  Sound'
    <3>1. UNCHANGED <<m_state, m_internal_state, m_response, m_http_state, m_send_queue,
                      m_current_msgs, m_write_flag, posted, revived>>
      BY <2>2 DEF CallFromStrand, sessionVars, writeVars
    <3>2. UsedWhenOpen'
      BY <1>2, <2>2, <3>1 DEF UsedWhenOpen
    <3>3. WritersWake' /\ Answered'
      BY <3>1 DEF Sound, WritersWake, Answered
    <3>4. FlagHasWrite' /\ Stages'
      BY <2>2, <3>1 DEF Sound, FlagHasWrite, Stages, Quiet, KeepsWrite
    <3>. QED
      BY <3>2, <3>3, <3>4 DEF Sound
  <2>3. ASSUME NEW valid, ReceiveClose(ops, valid), m_state # "closed" PROVE Sound'
    <3>1. CASE ReadAgain(ops) /\ CallFromStrand("ack", "checked")
      <4>1. m_state \in {"open", "closing"}
        BY <1>2, <2>3 DEF TypeOK
      <4>. QED
        BY <1>1, <2>2, <3>1, <4>1 DEF ReadAgain
    <3>2. CASE /\ terminate("none", Begin(ops, "read"), timer)
               /\ UNCHANGED <<role, m_internal_state, m_response, writeVars, pc, io, revived, called>>
      BY <1>1, <1>2, <3>2, terminateKeeps DEF writeVars
    <3>3. CASE /\ ReadAgain(ops)
               /\ UNCHANGED <<timer, sessionVars, writeVars, pc, io, revived, tstat, called>>
      BY <1>1, <3>3, SameKeeps DEF ReadAgain, sessionVars, writeVars, soundVars
    <3>4. CASE Ignore(ops, timer)
      BY <2>1, <3>4
    <3>. QED
      BY <2>3, <3>1, <3>2, <3>3, <3>4 DEF ReceiveClose
  <2>4. ASSUME NEW frame, process_control_frame(frame, ops) PROVE Sound'
    <3>1. CASE m_state = "open" /\ ReadAgain(ops) /\ CallFromStrand("pong", "idle")
      BY <1>1, <2>2, <3>1 DEF ReadAgain
    <3>. QED
      BY <2>1, <2>3, <2>4, <3>1 DEF process_control_frame
  <2>5. ASSUME ProtocolError(ops) PROVE Sound'
    <3>1. CASE m_state = "open" /\ op' = ops /\ CallFromStrand("close", "idle")
      BY <1>1, <2>2, <3>1
    <3>2. CASE /\ terminate("other", ops, timer)
               /\ UNCHANGED <<role, m_internal_state, m_response, writeVars, callVars, called>>
      BY <1>1, <1>2, <3>2, terminateKeeps DEF writeVars, callVars
    <3>. QED
      BY <2>5, <3>1, <3>2 DEF ProtocolError
  <2> HIDE DEF ops
  <2>. QED
    BY <1>4, <2>1, <2>4, <2>5 DEF handle_read_frame, ops
<1>. QED
  BY <1>3, <1>4

\* What a connection is in between keeps its writes and its stages together.
THEOREM SoundAlways == Spec => []Sound
<1>1. Init => Sound
  <2> SUFFICES ASSUME Init PROVE Sound
    OBVIOUS
  <2>1. ~InUse
    BY DEF Init, InUse
  <2>2. WritersWake
    BY DEF Init, WritersWake
  <2>3. UsedWhenOpen /\ FlagHasWrite /\ Stages /\ Answered
    BY <2>1 DEF Init, TransportInit, UsedWhenOpen, FlagHasWrite, Stages, Answered, Ops, SocketOps
  <2>. QED
    BY <2>2, <2>3 DEF Sound
<1>2. TypeOK /\ Sound /\ [Next]_vars => Sound'
  <2>1. ASSUME TypeOK, Sound, Next PROVE Sound'
    BY <2>1, ReachKeeps, HandshakeKeeps, EndKeeps, CallKeeps, WriteKeeps, ReadKeeps
       DEF Next, Handshake, Session
  <2>2. ASSUME TypeOK, Sound, UNCHANGED vars PROVE Sound'
    <3>1. UNCHANGED soundVars /\ op' = op
      BY <2>2 DEF vars, transportVars, sessionVars, writeVars, callVars, soundVars
    <3>. QED
      BY <2>2, <3>1, SameKeeps, OpsQuiet
  <2>. QED
    BY <2>1, <2>2
<1>. QED
  BY <1>1, <1>2, TypeCorrect, PTL DEF Spec

\* On a connection that is open or closing, queued frames always have somebody who
\* will write them, and a raised write flag stands for a write that will end
\* (connection_impl.hpp 1826-1960).
THEOREM FramesFindAWriter == Spec => []NoLostWakeup
<1>1. Sound => NoLostWakeup
  BY DEF Sound, WritersWake, FlagHasWrite, NoLostWakeup
<1>. QED
  BY <1>1, SoundAlways, PTL

\* A connection that advances: its state does not change, or what it becomes is
\* further on, or it is given back its life.
LEMMA Advances ==
  ASSUME TypeOK,
         \/ m_state' = m_state \/ m_state' = "closed"
         \/ m_state = "connecting" /\ m_state' \in {"open", "closing"}
         \/ m_state = "open" /\ m_state' = "closing"
         \/ revived' /\ m_state' = "closing"
  PROVE  Rank[m_state'] >= Rank[m_state] \/ (revived' /\ m_state' = "closing")
BY DEF TypeOK, Rank

\* The state of a session only advances, however late the handlers of a handshake
\* or of a deadline run: what is the only way back, a close() that had tested the
\* state before terminate ran, is remembered (connection_impl.hpp 1716-1760).
THEOREM StateAdvances == Spec => StateOnlyAdvances
<1>1. ASSUME TypeOK, Sound, [Next]_vars
      PROVE  Rank[m_state'] >= Rank[m_state] \/ (revived' /\ m_state' = "closing")
  <2>1. CASE UNCHANGED vars
    BY <1>1, <2>1, Advances DEF vars, sessionVars
  <2>2. ASSUME NEW ec, NEW ops, NEW timers, Terminate(ec, ops, timers) PROVE m_state' = "closed"
    BY <2>2 DEF Terminate, terminate
  <2>3. ASSUME NEW ops, NEW timers, Return(ops, timers) PROVE m_state' = m_state
    BY <2>3 DEF Return, sessionVars
  <2>4. ASSUME NEW s, handle_terminate(s) PROVE m_state' = m_state
    BY <2>4 DEF handle_terminate, sessionVars
  <2>5. ASSUME NEW o, NEW t, GiveUp(o, t) PROVE m_state' = m_state
    BY <2>3, <2>5 DEF GiveUp
  <2>6. ASSUME NEW ops, NEW timers, start(ops, timers) PROVE m_state' \in {m_state, "closed"}
    BY <2>2, <2>6 DEF start, post_init, proxy_write
  <2>7. ASSUME \/ connect \/ handle_accept \/ handle_resolve \/ handle_connect
               \/ handle_proxy_write \/ handle_proxy_read \/ handle_post_init
        PROVE  m_state' \in {m_state, "closed"}
    <3>1. CASE connect
      BY <3>1 DEF connect, sessionVars
    <3>2. CASE handle_accept
      BY <2>2, <2>6, <3>2 DEF handle_accept
    <3>3. CASE handle_resolve
      BY <2>2, <2>5, <3>3 DEF handle_resolve, sessionVars
    <3>4. CASE handle_connect
      BY <2>2, <2>5, <2>6, <3>4 DEF handle_connect
    <3>5. CASE handle_proxy_write
      BY <2>2, <2>3, <2>5, <3>5 DEF handle_proxy_write
    <3>6. CASE handle_proxy_read
      BY <2>2, <2>5, <3>6 DEF handle_proxy_read, post_init
    <3>7. CASE handle_post_init
      BY <2>2, <2>3, <3>7 DEF handle_post_init, handle_transport_init, read_handshake, send_http_request, AwaitPeer
    <3>. QED
      BY <2>7, <3>1, <3>2, <3>3, <3>4, <3>5, <3>6, <3>7
  <2>8. ASSUME \/ handle_send_http_request \/ handle_read_http_response
               \/ handle_read_handshake \/ handle_write_http_response \/ send_http_response
        PROVE  m_state' \in {m_state, "closed"} \/ (m_state = "connecting" /\ m_state' = "open")
    <3>1. ASSUME NEW ops, NEW timers, Open(ops, timers) PROVE m_state' = "open"
      BY <3>1 DEF Open
    <3>2. CASE handle_send_http_request
      BY <2>2, <2>3, <3>2 DEF handle_send_http_request, HandshakeStep
    <3>3. CASE handle_read_http_response
      BY <2>2, <2>3, <3>1, <3>3 DEF handle_read_http_response, HandshakeStep
    <3>4. CASE handle_read_handshake
      BY <2>2, <2>3, <3>4
         DEF handle_read_handshake, HandshakeStep, process_handshake_request, write_http_response, defer_http_response
    <3>5. CASE handle_write_http_response
      BY <2>2, <2>3, <3>1, <3>5 DEF handle_write_http_response, HandshakeStep
    <3>6. CASE send_http_response
      BY <3>6 DEF send_http_response, write_http_response
    <3>. QED
      BY <2>8, <3>2, <3>3, <3>4, <3>5, <3>6
  <2>9. ASSUME Timeout \/ \E s \in Shutdowns : handle_async_shutdown(s) PROVE m_state' \in {m_state, "closed"}
    BY <2>2, <2>3, <2>4, <2>5, <2>9
       DEF Timeout, handle_resolve_timeout, handle_connect_timeout, handle_proxy_timeout,
           handle_post_init_timeout, handle_open_handshake_timeout, handle_pong_timeout,
           handle_close_handshake_timeout, handle_async_shutdown_timeout, handle_async_shutdown
  <2>10. ASSUME write_frame \/ handle_write_frame \/ handle_read_frame \/ handle_read_error
         PROVE  m_state' \in {m_state, "closed"}
    <3>1. ASSUME NEW ec, NEW ops, NEW timers, terminate(ec, ops, timers) PROVE m_state' = "closed"
      BY <3>1 DEF terminate
    <3>2. CASE write_frame
      BY <3>2 DEF write_frame, sessionVars
    <3>3. CASE handle_write_frame
      BY <3>1, <3>3 DEF handle_write_frame
    <3>4. CASE handle_read_error
      BY <2>2, <2>3, <3>4 DEF handle_read_error
    <3>5. CASE handle_read_frame
      BY <3>1, <3>5 DEF handle_read_frame, Ignore, process_control_frame, ReceiveClose, ProtocolError,
                        CallFromStrand, sessionVars
    <3>. QED
      BY <2>10, <3>2, <3>3, <3>4, <3>5
  <2>11. ASSUME NEW c \in Everyone, EnterCall(c) \/ SetPongTimer(c) \/ Push(c) PROVE m_state' = m_state
    BY <2>11 DEF EnterCall, SetPongTimer, Push, CallOnly, sessionVars
  <2>12. ASSUME NEW c \in Everyone, SetClosing(c)
         PROVE  m_state' = "closing" /\ (m_state # "closed" \/ revived')
    <3>1. m_state' = "closing" /\ revived' = (revived \/ (c # "io" /\ m_state = "closed"))
      BY <2>12 DEF SetClosing
    <3>2. c = "io" => m_state # "closed"
      <4>1. c = "io" => call(c) = io
        BY CallersAssumption DEF call, Callers
      <4>. QED
        BY <1>1, <2>12, <4>1 DEF SetClosing, Sound, UsedWhenOpen
    <3>3. m_state # "closed" \/ revived'
      BY <3>1, <3>2, Zenon
    <3>. QED
      BY <3>1, <3>3
  <2>13. ASSUME NEW c \in Everyone, SetClosing(c)
         PROVE  Rank[m_state'] >= Rank[m_state] \/ (revived' /\ m_state' = "closing")
    BY <1>1, <2>12, <2>13, Advances DEF TypeOK
  <2>14. CASE Next
    <3>1. \/ m_state' = m_state \/ m_state' = "closed"
          \/ m_state = "connecting" /\ m_state' = "open"
          \/ \E c \in Everyone : SetClosing(c)
      BY <2>7, <2>8, <2>9, <2>10, <2>11, <2>14 DEF Next, Handshake, Session, Continue
    <3>. QED
      BY <1>1, <2>13, <3>1, Advances
  <2>. QED
    BY <1>1, <2>1, <2>14
<1>. QED
  BY <1>1, TypeCorrect, SoundAlways, PTL DEF Spec, StateOnlyAdvances

-----------------------------------------------------------------------------
(***************************************************************************)
(* What the user is told.  The handlers match because the first shutdown   *)
(* is begun once, while its state says what to report, and its timer says  *)
(* whether it has been reported already.                                   *)
(***************************************************************************)

\* The first shutdown of a connection that was open, and of one that was not.
WasOpen ==
  tstat["shutdown"] = "closed" =>
    /\ m_internal_state = "PROCESS_CONNECTION" /\ called["fail"] = 0
    /\ m_state # "closed" => revived

WasNotOpen ==
  tstat["shutdown"] = "failed" =>
    m_state = "closed" /\ m_internal_state # "PROCESS_CONNECTION" /\ called["close"] = 0

\* A second one needs a connection that was given back its life.
SecondIfRevived ==
  tstat["shutdown2"] # "unknown" =>
    tstat["shutdown2"] = "closed" /\ tstat["shutdown"] = "closed" /\ revived

NotYetTold ==
  tstat["shutdown"] = "unknown" =>
    timer["shutdown"] = "off" /\ called["fail"] = 0 /\ called["close"] = 0

\* The timer of a shutdown that has been reported is no longer armed.
ToldOnce ==
  /\ timer["shutdown"] = "armed" => called["fail"] = 0 /\ (called["close"] = 0 \/ revived)
  /\ timer["shutdown"] # "over" => called["fail"] <= 1 /\ (called["close"] <= 1 \/ revived)

Told ==
  /\ called["open"] = IF m_internal_state = "PROCESS_CONNECTION" THEN 1 ELSE 0
  /\ tstat["shutdown"] # "unknown" => m_state # "connecting"
  /\ WasOpen /\ WasNotOpen /\ SecondIfRevived /\ NotYetTold /\ ToldOnce

\* Timers that leave that of the first shutdown alone.
Same(timers) == timers \in [Timers -> TimerStatus] /\ timers["shutdown"] = timer["shutdown"]

\* Canceling or arming another timer leaves that of the first shutdown alone.
LEMMA TimersSame ==
  ASSUME TypeOK
  PROVE  /\ Same(timer)
         /\ \A t \in Timers \ {"shutdown"} : Same(AfterTimer(t))
         /\ \A timers : Same(timers) =>
              /\ \A t \in Timers \ {"shutdown"} : Same(set_timer(timers, t))
              /\ \A t \in Timers \ {"shutdown"} : \A after \in cancel(timers, t) : Same(after)
              /\ \A after \in DropHandshakeTimer(timers) : Same(after)
<1>1. timer \in [Timers -> TimerStatus]
  BY DEF TypeOK, TransportTypeOK
<1>2. Same(timer) /\ \A t \in Timers \ {"shutdown"} : Same(AfterTimer(t))
  BY <1>1 DEF Same, AfterTimer, TimerStatus, Timers, Shutdowns
<1>3. ASSUME NEW timers, Same(timers), NEW t \in Timers \ {"shutdown"}
      PROVE  Same(set_timer(timers, t)) /\ \A after \in cancel(timers, t) : Same(after)
  BY <1>3 DEF Same, set_timer, cancel, TimerStatus, Timers, Shutdowns
<1>4. ASSUME NEW timers, Same(timers), NEW after \in DropHandshakeTimer(timers) PROVE Same(after)
  <2>1. m_handshake_timer = "none" \/ m_handshake_timer \in Timers \ {"shutdown"}
    BY DEF TypeOK, Timers, Shutdowns
  <2>. QED
    BY <1>3, <1>4, <2>1 DEF DropHandshakeTimer
<1>. QED
  BY <1>2, <1>3, <1>4

\* A step that tells nobody anything.
LEMMA QuietTells ==
  ASSUME TypeOK, Told, UNCHANGED <<tstat, called, m_state, revived>>, Same(timer'),
         m_internal_state' = m_internal_state
           \/ "PROCESS_CONNECTION" \notin {m_internal_state, m_internal_state'}
  PROVE  Told'
<1>1. timer'["shutdown"] = timer["shutdown"]
  BY DEF Same
<1>. QED
  BY <1>1 DEF Told, WasOpen, WasNotOpen, SecondIfRevived, NotYetTold, ToldOnce

\* terminate begins the first shutdown, or a second one of a revived connection.
LEMMA terminateTells ==
  ASSUME TypeOK, Sound, Told, NEW ec, NEW ops, NEW timers, Same(timers), terminate(ec, ops, timers),
         UNCHANGED <<m_internal_state, called, revived>>
  PROVE  Told'
<1> DEFINE next == IF tstat["shutdown"] = "unknown" THEN "shutdown" ELSE "shutdown2"
<1>1. m_state' = "closed"
  BY DEF terminate
<1>2. PICK stopped \in DropHandshakeTimer(timers) :
        IF m_state = "closed"
        THEN timer' = stopped /\ UNCHANGED tstat
        ELSE /\ timer' = set_timer(stopped, next)
             /\ tstat' = [tstat EXCEPT ![next] = IF m_state = "connecting" THEN "failed" ELSE "closed"]
  BY DEF terminate
<1>3. Same(stopped)
  BY TimersSame
<1>4. tstat \in [Shutdowns -> {"unknown", "failed", "closed"}]
  BY DEF TypeOK
<1>5. CASE m_state = "closed"
  BY <1>1, <1>2, <1>3, <1>5 DEF Told, WasOpen, WasNotOpen, SecondIfRevived, NotYetTold, ToldOnce, Same
<1>6. CASE m_state # "closed" /\ tstat["shutdown"] = "unknown"
  <2>1. /\ tstat'["shutdown"] = IF m_state = "connecting" THEN "failed" ELSE "closed"
        /\ tstat'["shutdown2"] = "unknown"
    BY <1>2, <1>4, <1>6 DEF Told, SecondIfRevived, Shutdowns
  <2>2. timer'["shutdown"] = "armed"
    BY <1>2, <1>3, <1>6 DEF Same, set_timer, Timers, Shutdowns
  <2>3. m_internal_state = "PROCESS_CONNECTION" <=> m_state # "connecting"
    BY <1>6 DEF Sound, UsedWhenOpen, InUse, TypeOK
  <2>. QED
    BY <1>1, <1>6, <2>1, <2>2, <2>3
       DEF Told, WasOpen, WasNotOpen, SecondIfRevived, NotYetTold, ToldOnce
<1>7. CASE m_state # "closed" /\ tstat["shutdown"] # "unknown"
  <2>1. tstat["shutdown"] = "closed" /\ revived /\ m_state # "connecting"
    BY <1>4, <1>7 DEF Told, WasOpen, WasNotOpen, Shutdowns
  <2>2. tstat'["shutdown"] = tstat["shutdown"] /\ tstat'["shutdown2"] = "closed"
    BY <1>2, <1>4, <1>7, <2>1 DEF Shutdowns
  <2>3. timer'["shutdown"] = timer["shutdown"]
    BY <1>2, <1>3, <1>7 DEF Same, set_timer, Timers, Shutdowns
  <2>. QED
    BY <1>1, <2>1, <2>2, <2>3
       DEF Told, WasOpen, WasNotOpen, SecondIfRevived, NotYetTold, ToldOnce
<1>. QED
  BY <1>5, <1>6, <1>7

\* The same at the end of a handler.
LEMMA TerminateTells ==
  ASSUME TypeOK, Sound, Told, NEW ec, NEW ops, NEW timers, Same(timers), Terminate(ec, ops, timers)
  PROVE  Told'
BY terminateTells DEF Terminate, callVars

\* A handler that returns early tells nobody anything.
LEMMA ReturnTells ==
  ASSUME TypeOK, Told, NEW ops, NEW timers, Same(timers), Return(ops, timers)
  PROVE  Told'
BY QuietTells DEF Return, sessionVars, callVars

\* The end of a shutdown is told.
LEMMA HandleTells ==
  ASSUME TypeOK, Told, NEW s \in Shutdowns, handle_terminate(s),
         \/ s = "shutdown2" /\ Same(timer')
         \/ s = "shutdown" /\ timer["shutdown"] = "armed" /\ timer'["shutdown"] \in {"off", "expired"}
         \/ s = "shutdown" /\ timer["shutdown"] = "expired" /\ timer'["shutdown"] = "over"
  PROVE  Told'
<1>1. UNCHANGED <<m_state, m_internal_state, revived, tstat>>
  BY DEF handle_terminate, sessionVars, callVars
<1>2. called["open"] \in Nat /\ called["fail"] \in Nat /\ called["close"] \in Nat
  BY DEF TypeOK
<1>3. /\ called'["open"] = called["open"]
      /\ \/ tstat[s] = "failed" /\ called'["close"] = called["close"]
              /\ called'["fail"] \in {called["fail"], called["fail"] + 1}
         \/ tstat[s] = "closed" /\ called'["fail"] = called["fail"]
              /\ called'["close"] = called["close"] + 1
  BY DEF handle_terminate, Call, TypeOK
<1>4. /\ called'["open"] = IF m_internal_state' = "PROCESS_CONNECTION" THEN 1 ELSE 0
      /\ tstat'["shutdown"] # "unknown" => m_state' # "connecting"
  BY <1>1, <1>3 DEF Told
<1>5. tstat["shutdown"] # "unknown" /\ (s = "shutdown2" => tstat[s] = "closed" /\ revived /\ tstat["shutdown"] = "closed")
  BY <1>3 DEF Told, SecondIfRevived, Shutdowns
<1>6. SecondIfRevived' /\ NotYetTold'
  BY <1>1, <1>5 DEF Told, SecondIfRevived, NotYetTold
<1>7. WasOpen'
  BY <1>1, <1>3, <1>5 DEF Told, WasOpen, Shutdowns
<1>8. WasNotOpen'
  BY <1>1, <1>3, <1>5 DEF Told, WasNotOpen, Shutdowns
<1>9. ToldOnce'
  <2>1. CASE s = "shutdown2" /\ Same(timer')
    BY <1>1, <1>2, <1>3, <1>5, <2>1 DEF Told, ToldOnce, Same
  <2>2. CASE s = "shutdown" /\ timer["shutdown"] = "armed" /\ timer'["shutdown"] \in {"off", "expired"}
    <3>1. called["fail"] = 0 /\ (called["close"] = 0 \/ revived)
      BY <2>2 DEF Told, ToldOnce
    <3>2. called'["fail"] <= 1
      BY <1>2, <1>3, <3>1
    <3>3. called["close"] = 0 => called'["close"] <= 1
      BY <1>2, <1>3
    <3>. QED
      BY <1>1, <2>2, <3>1, <3>2, <3>3 DEF ToldOnce
  <2>3. CASE timer'["shutdown"] = "over"
    BY <2>3 DEF ToldOnce
  <2>. QED
    BY <2>1, <2>2, <2>3
<1>. QED
  BY <1>4, <1>6, <1>7, <1>8, <1>9 DEF Told

\* Reaching the peer tells nobody anything before it fails.
LEMMA ReachTells ==
  ASSUME TypeOK, Sound, Told,
         \/ connect \/ handle_accept \/ handle_resolve \/ handle_connect
         \/ handle_proxy_write \/ handle_proxy_read \/ handle_post_init
  PROVE  Told'
<1>1. /\ Same(timer)
      /\ {"resolve", "connect", "proxy", "init", "open"} \subseteq Timers \ {"shutdown"}
  BY TimersSame DEF Timers, Shutdowns
<1>2. \A t \in {"resolve", "connect", "proxy", "init"} : \A timers \in cancel(timer, t) : Same(timers)
  BY <1>1, TimersSame
<1>3. ASSUME NEW timers, Same(timers), NEW t \in {"resolve", "connect", "proxy", "init", "open"},
             Untouched, timer' = set_timer(timers, t), UNCHANGED m_state,
             m_internal_state' = m_internal_state
               \/ "PROCESS_CONNECTION" \notin {m_internal_state, m_internal_state'}
      PROVE  Told'
  <2>1. Same(timer')
    BY <1>1, <1>3, TimersSame
  <2>. QED
    BY <1>3, <2>1, QuietTells DEF Untouched, callVars
<1>4. ASSUME NEW o, NEW t, GiveUp(o, t) PROVE Told'
  BY <1>1, <1>4, ReturnTells DEF GiveUp
<1>5. ASSUME NEW ops, NEW timers, Same(timers), start(ops, timers) PROVE Told'
  BY <1>3, <1>5, TerminateTells DEF start, post_init, proxy_write
<1>6. CASE connect
  BY <1>1, <1>3, <1>6 DEF connect, sessionVars
<1>7. CASE handle_accept
  BY <1>1, <1>5, <1>7, TerminateTells DEF handle_accept
<1>8. CASE handle_resolve
  BY <1>2, <1>3, <1>4, <1>8, TerminateTells DEF handle_resolve, sessionVars
<1>9. CASE handle_connect
  BY <1>2, <1>4, <1>5, <1>9, TerminateTells DEF handle_connect
<1>10. CASE handle_proxy_write
  BY <1>1, <1>2, <1>4, <1>10, TerminateTells, ReturnTells DEF handle_proxy_write
<1>11. CASE handle_proxy_read
  <2>1. ASSUME NEW timers \in cancel(timer, "proxy"), op["proxy_read"] # "idle",
               post_init(End(op, "proxy_read"), timers)
        PROVE  Told'
    <3>1. m_internal_state = "TRANSPORT_INIT"
      BY <2>1 DEF Sound, Stages
    <3>. QED
      BY <1>2, <1>3, <2>1, <3>1 DEF post_init
  <2>. QED
    BY <1>2, <1>4, <1>11, <2>1, TerminateTells DEF handle_proxy_read, InTime
<1>12. CASE handle_post_init
  <2>1. ASSUME NEW timers \in cancel(timer, "init"), NEW result,
               handle_transport_init(result, End(op, "init"), timers)
        PROVE  Told'
    BY <1>2, <1>3, <2>1, TerminateTells
       DEF handle_transport_init, read_handshake, send_http_request, AwaitPeer
  <2>. QED
    BY <1>1, <1>12, <2>1, ReturnTells DEF handle_post_init
<1>. QED
  BY <1>6, <1>7, <1>8, <1>9, <1>10, <1>11, <1>12

\* open is told once, with the end of the handshake.
LEMMA OpenTells ==
  ASSUME TypeOK, Told, m_state = "connecting", m_internal_state # "PROCESS_CONNECTION",
         NEW ops, Open(ops, timer)
  PROVE  Told'
<1>1. /\ m_internal_state' = "PROCESS_CONNECTION" /\ m_state' = "open"
      /\ UNCHANGED <<tstat, revived>>
  BY DEF Open, callVars
<1>2. called["open"] = 0 /\ tstat["shutdown"] = "unknown"
  BY DEF Told
<1>3. called'["open"] = 1 /\ called'["fail"] = called["fail"] /\ called'["close"] = called["close"]
  BY <1>2 DEF Open, Call, TypeOK
<1>4. timer'["shutdown"] = timer["shutdown"]
  BY TimersSame DEF Open, Same
<1>. QED
  BY <1>1, <1>2, <1>3, <1>4 DEF Told, WasOpen, WasNotOpen, SecondIfRevived, NotYetTold, ToldOnce

\* Of the handshake, its end tells open, and its failures what terminate does.
LEMMA HandshakeTells ==
  ASSUME TypeOK, Sound, Told,
         \/ handle_send_http_request \/ handle_read_http_response
         \/ handle_read_handshake \/ handle_write_http_response \/ send_http_response
  PROVE  Told'
<1>1. Same(timer) /\ \A timers \in DropHandshakeTimer(timer) : Same(timers)
  BY TimersSame
<1>2. ASSUME NEW ec, NEW ops, NEW timers, Same(timers),
             Return(ops, timers) \/ Terminate(ec, ops, timers)
      PROVE  Told'
  BY <1>2, ReturnTells, TerminateTells
<1>3. ASSUME UNCHANGED <<m_state, revived, tstat, called>>, Same(timer'),
             "PROCESS_CONNECTION" \notin {m_internal_state, m_internal_state'}
      PROVE  Told'
  BY <1>3, QuietTells
<1>4. ASSUME NEW ops, NEW status, m_internal_state # "PROCESS_CONNECTION",
             write_http_response("other", status, ops)
      PROVE  Told'
  BY <1>1, <1>3, <1>4 DEF write_http_response, callVars
<1>5. CASE handle_send_http_request
  <2>1. ASSUME m_internal_state # "PROCESS_CONNECTION", m_internal_state' = "READ_HTTP_RESPONSE",
               UNCHANGED <<m_state, timer>>, Untouched
        PROVE  Told'
    BY <1>1, <1>3, <2>1 DEF Untouched, callVars
  <2>. QED
    BY <1>1, <1>2, <1>5, <2>1 DEF handle_send_http_request, HandshakeStep
<1>6. CASE handle_read_http_response
  BY <1>1, <1>2, <1>6, OpenTells DEF handle_read_http_response, HandshakeStep
<1>7. CASE handle_read_handshake
  <2>1. ASSUME m_internal_state # "PROCESS_CONNECTION", NEW ops, defer_http_response(ops) PROVE Told'
    BY <1>1, <1>3, <2>1 DEF defer_http_response, Untouched, callVars
  <2>. QED
    BY <1>1, <1>2, <1>4, <1>7, <2>1 DEF handle_read_handshake, HandshakeStep, process_handshake_request
<1>8. CASE handle_write_http_response
  BY <1>1, <1>2, <1>8, OpenTells DEF handle_write_http_response, HandshakeStep
<1>9. CASE send_http_response
  <2>1. m_internal_state # "PROCESS_CONNECTION"
    BY <1>9 DEF send_http_response, Sound, Answered
  <2>. QED
    BY <1>4, <1>9, <2>1 DEF send_http_response
<1>. QED
  BY <1>5, <1>6, <1>7, <1>8, <1>9

\* The end of a connection, and the deadlines.
LEMMA EndTells ==
  ASSUME TypeOK, Sound, Told, Timeout \/ \E s \in Shutdowns : handle_async_shutdown(s)
  PROVE  Told'
<1>1. /\ Same(timer) /\ \A t \in Timers \ {"shutdown"} : Same(AfterTimer(t))
      /\ \A t \in Timers \ {"shutdown"} : \A after \in cancel(timer, t) : Same(after)
      /\ {"resolve", "connect", "proxy", "init", "open", "pong", "close", "close2", "shutdown2"}
           \subseteq Timers \ {"shutdown"}
      /\ timer \in [Timers -> TimerStatus] /\ "shutdown" \in Timers
  BY TimersSame DEF Timers, Shutdowns, Same
<1>2. ASSUME NEW s \in Shutdowns, handle_async_shutdown(s) PROVE Told'
  <2>1. CASE GiveUp(s, s)
    BY <1>1, <2>1, ReturnTells DEF GiveUp
  <2>2. CASE InTime(s, s) /\ timer' \in cancel(timer, s) /\ handle_terminate(s)
    <3>1. CASE s = "shutdown2"
      BY <1>1, <2>2, <3>1, HandleTells
    <3>2. CASE s = "shutdown"
      <4>1. timer["shutdown"] = "armed" /\ timer'["shutdown"] \in {"off", "expired"}
        BY <1>1, <2>2, <3>2 DEF InTime, cancel
      <4>. QED
        BY <2>2, <3>2, <4>1, HandleTells
    <3>. QED
      BY <3>1, <3>2 DEF Shutdowns
  <2>. QED
    BY <1>2, <2>1, <2>2 DEF handle_async_shutdown
<1>3. ASSUME NEW s \in Shutdowns, handle_async_shutdown_timeout(s) PROVE Told'
  <2>1. TimerRuns(s) /\ timer' = AfterTimer(s) /\ handle_terminate(s)
    BY <1>3 DEF handle_async_shutdown_timeout
  <2>2. CASE s = "shutdown2"
    BY <1>1, <2>1, <2>2, HandleTells
  <2>3. CASE s = "shutdown"
    <3>1. \/ timer["shutdown"] = "armed" /\ timer'["shutdown"] \in {"off", "expired"}
          \/ timer["shutdown"] = "expired" /\ timer'["shutdown"] = "over"
      BY <1>1, <2>1, <2>3 DEF TimerRuns, AfterTimer
    <3>. QED
      BY <2>1, <2>3, <3>1, HandleTells
  <2>. QED
    BY <2>2, <2>3 DEF Shutdowns
<1>4. ASSUME Timeout, \A s \in Shutdowns : ~handle_async_shutdown_timeout(s) PROVE Told'
  <2>1. \/ \E ops : \E t \in {"resolve", "connect", "proxy", "init", "open", "close", "close2"} :
              Terminate("other", ops, AfterTimer(t))
        \/ Return(op, AfterTimer("pong"))
    BY <1>4 DEF Timeout, handle_resolve_timeout, handle_connect_timeout, handle_proxy_timeout,
         handle_post_init_timeout, handle_open_handshake_timeout, handle_pong_timeout,
         handle_close_handshake_timeout
  <2>. QED
    BY <1>1, <2>1, TerminateTells, ReturnTells
<1>. QED
  BY <1>2, <1>3, <1>4

\* Calls: close() revives a closed connection, or none.
LEMMA CallTells ==
  ASSUME TypeOK, Sound, Told, NEW c \in Everyone, EnterCall(c) \/ Continue(c)
  PROVE  Told'
<1>1. Same(timer) /\ Same(set_timer(timer, "pong"))
      /\ \A t \in {"close", "close2"} : Same(set_timer(timer, t))
  BY TimersSame DEF Timers, Shutdowns
<1>2. CASE EnterCall(c) \/ Push(c)
  BY <1>1, <1>2, QuietTells DEF EnterCall, Push, CallOnly, transportVars, sessionVars
<1>3. CASE SetPongTimer(c)
  BY <1>1, <1>3, QuietTells DEF SetPongTimer, sessionVars
<1>4. CASE SetClosing(c)
  <2>1. /\ m_state' = "closing" /\ UNCHANGED <<m_internal_state, tstat, called>>
        /\ revived' = (revived \/ (c # "io" /\ m_state = "closed"))
        /\ pc[c] = "checked"
    BY <1>4 DEF SetClosing, Step
  <2>2. timer'["shutdown"] = timer["shutdown"]
    BY <1>1, <1>4 DEF SetClosing, Same
  <2>3. m_internal_state = "PROCESS_CONNECTION"
    BY <2>1 DEF Sound, UsedWhenOpen, InUse
  <2>4. c = "io" => m_state # "closed"
    <3>1. c = "io" => call(c) = io
      BY CallersAssumption DEF call, Callers
    <3>. QED
      BY <1>4, <3>1 DEF SetClosing, Sound, UsedWhenOpen
  <2>5. revived => revived'
    BY <2>1, Zenon
  <2>6. m_state = "closed" => revived'
    BY <2>1, <2>4, Zenon
  <2>. QED
    BY <2>1, <2>2, <2>3, <2>5, <2>6
       DEF Told, WasOpen, WasNotOpen, SecondIfRevived, NotYetTold, ToldOnce
<1>. QED
  BY <1>2, <1>3, <1>4 DEF Continue

\* Writing and reading tell nobody anything but what terminate does.
LEMMA FramesTell ==
  ASSUME TypeOK, Sound, Told, write_frame \/ handle_write_frame \/ handle_read_frame \/ handle_read_error
  PROVE  Told'
<1>1. Same(timer) /\ \A timers \in cancel(timer, "pong") : Same(timers)
  BY TimersSame DEF Timers, Shutdowns
<1>2. CASE write_frame
  BY <1>1, <1>2, QuietTells DEF write_frame, sessionVars, callVars
<1>3. CASE handle_write_frame
  <2>1. UNCHANGED <<m_internal_state, called, revived>>
    BY <1>3 DEF handle_write_frame, callVars
  <2>2. ASSUME NEW ec, terminate(ec, End(op, "write"), timer) PROVE Told'
    BY <1>1, <2>1, <2>2, terminateTells
  <2>3. ASSUME UNCHANGED <<timer, m_state, tstat>> PROVE Told'
    BY <1>1, <2>1, <2>3, QuietTells
  <2>. QED
    BY <1>3, <2>2, <2>3 DEF handle_write_frame
<1>4. CASE handle_read_error
  BY <1>1, <1>4, ReturnTells, TerminateTells DEF handle_read_error
<1>5. CASE handle_read_frame
  <2> DEFINE ops == End(op, "read")
  <2>1. ASSUME NEW timers, Same(timers), Ignore(ops, timers) PROVE Told'
    BY <2>1, QuietTells DEF Ignore, sessionVars, callVars
  <2>2. ASSUME NEW kind, NEW from, CallFromStrand(kind, from) PROVE Told'
    BY <1>1, <2>2, QuietTells DEF CallFromStrand, sessionVars
  <2>3. ASSUME NEW ec, NEW after, terminate(ec, after, timer),
               UNCHANGED <<m_internal_state, called, revived>>
        PROVE  Told'
    BY <1>1, <2>3, terminateTells
  <2>4. ASSUME UNCHANGED <<timer, sessionVars, revived, tstat, called>> PROVE Told'
    BY <1>1, <2>4, QuietTells DEF sessionVars
  <2>5. ASSUME NEW valid, ReceiveClose(ops, valid) PROVE Told'
    BY <1>1, <2>1, <2>2, <2>3, <2>4, <2>5 DEF ReceiveClose
  <2>6. ASSUME NEW frame, process_control_frame(frame, ops) PROVE Told'
    BY <1>1, <2>1, <2>2, <2>5, <2>6 DEF process_control_frame
  <2>7. ASSUME ProtocolError(ops) PROVE Told'
    BY <2>2, <2>3, <2>7 DEF ProtocolError, callVars
  <2> HIDE DEF ops
  <2>. QED
    BY <1>1, <1>5, <2>1, <2>6, <2>7 DEF handle_read_frame, ops
<1>. QED
  BY <1>2, <1>3, <1>4, <1>5

\* What each shutdown reports, and that it has been, is kept by every step.
THEOREM ToldAlways == Spec => []Told
<1>1. Init => Told
  <2> SUFFICES ASSUME Init PROVE Told
    OBVIOUS
  <2>1. /\ tstat["shutdown"] = "unknown" /\ tstat["shutdown2"] = "unknown"
        /\ timer["shutdown"] = "off"
        /\ called["open"] = 0 /\ called["fail"] = 0 /\ called["close"] = 0
        /\ m_internal_state = "USER_INIT"
    BY DEF Init, TransportInit, Shutdowns, Timers
  <2>. QED
    BY <2>1 DEF Told, WasOpen, WasNotOpen, SecondIfRevived, NotYetTold, ToldOnce
<1>2. TypeOK /\ Sound /\ Told /\ [Next]_vars => Told'
  <2>1. ASSUME TypeOK, Sound, Told, Next PROVE Told'
    BY <2>1, ReachTells, HandshakeTells, EndTells, CallTells, FramesTell
       DEF Next, Handshake, Session
  <2>2. ASSUME TypeOK, Told, UNCHANGED vars PROVE Told'
    <3>1. UNCHANGED <<tstat, called, m_state, revived, m_internal_state, timer>>
      BY <2>2 DEF vars, transportVars, sessionVars, callVars
    <3>. QED
      BY <2>2, <3>1, TimersSame, QuietTells
  <2>. QED
    BY <2>1, <2>2
<1>. QED
  BY <1>1, <1>2, TypeCorrect, SoundAlways, PTL DEF Spec

\* Whatever the network does and whenever threads call close, the user hears of
\* open or fail once and of close only behind open; what is told twice was revived
\* by close() or ran into its deadline (connection.hpp 50-100).
THEOREM HandlersAlwaysMatch == Spec => []HandlersMatch
<1>1. TypeOK /\ Told => HandlersMatch
  <2> SUFFICES ASSUME TypeOK, Told PROVE HandlersMatch
    OBVIOUS
  <2>1. called["open"] \in {0, 1} /\ called["fail"] \in Nat /\ called["close"] \in Nat
    BY DEF TypeOK, Told
  <2>2. tstat["shutdown"] \in {"unknown", "failed", "closed"}
    BY DEF TypeOK, Shutdowns
  <2>3. called["fail"] > 0 => tstat["shutdown"] = "failed" /\ called["open"] = 0
    BY <2>1, <2>2 DEF Told, WasOpen, WasNotOpen, NotYetTold
  <2>4. called["close"] > 0 => tstat["shutdown"] = "closed" /\ called["open"] = 1
    BY <2>1, <2>2 DEF Told, WasOpen, WasNotOpen, NotYetTold
  <2>5. timer["shutdown"] # "over" => called["open"] + called["fail"] <= 1
    BY <2>1, <2>3 DEF Told, ToldOnce
  <2>6. called["close"] <= 1 \/ revived \/ timer["shutdown"] = "over"
    BY DEF Told, ToldOnce
  <2>. QED
    BY <2>1, <2>3, <2>4, <2>5, <2>6 DEF HandlersMatch
<1>. QED
  BY <1>1, TypeCorrect, ToldAlways, PTL
=============================================================================
