---------------------------- MODULE AsioTransport ----------------------------
(***************************************************************************)
(* The asio transport of a websocketpp connection: operations that were    *)
(* started and the deadlines of those that have one.  An operation ends    *)
(* when its handler runs on the connection's strand, with a result that    *)
(* the handler chooses from Results; a deadline passes when the timer's    *)
(* handler runs.  The handlers themselves, with what they call, are        *)
(* actions of module Connection.                                           *)
(***************************************************************************)
EXTENDS Naturals

CONSTANT Racy  \* bound: timers that may expire between the look at the clock and cancel

\* Shutdowns: terminate starts one; a second one needs a connection that was
\* given back its life after the first.
Shutdowns == {"shutdown", "shutdown2"}

\* Operations on the socket are ended by cancel_socket, those of the resolver are not.
SocketOps == {"connect", "proxy_write", "proxy_read", "init", "read", "write"} \union Shutdowns
Ops == {"resolve"} \union SocketOps

\* "proxy" times the exchange with the proxy, "open" and "close" the handshakes.
Timers == {"resolve", "connect", "proxy", "init", "open", "close", "close2", "pong"} \union Shutdowns

ASSUME RacyAssumption == Racy \subseteq Timers

VARIABLES
    op,     \* [Ops -> status of the operation]
    timer   \* [Timers -> status of the timer]

transportVars == <<op, timer>>

OpStatus == {"idle", "pending", "canceled"}

\* "expired": canceled too late, its handler is still to run; "over": it has run.
TimerStatus == {"off", "armed", "expired", "over"}

TransportTypeOK ==
    /\ op \in [Ops -> OpStatus]
    /\ timer \in [Timers -> TimerStatus]

TransportInit ==
    /\ op = [o \in Ops |-> "idle"]
    /\ timer = [t \in Timers |-> "off"]

(***************************************************************************)
(* What the handler of an operation may be told.  An operation that had    *)
(* ended when it was canceled keeps its result.                            *)
(***************************************************************************)
Results(o) ==
    {result \in {"ok", "error", "aborted"} :
        op[o] # "idle" /\ (result = "aborted" => op[o] = "canceled")}

\* The functions below take and give the next value of op or timer, since one
\* handler may end an operation and start another.
Begin(ops, o) == [ops EXCEPT ![o] = "pending"]
End(ops, o) == [ops EXCEPT ![o] = "idle"]

async_resolve_cancel(ops) ==
    [ops EXCEPT !["resolve"] = IF @ = "pending" THEN "canceled" ELSE @]

cancel_socket_checked(ops) ==
    [o \in Ops |-> IF o \in SocketOps /\ ops[o] = "pending" THEN "canceled" ELSE ops[o]]

set_timer(timers, t) == [timers EXCEPT ![t] = "armed"]

\* The values timers may have after cancel: a timer that has expired is no
\* longer in its reach.
cancel(timers, t) ==
    LET outcomes == {"off"} \union (IF t \in Racy THEN {"expired"} ELSE {})
    IN  IF timers[t] = "armed"
        THEN {[timers EXCEPT ![t] = outcome] : outcome \in outcomes}
        ELSE {timers}

\* handle_timer: the handler of timer t may run, and has run.
TimerRuns(t) == timer[t] \in {"armed", "expired"}
AfterTimer(t) == [timer EXCEPT ![t] = IF @ = "expired" THEN "over" ELSE "off"]

(***************************************************************************)
(* A handler of an operation with a deadline first looks whether it was    *)
(* canceled, and then at the clock: is_neg(expires_from_now()).  When the  *)
(* deadline has passed it leaves everything to the timer's handler, which  *)
(* has canceled the operation or still has to run.                         *)
(***************************************************************************)
InTime(o, t) == op[o] = "pending" /\ timer[t] = "armed"

TooLate(o, t) == op[o] = "canceled" \/ InTime(o, t)
=============================================================================
