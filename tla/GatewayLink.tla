----------------------------- MODULE GatewayLink -----------------------------
(***************************************************************************)
(* The link to Discord's gateway: one websocket after the other, each with *)
(* a hello, an identification and a heartbeat task, and the restarts that  *)
(* opcodes 7 and 9 and the owner's command ask for.  Every message has a   *)
(* PPL task, so handlers of one connection overlap with those of the next. *)
(*                                                                         *)
(* on_close asks for the next connection each time the library calls it,   *)
(* which is once for a connection, and again for one that close() revived  *)
(* or whose shutdown raced its deadline (module Connection).               *)
(*                                                                         *)
(* A cancellation source is named by the restart that made it, 0 being the *)
(* first one; a token by its source, a heartbeat task by its connection.   *)
(***************************************************************************)
EXTENDS Naturals, FiniteSets

CONSTANTS
  MaxConns,     \* bound: connections ever made
  MaxRestarts,  \* bound: restarts asked for
  MaxAgain      \* bound: on_close called again because of a deadline

ASSUME ConnAssumption == MaxConns \in Nat \ {0}
ASSUME RestartAssumption == MaxRestarts \in Nat /\ MaxAgain \in Nat

Conns == 1 .. MaxConns
Restarts == 1 .. MaxRestarts
Sources == 0 .. MaxRestarts

VARIABLES
  ws,                   \* each connection
  onclose,              \* calls of on_close that the library still has to make
  again,                \* history: those it makes besides a connection's first
  hello,                \* handler of each connection's opcode 10
  heart,                \* heartbeat task of each connection
  heartToken,           \* the copy of token in that task
  is_websocket_restart, \* the next hello is answered with a resume
  restart,              \* each restart: where it is, the connection it is
                        \* for and the value it gives to the flag
  awaits,               \* the heartbeat that each restart waits for
  cts,                  \* the source in the field cts
  token,                \* the source of the token in the field token
  canceled,             \* the sources that were canceled
  t                     \* the last heartbeat task, 0 for a task never made

heartVars == <<heart, heartToken, t>>
restartVars == <<restart, awaits>>
tokenVars == <<cts, token, canceled>>
closeVars == <<onclose, again>>
vars == <<ws, closeVars, hello, heartVars, is_websocket_restart, restartVars, tokenVars>>

WsPC == {"none", "pending", "failed", "open", "closing", "closed"}
HelloPC == {"none", "hello", "resume", "auth", "reset", "token", "assign", "done"}
HeartPC == {"none", "check", "first", "beat", "over"}
RestartPC == {"none", "flag", "cancel", "wait", "await", "close", "frame", "source",
              "token", "done", "failed"}

\* A restart that waits for a task waits for one that was made.
TypeOK ==
  /\ ws \in [Conns -> WsPC] /\ onclose \in Nat /\ again \in Nat
  /\ hello \in [Conns -> HelloPC]
  /\ heart \in [Conns -> HeartPC]
  /\ heartToken \in [Conns -> Sources]
  /\ is_websocket_restart \in BOOLEAN
  /\ restart \in [Restarts -> [at : RestartPC, conn : 0 .. MaxConns, resumes : BOOLEAN]]
  /\ awaits \in [Restarts -> 0 .. MaxConns]
  /\ cts \in Sources /\ token \in Sources /\ canceled \subseteq Sources
  /\ t \in 0 .. MaxConns
  /\ \A r \in Restarts : restart[r].at = "await" => awaits[r] # 0

\* The constructor asks for the first connection.
Init ==
  /\ ws = [c \in Conns |-> IF c = 1 THEN "pending" ELSE "none"]
  /\ onclose = 0 /\ again = 0
  /\ hello = [c \in Conns |-> "none"]
  /\ heart = [c \in Conns |-> "none"] /\ heartToken = [c \in Conns |-> 0]
  /\ is_websocket_restart = FALSE
  /\ restart = [r \in Restarts |-> [at |-> "none", conn |-> 0, resumes |-> FALSE]]
  /\ awaits = [r \in Restarts |-> 0]
  /\ cts = 0 /\ token = 0 /\ canceled = {} /\ t = 0

-----------------------------------------------------------------------------
(* The websocket.                                                          *)

\* A connection that cannot be made is not tried again: only on_close connects.
Open(c) ==
  /\ ws[c] = "pending"
  /\ \E s \in {"open", "failed"} : ws' = [ws EXCEPT ![c] = s]
  /\ UNCHANGED <<closeVars, hello, heartVars, is_websocket_restart, restartVars, tokenVars>>

\* The library terminates a connection that is lost, or closing, and calls the
\* handler when the socket is shut down: twice if the deadline of that races
\* its end.
Terminate(c) ==
  /\ ws[c] \in {"open", "closing"}
  /\ ws' = [ws EXCEPT ![c] = "closed"]
  /\ \/ onclose' = onclose + 1 /\ UNCHANGED again
     \/ again < MaxAgain /\ onclose' = onclose + 2 /\ again' = again + 1
  /\ UNCHANGED <<hello, heartVars, is_websocket_restart, restartVars, tokenVars>>

\* on_close asks for a connection, whichever closed, unless get_connection fails.
OnClose ==
  /\ onclose > 0 /\ onclose' = onclose - 1
  /\ \/ \E c \in Conns :
          /\ ws[c] = "none" /\ \A d \in 1 .. c - 1 : ws[d] # "none"
          /\ ws' = [ws EXCEPT ![c] = "pending"]
     \/ UNCHANGED ws
  /\ UNCHANGED <<again, hello, heartVars, is_websocket_restart, restartVars, tokenVars>>

-----------------------------------------------------------------------------
(* Opcode 10, on a task of its own.                                        *)

Hello(c) ==
  /\ ws[c] = "open" /\ hello[c] = "none"
  /\ hello' = [hello EXCEPT ![c] = "hello"]
  /\ UNCHANGED <<ws, closeVars, heartVars, is_websocket_restart, restartVars, tokenVars>>

TestFlag(c) ==
  /\ hello[c] = "hello"
  /\ hello' = [hello EXCEPT ![c] = IF is_websocket_restart THEN "resume" ELSE "auth"]
  /\ UNCHANGED <<ws, closeVars, heartVars, is_websocket_restart, restartVars, tokenVars>>

\* A resume or an identification; a failed one is logged and goes on.
Identify(c) ==
  /\ \/ hello[c] = "resume" /\ ws[c] = "open" /\ hello' = [hello EXCEPT ![c] = "reset"]
     \/ hello[c] = "resume" /\ ws[c] # "open" /\ hello' = [hello EXCEPT ![c] = "token"]
     \/ hello[c] = "auth" /\ hello' = [hello EXCEPT ![c] = "token"]
  /\ UNCHANGED <<ws, closeVars, heartVars, is_websocket_restart, restartVars, tokenVars>>

\* Also when a restart asked for another resume since the flag was tested.
ResetFlag(c) ==
  /\ hello[c] = "reset"
  /\ is_websocket_restart' = FALSE
  /\ hello' = [hello EXCEPT ![c] = "token"]
  /\ UNCHANGED <<ws, closeVars, heartVars, restartVars, tokenVars>>

\* The task gets a copy of the token as it is now, canceled or not.
MakeHeart(c) ==
  /\ hello[c] = "token"
  /\ heart' = [heart EXCEPT ![c] = "check"]
  /\ heartToken' = [heartToken EXCEPT ![c] = token]
  /\ hello' = [hello EXCEPT ![c] = "assign"]
  /\ UNCHANGED <<ws, closeVars, t, is_websocket_restart, restartVars, tokenVars>>

AssignTask(c) ==
  /\ hello[c] = "assign"
  /\ t' = c
  /\ hello' = [hello EXCEPT ![c] = "done"]
  /\ UNCHANGED <<ws, closeVars, heart, heartToken, is_websocket_restart, restartVars, tokenVars>>

-----------------------------------------------------------------------------
(* The heartbeat task.                                                     *)

\* Mutant: the loop does not look at the token.
SeesCancelOnce(c) == heart[c] = "check" /\ heartToken[c] \in canceled

SeesCancel(c) == heart[c] \in {"check", "beat"} /\ heartToken[c] \in canceled

\* The first heartbeat is sent without a further look at the token.
SendFails(c) == heart[c] \in {"first", "beat"} /\ ws[c] # "open"

StopHeart(c) ==
  /\ SeesCancel(c) \/ SendFails(c)
  /\ heart' = [heart EXCEPT ![c] = "over"]
  /\ UNCHANGED <<ws, closeVars, hello, heartToken, t, is_websocket_restart, restartVars, tokenVars>>

Beat(c) ==
  /\ \/ heart[c] = "check" /\ ~SeesCancel(c) /\ heart' = [heart EXCEPT ![c] = "first"]
     \/ heart[c] = "first" /\ ~SendFails(c) /\ heart' = [heart EXCEPT ![c] = "beat"]
  /\ UNCHANGED <<ws, closeVars, hello, heartToken, t, is_websocket_restart, restartVars, tokenVars>>

-----------------------------------------------------------------------------
(* Restart.                                                                *)

Identified(c) == hello[c] \in {"reset", "token", "assign", "done"}

\* Restart r goes on at pc.
Goto(r, pc) == restart' = [restart EXCEPT ![r].at = pc] /\ UNCHANGED awaits

\* Message on connection c begins restart r, which sets the flag to resumes.
Request(r, c, resumes) ==
  /\ ws[c] = "open" /\ restart[r].at = "none"
  /\ restart' = [restart EXCEPT ![r] = [at |-> "flag", conn |-> c, resumes |-> resumes]]
  /\ UNCHANGED <<ws, closeVars, hello, heartVars, is_websocket_restart, awaits, tokenVars>>

\* Opcode 7 may come at any time after the hello, opcode 9 in answer to an
\* identification or a resume, and the owner's command once events flow.
Reconnect(r, c) == hello[c] # "none" /\ Request(r, c, TRUE)
InvalidSession(r, c) == Identified(c) /\ Request(r, c, FALSE)
RestartCommand(r, c) == Identified(c) /\ Request(r, c, TRUE)

SetFlag(r) ==
  /\ restart[r].at = "flag"
  /\ is_websocket_restart' = restart[r].resumes
  /\ Goto(r, "cancel")
  /\ UNCHANGED <<ws, closeVars, hello, heartVars, tokenVars>>

Cancel(r) ==
  /\ restart[r].at = "cancel"
  /\ canceled' = canceled \cup {cts}
  /\ Goto(r, "wait")
  /\ UNCHANGED <<ws, closeVars, hello, heartVars, is_websocket_restart, cts, token>>

\* Mutant: a task that was never made is waited for as well.
AwaitAny(r) ==
  restart' = [restart EXCEPT ![r].at = "await"] /\ awaits' = [awaits EXCEPT ![r] = t]

\* wait() throws on a task that was never made.
Await(r) ==
  \/ t = 0 /\ Goto(r, "failed")
  \/ /\ t # 0 /\ awaits' = [awaits EXCEPT ![r] = t]
     /\ restart' = [restart EXCEPT ![r].at = "await"]

WaitHeart(r) ==
  /\ restart[r].at = "wait" /\ Await(r)
  /\ UNCHANGED <<ws, closeVars, hello, heartVars, is_websocket_restart, tokenVars>>

HeartOver(r) ==
  /\ restart[r].at = "await" /\ heart[awaits[r]] = "over"
  /\ restart' = [restart EXCEPT ![r].at = "close"] /\ awaits' = [awaits EXCEPT ![r] = 0]
  /\ UNCHANGED <<ws, closeVars, hello, heartVars, is_websocket_restart, tokenVars>>

\* Mutant: a close that fails ends the restart without an exception.
CloseFailsQuietly(r) ==
  Goto(r, IF ws[restart[r].conn] = "open" THEN "frame" ELSE "done")

\* close throws unless the connection is open.
CloseThrows(r) ==
  Goto(r, IF ws[restart[r].conn] = "open" THEN "frame" ELSE "failed")

\* From its test to the end of the close frame close() holds a lock, which
\* another restart of the same connection waits for.
CloseTest(r) ==
  /\ restart[r].at = "close" /\ CloseThrows(r)
  /\ \A q \in Restarts : restart[q].at = "frame" => restart[q].conn # restart[r].conn
  /\ UNCHANGED <<ws, closeVars, hello, heartVars, is_websocket_restart, tokenVars>>

\* Mutant: restart makes the next connection itself.
SendCloseAndConnect(c) ==
  ws' = [d \in Conns |-> IF d = c THEN "closing" ELSE IF d = c + 1 THEN "pending" ELSE ws[d]]

\* The state is set to closing whatever it is by now: terminate takes no lock.
SendClose(c) == ws' = [ws EXCEPT ![c] = "closing"]

\* A connection that was terminated since the test will be once more.
Close(r) ==
  /\ restart[r].at = "frame"
  /\ SendClose(restart[r].conn)
  /\ again' = IF ws[restart[r].conn] = "closed" THEN again + 1 ELSE again
  /\ Goto(r, "source")
  /\ UNCHANGED <<onclose, hello, heartVars, is_websocket_restart, tokenVars>>

NewSource(r) ==
  /\ restart[r].at = "source"
  /\ cts' = r
  /\ Goto(r, "token")
  /\ UNCHANGED <<ws, closeVars, hello, heartVars, is_websocket_restart, token, canceled>>

\* Mutant: the token is that of the restart's own source.
TakeOwnToken(r) == token' = r

TakeToken(r) == token' = cts

GetToken(r) ==
  /\ restart[r].at = "token"
  /\ TakeToken(r)
  /\ Goto(r, "done")
  /\ UNCHANGED <<ws, closeVars, hello, heartVars, is_websocket_restart, cts, canceled>>

-----------------------------------------------------------------------------
\* An exception in a message's task, which nobody observes, ends the program.
Running == \A r \in Restarts : restart[r].at # "failed"

HelloStep(c) == TestFlag(c) \/ Identify(c) \/ ResetFlag(c) \/ MakeHeart(c) \/ AssignTask(c)

HeartStep(c) == Running /\ (StopHeart(c) \/ Beat(c))

RestartStep(r) ==
  /\ Running
  /\ \/ SetFlag(r) \/ Cancel(r) \/ WaitHeart(r) \/ HeartOver(r)
     \/ CloseTest(r) \/ Close(r) \/ NewSource(r) \/ GetToken(r)

Next ==
  /\ Running
  /\ \/ \E c \in Conns :
          Open(c) \/ Terminate(c) \/ Hello(c) \/ HelloStep(c) \/ HeartStep(c)
     \/ OnClose
     \/ \E r \in Restarts :
          \/ RestartStep(r)
          \/ \E c \in Conns : Reconnect(r, c) \/ InvalidSession(r, c) \/ RestartCommand(r, c)

Spec == Init /\ [][Next]_vars

\* Tasks are scheduled; Discord, the network and the owner promise nothing.
FairSpec == Spec /\ (\A c \in Conns : WF_vars(HeartStep(c)))
                 /\ (\A r \in Restarts : WF_vars(RestartStep(r)))

-----------------------------------------------------------------------------
(* Properties.                                                             *)

\* However restarts overlap, field token belongs to the source in field cts,
\* so that the next restart cancels the heartbeat that the next hello starts.
SourceAndTokenAgree == cts # token => \E r \in Restarts : restart[r].at = "token"

\* The token that a hello hands to its heartbeat is canceled only while a
\* restart is under way, however restarts and hellos overlap: a restart that
\* threw before it renewed the token has ended the program.  No other course
\* leaves the bot running without a heartbeat.
UnderWay == {"wait", "await", "close", "frame", "source", "token"}
CanceledByRestart ==
  token \in canceled => ~Running \/ \E r \in Restarts : restart[r].at \in UnderWay

\* A restart closes the connection on one thread while the library terminates
\* it and on_close replaces it on another: there is one connection at a time,
\* or one to come, and one more for each time that the library calls on_close
\* again for a connection it had called it for.
Current == {c \in Conns : ws[c] \in {"pending", "open", "closing"}}
OneConnection == Cardinality(Current) + onclose <= 1 + again

\* A restart waits for ever only on a heartbeat that holds a token which is not
\* canceled: another restart renewed it in between.
RestartIsNotStuck ==
  \A r \in Restarts : restart[r].at = "await" ~>
    restart[r].at # "await" \/ heartToken[awaits[r]] \notin canceled \/ ~Running
=============================================================================
