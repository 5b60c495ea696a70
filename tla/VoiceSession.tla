---------------------------- MODULE VoiceSession ----------------------------
(***************************************************************************)
(* The voice sessions of one guild.  Each VOICE_SERVER_UPDATE makes a task *)
(* that calls voiceclient::start, which overwrites the one set of fields   *)
(* of the voice client, a field at a time, and asks for one more           *)
(* connection: nothing stops the old one.  Handlers of opcodes 8, 2 and 4  *)
(* are tasks; each connection has a heartbeat task; on_close runs on the   *)
(* thread of c.run().                                                      *)
(*                                                                         *)
(* Calls of start are numbered in the order in which they set the field    *)
(* _token, so c stands for the call, its connection, the values it sets    *)
(* and its key at once, and 0 for none of them.  guildid and user_id are   *)
(* the same in every call, and endpoint is not read again.                 *)
(***************************************************************************)
EXTENDS Naturals, Sequences, FiniteSets

CONSTANTS
  MaxConns,   \* bound: calls of start()
  MaxTasks    \* bound: handlers at work at the same time, heartbeats and on_close aside

ASSUME ConnAssumption == MaxConns \in Nat \ {0}

Conns == 1 .. MaxConns
WholeKey == 2       \* parts of a key: 32 bytes in the code

VARIABLES
  latest,      \* calls of start() so far
  starting,    \* where each call of start() is
  overlap,     \* history: calls that had yet to set session when each began
  ws,          \* each connection, with the on_close that ends it
  hello,       \* handler of each connection's opcode 8
  talk,        \* handlers of its opcodes 2 and 4, or what they wait for
  heart,       \* heartbeat task of each connection
  token_,      \* the field _token: the call it is from
  session,     \* the field session: the call it is from
  sentSession, \* the session each hello has read to send it
  sentToken,   \* the _token it sends with it
  key,         \* the vector, each part named by the session it is from
  socket,      \* session that udpclient has its socket from, 0 if it is closed
  receiving,   \* session whose socket each discovery reads, 0 once it is closed
  state,       \* a session description arrived
  connect,     \* the same, reset at the end of on_close
  canceled,    \* the token of heartbeats is canceled
  t,           \* connection of the last heartbeat task, 0 for a task never made
  awaited,     \* the heartbeat each on_close waits for
  first_time,  \* start() has made no pusher yet
  pushers,     \* pusher tasks, each made with one io thread
  ended        \* what ended the program: "no", or a failing "socket" or
               \* "reply", or the exception of a "task"

startVars == <<latest, starting, overlap, first_time, pushers>>
credentialVars == <<token_, session>>
helloVars == <<hello, sentSession, sentToken>>
udpVars == <<socket, receiving>>
flagVars == <<state, connect>>
heartVars == <<heart, canceled, t, awaited>>
vars == <<startVars, credentialVars, helloVars, ws, talk, key, udpVars, flagVars,
          heartVars, ended>>

StartPC == {"none", "session", "connect", "first", "launch", "done", "failed"}
HelloPC == {"none", "hello", "token", "heart", "assign", "done"}
TalkPC == {"none", "identified", "ready", "udp", "discover", "selected", "key", "rest",
           "state", "connect", "done"}
WsPC == {"none", "pending", "open", "lost", "wipe", "cancel", "await", "wait", "renew",
         "closed"}

DataTypeOK ==
  /\ latest \in 0 .. MaxConns
  /\ starting \in [Conns -> StartPC] /\ overlap \in [Conns -> SUBSET Conns]
  /\ ws \in [Conns -> WsPC]
  /\ hello \in [Conns -> HelloPC]
  /\ talk \in [Conns -> TalkPC]
  /\ heart \in [Conns -> {"none", "check", "beat", "over"}]
  /\ token_ \in 0 .. MaxConns /\ session \in 0 .. MaxConns
  /\ sentSession \in [Conns -> 0 .. MaxConns]
  /\ sentToken \in [Conns -> 0 .. MaxConns]
  /\ key \in Seq(Conns)
  /\ socket \in 0 .. MaxConns
  /\ receiving \in [Conns -> 0 .. MaxConns]
  /\ t \in 0 .. MaxConns
  /\ awaited \in [Conns -> 0 .. MaxConns]
  /\ pushers \in Nat

FlagTypeOK ==
  /\ state \in BOOLEAN /\ connect \in BOOLEAN /\ canceled \in BOOLEAN
  /\ first_time \in BOOLEAN
  /\ ended \in {"no", "socket", "reply", "task"}

TypeOK == DataTypeOK /\ FlagTypeOK

Init ==
  /\ latest = 0 /\ starting = [c \in Conns |-> "none"]
  /\ overlap = [c \in Conns |-> {}]
  /\ ws = [c \in Conns |-> "none"] /\ talk = [c \in Conns |-> "none"]
  /\ hello = [c \in Conns |-> "none"] /\ heart = [c \in Conns |-> "none"]
  /\ sentSession = [c \in Conns |-> 0] /\ sentToken = [c \in Conns |-> 0]
  /\ token_ = 0 /\ session = 0 /\ key = <<>> /\ socket = 0
  /\ receiving = [c \in Conns |-> 0]
  /\ state = FALSE /\ connect = FALSE /\ canceled = FALSE
  /\ t = 0 /\ awaited = [c \in Conns |-> 0]
  /\ first_time = TRUE /\ pushers = 0
  /\ ended = "no"

-----------------------------------------------------------------------------
(* start(), on the task of a VOICE_SERVER_UPDATE.                          *)

Starts == {c \in Conns : starting[c] \in {"session", "connect", "first", "launch"}}
Hellos == {c \in Conns : hello[c] \in {"hello", "token", "heart", "assign"}}
Talks == {c \in Conns : talk[c] \notin {"none", "identified", "selected", "done"}}

TaskFree == Cardinality(Starts) + Cardinality(Hellos) + Cardinality(Talks) < MaxTasks

\* Mutant: a token that is there already is kept.
RememberOnce(c) == token_' = IF token_ = 0 THEN c ELSE token_

Remember(c) == token_' = c

\* The fields are overwritten, whichever session they belong to: _token first,
SetToken(c) ==
  /\ TaskFree
  /\ c = latest + 1 /\ latest' = c
  /\ Remember(c)
  /\ overlap' = [overlap EXCEPT ![c] = {d \in Conns : starting[d] = "session"}]
  /\ starting' = [starting EXCEPT ![c] = "session"]
  /\ UNCHANGED <<first_time, pushers, session, helloVars, ws, talk, key, udpVars, flagVars,
                 heartVars, ended>>

\* and then session.
SetSession(c) ==
  /\ starting[c] = "session"
  /\ starting' = [starting EXCEPT ![c] = "connect"]
  /\ session' = c
  /\ UNCHANGED <<latest, overlap, first_time, pushers, token_, helloVars, ws, talk, key,
                 udpVars, flagVars, heartVars, ended>>

\* Mutant: the connection counts as established when it is asked for.
RequestConnectionEarly(c) ==
  /\ starting[c] = "connect"
  /\ starting' = [starting EXCEPT ![c] = "first"]
  /\ ws' = [ws EXCEPT ![c] = "pending"] /\ connect' = TRUE
  /\ UNCHANGED <<latest, overlap, first_time, pushers, credentialVars, helloVars, talk, key,
                 udpVars, state, heartVars, ended>>

RequestConnection(c) ==
  /\ starting[c] = "connect"
  /\ starting' = [starting EXCEPT ![c] = "first"]
  /\ ws' = [ws EXCEPT ![c] = "pending"]
  /\ UNCHANGED <<latest, overlap, first_time, pushers, credentialVars, helloVars, talk, key,
                 udpVars, flagVars, heartVars, ended>>

\* get_connection fails, and start() returns with the fields set.
RequestFails(c) ==
  /\ starting[c] = "connect"
  /\ starting' = [starting EXCEPT ![c] = "failed"]
  /\ UNCHANGED <<latest, overlap, first_time, pushers, credentialVars, helloVars, ws, talk,
                 key, udpVars, flagVars, heartVars, ended>>

\* first_time is tested here and reset in the next step.
TestFirstTime(c) ==
  /\ starting[c] = "first"
  /\ starting' = [starting EXCEPT ![c] = IF first_time THEN "launch" ELSE "done"]
  /\ UNCHANGED <<latest, overlap, first_time, pushers, credentialVars, helloVars, ws, talk,
                 key, udpVars, flagVars, heartVars, ended>>

\* The io thread and the pusher are created.
Launch(c) ==
  /\ starting[c] = "launch"
  /\ starting' = [starting EXCEPT ![c] = "done"]
  /\ first_time' = FALSE /\ pushers' = pushers + 1
  /\ UNCHANGED <<latest, overlap, credentialVars, helloVars, ws, talk, key, udpVars, flagVars,
                 heartVars, ended>>

-----------------------------------------------------------------------------
(* Connections and opcodes.  on_close keeps an io thread busy.             *)

Closing == {"wipe", "cancel", "await", "wait", "renew"}
IoThreadFree == Cardinality({c \in Conns : ws[c] \in Closing}) < pushers

Open(c) ==
  /\ IoThreadFree /\ ws[c] = "pending"
  /\ ws' = [ws EXCEPT ![c] = "open"]
  /\ UNCHANGED <<startVars, credentialVars, helloVars, talk, key, udpVars, flagVars,
                 heartVars, ended>>

\* Discord or the network closes it; sends fail from here on.
Lose(c) ==
  /\ ws[c] = "open"
  /\ ws' = [ws EXCEPT ![c] = "lost"]
  /\ UNCHANGED <<startVars, credentialVars, helloVars, talk, key, udpVars, flagVars,
                 heartVars, ended>>

\* An opcode reaches a free io thread, which makes a task for it.  A hello
\* without an interval or a description without a key changes nothing.
Receives(c) == TaskFree /\ IoThreadFree /\ ws[c] = "open"

Hello(c) ==
  /\ Receives(c) /\ hello[c] = "none"
  /\ hello' = [hello EXCEPT ![c] = "hello"]
  /\ UNCHANGED <<startVars, credentialVars, sentSession, sentToken, ws, talk, key, udpVars,
                 flagVars, heartVars, ended>>

ReceiveTalk(c, from, to) ==
  /\ Receives(c) /\ talk[c] = from
  /\ talk' = [talk EXCEPT ![c] = to]
  /\ UNCHANGED <<startVars, credentialVars, helloVars, ws, key, udpVars, flagVars,
                 heartVars, ended>>

Ready(c) == ReceiveTalk(c, "identified", "ready")
SessionDescription(c) == ReceiveTalk(c, "selected", "key")

\* Opcode 8: the payload is put together from the fields as they are, session
\* first,
ReadSession(c) ==
  /\ hello[c] = "hello"
  /\ hello' = [hello EXCEPT ![c] = "token"]
  /\ sentSession' = [sentSession EXCEPT ![c] = session]
  /\ UNCHANGED <<startVars, credentialVars, sentToken, ws, talk, key, udpVars, flagVars,
                 heartVars, ended>>

\* then _token, and sent.  Discord goes on with a connection that sent its own
\* token and a session, which may be that of another call: calls share it while
\* the gateway's lasts.
Identify(c) ==
  /\ hello[c] = "token"
  /\ hello' = [hello EXCEPT ![c] = "heart"]
  /\ sentToken' = [sentToken EXCEPT ![c] = token_]
  /\ talk' = [talk EXCEPT ![c] =
       IF token_ = c /\ sentSession[c] # 0 THEN "identified" ELSE "none"]
  /\ UNCHANGED <<startVars, credentialVars, sentSession, ws, key, udpVars, flagVars,
                 heartVars, ended>>

\* The heartbeat task is made,
MakeHeart(c) ==
  /\ hello[c] = "heart"
  /\ hello' = [hello EXCEPT ![c] = "assign"]
  /\ heart' = [heart EXCEPT ![c] = "check"]
  /\ sentSession' = [sentSession EXCEPT ![c] = 0]
  /\ sentToken' = [sentToken EXCEPT ![c] = 0]
  /\ UNCHANGED <<startVars, credentialVars, ws, talk, key, udpVars, flagVars, canceled, t,
                 awaited, ended>>

\* and assigned.
AssignTask(c) ==
  /\ hello[c] = "assign"
  /\ hello' = [hello EXCEPT ![c] = "done"]
  /\ t' = c
  /\ UNCHANGED <<startVars, credentialVars, sentToken, sentSession, ws, talk, key, udpVars,
                 flagVars, heart, canceled, awaited, ended>>

\* Mutant: the socket udpclient had is closed first, as renew() does.
StartUdpAnew(c) ==
  /\ talk[c] = "ready"
  /\ talk' = [talk EXCEPT ![c] = "udp"]
  /\ socket' = c
  /\ receiving' = [d \in Conns |-> IF receiving[d] = socket THEN 0 ELSE receiving[d]]
  /\ UNCHANGED <<startVars, credentialVars, helloVars, ws, key, flagVars, heartVars, ended>>

\* Opcode 2: udpclient gets a socket of its own; one it had is not closed.
StartUdp(c) ==
  /\ talk[c] = "ready"
  /\ talk' = [talk EXCEPT ![c] = "udp"]
  /\ socket' = c
  /\ UNCHANGED <<startVars, credentialVars, helloVars, ws, key, receiving, flagVars,
                 heartVars, ended>>

\* WSAStartup() or socket() fails, and start() ends the program.
StartUdpFails(c) ==
  /\ talk[c] = "ready" /\ ended' = "socket"
  /\ UNCHANGED <<startVars, credentialVars, helloVars, ws, talk, key, udpVars, flagVars,
                 heartVars>>

\* The request is sent, whatever send() returns, and the reply awaited without
\* a limit.
Discover(c) ==
  /\ talk[c] = "udp"
  /\ talk' = [talk EXCEPT ![c] = "discover"]
  /\ receiving' = [receiving EXCEPT ![c] = socket]
  /\ UNCHANGED <<startVars, credentialVars, helloVars, ws, key, socket, flagVars,
                 heartVars, ended>>

\* The reply, which may be lost, and the address that is found in it.
SelectProtocol(c) ==
  /\ talk[c] = "discover" /\ receiving[c] # 0
  /\ talk' = [talk EXCEPT ![c] = "selected"]
  /\ receiving' = [receiving EXCEPT ![c] = 0]
  /\ UNCHANGED <<startVars, credentialVars, helloVars, ws, key, socket, flagVars,
                 heartVars, ended>>

\* recvfrom() fails, as it must on a closed socket and may on any, and get()
\* ends the program.
ExitProgram(c) ==
  /\ talk[c] = "discover" /\ ended' = "reply"
  /\ UNCHANGED <<startVars, credentialVars, helloVars, ws, talk, key, udpVars, flagVars,
                 heartVars>>

\* Mutant: the part is taken from the session of the socket.
PushPartOfSocket(c) == key' = Append(key, socket)

PushPart(c) == key' = Append(key, c)

\* Opcode 4: the key is added behind what is there, in two parts because
\* on_close and the opcode 4 of another session may come in between.
PushKey(c) ==
  /\ \/ talk[c] = "key" /\ talk' = [talk EXCEPT ![c] = "rest"]
     \/ talk[c] = "rest" /\ talk' = [talk EXCEPT ![c] = "state"]
  /\ PushPart(c)
  /\ UNCHANGED <<startVars, credentialVars, helloVars, ws, udpVars, flagVars, heartVars, ended>>

SetState(c) ==
  /\ talk[c] = "state"
  /\ talk' = [talk EXCEPT ![c] = "connect"]
  /\ state' = TRUE
  /\ UNCHANGED <<startVars, credentialVars, helloVars, ws, key, udpVars, connect,
                 heartVars, ended>>

\* unlockPusher follows, in module Pusher.
SetConnect(c) ==
  /\ talk[c] = "connect"
  /\ talk' = [talk EXCEPT ![c] = "done"]
  /\ connect' = TRUE
  /\ UNCHANGED <<startVars, credentialVars, helloVars, ws, key, udpVars, state,
                 heartVars, ended>>

-----------------------------------------------------------------------------
(* The heartbeat task: token is read through a pointer to the field.       *)

\* Mutant: the token is not looked at again inside the loop.
SeesCancelOnce(c) == canceled /\ heart[c] = "check"

SeesCancel(c) == canceled /\ heart[c] \in {"check", "beat"}

\* Mutant: the error code of the send is not looked at.
SendFailsUnseen(c) == FALSE

SendFails(c) == ws[c] # "open"

StopHeart(c) ==
  /\ heart[c] \in {"check", "beat"}
  /\ SeesCancel(c) \/ SendFails(c)
  /\ heart' = [heart EXCEPT ![c] = "over"]
  /\ UNCHANGED <<startVars, credentialVars, helloVars, ws, talk, key, udpVars, flagVars,
                 canceled, t, awaited, ended>>

Beat(c) ==
  /\ heart[c] = "check" /\ ~canceled /\ ~SendFails(c)
  /\ heart' = [heart EXCEPT ![c] = "beat"]
  /\ UNCHANGED <<startVars, credentialVars, helloVars, ws, talk, key, udpVars, flagVars,
                 canceled, t, awaited, ended>>

-----------------------------------------------------------------------------
(* on_close, on an io thread.                                              *)

\* The fields are emptied, whichever session they belong to, _token first.
WipeToken(c) ==
  /\ IoThreadFree /\ ws[c] = "lost"
  /\ ws' = [ws EXCEPT ![c] = "wipe"]
  /\ state' = FALSE /\ token_' = 0
  /\ UNCHANGED <<startVars, session, helloVars, talk, key, udpVars, connect, heartVars, ended>>

WipeSession(c) ==
  /\ ws[c] = "wipe"
  /\ ws' = [ws EXCEPT ![c] = "cancel"]
  /\ session' = 0 /\ key' = <<>>
  /\ UNCHANGED <<startVars, token_, helloVars, talk, udpVars, flagVars, heartVars, ended>>

\* The last heartbeat task is awaited only if a key had arrived.
CancelHeart(c) ==
  /\ ws[c] = "cancel"
  /\ canceled' = TRUE
  /\ ws' = [ws EXCEPT ![c] = IF connect THEN "await" ELSE "renew"]
  /\ UNCHANGED <<startVars, credentialVars, helloVars, talk, key, udpVars, flagVars,
                 heart, t, awaited, ended>>

\* wait() throws on a task that was never made, which ends the program.
AwaitHeart(c) ==
  /\ ws[c] = "await"
  /\ \/ /\ t # 0 /\ awaited' = [awaited EXCEPT ![c] = t]
        /\ ws' = [ws EXCEPT ![c] = "wait"] /\ UNCHANGED ended
     \/ t = 0 /\ ended' = "task" /\ UNCHANGED <<ws, awaited>>
  /\ UNCHANGED <<startVars, credentialVars, helloVars, talk, key, udpVars, flagVars,
                 heart, canceled, t>>

WaitHeart(c) ==
  /\ ws[c] = "wait" /\ heart[awaited[c]] = "over"
  /\ ws' = [ws EXCEPT ![c] = "renew"] /\ awaited' = [awaited EXCEPT ![c] = 0]
  /\ UNCHANGED <<startVars, credentialVars, helloVars, talk, key, udpVars, flagVars,
                 heart, canceled, t, ended>>

\* The player is canceled (module Player), the socket closed, under whoever
\* reads it, and token renewed.
RenewToken(c) ==
  /\ ws[c] = "renew"
  /\ ws' = [ws EXCEPT ![c] = "closed"]
  /\ socket' = 0 /\ canceled' = FALSE /\ connect' = FALSE
  /\ receiving' = [d \in Conns |-> IF receiving[d] = socket THEN 0 ELSE receiving[d]]
  /\ UNCHANGED <<startVars, credentialVars, helloVars, talk, key, state, heart, t,
                 awaited, ended>>

-----------------------------------------------------------------------------
StartStep(c) ==
  SetSession(c) \/ RequestConnection(c) \/ RequestFails(c) \/ TestFirstTime(c) \/ Launch(c)

HelloStep(c) == ReadSession(c) \/ Identify(c) \/ MakeHeart(c) \/ AssignTask(c)

TalkStep(c) ==
  \/ StartUdp(c) \/ StartUdpFails(c) \/ Discover(c) \/ SelectProtocol(c) \/ ExitProgram(c)
  \/ PushKey(c) \/ SetState(c) \/ SetConnect(c)

Running == ended = "no"

HeartStep(c) == Running /\ (StopHeart(c) \/ Beat(c))

CloseStep(c) ==
  /\ Running
  /\ \/ WipeToken(c) \/ WipeSession(c) \/ CancelHeart(c) \/ AwaitHeart(c) \/ WaitHeart(c)
     \/ RenewToken(c)

Outside(c) ==
  \/ SetToken(c) \/ Open(c) \/ Lose(c)
  \/ Hello(c) \/ Ready(c) \/ SessionDescription(c)

Next == \E c \in Conns :
  \/ Running /\ (StartStep(c) \/ HelloStep(c) \/ TalkStep(c) \/ Outside(c))
  \/ HeartStep(c) \/ CloseStep(c)

Spec == Init /\ [][Next]_vars

\* Heartbeat tasks and io threads are scheduled.  Nothing more is assumed:
\* the handlers' tasks, Discord and the network promise nothing.
FairSpec == Spec /\ \A c \in Conns : WF_vars(HeartStep(c)) /\ WF_vars(CloseStep(c))

-----------------------------------------------------------------------------
(* Properties.                                                             *)

\* A connection identifies itself with the token of its own call of start(), of
\* a later one or with none, and with such a session too, but for one case: a
\* call that had set its token and not its session when this one began may set
\* it any time later.  What was closed or replaced before never returns.
NeverOlderCredentials == \A c \in Conns :
  /\ sentToken[c] # 0 => sentToken[c] >= c
  /\ sentSession[c] # 0 => sentSession[c] >= c \/ sentSession[c] \in overlap[c]

\* on_close never waits on a heartbeat task that was not created; it finds none
\* to wait for, which ends the program, only while the handler of some hello
\* stands between sending its identification and assigning its task.
WaitsOnATask ==
  /\ \A c \in Conns : ws[c] = "wait" => awaited[c] # 0 /\ heart[awaited[c]] # "none"
  /\ (ended = "task" \/ \E c \in Conns : ws[c] = "await" /\ t = 0) =>
       \E d \in Conns : hello[d] \in {"heart", "assign"}

\* A connection has a pusher and an io thread, although the flag that makes
\* them is tested and reset in different steps and a start() may fail.
SessionsHaveAPusher == \A c \in Conns : starting[c] = "done" => pushers > 0

\* A discovery whose socket is gone, which ends the program, lost it to the
\* close of a session: two sessions that set up udpclient at the same time do
\* not take it from each other.
SocketLostToAClose == \A c \in Conns :
  talk[c] = "discover" /\ receiving[c] = 0 => \E d \in Conns : ws[d] = "closed"

\* Every on_close under way ends, or the program does; with two io threads one
\* on_close may renew the token that another one has canceled for a heartbeat
\* it waits for.
CloseFinishes ==
  []<>((\A c \in Conns : ws[c] \notin Closing) \/ pushers > 1 \/ ~Running)

\* The heartbeat of a closed connection ends, also when on_close renewed the
\* token before the heartbeat looked at it.
ClosedHeartEnds ==
  []<>((\A c \in Conns : ws[c] = "closed" => heart[c] \in {"none", "over"}) \/ ~Running)

\* "set true: when encrypt key received" (comment on state): a player that
\* sees state set finds a whole key.
StateMeansKey == state => Len(key) >= WholeKey
=============================================================================
