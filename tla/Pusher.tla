------------------------------- MODULE Pusher -------------------------------
(***************************************************************************)
(* The song queue of one guild and the threads that share it: the pusher   *)
(* task that voiceclient::start creates, the PPL tasks that run gateway    *)
(* commands, start() itself and voice opcode 4, and the close handler of   *)
(* the voice websocket.  Each runs on a thread of its own, so a step below *)
(* is one access to the state they share.  play() appears here as its      *)
(* effect on the queue's threads only; module Player opens it.             *)
(*                                                                         *)
(* start() means to create one pusher, but tests and resets first_time     *)
(* without a lock: two of them may each create one, so there is a set of   *)
(* pushers here, which share everything but their idle count.              *)
(*                                                                         *)
(* pusher_lock, running_lock and selfqueue_lock guard one short section    *)
(* each, so a section is one step; what is left of a lock is whether a     *)
(* thread went away without releasing it.                                  *)
(***************************************************************************)
EXTENDS Naturals, Sequences, FiniteSets

CONSTANTS
  Songs,            \* video ids
  Channels,         \* voice channels of the guild
  Tasks,            \* PPL threads that run message handlers
  Pushers,          \* bound: pusher tasks that start() may come to create
  None,             \* "" in the code: no song, no channel
  Commands,         \* bound: what the users of the guild do
  IdleLimit,        \* 55555 in the code: idle rounds before giving up
  MaxQueue,         \* bound: songs queued or being queued
  MaxConns,         \* bound: voice websockets at the same time
  MaxDisconnects    \* bound: pending requests to leave for inactivity

ASSUME NoneAssumption == None \notin Songs /\ None \notin Channels
ASSUME CommandAssumption == Commands \subseteq {"play", "join", "leave", "loop", "admin"}
ASSUME BoundAssumption ==
  /\ IdleLimit \in Nat \ {0}
  /\ MaxQueue \in Nat \ {0}
  /\ MaxConns \in Nat \ {0}
  /\ MaxDisconnects \in Nat

VARIABLES
  selfqueue,              \* songs waiting, the one being played at the head
  state,                  \* a session description arrived, no close since
  loop,                   \* ?loop is on
  nowplaying,             \* last song play() was called with
  is_pusher_locked,       \* flag that lockPusher sets and unlockPusher resets
  pusher_lock,            \* "free", or "leaked": its holder left without unlock
  running_lock,           \* the same for running_lock
  running,                \* flag of play() and its sender task
  first_time,             \* no start() has begun to create a pusher
  counter,                \* idle rounds, counted by each pusher for itself
  disconnect_queue,       \* entries of this guild in the gateway's queue
  pusher,                 \* where each pusher task is
  task,                   \* where each handler task is, and the song it is to queue
  opening,                \* voice websockets without a session description
  described,              \* voice websockets past it
  placed,                 \* Discord's record of the channel the bot is in
  serverUpdate,           \* a VOICE_SERVER_UPDATE is on its way
  cleared,                \* history: ?leave emptied the queue since the last poll
  crashed                 \* history: the queue an empty access was made on, or
                          \* "task": an exception nobody observes ended the program

commandVars == <<placed, serverUpdate>>
connVars == <<opening, described, first_time>>
gateVars == <<is_pusher_locked, pusher_lock, running_lock>>
idleVars == <<counter, disconnect_queue>>
vars == <<selfqueue, state, loop, nowplaying, running, gateVars, idleVars,
          pusher, task, connVars, commandVars, cleared, crashed>>

\* "exited" and "quit": left its loop at the gate, or at the player's flag.
PusherPC == {"none", "poll", "session", "count", "gate", "check", "start", "play",
             "pop", "wait", "requeue", "exited", "quit", "faulted"}
TaskPC == {"free", "lock", "push", "send", "clear", "sendnull", "test",
           "launch", "describe", "unlock", "ack", "acksend", "ackpop"}

Idle == [at |-> "free", song |-> None]

QueueTypeOK ==
  /\ selfqueue \in Seq(Songs)
  /\ nowplaying \in Songs \cup {None}

TaskTypeOK == task \in [Tasks -> [at : TaskPC, song : Songs \cup {None}]]

ChannelTypeOK == placed \in Channels \cup {None} /\ serverUpdate \in BOOLEAN

CounterTypeOK ==
  /\ counter \in [Pushers -> 0 .. IdleLimit - 1]
  /\ disconnect_queue \in 0 .. MaxDisconnects
  /\ opening \in Nat /\ described \in Nat /\ opening + described <= MaxConns

FlagTypeOK ==
  /\ state \in BOOLEAN /\ loop \in BOOLEAN /\ running \in BOOLEAN
  /\ is_pusher_locked \in BOOLEAN
  /\ pusher_lock \in {"free", "leaked"} /\ running_lock \in {"free", "leaked"}
  /\ first_time \in BOOLEAN
  /\ cleared \in BOOLEAN /\ crashed \in {"no", "selfqueue", "disconnect_queue", "task"}

PusherTypeOK == pusher \in [Pushers -> PusherPC]

TypeOK == /\ QueueTypeOK /\ TaskTypeOK /\ ChannelTypeOK /\ CounterTypeOK
          /\ FlagTypeOK /\ PusherTypeOK

Init ==
  /\ selfqueue = <<>> /\ nowplaying = None
  /\ state = FALSE /\ loop = FALSE /\ running = FALSE
  /\ is_pusher_locked = FALSE /\ pusher_lock = "free" /\ running_lock = "free"
  /\ placed = None /\ serverUpdate = FALSE
  /\ counter = [p \in Pushers |-> 0] /\ disconnect_queue = 0
  /\ first_time = TRUE
  /\ pusher = [p \in Pushers |-> "none"] /\ task = [t \in Tasks |-> Idle]
  /\ opening = 0 /\ described = 0
  /\ cleared = FALSE /\ crashed = "no"

-----------------------------------------------------------------------------
(* Tasks of the gateway and of the voice websocket.                        *)

\* An access to an empty queue is undefined, and nothing is modelled past it.
Alive == crashed = "no"

\* Thread t, or pusher p, is about to do the step named pc.
At(t, pc) == Alive /\ task[t].at = pc
PusherAt(p, pc) == Alive /\ pusher[p] = pc

\* Pusher p goes on at pc.
PusherGoto(p, pc) == pusher' = [pusher EXCEPT ![p] = pc]

\* More than one pusher has been created.
Made == {p \in Pushers : pusher[p] # "none"}
Several == \E p, q \in Made : p # q

\* A handler task begins at pc with song s.
Spawn(t, pc, s) ==
  /\ At(t, "free")
  /\ task' = [task EXCEPT ![t] = [at |-> pc, song |-> s]]

\* The task goes on at pc, keeping its song.
Goto(t, pc) == task' = [task EXCEPT ![t].at = pc]
Finish(t) == task' = [task EXCEPT ![t] = Idle]

Requesting == {t \in Tasks : task[t].at \in {"lock", "push"}}

\* ?p with a link, or the choice of a search result.  A user whose channel is
\* not the one the bot believes to be in makes the handler lock the pusher
\* before it queues; either may be, whatever channel the bot is in.
RequestSong(t, s) ==
  /\ "play" \in Commands
  /\ Len(selfqueue) + Cardinality(Requesting) < MaxQueue
  /\ Spawn(t, "push", s) \/ Spawn(t, "lock", s)
  /\ UNCHANGED <<selfqueue, state, loop, nowplaying, running, gateVars, idleVars,
                 pusher, connVars, commandVars, cleared, crashed>>

lockPusher(t) ==
  /\ At(t, "lock") /\ pusher_lock = "free"
  /\ is_pusher_locked' = TRUE
  /\ Goto(t, "push")
  /\ UNCHANGED <<selfqueue, state, loop, nowplaying, running, pusher_lock,
                 running_lock, idleVars, pusher, connVars, commandVars, cleared, crashed>>

\* Mutant: the queue is filled from its front.
QueueSongFirst(s) == selfqueue' = <<s>> \o selfqueue

QueueSong(s) == selfqueue' = Append(selfqueue, s)

PushSong(t) ==
  /\ At(t, "push")
  /\ QueueSong(task[t].song)
  /\ task' = [task EXCEPT ![t].at = "send", ![t].song = None]
  /\ UNCHANGED <<state, loop, nowplaying, running, gateVars, idleVars,
                 pusher, connVars, commandVars, cleared, crashed>>

\* Voice state update to Discord with the channel c the user is in by now.
\* Discord answers a change of channel with a VOICE_SERVER_UPDATE; a send error
\* is logged and nothing else.
SendVoiceState(t) ==
  /\ At(t, "send")
  /\ Finish(t)
  /\ \/ /\ \E c \in Channels \ {placed} : placed' = c
        /\ serverUpdate' = TRUE
     \/ UNCHANGED <<placed, serverUpdate>>
  /\ UNCHANGED <<selfqueue, state, loop, nowplaying, running, gateVars, idleVars,
                 pusher, connVars, cleared, crashed>>

\* ?join goes straight to the voice state update.
Join(t) ==
  /\ "join" \in Commands /\ Spawn(t, "send", None)
  /\ UNCHANGED <<selfqueue, state, loop, nowplaying, running, gateVars, idleVars,
                 pusher, connVars, commandVars, cleared, crashed>>

Leave(t) ==
  /\ "leave" \in Commands /\ Spawn(t, "clear", None)
  /\ UNCHANGED <<selfqueue, state, loop, nowplaying, running, gateVars, idleVars,
                 pusher, connVars, commandVars, cleared, crashed>>

\* voiceclient::clear swaps the queue away without selfqueue_lock.
Clear(t) ==
  /\ At(t, "clear")
  /\ selfqueue' = <<>> /\ cleared' = TRUE
  /\ Goto(t, "sendnull")
  /\ UNCHANGED <<state, loop, nowplaying, running, gateVars, idleVars,
                 pusher, connVars, commandVars, crashed>>

\* The update without a channel; a send that fails throws and ends the handler.
SendLeave(t) ==
  /\ At(t, "sendnull")
  /\ placed' \in {None, placed}
  /\ Finish(t)
  /\ UNCHANGED <<selfqueue, state, loop, nowplaying, running, gateVars, idleVars,
                 pusher, connVars, serverUpdate, cleared, crashed>>

\* ?loop.  The bound on the queue is here too: a loop may add a song.
ToggleLoop ==
  /\ Alive /\ "loop" \in Commands
  /\ loop \/ Len(selfqueue) + Cardinality(Requesting) < MaxQueue
  /\ loop' = ~loop
  /\ UNCHANGED <<selfqueue, state, nowplaying, running, gateVars, idleVars,
                 pusher, task, connVars, commandVars, cleared, crashed>>

-----------------------------------------------------------------------------
(* The voice connection.                                                   *)

\* An administrator disconnects the bot.
AdminDisconnect ==
  /\ Alive /\ "admin" \in Commands /\ placed # None /\ placed' = None
  /\ UNCHANGED <<selfqueue, state, loop, nowplaying, running, gateVars, idleVars, pusher,
                 task, connVars, serverUpdate, cleared, crashed>>

\* VOICE_SERVER_UPDATE: the handler gives up when it has no session id;
\* otherwise it calls start(), which may fail to make a connection, or makes one
\* that may never open.
VoiceServerUpdate(t) ==
  /\ At(t, "free") /\ serverUpdate /\ serverUpdate' = FALSE
  /\ \/ UNCHANGED <<opening, task>>
     \/ /\ Goto(t, "test")
        /\ \/ UNCHANGED opening
           \/ opening + described < MaxConns /\ opening' = opening + 1
  /\ UNCHANGED <<selfqueue, state, loop, nowplaying, running, gateVars, idleVars, pusher,
                 described, first_time, placed, cleared, crashed>>

Launching == {t \in Tasks : task[t].at = "launch"}

\* start() goes on after the connection: the first one creates the pusher, as
\* does any other that looks before the flag is reset.  As many get there as
\* Pushers has room for.
TestFirstTime(t) ==
  /\ At(t, "test")
  /\ \/ /\ first_time /\ Goto(t, "launch")
        /\ Cardinality(Made) + Cardinality(Launching) < Cardinality(Pushers)
     \/ ~first_time /\ Finish(t)
  /\ UNCHANGED <<selfqueue, state, loop, nowplaying, running, gateVars, idleVars, pusher,
                 connVars, commandVars, cleared, crashed>>

\* The task is assigned to a field: one it held before that has failed, and
\* whose exception nobody asks for any more, ends the program.
Launch(t) ==
  /\ At(t, "launch")
  /\ first_time' = FALSE
  /\ Finish(t)
  /\ \/ \E p \in Pushers \ Made : PusherGoto(p, "poll") /\ UNCHANGED crashed
     \/ /\ \E p \in Pushers : pusher[p] = "faulted"
        /\ crashed' = "task" /\ UNCHANGED pusher
  /\ UNCHANGED <<selfqueue, state, loop, nowplaying, running, gateVars, idleVars,
                 opening, described, commandVars, cleared>>

\* Voice opcode 4 arrives on a connection: a task of its own handles it.
SessionDescription(t) ==
  /\ opening > 0
  /\ opening' = opening - 1 /\ described' = described + 1
  /\ Spawn(t, "describe", None)
  /\ UNCHANGED <<selfqueue, state, loop, nowplaying, running, gateVars, idleVars,
                 pusher, first_time, commandVars, cleared, crashed>>

\* The key is stored and state set, and only then is the pusher unlocked.
SetReady(t) ==
  /\ At(t, "describe")
  /\ state' = TRUE
  /\ Goto(t, "unlock")
  /\ UNCHANGED <<selfqueue, loop, nowplaying, running, gateVars, idleVars,
                 pusher, connVars, commandVars, cleared, crashed>>

\* Mutant: the branch "already unlocked" returns without unlocking.
unlockPusherKeeping(t) ==
  /\ At(t, "unlock") /\ pusher_lock = "free"
  /\ is_pusher_locked' = FALSE
  /\ pusher_lock' = IF is_pusher_locked THEN "free" ELSE "leaked"
  /\ Finish(t)
  /\ UNCHANGED <<selfqueue, state, loop, nowplaying, running, running_lock, idleVars,
                 pusher, connVars, commandVars, cleared, crashed>>

unlockPusher(t) ==
  /\ At(t, "unlock") /\ pusher_lock = "free"
  /\ is_pusher_locked' = FALSE
  /\ Finish(t)
  /\ UNCHANGED <<selfqueue, state, loop, nowplaying, running, pusher_lock,
                 running_lock, idleVars, pusher, connVars, commandVars, cleared, crashed>>

\* on_close, as far as the queue's threads see it: whichever websocket
\* closes, state and loop are reset.
OnClose ==
  /\ Alive
  /\ \/ opening > 0 /\ opening' = opening - 1 /\ UNCHANGED described
     \/ described > 0 /\ described' = described - 1 /\ UNCHANGED opening
  /\ state' = FALSE /\ loop' = FALSE
  /\ UNCHANGED <<selfqueue, nowplaying, running, gateVars, idleVars,
                 pusher, task, first_time, commandVars, cleared, crashed>>

-----------------------------------------------------------------------------
(* The gateway's heartbeat acknowledgement drains disconnect_queue.        *)

HeartbeatAck(t) ==
  /\ disconnect_queue > 0
  /\ Spawn(t, "ack", None)
  /\ UNCHANGED <<selfqueue, state, loop, nowplaying, running, gateVars, idleVars,
                 pusher, connVars, commandVars, cleared, crashed>>

AckCheck(t) ==
  /\ At(t, "ack")
  /\ IF disconnect_queue > 0 THEN Goto(t, "acksend") ELSE Finish(t)
  /\ UNCHANGED <<selfqueue, state, loop, nowplaying, running, gateVars, idleVars,
                 pusher, connVars, commandVars, cleared, crashed>>

\* The front entry is sent; a failed send is tried again with it still queued.
AckSend(t) ==
  /\ At(t, "acksend")
  /\ \/ /\ disconnect_queue > 0
        /\ \/ placed' = None /\ Goto(t, "ackpop")
           \/ Goto(t, "ack") /\ UNCHANGED placed
        /\ UNCHANGED crashed
     \/ /\ disconnect_queue = 0
        /\ crashed' = "disconnect_queue" /\ UNCHANGED <<placed, task>>
  /\ UNCHANGED <<selfqueue, state, loop, nowplaying, running, gateVars, idleVars, pusher,
                 connVars, serverUpdate, cleared>>

AckPop(t) ==
  /\ At(t, "ackpop")
  /\ \/ /\ disconnect_queue > 0
        /\ disconnect_queue' = disconnect_queue - 1 /\ UNCHANGED crashed
     \/ /\ disconnect_queue = 0
        /\ crashed' = "disconnect_queue" /\ UNCHANGED disconnect_queue
  /\ Goto(t, "ack")
  /\ UNCHANGED <<selfqueue, state, loop, nowplaying, running, gateVars, counter,
                 pusher, connVars, commandVars, cleared>>

-----------------------------------------------------------------------------
(* The pushers.                                                            *)

\* Mutant: the size is compared with the wrong operator.
SongsWaitingIfEmpty == Len(selfqueue) >= 0

SongsWaiting == selfqueue # <<>>

\* Top of the loop: the number of songs is looked at, and then the session.
Poll(p) ==
  /\ PusherAt(p, "poll")
  /\ \/ SongsWaiting /\ PusherGoto(p, "session") /\ cleared' = FALSE
     \/ ~SongsWaiting /\ PusherGoto(p, "count") /\ UNCHANGED cleared
  /\ UNCHANGED <<selfqueue, state, loop, nowplaying, running, gateVars, idleVars,
                 task, connVars, commandVars, crashed>>

CheckSession(p) ==
  /\ PusherAt(p, "session")
  /\ PusherGoto(p, IF state THEN "gate" ELSE "count")
  /\ UNCHANGED <<selfqueue, state, loop, nowplaying, running, gateVars, idleVars,
                 task, connVars, commandVars, cleared, crashed>>

\* Mutant: rounds without a song are not counted.
NextCountWithSong(p) == IF state /\ selfqueue # <<>> THEN counter[p] + 1 ELSE 0

NextCount(p) == IF state THEN counter[p] + 1 ELSE 0

\* Mutant: the limit itself is let through.
IdleForTooLongOffByOne(p) == NextCount(p) > IdleLimit

IdleForTooLong(p) == NextCount(p) >= IdleLimit

\* An idle round; MaxDisconnects stops the count while the queue is full.
CountIdle(p) ==
  /\ PusherAt(p, "count") /\ PusherGoto(p, "poll")
  /\ \/ /\ ~IdleForTooLong(p)
        /\ counter' = [counter EXCEPT ![p] = NextCount(p)] /\ UNCHANGED disconnect_queue
     \/ /\ IdleForTooLong(p) /\ disconnect_queue < MaxDisconnects
        /\ counter' = [counter EXCEPT ![p] = 0] /\ disconnect_queue' = disconnect_queue + 1
     \/ IdleForTooLong(p) /\ disconnect_queue = MaxDisconnects /\ UNCHANGED idleVars
  /\ UNCHANGED <<selfqueue, state, loop, nowplaying, running, gateVars,
                 task, connVars, commandVars, cleared, crashed>>

\* Mutant: the section is left before the loop is.
CheckGateReleasing(p) ==
  /\ PusherAt(p, "gate") /\ pusher_lock = "free"
  /\ PusherGoto(p, IF is_pusher_locked THEN "exited" ELSE "check")
  /\ UNCHANGED <<selfqueue, state, loop, nowplaying, running, gateVars,
                 idleVars, task, connVars, commandVars, cleared, crashed>>

\* A locked pusher leaves its loop inside the section of pusher_lock.
CheckGate(p) ==
  /\ PusherAt(p, "gate") /\ pusher_lock = "free"
  /\ PusherGoto(p, IF is_pusher_locked THEN "exited" ELSE "check")
  /\ pusher_lock' = IF is_pusher_locked THEN "leaked" ELSE "free"
  /\ UNCHANGED <<selfqueue, state, loop, nowplaying, running, is_pusher_locked, running_lock,
                 idleVars, task, connVars, commandVars, cleared, crashed>>

\* Mutant: the flag is tested the wrong way round.
CheckRunningInverted(p) ==
  /\ PusherAt(p, "check") /\ running_lock = "free"
  /\ PusherGoto(p, IF ~running THEN "quit" ELSE "start")
  /\ running_lock' = IF ~running THEN "leaked" ELSE "free"
  /\ counter' = IF ~running THEN counter ELSE [counter EXCEPT ![p] = 0]
  /\ UNCHANGED <<selfqueue, state, loop, nowplaying, running, is_pusher_locked, pusher_lock,
                 disconnect_queue, task, connVars, commandVars, cleared, crashed>>

\* The same inside the section of running_lock for a player that is running.
CheckRunning(p) ==
  /\ PusherAt(p, "check") /\ running_lock = "free"
  /\ PusherGoto(p, IF running THEN "quit" ELSE "start")
  /\ running_lock' = IF running THEN "leaked" ELSE "free"
  /\ counter' = IF running THEN counter ELSE [counter EXCEPT ![p] = 0]
  /\ UNCHANGED <<selfqueue, state, loop, nowplaying, running, is_pusher_locked, pusher_lock,
                 disconnect_queue, task, connVars, commandVars, cleared, crashed>>

\* play(selfqueue.front()).
StartSong(p) ==
  /\ PusherAt(p, "start") /\ running_lock = "free"
  /\ \/ /\ selfqueue # <<>>
        /\ nowplaying' = Head(selfqueue) /\ running' = TRUE
        /\ PusherGoto(p, "play") /\ UNCHANGED crashed
     \/ /\ selfqueue = <<>>
        /\ crashed' = "selfqueue" /\ UNCHANGED <<nowplaying, running, pusher>>
  /\ UNCHANGED <<selfqueue, state, loop, gateVars, idleVars,
                 task, connVars, commandVars, cleared>>

\* The sender task of play() lowers running between two bursts of packets, and
\* goes on doing so when an exception has ended the pusher.
SenderFlips(p) ==
  /\ PusherAt(p, "play") \/ PusherAt(p, "faulted")
  /\ running_lock = "free"
  /\ running' = ~running
  /\ UNCHANGED <<selfqueue, state, loop, nowplaying, gateVars, idleVars,
                 pusher, task, connVars, commandVars, cleared, crashed>>

\* Mutant: play() leaves the flag to its sender.
LowerRunningNot == UNCHANGED running

LowerRunning == running' = FALSE

PlayReturns(p) ==
  /\ PusherAt(p, "play") /\ running_lock = "free"
  /\ LowerRunning /\ PusherGoto(p, "pop")
  /\ UNCHANGED <<selfqueue, state, loop, nowplaying, gateVars, idleVars,
                 task, connVars, commandVars, cleared, crashed>>

\* The encoder, libsodium or the title query fails: the exception ends the task.
\* It ends the program too unless the field holds the task; which of several it
\* holds is left open, for they are assigned without a lock.
PlayThrows(p) ==
  /\ PusherAt(p, "play")
  /\ PusherGoto(p, "faulted")
  /\ \/ UNCHANGED crashed
     \/ Several /\ crashed' = "task"
  /\ UNCHANGED <<selfqueue, state, loop, nowplaying, running, gateVars, idleVars,
                 task, connVars, commandVars, cleared>>

\* A song stays queued when the session closed while it was played.
PopSong(p) ==
  /\ PusherAt(p, "pop")
  /\ \/ ~state /\ PusherGoto(p, "wait") /\ UNCHANGED <<selfqueue, crashed>>
     \/ /\ state /\ selfqueue # <<>>
        /\ selfqueue' = Tail(selfqueue)
        /\ PusherGoto(p, "wait") /\ UNCHANGED crashed
     \/ /\ state /\ selfqueue = <<>>
        /\ crashed' = "selfqueue" /\ UNCHANGED <<selfqueue, pusher>>
  /\ UNCHANGED <<state, loop, nowplaying, running, gateVars, idleVars,
                 task, connVars, commandVars, cleared>>

WaitPlayer(p) ==
  /\ PusherAt(p, "wait") /\ ~running
  /\ PusherGoto(p, "requeue") /\ counter' = [counter EXCEPT ![p] = 0]
  /\ UNCHANGED <<selfqueue, state, loop, nowplaying, running, gateVars,
                 disconnect_queue, task, connVars, commandVars, cleared, crashed>>

Requeue(p) ==
  /\ PusherAt(p, "requeue") /\ PusherGoto(p, "poll")
  /\ selfqueue' = IF loop /\ nowplaying # None THEN Append(selfqueue, nowplaying) ELSE selfqueue
  /\ UNCHANGED <<state, loop, nowplaying, running, gateVars, idleVars,
                 task, connVars, commandVars, cleared, crashed>>

-----------------------------------------------------------------------------
PusherStep(p) ==
  \/ Poll(p) \/ CheckSession(p) \/ CountIdle(p) \/ CheckGate(p) \/ CheckRunning(p)
  \/ StartSong(p) \/ PopSong(p) \/ WaitPlayer(p) \/ Requeue(p)

PlayStep(p) == SenderFlips(p) \/ PlayReturns(p) \/ PlayThrows(p)

TaskStep(t) ==
  \/ lockPusher(t) \/ PushSong(t) \/ SendVoiceState(t)
  \/ Clear(t) \/ SendLeave(t) \/ TestFirstTime(t) \/ Launch(t) \/ SetReady(t)
  \/ unlockPusher(t) \/ AckCheck(t) \/ AckSend(t) \/ AckPop(t)

Message(t) ==
  \/ \E s \in Songs : RequestSong(t, s)
  \/ Join(t) \/ Leave(t) \/ VoiceServerUpdate(t) \/ SessionDescription(t) \/ HeartbeatAck(t)

Next ==
  \/ \E p \in Pushers : PusherStep(p) \/ PlayStep(p)
  \/ \E t \in Tasks : TaskStep(t) \/ Message(t)
  \/ ToggleLoop \/ AdminDisconnect \/ OnClose

Spec == Init /\ [][Next]_vars

\* Threads are scheduled; users, Discord and the end of a song are not promised.
Fairness ==
  /\ \A p \in Pushers : WF_vars(PusherStep(p))
  /\ \A t \in Tasks : WF_vars(TaskStep(t))

FairSpec == Spec /\ Fairness

-----------------------------------------------------------------------------
(* Properties.                                                             *)

Somewhere(pcs) == \E p \in Pushers : pusher[p] \in pcs

\* A pusher that leaves its loop keeps the lock of the section it leaves from,
\* for ever.  A pusher alone only leaves at the gate: the second break, on the
\* flag that the sender's thread raises and lowers, needs another pusher.
AloneOnlyTheGateStops ==
  /\ pusher_lock = "leaked" <=> Somewhere({"exited"})
  /\ running_lock = "leaked" <=> Somewhere({"quit"})
  /\ running_lock = "leaked" => Several

\* A pusher touches the front of an empty queue only when a ?leave emptied the
\* queue behind it, or another pusher took its song: neither a close, a failed
\* play, a loop nor a change of channel can do that.
EmptyOnlyByLeave == crashed = "selfqueue" => cleared \/ Several

\* The song that a pusher, as long as there is one, removes after play()
\* returned is the one that was played, whatever was queued, closed or looped
\* meanwhile, unless a ?leave intervened.
PopsWhatItPlayed ==
  [][\A p \in Pushers :
       (pusher[p] = "pop" /\ pusher'[p] = "wait" /\ state /\ ~cleared /\ ~Several) =>
         /\ selfqueue # <<>> /\ Head(selfqueue) = nowplaying
         /\ selfqueue' = Tail(selfqueue)]_vars

\* What a user sees of the pushers' places.
Stage ==
  CASE crashed = "selfqueue" -> "lost"
    [] crashed # "selfqueue" /\ Several -> "shared"
    [] OTHER -> CASE Somewhere({"session", "gate", "check", "start"}) -> "found"
                  [] Somewhere({"play"}) -> "playing"
                  [] Somewhere({"pop"}) -> "over"
                  [] Somewhere({"wait", "requeue"}) -> "done"
                  [] Somewhere({"exited", "quit", "faulted"}) -> "stopped"
                  [] OTHER -> "idle"

J == INSTANCE Jukebox WITH
  queue <- selfqueue, song <- nowplaying, stage <- Stage, dropped <- cleared

\* Whatever the threads do in between, the queue behaves as its users take it
\* to: played from the front in the order of the requests, a song removed only
\* after it was played, put back only under ?loop, and lost only to a ?leave.
\* When two pushers share it, songs are still taken from the front only.
JukeboxSpec == J!Spec

\* Pushers that have passed the gate and not yet started their song.
ToStart == {p \in Pushers : pusher[p] \in {"check", "start"}}

\* Once a pusher has left its loop at the gate nobody changes the gate and no
\* other pusher passes it: each that had passed it may start the song it was
\* about to, and then nothing is played again, not even after later requests,
\* joins and session descriptions.
ExitIsFinal ==
  [][Somewhere({"exited"}) =>
       /\ Somewhere({"exited"})'
       /\ UNCHANGED is_pusher_locked
       /\ ToStart' \subseteq ToStart
       /\ ToStart' = ToStart => UNCHANGED nowplaying]_vars

\* While a session is up, a queued song is played unless a pusher stopped, a
\* ?leave emptied the queue or the session closed.
QueuedSongStarts ==
  (selfqueue # <<>> /\ state) ~>
    \/ Somewhere({"play", "exited", "quit", "faulted"})
    \/ selfqueue = <<>> \/ ~state \/ ~Alive

\* A session with nothing to play is reported as inactive.
IdleIsReported ==
  (state /\ selfqueue = <<>>) ~>
    \/ disconnect_queue > 0 \/ selfqueue # <<>> \/ ~state
    \/ Somewhere(PusherPC \ {"none", "poll", "session", "count"}) \/ ~Alive

\* A handler that wants the gate gets it unless a pusher left with it.
GateIsServed ==
  \A t \in Tasks : task[t].at \in {"lock", "unlock"} ~>
    task[t].at \notin {"lock", "unlock"} \/ Somewhere({"exited"}) \/ ~Alive

\* "lock the pusher until next start" (comment on lockPusher): the unlock of
\* the next session description takes effect.
LockedUntilNextStart ==
  \A t \in Tasks : task[t].at = "unlock" ~> ~is_pusher_locked \/ ~Alive

\* "I left the voice channel because i have been inactive for too long": no
\* song is being played when the bot is taken out for inactivity.
InactiveWhenDisconnected ==
  [][\A t \in Tasks : task[t].at = "acksend" /\ task'[t].at = "ackpop" =>
       ~Somewhere({"play"})]_vars
=============================================================================
