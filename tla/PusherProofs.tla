---------------------------- MODULE PusherProofs ----------------------------
(***************************************************************************)
(* Proofs about Pusher for any songs, channels, tasks, commands and bounds. *)
(* TypeInvariant carries the types and what a request task holds; its      *)
(* steps are then context for QueueInvariant, the strengthening of the     *)
(* three queue invariants, and for the two action properties.              *)
(***************************************************************************)
EXTENDS Pusher, SequenceTheorems, TLAPS

\* A task that has yet to queue its song holds one.
RequestsNameSongs ==
  \A t \in Tasks : task[t].at \in {"lock", "push"} => task[t].song \in Songs

\* The player's flag is up only while a play() or the sender it left behind runs.
RunningIsPlaying == running => Somewhere({"play", "faulted"})

\* From the moment a lone pusher found a song until it removes it the queue has
\* a front, and while the song is played that front is the song, unless a ?leave
\* came in between.
FrontIsHeld ==
  ~cleared /\ ~Several => \A p \in Pushers :
    /\ pusher[p] \in {"session", "gate", "check", "start", "play", "pop"} => selfqueue # <<>>
    /\ pusher[p] \in {"play", "pop"} => Head(selfqueue) = nowplaying

TInv == TypeOK /\ RequestsNameSongs
QInv == AloneOnlyTheGateStops /\ RunningIsPlaying /\ FrontIsHeld /\ EmptyOnlyByLeave

\* A step leaves each task at a known place with arguments of the right type.
LEMMA TaskTypeStep == TInv /\ [Next]_vars => TaskTypeOK'
<1> SUFFICES ASSUME TInv, [Next]_vars PROVE TaskTypeOK'
  OBVIOUS
<1> USE DEF TInv, TypeOK, TaskTypeOK, ChannelTypeOK, TaskPC,
            commandVars, connVars, gateVars, idleVars
<1>1. ASSUME NEW p \in Pushers, PusherStep(p) PROVE TaskTypeOK'
  BY <1>1
     DEF PusherStep, Poll, SongsWaiting, CheckSession, PusherGoto, CountIdle,
         IdleForTooLong, NextCount, CheckGate,
         CheckRunning, StartSong, PopSong, WaitPlayer, Requeue, PusherAt
<1>2. ASSUME NEW p \in Pushers, PlayStep(p) PROVE TaskTypeOK'
  BY <1>2 DEF PlayStep, SenderFlips, PlayReturns, LowerRunning, PlayThrows, PusherGoto
<1>3. ASSUME NEW t \in Tasks, TaskStep(t) PROVE TaskTypeOK'
  BY <1>3
     DEF TaskStep, Goto, lockPusher, PushSong, QueueSong,
         SendVoiceState, Finish, Idle, Clear, SendLeave, TestFirstTime, Launch, SetReady,
         unlockPusher, AckCheck, AckSend, AckPop, At
<1>4. ASSUME NEW t \in Tasks, Message(t) PROVE TaskTypeOK'
  BY <1>4
     DEF Message, Join, Spawn, RequestSong, Leave, VoiceServerUpdate, SessionDescription,
         HeartbeatAck, Goto,
         At
<1>5. CASE ToggleLoop \/ AdminDisconnect \/ OnClose
  BY <1>5
     DEF ToggleLoop, AdminDisconnect, OnClose
<1>6. CASE UNCHANGED vars
  BY <1>6 DEF vars
<1>. QED
  BY <1>1, <1>2, <1>3, <1>4, <1>5, <1>6 DEF Next

\* A step leaves a song with every task that has yet to queue one.
LEMMA RequestStep == TInv /\ [Next]_vars => RequestsNameSongs'
<1> SUFFICES ASSUME TInv, [Next]_vars PROVE RequestsNameSongs'
  OBVIOUS
<1> USE DEF TInv, TypeOK, TaskTypeOK, RequestsNameSongs, TaskPC, commandVars,
            connVars, gateVars, idleVars
<1>1. ASSUME NEW p \in Pushers, PusherStep(p) PROVE RequestsNameSongs'
  BY <1>1
     DEF PusherStep, Poll, SongsWaiting, CheckSession, PusherGoto, CountIdle,
         IdleForTooLong, NextCount, CheckGate,
         CheckRunning, StartSong, PopSong, WaitPlayer, Requeue, PusherAt
<1>2. ASSUME NEW p \in Pushers, PlayStep(p) PROVE RequestsNameSongs'
  BY <1>2 DEF PlayStep, SenderFlips, PlayReturns, LowerRunning, PlayThrows, PusherGoto
<1>3. ASSUME NEW t \in Tasks, TaskStep(t) PROVE RequestsNameSongs'
  BY <1>3
     DEF TaskStep, Goto, lockPusher, PushSong, QueueSong,
         SendVoiceState, Finish, Idle, Clear, SendLeave, TestFirstTime, Launch, SetReady,
         unlockPusher, AckCheck, AckSend, AckPop, At
<1>4. ASSUME NEW t \in Tasks, Message(t) PROVE RequestsNameSongs'
  BY <1>4
     DEF Message, Join, Spawn, RequestSong, Leave, VoiceServerUpdate, SessionDescription,
         HeartbeatAck, Goto,
         At
<1>5. CASE ToggleLoop \/ AdminDisconnect \/ OnClose
  BY <1>5
     DEF ToggleLoop, AdminDisconnect, OnClose
<1>6. CASE UNCHANGED vars
  BY <1>6 DEF vars
<1>. QED
  BY <1>1, <1>2, <1>3, <1>4, <1>5, <1>6 DEF Next

\* A step leaves only songs in the queue: PushSong takes the song of its
\* task, Requeue the last one played.
LEMMA QueueTypeStep == TInv /\ [Next]_vars => QueueTypeOK'
<1> SUFFICES ASSUME TInv, [Next]_vars PROVE QueueTypeOK'
  OBVIOUS
<1> USE DEF TInv, TypeOK, QueueTypeOK, RequestsNameSongs, commandVars,
            connVars, gateVars, idleVars
<1>1. ASSUME NEW p \in Pushers, PusherStep(p) PROVE QueueTypeOK'
  BY <1>1
     DEF PusherStep, Poll, SongsWaiting, CheckSession, PusherGoto, CountIdle,
         IdleForTooLong, NextCount, CheckGate,
         CheckRunning, StartSong, PopSong, WaitPlayer, Requeue, PusherAt
<1>2. ASSUME NEW p \in Pushers, PlayStep(p) PROVE QueueTypeOK'
  BY <1>2 DEF PlayStep, SenderFlips, PlayReturns, LowerRunning, PlayThrows, PusherGoto
<1>3. ASSUME NEW t \in Tasks, TaskStep(t) PROVE QueueTypeOK'
  <2>1. CASE PushSong(t)
    BY <2>1 DEF PushSong, QueueSong, At
  <2>2. CASE Clear(t)
    BY <2>2 DEF Clear
  <2>3. CASE UNCHANGED <<selfqueue, nowplaying>>
    BY <2>3
  <2>. QED
    BY <1>3, <2>1, <2>2, <2>3
       DEF TaskStep, lockPusher, SendVoiceState, SendLeave, TestFirstTime, Launch,
           SetReady, unlockPusher, AckCheck, AckSend, AckPop
<1>4. ASSUME NEW t \in Tasks, Message(t) PROVE QueueTypeOK'
  BY <1>4
     DEF Message, Join, Spawn, RequestSong, Leave, VoiceServerUpdate, SessionDescription,
         HeartbeatAck, Goto,
         At
<1>5. CASE ToggleLoop \/ AdminDisconnect \/ OnClose
  BY <1>5
     DEF ToggleLoop, AdminDisconnect, OnClose
<1>6. CASE UNCHANGED vars
  BY <1>6 DEF vars
<1>. QED
  BY <1>1, <1>2, <1>3, <1>4, <1>5, <1>6 DEF Next

\* A step leaves each of the three records of the bot's channel a channel.
LEMMA ChannelTypeStep == TInv /\ [Next]_vars => ChannelTypeOK'
<1> SUFFICES ASSUME TInv, [Next]_vars PROVE ChannelTypeOK'
  OBVIOUS
<1> USE DEF TInv, TypeOK, ChannelTypeOK, TaskTypeOK,
            commandVars, connVars, gateVars, idleVars
<1>1. ASSUME NEW p \in Pushers, PusherStep(p) PROVE ChannelTypeOK'
  BY <1>1
     DEF PusherStep, Poll, SongsWaiting, CheckSession, PusherGoto, CountIdle,
         IdleForTooLong, NextCount, CheckGate,
         CheckRunning, StartSong, PopSong, WaitPlayer, Requeue, PusherAt
<1>2. ASSUME NEW p \in Pushers, PlayStep(p) PROVE ChannelTypeOK'
  BY <1>2 DEF PlayStep, SenderFlips, PlayReturns, LowerRunning, PlayThrows, PusherGoto
<1>3. ASSUME NEW t \in Tasks, TaskStep(t) PROVE ChannelTypeOK'
  BY <1>3
     DEF TaskStep, Goto, lockPusher, PushSong, QueueSong,
         SendVoiceState, Finish, Idle, Clear, SendLeave, TestFirstTime, Launch, SetReady,
         unlockPusher, AckCheck, AckSend, AckPop, At
<1>4. ASSUME NEW t \in Tasks, Message(t) PROVE ChannelTypeOK'
  BY <1>4
     DEF Message, Join, Spawn, RequestSong, Leave, VoiceServerUpdate, SessionDescription,
         HeartbeatAck, Goto,
         At
<1>5. CASE ToggleLoop \/ AdminDisconnect \/ OnClose
  BY <1>5
     DEF ToggleLoop, AdminDisconnect, OnClose
<1>6. CASE UNCHANGED vars
  BY <1>6 DEF vars
<1>. QED
  BY <1>1, <1>2, <1>3, <1>4, <1>5, <1>6 DEF Next

\* A step keeps the idle count below its limit and the bounds kept.
LEMMA CounterTypeStep == TInv /\ [Next]_vars => CounterTypeOK'
<1> SUFFICES ASSUME TInv, [Next]_vars PROVE CounterTypeOK'
  OBVIOUS
<1> USE DEF TInv, TypeOK, CounterTypeOK, commandVars, connVars, gateVars,
            idleVars
<1>1. ASSUME NEW p \in Pushers, PusherStep(p) PROVE CounterTypeOK'
  BY <1>1, BoundAssumption
     DEF PusherStep, Poll, SongsWaiting, CheckSession, PusherGoto, CountIdle,
         IdleForTooLong, NextCount, CheckGate,
         CheckRunning, StartSong, PopSong, WaitPlayer, Requeue, PusherAt
<1>2. ASSUME NEW p \in Pushers, PlayStep(p) PROVE CounterTypeOK'
  BY <1>2 DEF PlayStep, SenderFlips, PlayReturns, LowerRunning, PlayThrows, PusherGoto
<1>3. ASSUME NEW t \in Tasks, TaskStep(t) PROVE CounterTypeOK'
  BY <1>3, BoundAssumption
     DEF TaskStep, Goto, lockPusher, PushSong, QueueSong,
         SendVoiceState, Finish, Idle, Clear, SendLeave, TestFirstTime, Launch, SetReady,
         unlockPusher, AckCheck, AckSend, AckPop, At
<1>4. ASSUME NEW t \in Tasks, Message(t) PROVE CounterTypeOK'
  BY <1>4, BoundAssumption
     DEF Message, Join, Spawn, RequestSong, Leave, VoiceServerUpdate, SessionDescription,
         HeartbeatAck, Goto,
         At
<1>5. CASE ToggleLoop \/ AdminDisconnect \/ OnClose
  BY <1>5, BoundAssumption
     DEF ToggleLoop, AdminDisconnect, OnClose
<1>6. CASE UNCHANGED vars
  BY <1>6 DEF vars
<1>. QED
  BY <1>1, <1>2, <1>3, <1>4, <1>5, <1>6 DEF Next

\* The voice state update leaves the flags well typed.
LEMMA FlagsAfterSend ==
  ASSUME NEW t \in Tasks, FlagTypeOK, SendVoiceState(t)
  PROVE  FlagTypeOK'
BY DEF FlagTypeOK, SendVoiceState, gateVars, connVars

\* A step leaves every flag and lock well typed.
LEMMA FlagTypeStep == TInv /\ [Next]_vars => FlagTypeOK'
<1> SUFFICES ASSUME TInv, [Next]_vars PROVE FlagTypeOK'
  OBVIOUS
<1> USE DEF TInv, TypeOK, FlagTypeOK, gateVars, connVars
<1>1. ASSUME NEW p \in Pushers, PusherStep(p) PROVE FlagTypeOK'
  <2>1. CASE Poll(p)
    BY <2>1 DEF Poll, commandVars
  <2>2. CASE CheckSession(p)
    BY <2>2 DEF CheckSession, commandVars
  <2>3. CASE CountIdle(p)
    BY <2>3 DEF CountIdle, commandVars
  <2>4. CASE CheckGate(p)
    BY <2>4 DEF CheckGate, commandVars
  <2>5. CASE CheckRunning(p)
    BY <2>5 DEF CheckRunning, commandVars
  <2>6. CASE StartSong(p)
    BY <2>6 DEF StartSong, commandVars
  <2>7. CASE PopSong(p)
    BY <2>7 DEF PopSong, commandVars
  <2>8. CASE WaitPlayer(p)
    BY <2>8 DEF WaitPlayer, commandVars
  <2>9. CASE Requeue(p)
    BY <2>9 DEF Requeue, commandVars
  <2>. QED
    BY <1>1, <2>1, <2>2, <2>3, <2>4, <2>5, <2>6, <2>7, <2>8, <2>9 DEF PusherStep
<1>2. ASSUME NEW p \in Pushers, PlayStep(p) PROVE FlagTypeOK'
  <2>1. CASE SenderFlips(p)
    BY <2>1 DEF SenderFlips, commandVars
  <2>2. CASE PlayReturns(p)
    BY <2>2 DEF PlayReturns, LowerRunning, commandVars
  <2>3. CASE PlayThrows(p)
    BY <2>3 DEF PlayThrows, commandVars
  <2>. QED
    BY <1>2, <2>1, <2>2, <2>3 DEF PlayStep
<1>3. ASSUME NEW t \in Tasks, TaskStep(t) PROVE FlagTypeOK'
  <2>1. CASE lockPusher(t)
    BY <2>1 DEF lockPusher, commandVars
  <2>2. CASE PushSong(t)
    BY <2>2 DEF PushSong, QueueSong, commandVars
  <2>3. CASE SendVoiceState(t)
    BY <2>3, FlagsAfterSend
  <2>4. CASE Clear(t)
    BY <2>4 DEF Clear, commandVars
  <2>5. CASE SendLeave(t)
    BY <2>5 DEF SendLeave, commandVars
  <2>6. CASE TestFirstTime(t)
    BY <2>6 DEF TestFirstTime, commandVars
  <2>7. CASE Launch(t)
    BY <2>7 DEF Launch, commandVars
  <2>8. CASE SetReady(t)
    BY <2>8 DEF SetReady, commandVars
  <2>9. CASE unlockPusher(t)
    BY ZenonT(40), <2>9 DEF unlockPusher, commandVars
  <2>10. CASE AckCheck(t)
    BY <2>10 DEF AckCheck, commandVars
  <2>11. CASE AckSend(t)
    BY <2>11 DEF AckSend, commandVars
  <2>12. CASE AckPop(t)
    BY <2>12 DEF AckPop, commandVars
  <2>. QED
    BY <1>3, <2>1, <2>2, <2>3, <2>4, <2>5, <2>6, <2>7, <2>8, <2>9, <2>10, <2>11, <2>12
       DEF TaskStep
<1>4. ASSUME NEW t \in Tasks, Message(t) PROVE FlagTypeOK'
  BY <1>4
     DEF commandVars, Message, Join, Spawn, RequestSong, Leave, VoiceServerUpdate,
         SessionDescription, HeartbeatAck, At
<1>5. CASE ToggleLoop \/ AdminDisconnect \/ OnClose
  <2>1. CASE ToggleLoop
    BY <2>1 DEF ToggleLoop, commandVars
  <2>2. CASE AdminDisconnect
    BY <2>2 DEF AdminDisconnect
  <2>3. CASE OnClose
    BY ZenonT(40), <2>3 DEF OnClose, commandVars
  <2>. QED
    BY <1>5, <2>1, <2>2, <2>3
<1>6. CASE UNCHANGED vars
  BY <1>6 DEF commandVars, vars
<1>. QED
  BY <1>1, <1>2, <1>3, <1>4, <1>5, <1>6 DEF Next

\* A step takes a pusher from one place to another that is not "none", or
\* creates one.
LEMMA PusherTypeStep == TInv /\ [Next]_vars => PusherTypeOK'
<1> SUFFICES ASSUME TInv, [Next]_vars PROVE PusherTypeOK'
  OBVIOUS
<1> USE DEF TInv, TypeOK, PusherTypeOK, PusherPC, commandVars, connVars, gateVars, idleVars
<1>1. ASSUME NEW p \in Pushers, PusherStep(p) PROVE PusherTypeOK'
  BY <1>1
     DEF PusherStep, Poll, CheckSession, PusherGoto, CountIdle, CheckGate, CheckRunning,
         StartSong, PopSong, WaitPlayer, Requeue
<1>2. ASSUME NEW p \in Pushers, PlayStep(p) PROVE PusherTypeOK'
  BY <1>2 DEF PlayStep, SenderFlips, PlayReturns, PlayThrows, PusherGoto
<1>3. ASSUME NEW t \in Tasks, TaskStep(t) PROVE PusherTypeOK'
  BY <1>3
     DEF TaskStep, lockPusher, PushSong, SendVoiceState, Clear, SendLeave, TestFirstTime,
         Launch, PusherGoto, SetReady, unlockPusher, AckCheck, AckSend, AckPop
<1>4. ASSUME NEW t \in Tasks, Message(t) PROVE PusherTypeOK'
  BY <1>4
     DEF Message, Join, RequestSong, Leave, VoiceServerUpdate, SessionDescription, HeartbeatAck
<1>5. CASE ToggleLoop \/ AdminDisconnect \/ OnClose
  BY <1>5 DEF ToggleLoop, AdminDisconnect, OnClose
<1>6. CASE UNCHANGED vars
  BY <1>6 DEF vars
<1>. QED
  BY <1>1, <1>2, <1>3, <1>4, <1>5, <1>6 DEF Next

\* The first state is well typed, and no task has a song to queue.
LEMMA InitTypes == Init => TInv
<1> SUFFICES ASSUME Init PROVE TInv
  OBVIOUS
<1>1. QueueTypeOK
  BY DEF Init, QueueTypeOK
<1>2. TaskTypeOK /\ RequestsNameSongs
  BY DEF Init, TaskTypeOK, RequestsNameSongs, Idle, TaskPC
<1>3. ChannelTypeOK
  BY DEF Init, ChannelTypeOK
<1>4. CounterTypeOK
  BY BoundAssumption DEF Init, CounterTypeOK
<1>5. FlagTypeOK
  BY DEF Init, FlagTypeOK
<1>6. PusherTypeOK
  BY DEF Init, PusherTypeOK, PusherPC
<1>. QED
  BY <1>1, <1>2, <1>3, <1>4, <1>5, <1>6 DEF TInv, TypeOK

\* The types and the tasks' songs survive every step.
LEMMA TypesKept == TInv /\ [Next]_vars => TInv'
  BY TaskTypeStep, RequestStep, QueueTypeStep, ChannelTypeStep, CounterTypeStep, FlagTypeStep,
     PusherTypeStep
     DEF TInv, TypeOK

\* Every variable keeps its type whatever commands, closes and acknowledgements
\* meet; it needs that a task never queues the empty song id.
THEOREM TypeCorrect == Spec => []TypeOK
<1>1. TInv => TypeOK
  BY DEF TInv
<1>. QED
  BY <1>1, InitTypes, TypesKept, PTL DEF Spec

-----------------------------------------------------------------------------
(* The steps by what they do to what the pushers share.                    *)

\* All handlers but five leave alone what the pushers share.
LEMMA OtherHandlers ==
  ASSUME TInv, NEW t \in Tasks, TaskStep(t) \/ Message(t)
  PROVE  \/ lockPusher(t) \/ PushSong(t) \/ Clear(t) \/ Launch(t) \/ unlockPusher(t)
         \/ /\ UNCHANGED <<selfqueue, nowplaying, loop, running, gateVars, pusher, cleared>>
            /\ crashed = "no" /\ crashed' \in {"no", "disconnect_queue"}
<1>1. CASE TaskStep(t)
  BY <1>1
     DEF TaskStep, SendVoiceState, SendLeave, TestFirstTime, SetReady, AckCheck, AckSend,
         AckPop, At, Alive
<1>2. CASE Message(t)
  BY <1>2
     DEF Message, Join, RequestSong, Leave, VoiceServerUpdate, SessionDescription,
         HeartbeatAck, Spawn, At, Alive
<1>. QED
  BY <1>1, <1>2

\* Discord, the administrator and a close at most switch the loop.
LEMMA OthersSwitchLoop ==
  ASSUME TInv, ToggleLoop \/ AdminDisconnect \/ OnClose
  PROVE  /\ UNCHANGED <<selfqueue, nowplaying, running, gateVars, pusher, cleared, crashed>>
         /\ crashed = "no" /\ loop \in BOOLEAN /\ loop' \in BOOLEAN
BY DEF ToggleLoop, AdminDisconnect, OnClose, Alive, TInv, TypeOK, FlagTypeOK

\* A pusher that steps exists and goes on existing; only the two tests change
\* the locks or leave the loop.
LEMMA PusherMoves ==
  ASSUME TInv, NEW p \in Pushers, PusherStep(p) \/ PlayStep(p)
  PROVE  /\ crashed = "no"
         /\ \/ CheckGate(p) \/ CheckRunning(p)
            \/ /\ UNCHANGED gateVars
               /\ pusher[p] \notin {"none", "exited", "quit"}
               /\ \E pc \in PusherPC \ {"none", "exited", "quit"} :
                    pusher' = [pusher EXCEPT ![p] = pc]
<1> USE DEF PusherPC, PusherGoto, PusherAt, Alive
<1>0. pusher = [pusher EXCEPT ![p] = pusher[p]]
  BY DEF TInv, TypeOK, PusherTypeOK
<1>1. CASE \/ Poll(p) \/ CheckSession(p) \/ CountIdle(p) \/ WaitPlayer(p) \/ Requeue(p)
  BY <1>1 DEF Poll, CheckSession, CountIdle, WaitPlayer, Requeue
<1>2. CASE StartSong(p)
  BY <1>0, <1>2 DEF StartSong
<1>3. CASE PopSong(p)
  BY <1>0, <1>3 DEF PopSong
<1>4. CASE SenderFlips(p)
  BY <1>0, <1>4 DEF SenderFlips
<1>5. CASE PlayReturns(p) \/ PlayThrows(p)
  BY <1>5 DEF PlayReturns, PlayThrows
<1>6. CASE CheckGate(p) \/ CheckRunning(p)
  BY <1>6 DEF CheckGate, CheckRunning
<1>. QED
  BY <1>1, <1>2, <1>3, <1>4, <1>5, <1>6 DEF PusherStep, PlayStep

\* The pushers that exist stay the same.
LEMMA MadeStays ==
  ASSUME TInv, NEW p \in Pushers, PusherStep(p) \/ PlayStep(p)
  PROVE  /\ pusher[p] # "none" /\ Made' = Made /\ Several' = Several
         /\ \A q \in Pushers \ {p} : pusher'[q] = pusher[q]
<1>1. pusher[p] # "none" /\ \E pc \in PusherPC \ {"none"} : pusher' = [pusher EXCEPT ![p] = pc]
  <2>1. CASE CheckGate(p) \/ CheckRunning(p)
    BY <2>1 DEF CheckGate, CheckRunning, PusherAt, PusherGoto, PusherPC
  <2>. QED
    BY <2>1, PusherMoves
<1>2. Made' = Made /\ \A q \in Pushers \ {p} : pusher'[q] = pusher[q]
  BY <1>1 DEF Made, TInv, TypeOK, PusherTypeOK
<1>. QED
  BY <1>1, <1>2 DEF Several

\* The lone pusher is the only one that is anywhere.
LEMMA OneIsAlone ==
  ASSUME ~Several, NEW p \in Pushers, pusher[p] # "none"
  PROVE  \A q \in Pushers \ {p} : pusher[q] = "none"
BY DEF Several, Made

\* Launch makes a pusher, or ends the program.
LEMMA LaunchMakes ==
  ASSUME TInv, NEW t \in Tasks, Launch(t)
  PROVE  /\ UNCHANGED <<selfqueue, nowplaying, loop, running, gateVars, cleared>>
         /\ crashed = "no"
         /\ \/ UNCHANGED pusher /\ crashed' = "task"
            \/ /\ UNCHANGED crashed
               /\ \E p \in Pushers : /\ pusher[p] = "none"
                                     /\ pusher' = [pusher EXCEPT ![p] = "poll"]
BY DEF Launch, PusherGoto, Made, At, Alive

\* What a handler other than Launch does leaves every pusher where it is.
LEMMA HandlersLeavePushers ==
  ASSUME TInv, NEW t \in Tasks, TaskStep(t) \/ Message(t), ~Launch(t)
  PROVE  UNCHANGED <<pusher, nowplaying, running>> /\ Several' = Several
<1>1. UNCHANGED <<pusher, nowplaying, running>>
  BY OtherHandlers DEF lockPusher, PushSong, Clear, unlockPusher
<1>. QED
  BY <1>1 DEF Several, Made

-----------------------------------------------------------------------------
\* A step leaves a lock leaked exactly when it leaves a pusher stopped in its
\* section; the flag of the player cannot be up at the test of a lone pusher.
LEMMA GateStep == TInv /\ QInv /\ [Next]_vars => AloneOnlyTheGateStops'
<1> SUFFICES ASSUME TInv, QInv, [Next]_vars PROVE AloneOnlyTheGateStops'
  OBVIOUS
<1> USE DEF QInv, AloneOnlyTheGateStops, Somewhere, TInv, TypeOK, PusherTypeOK
<1>1. ASSUME NEW p \in Pushers, PusherStep(p) \/ PlayStep(p) PROVE AloneOnlyTheGateStops'
  <2>1. Several' = Several
    BY <1>1, MadeStays
  <2>2. CASE CheckGate(p)
    BY <2>1, <2>2 DEF CheckGate, PusherGoto, PusherAt
  <2>3. CASE CheckRunning(p)
    <3>1. running => Several
      <4> SUFFICES ASSUME running PROVE Several
        OBVIOUS
      <4>1. PICK q \in Pushers : pusher[q] \in {"play", "faulted"}
        BY DEF RunningIsPlaying
      <4>2. pusher[p] = "check"
        BY <2>3 DEF CheckRunning, PusherAt
      <4>. QED
        BY <4>1, <4>2 DEF Several, Made
    <3>. QED
      BY <2>1, <2>3, <3>1 DEF CheckRunning, PusherGoto, PusherAt
  <2>4. ASSUME UNCHANGED gateVars, pusher[p] \notin {"none", "exited", "quit"},
               NEW pc \in PusherPC \ {"none", "exited", "quit"},
               pusher' = [pusher EXCEPT ![p] = pc]
        PROVE  AloneOnlyTheGateStops'
    BY <2>1, <2>4 DEF gateVars
  <2>. QED
    BY <1>1, <2>2, <2>3, <2>4, PusherMoves
<1>2. ASSUME NEW t \in Tasks, TaskStep(t) \/ Message(t) PROVE AloneOnlyTheGateStops'
  <2>1. CASE Launch(t)
    BY <2>1, LaunchMakes DEF gateVars, Several, Made
  <2>2. CASE ~Launch(t)
    <3>1. UNCHANGED <<pusher_lock, running_lock>>
      BY <1>2, <2>2, OtherHandlers DEF lockPusher, PushSong, Clear, unlockPusher, gateVars
    <3>. QED
      BY <1>2, <2>2, <3>1, HandlersLeavePushers
  <2>. QED
    BY <2>1, <2>2
<1>3. CASE ToggleLoop \/ AdminDisconnect \/ OnClose
  BY <1>3, OthersSwitchLoop DEF gateVars, Several, Made
<1>4. CASE UNCHANGED vars
  BY <1>4 DEF vars, gateVars, Several, Made
<1>. QED
  BY <1>1, <1>2, <1>3, <1>4 DEF Next

\* A step raises the player's flag only inside play().
LEMMA RunningStep == TInv /\ QInv /\ [Next]_vars => RunningIsPlaying'
<1> SUFFICES ASSUME TInv, QInv, [Next]_vars PROVE RunningIsPlaying'
  OBVIOUS
<1> USE DEF QInv, RunningIsPlaying, Somewhere, TInv, TypeOK, PusherTypeOK
<1>1. ASSUME NEW p \in Pushers, PusherStep(p) PROVE RunningIsPlaying'
  <2>1. CASE StartSong(p)
    BY <2>1 DEF StartSong, PusherGoto
  <2>2. CASE ~StartSong(p)
    <3>1. UNCHANGED running /\ pusher[p] \notin {"play", "faulted"}
      BY <1>1, <2>2
         DEF PusherStep, Poll, CheckSession, CountIdle, CheckGate, CheckRunning, PopSong,
             WaitPlayer, Requeue, PusherAt
    <3>2. \A q \in Pushers : pusher[q] \in {"play", "faulted"} => pusher'[q] = pusher[q]
      BY <1>1, <3>1, MadeStays
    <3>. QED
      BY <3>1, <3>2
  <2>. QED
    BY <2>1, <2>2
<1>2. ASSUME NEW p \in Pushers, PlayStep(p) PROVE RunningIsPlaying'
  BY <1>2 DEF PlayStep, SenderFlips, PlayReturns, LowerRunning, PlayThrows, PusherGoto, PusherAt
<1>3. ASSUME NEW t \in Tasks, TaskStep(t) \/ Message(t) PROVE RunningIsPlaying'
  <2>1. CASE Launch(t)
    BY <2>1, LaunchMakes
  <2>2. CASE ~Launch(t)
    BY <1>3, <2>2, HandlersLeavePushers
  <2>. QED
    BY <2>1, <2>2
<1>4. CASE ToggleLoop \/ AdminDisconnect \/ OnClose
  BY <1>4, OthersSwitchLoop
<1>5. CASE UNCHANGED vars
  BY <1>5 DEF vars
<1>. QED
  BY <1>1, <1>2, <1>3, <1>4, <1>5 DEF Next

\* A step keeps the front of the queue while a lone pusher relies on it:
\* requests only append, and Clear records that it ran.
LEMMA FrontStep == TInv /\ QInv /\ [Next]_vars => FrontIsHeld'
<1> SUFFICES ASSUME TInv, QInv, [Next]_vars PROVE FrontIsHeld'
  OBVIOUS
<1> USE DEF TInv, TypeOK, QueueTypeOK, PusherTypeOK, QInv, FrontIsHeld
<1>1. ASSUME NEW p \in Pushers, PusherStep(p) \/ PlayStep(p) PROVE FrontIsHeld'
  <2> SUFFICES ASSUME ~Several PROVE FrontIsHeld'
    BY <1>1, MadeStays
  <2>1. \A q \in Pushers \ {p} : pusher'[q] = "none"
    BY <1>1, MadeStays, OneIsAlone
  <2>2. CASE PusherStep(p)
    BY <2>1, <2>2
       DEF PusherStep, Poll, SongsWaiting, CheckSession, PusherGoto, CountIdle, CheckGate,
           CheckRunning, StartSong, PopSong, WaitPlayer, Requeue, PusherAt
  <2>3. CASE PlayStep(p)
    BY <2>1, <2>3 DEF PlayStep, SenderFlips, PlayReturns, PlayThrows, PusherGoto, PusherAt
  <2>. QED
    BY <1>1, <2>2, <2>3
<1>2. ASSUME NEW t \in Tasks, TaskStep(t) \/ Message(t) PROVE FrontIsHeld'
  <2>1. CASE Launch(t)
    <3>1. CASE UNCHANGED pusher
      BY <2>1, <3>1, LaunchMakes DEF Several, Made
    <3>2. ASSUME NEW p \in Pushers, pusher[p] = "none", pusher' = [pusher EXCEPT ![p] = "poll"]
          PROVE  FrontIsHeld'
      <4>1. \A q \in Pushers \ {p} : pusher'[q] = pusher[q]
        BY <3>2
      <4>2. pusher'[p] = "poll"
        BY <3>2
      <4>3. ~Several' => \A q \in Pushers \ {p} : pusher'[q] = "none"
        BY <4>1, <4>2 DEF Several, Made
      <4>. QED
        BY <4>2, <4>3
    <3>. QED
      BY <2>1, <3>1, <3>2, LaunchMakes
  <2>2. CASE PushSong(t)
    <3>1. task[t].song \in Songs
      BY <2>2 DEF PushSong, At, RequestsNameSongs
    <3>2. selfqueue' = Append(selfqueue, task[t].song) /\ UNCHANGED <<nowplaying, pusher, cleared>>
      BY <2>2 DEF PushSong, QueueSong
    <3>3. /\ selfqueue' # <<>>
          /\ selfqueue # <<>> => Head(selfqueue') = Head(selfqueue)
      BY <3>1, <3>2
    <3>4. Several' = Several
      BY <3>2 DEF Several, Made
    <3>. QED
      BY <3>2, <3>3, <3>4
  <2>3. CASE Clear(t)
    BY <2>3 DEF Clear
  <2>4. CASE ~Launch(t) /\ UNCHANGED <<selfqueue, nowplaying, cleared>>
    BY <1>2, <2>4, HandlersLeavePushers
  <2>. QED
    BY <1>2, <2>1, <2>2, <2>3, <2>4, OtherHandlers DEF lockPusher, unlockPusher
<1>3. CASE ToggleLoop \/ AdminDisconnect \/ OnClose
  BY <1>3, OthersSwitchLoop DEF Several, Made
<1>4. CASE UNCHANGED vars
  BY <1>4 DEF vars, Several, Made
<1>. QED
  BY <1>1, <1>2, <1>3, <1>4 DEF Next

\* A step of a lone pusher that finds the queue empty at StartSong or PopSong
\* had a Clear before it.
LEMMA EmptyStep == TInv /\ QInv /\ [Next]_vars => EmptyOnlyByLeave'
<1> SUFFICES ASSUME TInv, QInv, [Next]_vars PROVE EmptyOnlyByLeave'
  OBVIOUS
<1> USE DEF QInv, EmptyOnlyByLeave
<1>1. ASSUME NEW p \in Pushers, PusherStep(p) PROVE EmptyOnlyByLeave'
  <2>1. CASE StartSong(p) \/ PopSong(p)
    <3>1. Several' = Several /\ UNCHANGED cleared
      BY <1>1, <2>1, MadeStays DEF StartSong, PopSong
    <3>2. crashed' = "selfqueue" => selfqueue = <<>> /\ pusher[p] \in {"start", "pop"}
      BY <2>1 DEF StartSong, PopSong, PusherAt, Alive
    <3>. QED
      BY <3>1, <3>2 DEF FrontIsHeld
  <2>2. CASE ~(StartSong(p) \/ PopSong(p))
    BY <1>1, <2>2
       DEF PusherStep, Poll, CheckSession, CountIdle, CheckGate, CheckRunning, WaitPlayer,
           Requeue, PusherAt, Alive
  <2>. QED
    BY <2>1, <2>2
<1>2. ASSUME NEW p \in Pushers, PlayStep(p) PROVE EmptyOnlyByLeave'
  BY <1>2 DEF PlayStep, SenderFlips, PlayReturns, PlayThrows, PusherAt, Alive
<1>3. ASSUME NEW t \in Tasks, TaskStep(t) \/ Message(t) PROVE EmptyOnlyByLeave'
  BY <1>3, OtherHandlers, LaunchMakes DEF lockPusher, PushSong, Clear, unlockPusher, At, Alive
<1>4. CASE ToggleLoop \/ AdminDisconnect \/ OnClose
  BY <1>4, OthersSwitchLoop
<1>5. CASE UNCHANGED vars
  BY <1>5 DEF vars, Several, Made
<1>. QED
  BY <1>1, <1>2, <1>3, <1>4, <1>5 DEF Next

\* The invariant the queue's properties are read from, with its strengthenings,
\* however many pushers start() comes to create.
THEOREM QueueCorrect == Spec => [](TInv /\ QInv)
<1>1. Init => TInv /\ QInv
  <2>1. Init => QInv
    BY DEF Init, QInv, AloneOnlyTheGateStops, RunningIsPlaying, FrontIsHeld, EmptyOnlyByLeave,
           Somewhere
  <2>. QED
    BY <2>1, InitTypes
<1>2. TInv /\ QInv /\ [Next]_vars => (TInv /\ QInv)'
  BY TypesKept, GateStep, RunningStep, FrontStep, EmptyStep DEF QInv
<1>. QED
  BY <1>1, <1>2, PTL DEF Spec

\* A pusher that stops keeps the lock of the section it stopped in; one that is
\* alone stops at a locked gate and nowhere else.
THEOREM StopsOnlyAtTheGate == Spec => []AloneOnlyTheGateStops
<1>1. QInv => AloneOnlyTheGateStops
  BY DEF QInv
<1>. QED
  BY <1>1, QueueCorrect, PTL

\* Only ?leave, or another pusher, can make a pusher read or remove the front of
\* an empty queue.
THEOREM EmptyAccessNeedsLeave == Spec => []EmptyOnlyByLeave
<1>1. QInv => EmptyOnlyByLeave
  BY DEF QInv
<1>. QED
  BY <1>1, QueueCorrect, PTL

\* A step from the removal of a song to the wait is PopSong.
LEMMA OnlyPopSongPops ==
  ASSUME TInv, Next, NEW p \in Pushers, pusher[p] = "pop", pusher'[p] = "wait"
  PROVE  PopSong(p)
<1>1. ASSUME NEW q \in Pushers, PusherStep(q) \/ PlayStep(q) PROVE PopSong(p)
  <2>1. q = p
    BY <1>1, MadeStays
  <2>. QED
    BY <1>1, <2>1
       DEF PusherStep, Poll, CheckSession, CountIdle, CheckGate, CheckRunning, StartSong,
           WaitPlayer, Requeue, PlayStep, SenderFlips, PlayReturns, PlayThrows, PusherAt
<1>2. ASSUME NEW t \in Tasks, TaskStep(t) \/ Message(t) PROVE FALSE
  <2>1. CASE Launch(t)
    BY <2>1, LaunchMakes DEF TInv, TypeOK, PusherTypeOK
  <2>2. CASE ~Launch(t)
    BY <1>2, <2>2, HandlersLeavePushers
  <2>. QED
    BY <2>1, <2>2
<1>3. CASE ToggleLoop \/ AdminDisconnect \/ OnClose
  BY <1>3, OthersSwitchLoop
<1>. QED
  BY <1>1, <1>2, <1>3 DEF Next

\* The song that a lone pusher removes after play() is the song that was played.
THEOREM RemovesThePlayedSong == Spec => PopsWhatItPlayed
<1>1. TInv /\ QInv /\ [Next]_vars =>
        [\A p \in Pushers :
           (pusher[p] = "pop" /\ pusher'[p] = "wait" /\ state /\ ~cleared /\ ~Several) =>
             /\ selfqueue # <<>> /\ Head(selfqueue) = nowplaying
             /\ selfqueue' = Tail(selfqueue)]_vars
  <2> SUFFICES ASSUME TInv, QInv, Next, NEW p \in Pushers, pusher[p] = "pop",
                      pusher'[p] = "wait", state, ~cleared, ~Several
               PROVE  /\ selfqueue # <<>> /\ Head(selfqueue) = nowplaying
                      /\ selfqueue' = Tail(selfqueue)
    OBVIOUS
  <2>1. PopSong(p)
    BY OnlyPopSongPops
  <2>. QED
    BY <2>1 DEF PopSong, QInv, FrontIsHeld
<1>. QED
  BY <1>1, QueueCorrect, PTL DEF Spec, PopsWhatItPlayed

\* After a pusher stopped at the gate, it stays, its gate stays what it is, and
\* a song is started only by a pusher that was past the gate, once.
THEOREM StoppedForGood == Spec => ExitIsFinal
<1> DEFINE Final == /\ Somewhere({"exited"})' /\ UNCHANGED is_pusher_locked
                    /\ ToStart' \subseteq ToStart
                    /\ ToStart' = ToStart => UNCHANGED nowplaying
<1>1. TInv /\ QInv /\ [Next]_vars => [Somewhere({"exited"}) => Final]_vars
  <2> SUFFICES ASSUME TInv, QInv, Next, Somewhere({"exited"}) PROVE Final
    OBVIOUS
  <2>0. PICK e \in Pushers : pusher[e] = "exited"
    BY DEF Somewhere
  <2>1. pusher_lock = "leaked"
    BY DEF QInv, AloneOnlyTheGateStops
  <2>2. ASSUME NEW p \in Pushers, PusherStep(p) \/ PlayStep(p) PROVE Final
    <3>1. UNCHANGED is_pusher_locked /\ pusher[p] # "exited"
      BY <2>1, <2>2, PusherMoves DEF gateVars, CheckGate, CheckRunning, PusherAt
    <3>2. Somewhere({"exited"})'
      BY <2>0, <2>2, <3>1, MadeStays DEF Somewhere
    <3>3. CASE StartSong(p) /\ selfqueue # <<>>
      <4>1. pusher[p] = "start" /\ pusher'[p] = "play"
        BY <3>3 DEF StartSong, PusherAt, PusherGoto, TInv, TypeOK, PusherTypeOK
      <4>. QED
        BY <2>2, <3>1, <3>2, <4>1, MadeStays DEF ToStart
    <3>4. CASE ~(StartSong(p) /\ selfqueue # <<>>)
      <4>1. UNCHANGED nowplaying
        BY <2>2, <3>4
           DEF PusherStep, Poll, CheckSession, CountIdle, CheckGate, CheckRunning, StartSong,
               PopSong, WaitPlayer, Requeue, PlayStep, SenderFlips, PlayReturns, PlayThrows
      <4>2. pusher'[p] \in {"check", "start"} => pusher[p] \in {"check", "start"}
        BY <2>1, <2>2, <3>4
           DEF PusherStep, Poll, CheckSession, CountIdle, CheckGate, CheckRunning, StartSong,
               PopSong, WaitPlayer, Requeue, PlayStep, SenderFlips, PlayReturns, PlayThrows,
               PusherAt, PusherGoto, TInv, TypeOK, PusherTypeOK
      <4>. QED
        BY <2>2, <3>1, <3>2, <4>1, <4>2, MadeStays DEF ToStart
    <3>. QED
      BY <3>3, <3>4
  <2>3. ASSUME NEW t \in Tasks, TaskStep(t) \/ Message(t) PROVE Final
    <3>1. CASE Launch(t)
      BY <2>0, <3>1, LaunchMakes
         DEF gateVars, Somewhere, ToStart, TInv, TypeOK, PusherTypeOK
    <3>2. CASE ~Launch(t)
      <4>1. UNCHANGED is_pusher_locked
        BY <2>1, <2>3, <3>2, OtherHandlers DEF lockPusher, unlockPusher, PushSong, Clear, gateVars
      <4>. QED
        BY <2>0, <2>3, <3>2, <4>1, HandlersLeavePushers DEF Somewhere, ToStart
    <3>. QED
      BY <3>1, <3>2
  <2>4. CASE ToggleLoop \/ AdminDisconnect \/ OnClose
    BY <2>0, <2>4, OthersSwitchLoop DEF gateVars, Somewhere, ToStart
  <2>. QED
    BY <2>2, <2>3, <2>4 DEF Next
<1>. QED
  BY <1>1, QueueCorrect, PTL DEF Spec, ExitIsFinal

-----------------------------------------------------------------------------
(* Pusher implements Jukebox.                                              *)

\* From the moment a song is played until the next round, nowplaying names it:
\* the test against "" before a song is put back is always passed.
SongIsNamed == Somewhere({"play", "pop", "wait", "requeue"}) => nowplaying \in Songs

\* A step leaves a song in nowplaying: StartSong writes it, and nobody else.
LEMMA NamedStep == TInv /\ SongIsNamed /\ [Next]_vars => SongIsNamed'
<1> SUFFICES ASSUME TInv, SongIsNamed, [Next]_vars PROVE SongIsNamed'
  OBVIOUS
<1> USE DEF SongIsNamed, Somewhere
<1>1. ASSUME NEW p \in Pushers, PusherStep(p) \/ PlayStep(p) PROVE SongIsNamed'
  <2>1. CASE StartSong(p) /\ selfqueue # <<>>
    BY <2>1 DEF StartSong, TInv, TypeOK, QueueTypeOK
  <2>2. CASE ~(StartSong(p) /\ selfqueue # <<>>)
    <3>1. UNCHANGED nowplaying
      BY <1>1, <2>2
         DEF PusherStep, Poll, CheckSession, CountIdle, CheckGate, CheckRunning, StartSong,
             PopSong, WaitPlayer, Requeue, PlayStep, SenderFlips, PlayReturns, PlayThrows
    <3>2. pusher'[p] \in {"play", "pop", "wait", "requeue"} =>
            pusher[p] \in {"play", "pop", "wait", "requeue"}
      BY <1>1, <2>2
         DEF PusherStep, Poll, CheckSession, CountIdle, CheckGate, CheckRunning, StartSong,
             PopSong, WaitPlayer, Requeue, PlayStep, SenderFlips, PlayReturns, PlayThrows,
             PusherAt, PusherGoto, TInv, TypeOK, PusherTypeOK
    <3>. QED
      BY <1>1, <3>1, <3>2, MadeStays
  <2>. QED
    BY <2>1, <2>2
<1>2. ASSUME NEW t \in Tasks, TaskStep(t) \/ Message(t) PROVE SongIsNamed'
  <2>1. CASE Launch(t)
    BY <2>1, LaunchMakes DEF TInv, TypeOK, PusherTypeOK
  <2>2. CASE ~Launch(t)
    BY <1>2, <2>2, HandlersLeavePushers
  <2>. QED
    BY <2>1, <2>2
<1>3. CASE ToggleLoop \/ AdminDisconnect \/ OnClose
  BY <1>3, OthersSwitchLoop
<1>4. CASE UNCHANGED vars
  BY <1>4 DEF vars
<1>. QED
  BY <1>1, <1>2, <1>3, <1>4 DEF Next

\* The stage of a lone pusher is that of its place.
LEMMA LoneStage ==
  ASSUME TInv, ~Several, crashed # "selfqueue", NEW p \in Pushers, pusher[p] # "none"
  PROVE  Stage = CASE pusher[p] \in {"session", "gate", "check", "start"} -> "found"
                   [] pusher[p] = "play" -> "playing"
                   [] pusher[p] = "pop" -> "over"
                   [] pusher[p] \in {"wait", "requeue"} -> "done"
                   [] pusher[p] \in {"exited", "quit", "faulted"} -> "stopped"
                   [] OTHER -> "idle"
<1>1. \A S : "none" \notin S => (Somewhere(S) <=> pusher[p] \in S)
  BY OneIsAlone DEF Somewhere
<1>. QED
  BY <1>1 DEF Stage

\* Two pushers share the queue: what one does to it is a step of Shared.
LEMMA SharedPlays ==
  ASSUME TInv, SongIsNamed, Several, NEW p \in Pushers, PusherStep(p) \/ PlayStep(p)
  PROVE  [J!Next]_J!vars
<1>1. Stage = "shared" /\ (crashed' # "selfqueue" => Stage' = "shared")
      /\ (crashed' = "selfqueue" => Stage' = "lost")
  BY MadeStays, PusherMoves DEF Stage
<1> USE DEF J!vars, J!Next, J!Shared, PusherAt, Alive
<1>2. CASE Poll(p)
  BY <1>1, <1>2 DEF Poll, SongsWaiting, J!SharedForget
<1>3. CASE \/ CheckSession(p) \/ CountIdle(p) \/ CheckGate(p) \/ CheckRunning(p)
           \/ WaitPlayer(p) \/ PlayStep(p)
  <2>1. UNCHANGED <<selfqueue, nowplaying, loop, cleared>> /\ crashed' # "selfqueue"
    BY <1>3 DEF CheckSession, CountIdle, CheckGate, CheckRunning, WaitPlayer, PlayStep,
                SenderFlips, PlayReturns, PlayThrows
  <2>. QED
    BY <1>1, <2>1
<1>4. CASE StartSong(p)
  BY <1>1, <1>4 DEF StartSong, J!SharedPlay, J!SharedLose, J!Move
<1>5. CASE PopSong(p)
  BY <1>1, <1>5 DEF PopSong, J!SharedRemove, J!SharedLose, J!Move
<1>6. CASE Requeue(p)
  BY <1>1, <1>6 DEF Requeue, J!SharedAgain
<1>. QED
  BY <1>2, <1>3, <1>4, <1>5, <1>6 DEF PusherStep

\* A step of a lone pusher or of its play() is the step of Jukebox between the
\* stages it joins, or none; an empty queue at StartSong or PopSong is a Lose,
\* because FrontIsHeld says that a ?leave came before it.
LEMMA PusherPlays ==
  ASSUME TInv, QInv, SongIsNamed, ~Several, NEW p \in Pushers, PusherStep(p) \/ PlayStep(p)
  PROVE  [J!Next]_J!vars
<1> DEFINE Place(pc) == CASE pc \in {"session", "gate", "check", "start"} -> "found"
                          [] pc = "play" -> "playing"
                          [] pc = "pop" -> "over"
                          [] pc \in {"wait", "requeue"} -> "done"
                          [] pc \in {"exited", "quit", "faulted"} -> "stopped"
                          [] OTHER -> "idle"
<1>1. Stage = Place(pusher[p])
  BY LoneStage, MadeStays, PusherMoves
<1>2. ASSUME crashed' # "selfqueue" PROVE Stage' = Place(pusher'[p])
  <2>1. ~Several' /\ pusher'[p] # "none"
    BY MadeStays DEF Made
  <2>2. \A S : "none" \notin S => (Somewhere(S)' <=> pusher'[p] \in S)
    BY MadeStays, OneIsAlone DEF Somewhere
  <2>. QED
    BY <1>2, <2>1, <2>2 DEF Stage
<1>3. crashed' = "selfqueue" => Stage' = "lost"
  BY DEF Stage
<1>4. crashed = "no" /\ \A pc : PusherGoto(p, pc) => pusher'[p] = pc
  BY PusherMoves DEF PusherGoto, TInv, TypeOK, PusherTypeOK
<1> HIDE DEF Stage
<1> USE DEF J!vars, J!Next, J!Move, PusherAt
<1>5. CASE Poll(p)
  BY <1>1, <1>2, <1>4, <1>5 DEF Poll, SongsWaiting, J!Find
<1>6. CASE CheckSession(p)
  BY <1>1, <1>2, <1>4, <1>6 DEF CheckSession, J!Pass
<1>7. CASE CountIdle(p) \/ WaitPlayer(p) \/ SenderFlips(p)
  <2>1. UNCHANGED <<selfqueue, nowplaying, loop, cleared>> /\ crashed' = crashed
    BY <1>7 DEF CountIdle, WaitPlayer, SenderFlips
  <2>2. Place(pusher'[p]) = Place(pusher[p])
    BY <1>4, <1>7 DEF CountIdle, WaitPlayer, SenderFlips
  <2>. QED
    BY <1>1, <1>2, <1>4, <2>1, <2>2
<1>8. CASE CheckGate(p)
  BY <1>1, <1>2, <1>4, <1>8 DEF CheckGate, J!Stop
<1>9. CASE CheckRunning(p)
  BY <1>1, <1>2, <1>4, <1>9 DEF CheckRunning, J!Stop
<1>10. CASE StartSong(p)
  <2>1. CASE selfqueue # <<>>
    BY <1>1, <1>2, <1>4, <1>10, <2>1 DEF StartSong, J!Play
  <2>2. CASE selfqueue = <<>>
    BY <1>1, <1>3, <1>10, <2>2 DEF StartSong, QInv, FrontIsHeld, J!Lose, TInv, TypeOK, FlagTypeOK
  <2>. QED
    BY <2>1, <2>2
<1>11. CASE PlayReturns(p)
  BY <1>1, <1>2, <1>4, <1>11 DEF PlayReturns, J!Finish
<1>12. CASE PlayThrows(p)
  BY <1>1, <1>2, <1>4, <1>12 DEF PlayThrows, J!Stop
<1>13. CASE PopSong(p)
  <2>1. CASE ~state
    BY <1>1, <1>2, <1>4, <1>13, <2>1 DEF PopSong, J!Keep
  <2>2. CASE state /\ selfqueue # <<>>
    BY <1>1, <1>2, <1>4, <1>13, <2>2
       DEF PopSong, QInv, FrontIsHeld, J!Remove, TInv, TypeOK, FlagTypeOK
  <2>3. CASE state /\ selfqueue = <<>>
    BY <1>1, <1>3, <1>13, <2>3
       DEF PopSong, QInv, FrontIsHeld, J!Lose, TInv, TypeOK, FlagTypeOK
  <2>. QED
    BY <2>1, <2>2, <2>3
<1>14. CASE Requeue(p)
  BY <1>1, <1>2, <1>4, <1>14, NoneAssumption DEF Requeue, SongIsNamed, Somewhere, J!Again
<1>. QED
  BY <1>5, <1>6, <1>7, <1>8, <1>9, <1>10, <1>11, <1>12, <1>13, <1>14 DEF PusherStep, PlayStep

\* The stage is that of the pushers' places, whatever else happens.
LEMMA StageOfPlace ==
  ASSUME pusher' = pusher, crashed # "selfqueue", crashed' # "selfqueue"
  PROVE  Stage' = Stage
BY DEF Stage, Somewhere, Several, Made

\* A handler requests a song or drops all of them, makes the first pusher or
\* another one, or leaves what the user sees alone.
LEMMA HandlersRequest ==
  ASSUME TInv, NEW t \in Tasks, TaskStep(t) \/ Message(t)
  PROVE  [J!Next]_J!vars
<1> USE DEF J!vars
<1>1. CASE PushSong(t)
  <2>1. task[t].song \in Songs
    BY <1>1 DEF PushSong, At, TInv, RequestsNameSongs
  <2>2. Stage' = Stage
    BY <1>1, StageOfPlace DEF PushSong, At, Alive
  <2>. QED
    BY <1>1, <2>1, <2>2 DEF PushSong, QueueSong, J!Next, J!Request
<1>2. CASE Clear(t)
  <2>1. Stage' = Stage
    BY <1>2, StageOfPlace DEF Clear, At, Alive
  <2>. QED
    BY <1>2, <2>1 DEF Clear, J!Next, J!Drop
<1>3. CASE Launch(t)
  <2>1. /\ UNCHANGED <<selfqueue, nowplaying, loop, cleared>>
        /\ crashed = "no" /\ crashed' # "selfqueue"
    BY <1>3, LaunchMakes
  <2>2. CASE UNCHANGED pusher
    BY <2>1, <2>2, StageOfPlace
  <2>3. ASSUME NEW p \in Pushers, pusher[p] = "none", pusher' = [pusher EXCEPT ![p] = "poll"]
        PROVE  [J!Next]_J!vars
    <3>1. pusher'[p] = "poll" /\ \A q \in Pushers \ {p} : pusher'[q] = pusher[q]
      BY <2>3 DEF TInv, TypeOK, PusherTypeOK
    <3>2. CASE Several'
      <4>1. Stage' = "shared" /\ Stage # "lost"
        BY <2>1, <3>2 DEF Stage
      <4>. QED
        BY <2>1, <4>1 DEF J!Next, J!Share
    <3>3. CASE ~Several'
      <4>1. \A q \in Pushers : pusher[q] = "none" /\ pusher'[q] \in {"none", "poll"}
        BY <2>3, <3>1, <3>3 DEF Several, Made
      <4>2. Stage = "idle" /\ Stage' = "idle"
        BY <2>1, <3>3, <4>1 DEF Stage, Somewhere, Several, Made
      <4>. QED
        BY <2>1, <4>2
    <3>. QED
      BY <3>2, <3>3
  <2>. QED
    BY <1>3, <2>2, <2>3, LaunchMakes
<1>4. CASE UNCHANGED <<selfqueue, nowplaying, loop, cleared, pusher>> /\ crashed = "no"
           /\ crashed' # "selfqueue"
  BY <1>4, StageOfPlace
<1>. QED
  BY <1>1, <1>2, <1>3, <1>4, OtherHandlers DEF lockPusher, unlockPusher, At, Alive

\* Each step of the guild's threads is a step of Jukebox or leaves its
\* variables alone.
LEMMA JukeboxStep == TInv /\ QInv /\ SongIsNamed /\ [Next]_vars => [J!Next]_J!vars
<1> SUFFICES ASSUME TInv, QInv, SongIsNamed, [Next]_vars PROVE [J!Next]_J!vars
  OBVIOUS
<1>1. CASE UNCHANGED vars
  BY <1>1 DEF vars, J!vars, Stage, Somewhere, Several, Made
<1>2. CASE ToggleLoop \/ AdminDisconnect \/ OnClose
  <2>1. Stage' = Stage /\ UNCHANGED <<selfqueue, nowplaying, cleared>>
    BY <1>2, OthersSwitchLoop, StageOfPlace
  <2>2. loop' = loop \/ loop' = ~loop
    BY <1>2, OthersSwitchLoop
  <2>. QED
    BY <2>1, <2>2 DEF J!vars, J!Next, J!SwitchLoop
<1>. QED
  BY <1>1, <1>2, SharedPlays, PusherPlays, HandlersRequest DEF Next

\* The queue of a guild keeps what Jukebox promises, for any users, closes,
\* acknowledgements and races of start(): order of requests, removal of the
\* played song only, repetition only under ?loop, loss only to a ?leave, while
\* one pusher serves it, and removal from the front only when more do.
THEOREM ImplementsJukebox == Spec => JukeboxSpec
<1>1. Init => SongIsNamed /\ J!Init
  BY NoneAssumption DEF Init, SongIsNamed, Somewhere, J!Init, Stage, Several, Made
<1>2. TInv /\ SongIsNamed /\ [Next]_vars => SongIsNamed'
  BY NamedStep
<1>. QED
  BY <1>1, <1>2, JukeboxStep, QueueCorrect, PTL DEF Spec, JukeboxSpec, J!Spec
=============================================================================
