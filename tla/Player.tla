------------------------------- MODULE Player -------------------------------
(***************************************************************************)
(* voiceclient::play and the threads that meet in it: the pusher's thread, *)
(* which encodes the song into buffer, the sender task, which empties it   *)
(* onto the UDP socket, and the close handler of the voice websocket,      *)
(* which cancels both through p_token and closes the socket.  A frame is   *)
(* its number in the song.  running_lock and buffer_lock guard one step    *)
(* each; buffer_lock is left behind by a sender that fails.                *)
(***************************************************************************)
EXTENDS Naturals, Sequences

CONSTANTS
  Frames,       \* bound: frames of 20 ms in the song
  SkipFrames,   \* 10 in the code
  SeqMod        \* 65536 in the code: _sequence is an unsigned short

ASSUME FrameAssumption ==
  Frames \in Nat /\ SkipFrames \in Nat \ {0} /\ SeqMod \in Nat \ {0}

VARIABLES
  encoder,      \* where the pusher's thread is in play()
  frame,        \* frames read from the source
  buffer,       \* packets for the sender
  run_timer,    \* the song is not over
  sender,       \* where the sender task is, or how it ended
  sent,         \* history: last frame put on the wire, 0 before the first
  buffer_lock,  \* "free", or "leaked": the sender returned without unlock
  running,      \* flag read by on_close and by the pusher
  canceled,     \* p_token is canceled
  closer,       \* where on_close is
  socket,       \* the UDP socket is open
  state         \* a session is up

playVars == <<frame, buffer, run_timer, sent, buffer_lock>>
sessionVars == <<canceled, closer, socket, state>>
vars == <<encoder, sender, running, playVars, sessionVars>>

Preparing == {"idle", "ready", "prepare"}
Encoding == {"loop", "read", "token", "encode", "push"}
Closing == {"finish", "wait", "lower", "delete"}
EncoderPC == Preparing \cup Encoding \cup Closing \cup {"thrown"}
Ended == {"none", "finished", "cancelled", "failed"}
SenderPC == {"first", "second", "raise", "drain", "send", "token", "lower"} \cup Ended

TypeOK ==
  /\ encoder \in EncoderPC /\ sender \in SenderPC
  /\ frame \in 0 .. Frames /\ sent \in 0 .. Frames
  /\ buffer \in Seq(1 .. Frames)
  /\ run_timer \in BOOLEAN /\ running \in BOOLEAN
  /\ buffer_lock \in {"free", "leaked"}
  /\ canceled \in BOOLEAN /\ socket \in BOOLEAN /\ state \in BOOLEAN
  /\ closer \in {"none", "check", "pulse", "cleanup"}

Init ==
  /\ encoder = "idle" /\ sender = "none"
  /\ frame = 0 /\ sent = 0 /\ buffer = <<>> /\ run_timer = FALSE
  /\ running = FALSE /\ buffer_lock = "free"
  /\ canceled = FALSE /\ closer = "none" /\ socket = FALSE /\ state = FALSE

-----------------------------------------------------------------------------
(* The pusher's thread.                                                    *)

\* The pusher saw a session; it may be gone when play() is called.
SeeSession ==
  /\ encoder = "idle" /\ state
  /\ encoder' = "ready"
  /\ UNCHANGED <<sender, running, playVars, sessionVars>>

\* Mutant: raising the flag is left to the sender task.
RaiseRunningNot == UNCHANGED running

RaiseRunning == running' = TRUE

\* running goes up before the title is asked for and the song downloaded.
StartPlay ==
  /\ encoder = "ready"
  /\ RaiseRunning /\ encoder' = "prepare"
  /\ UNCHANGED <<sender, playVars, sessionVars>>

\* Download, encoder, the sender task and an empty buffer.
Prepare ==
  /\ encoder = "prepare" /\ encoder' = "loop"
  /\ frame' = 0 /\ sent' = 0 /\ buffer' = <<>>
  /\ run_timer' = TRUE /\ sender' = "first"
  /\ UNCHANGED <<running, buffer_lock, sessionVars>>

\* The title query, opus or libsodium fails: the sender, if there is one, stays.
Throw ==
  /\ encoder \in {"prepare", "read", "encode"} /\ encoder' = "thrown"
  /\ UNCHANGED <<sender, running, playVars, sessionVars>>

\* A sender that is gone ends the song.  A full buffer delays this once.
EncodeLoop ==
  /\ encoder = "loop"
  /\ encoder' = IF sender \in Ended THEN "finish" ELSE "read"
  /\ UNCHANGED <<sender, running, playVars, sessionVars>>

\* Mutant: one read too many.
SourceEndedLate == frame > Frames

SourceEnded == frame = Frames

ReadFrame ==
  /\ encoder = "read"
  /\ \/ SourceEnded /\ encoder' = "finish" /\ UNCHANGED frame
     \/ ~SourceEnded /\ encoder' = "token" /\ frame' = frame + 1
  /\ UNCHANGED <<sender, running, buffer, run_timer, sent, buffer_lock, sessionVars>>

EncoderToken ==
  /\ encoder = "token"
  /\ encoder' = IF canceled THEN "finish" ELSE "encode"
  /\ UNCHANGED <<sender, running, playVars, sessionVars>>

\* Mutant: the number in the packet is compared, before it is counted up.
SkippedByPacket(n) == (n - 1) % SeqMod < SkipFrames

\* _sequence, one past the number in the packet of frame n, is compared.
Skipped(n) == n % SeqMod < SkipFrames

EncodeFrame ==
  /\ encoder = "encode"
  /\ encoder' = IF Skipped(frame) THEN "loop" ELSE "push"
  /\ UNCHANGED <<sender, running, playVars, sessionVars>>

QueueFrame == buffer' = Append(buffer, frame)

PushFrame ==
  /\ encoder = "push" /\ buffer_lock = "free"
  /\ QueueFrame /\ encoder' = "loop"
  /\ UNCHANGED <<sender, running, frame, run_timer, sent, buffer_lock, sessionVars>>

\* Mutant: the timer event stays set.
StopTimerNot == UNCHANGED run_timer

StopTimer == run_timer' = FALSE

UnsetTimer ==
  /\ encoder = "finish"
  /\ StopTimer /\ encoder' = "wait"
  /\ UNCHANGED <<sender, running, frame, buffer, sent, buffer_lock, sessionVars>>

\* Mutant: play() goes on without waiting for its sender.
SenderGoneUnchecked == TRUE

SenderGone == sender \in Ended

WaitSender ==
  /\ encoder = "wait" /\ SenderGone /\ encoder' = "lower"
  /\ UNCHANGED <<sender, running, playVars, sessionVars>>

PlayLowers ==
  /\ encoder = "lower"
  /\ running' = FALSE /\ encoder' = "delete"
  /\ UNCHANGED <<sender, playVars, sessionVars>>

\* run_timer and buffer are deleted and play() returns.
DeleteBuffer ==
  /\ encoder = "delete" /\ encoder' = "idle"
  /\ buffer' = <<>> /\ frame' = 0 /\ sent' = 0
  /\ UNCHANGED <<sender, running, run_timer, buffer_lock, sessionVars>>

-----------------------------------------------------------------------------
(* The sender task.                                                        *)

\* Mutant: the operands of the loop's condition change places.
LoopTestSwapped(i) == IF i = 1 THEN buffer # <<>> ELSE run_timer

\* The two operands of "run_timer is set or the buffer is not empty".
LoopTest(i) == IF i = 1 THEN run_timer ELSE buffer # <<>>

SenderFirstTest ==
  /\ sender = "first"
  /\ sender' = IF LoopTest(1) THEN "raise" ELSE "second"
  /\ UNCHANGED <<encoder, running, playVars, sessionVars>>

SenderSecondTest ==
  /\ sender = "second"
  /\ sender' = IF LoopTest(2) THEN "raise" ELSE "finished"
  /\ UNCHANGED <<encoder, running, playVars, sessionVars>>

SenderRaises ==
  /\ sender = "raise" /\ sender' = "drain"
  /\ running' = TRUE
  /\ UNCHANGED <<encoder, playVars, sessionVars>>

SenderDrains ==
  /\ sender = "drain"
  /\ sender' = IF buffer # <<>> THEN "send" ELSE "lower"
  /\ UNCHANGED <<encoder, running, playVars, sessionVars>>

\* A send on the closed socket fails, and the task returns inside the section.
SendFrame ==
  /\ sender = "send" /\ buffer_lock = "free"
  /\ \/ /\ socket
        /\ sent' = Head(buffer) /\ buffer' = Tail(buffer)
        /\ sender' = "token" /\ UNCHANGED <<buffer_lock, running>>
     \/ /\ ~socket
        /\ running' = FALSE /\ buffer_lock' = "leaked"
        /\ sender' = "failed" /\ UNCHANGED <<sent, buffer>>
  /\ UNCHANGED <<encoder, frame, run_timer, sessionVars>>

SenderToken ==
  /\ sender = "token"
  /\ sender' = IF canceled THEN "cancelled" ELSE "drain"
  /\ running' = IF canceled THEN FALSE ELSE running
  /\ UNCHANGED <<encoder, playVars, sessionVars>>

SenderLowers ==
  /\ sender = "lower" /\ sender' = "first"
  /\ running' = FALSE
  /\ UNCHANGED <<encoder, playVars, sessionVars>>

-----------------------------------------------------------------------------
(* The session and its close handler.                                      *)

\* Opcode 2 opens the socket, opcode 4 sets state.
OpenSession ==
  /\ closer = "none" /\ ~socket
  /\ socket' = TRUE /\ state' = TRUE
  /\ UNCHANGED <<encoder, sender, running, playVars, canceled, closer>>

Close ==
  /\ closer = "none" /\ state
  /\ state' = FALSE /\ closer' = "check"
  /\ UNCHANGED <<encoder, sender, running, playVars, canceled, socket>>

CloseCheck ==
  /\ closer = "check"
  /\ closer' = IF running THEN "pulse" ELSE "cleanup"
  /\ canceled' = running
  /\ UNCHANGED <<encoder, sender, running, playVars, socket, state>>

\* After 500 ms p_token belongs to a fresh source.
CloseRenews ==
  /\ closer = "pulse" /\ closer' = "cleanup"
  /\ canceled' = FALSE
  /\ UNCHANGED <<encoder, sender, running, playVars, socket, state>>

CloseSocket ==
  /\ closer = "cleanup" /\ closer' = "none"
  /\ socket' = FALSE
  /\ UNCHANGED <<encoder, sender, running, playVars, canceled, state>>

-----------------------------------------------------------------------------
EncoderStep ==
  \/ StartPlay \/ Prepare \/ EncodeLoop \/ ReadFrame \/ EncoderToken \/ EncodeFrame
  \/ PushFrame \/ UnsetTimer \/ WaitSender \/ PlayLowers \/ DeleteBuffer

SenderStep ==
  \/ SenderFirstTest \/ SenderSecondTest \/ SenderRaises \/ SenderDrains
  \/ SendFrame \/ SenderToken \/ SenderLowers

CloserStep == CloseCheck \/ CloseRenews \/ CloseSocket

Next ==
  \/ SeeSession \/ EncoderStep \/ Throw
  \/ SenderStep \/ OpenSession \/ Close \/ CloserStep

Spec == Init /\ [][Next]_vars

\* The three threads run; sessions and failures are not promised.
FairSpec ==
  Spec /\ WF_vars(EncoderStep) /\ WF_vars(SenderStep) /\ WF_vars(CloserStep)

-----------------------------------------------------------------------------
(* Properties.                                                             *)

\* The sender never touches a buffer that play() has deleted.
BufferOutlivesSender == encoder \in Preparing => sender \in Ended

\* A song that was neither cancelled nor cut by a UDP error is sent to its last
\* frame: nothing the encoder queued is left behind by the end of the sender.
EndsWithEmptyBuffer ==
  sender = "finished" => buffer = <<>> /\ ~run_timer

\* The frame to send after a, counted without a width: where _sequence wraps,
\* SkipFrames frames are left out, at the start one less.
FrameAfter(a) ==
  IF a = 0 THEN SkipFrames
  ELSE IF (a + 1) % SeqMod = 0 THEN a + 1 + SkipFrames
  ELSE a + 1

\* Frames go out in the order of the song, none twice and none left out but the
\* first ones and those behind each wrap.
FramesInOrder == [][sent' # sent /\ sent' # 0 => sent' = FrameAfter(sent)]_vars

\* play() keeps what the pusher and on_close rely on.
P == INSTANCE Playback WITH
       stage <- IF encoder \in {"idle", "ready", "delete"} THEN "idle"
                ELSE IF encoder = "thrown" THEN "thrown" ELSE "playing"
PlaybackSpec == P!Spec

\* A song ends, unless an exception ended play() or a failed sender kept the
\* buffer's lock.
PlayEnds == encoder = "loop" ~> encoder \in {"idle", "thrown"} \/ buffer_lock = "leaked"
=============================================================================
