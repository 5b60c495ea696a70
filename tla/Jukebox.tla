------------------------------ MODULE Jukebox ------------------------------
(***************************************************************************)
(* What the song queue of a guild promises its users: songs are played in  *)
(* the order they were requested in, a song leaves the queue only when it  *)
(* has been played or a ?leave has dropped them all, and comes back behind *)
(* the others only under ?loop.  How the pusher and the handlers see to it *)
(* is hidden: sessions, the gate, the flags, the idle count.  That much is *)
(* promised while one pusher serves the queue; when two do (stage          *)
(* "shared") songs are still taken from the front and put back at the end, *)
(* but nobody says that the one removed is the one that was played.        *)
(* Pusher implements it.                                                   *)
(***************************************************************************)
EXTENDS Sequences

CONSTANT Songs

VARIABLES
  queue,    \* songs waiting, the one being played at the head
  song,     \* the one taken last
  stage,    \* "idle", "found" a song, "playing" it, "over", "done" with it;
            \* "stopped" for good; "shared" by two; "lost": read an empty queue
  loop,     \* ?loop is on
  dropped   \* a ?leave emptied the queue since a song was found

vars == <<queue, song, stage, loop, dropped>>

Init ==
  /\ queue = <<>> /\ song \notin Songs
  /\ stage = "idle" /\ loop = FALSE /\ dropped = FALSE

\* From stage `from` to stage `to`.
Move(from, to) == stage = from /\ stage' = to

Request(s) == queue' = Append(queue, s) /\ UNCHANGED <<song, stage, loop, dropped>>

Drop == queue' = <<>> /\ dropped' = TRUE /\ UNCHANGED <<song, stage, loop>>

\* The user toggles it; a session that closes switches it off.
SwitchLoop == loop' = ~loop /\ UNCHANGED <<queue, song, stage, dropped>>

Find ==
  /\ Move("idle", "found")
  /\ queue # <<>> /\ dropped' = FALSE
  /\ UNCHANGED <<queue, song, loop>>

\* There is a song, but no session.
Pass == Move("found", "idle") /\ UNCHANGED <<queue, song, loop, dropped>>

Play ==
  /\ Move("found", "playing")
  /\ queue # <<>> /\ song' = Head(queue)
  /\ UNCHANGED <<queue, loop, dropped>>

Finish == Move("playing", "over") /\ UNCHANGED <<queue, song, loop, dropped>>

\* The front is the song that was played, unless other songs came in its place.
Remove ==
  /\ Move("over", "done")
  /\ queue # <<>> /\ (Head(queue) = song \/ dropped)
  /\ queue' = Tail(queue)
  /\ UNCHANGED <<song, loop, dropped>>

\* The session closed meanwhile: the song stays, to be played again.
Keep == Move("over", "done") /\ UNCHANGED <<queue, song, loop, dropped>>

Again ==
  /\ Move("done", "idle")
  /\ queue' = IF loop THEN Append(queue, song) ELSE queue
  /\ UNCHANGED <<song, loop, dropped>>

\* The gate was locked, or playing failed.
Stop ==
  /\ Move("found", "stopped") \/ Move("playing", "stopped")
  /\ UNCHANGED <<queue, song, loop, dropped>>

\* Only a ?leave empties the queue under a song.
Lose ==
  /\ Move("found", "lost") \/ Move("over", "lost")
  /\ queue = <<>> /\ dropped
  /\ UNCHANGED <<queue, song, loop, dropped>>

-----------------------------------------------------------------------------
(* Two pushers, from whatever the first was at.                            *)

Share ==
  /\ stage \notin {"shared", "lost"} /\ stage' = "shared"
  /\ UNCHANGED <<queue, song, loop, dropped>>

SharedPlay ==
  /\ stage = "shared" /\ queue # <<>> /\ song' = Head(queue)
  /\ UNCHANGED <<queue, stage, loop, dropped>>

SharedRemove ==
  /\ stage = "shared" /\ queue # <<>> /\ queue' = Tail(queue)
  /\ UNCHANGED <<song, stage, loop, dropped>>

SharedAgain ==
  /\ stage = "shared" /\ loop /\ queue' = Append(queue, song)
  /\ UNCHANGED <<song, stage, loop, dropped>>

SharedForget ==
  /\ stage = "shared" /\ queue # <<>> /\ dropped' = FALSE
  /\ UNCHANGED <<queue, song, stage, loop>>

SharedLose == Move("shared", "lost") /\ queue = <<>> /\ UNCHANGED <<queue, song, loop, dropped>>

Shared == SharedPlay \/ SharedRemove \/ SharedAgain \/ SharedForget \/ SharedLose

-----------------------------------------------------------------------------
Next ==
  \/ \E s \in Songs : Request(s)
  \/ Drop \/ SwitchLoop
  \/ Find \/ Pass \/ Play \/ Finish \/ Remove \/ Keep \/ Again \/ Stop \/ Lose
  \/ Share \/ Shared

Spec == Init /\ [][Next]_vars
=============================================================================
