------------------------------ MODULE Playback ------------------------------
(***************************************************************************)
(* What play() promises the pusher and the close handler about the flag    *)
(* running: it goes up when a song starts, may fall and rise while the     *)
(* song plays, and is down, for good, once play() has returned.  Pusher    *)
(* uses play() as StartSong, SenderFlips, PlayReturns and PlayThrows, the  *)
(* four actions below; Player implements them.                             *)
(***************************************************************************)
VARIABLES
  stage,    \* "idle", "playing", or "thrown": an exception ended play()
  running   \* the flag

vars == <<stage, running>>

Init == stage = "idle" /\ running = FALSE

Start == stage = "idle" /\ stage' = "playing" /\ running' = TRUE

Flip == stage \in {"playing", "thrown"} /\ running' = ~running /\ UNCHANGED stage

Return == stage = "playing" /\ stage' = "idle" /\ running' = FALSE

Throw == stage = "playing" /\ stage' = "thrown" /\ UNCHANGED running

Next == Start \/ Flip \/ Return \/ Throw

Spec == Init /\ [][Next]_vars
=============================================================================
