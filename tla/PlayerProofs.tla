---------------------------- MODULE PlayerProofs ----------------------------
(***************************************************************************)
(* Proofs about Player for a song of any length, any number of skipped     *)
(* frames and any width of the packet counter.                             *)
(***************************************************************************)
EXTENDS Player, SequenceTheorems, TLAPS

\* A frame on its way to the buffer has a number.
FrameRead == encoder \in {"token", "encode", "push"} => frame >= 1

\* Past its wait, and before the next song is ready, play() has no sender.
NoSender == encoder \in Preparing \cup {"lower", "delete"} => sender \in Ended

\* Nobody takes the frame the sender is about to send.
SendHasFrame == sender = "send" => buffer # <<>>

\* The sender sees the timer unset only when the encoder has queued its last
\* frame, so an empty buffer then stays empty.
TimerIsLast ==
  /\ encoder \in Encoding \cup {"finish"} => run_timer
  /\ sender \in {"second", "finished"} => ~run_timer
  /\ sender = "finished" => buffer = <<>>

\* The frame the next one to be queued must follow.
Last == IF buffer = <<>> THEN sent ELSE buffer[Len(buffer)]

\* b is the next frame after a that is not skipped.
Follows(a, b) == a < b /\ ~Skipped(b) /\ \A n \in a + 1 .. b - 1 : Skipped(n)

\* From the frame on the wire to the end of the buffer each frame follows the
\* one before it.
Chained ==
  /\ sent = 0 \/ ~Skipped(sent)
  /\ buffer # <<>> => Follows(sent, buffer[1])
  /\ \A i \in 1 .. Len(buffer) - 1 : Follows(buffer[i], buffer[i + 1])

\* Between the end of the buffer and the encoder's frame all were skipped.
EncoderFollows ==
  /\ encoder \in {"loop", "read"} => Last <= frame /\ \A n \in Last + 1 .. frame : Skipped(n)
  /\ encoder \in {"token", "encode", "push"} =>
       Last < frame /\ \A n \in Last + 1 .. frame - 1 : Skipped(n)
  /\ encoder = "push" => ~Skipped(frame)

TInv == TypeOK /\ FrameRead /\ NoSender /\ SendHasFrame
OInv == Chained /\ EncoderFollows

\* The parts of the buffer that SendFrame takes it into.
LEMMA HeadAndTail ==
  ASSUME NEW S, NEW b \in Seq(S), b # <<>>
  PROVE  Head(b) \in S /\ Tail(b) \in Seq(S)
BY HeadTailProperties

\* A step keeps every variable in its type; a read needs FrameAssumption.
LEMMA TypeStep == TInv /\ [Next]_vars => TypeOK'
<1> SUFFICES ASSUME TInv, [Next]_vars PROVE TypeOK'
  OBVIOUS
<1> USE DEF TInv, TypeOK, playVars, sessionVars
<1>1. CASE ReadFrame
  BY <1>1, FrameAssumption DEF ReadFrame, SourceEnded, EncoderPC, Preparing, Encoding, Closing, FrameRead
<1>2. CASE Prepare
  BY <1>2, FrameAssumption DEF Prepare, EncoderPC, Preparing, Encoding, Closing, SenderPC, Ended
<1>3. CASE DeleteBuffer
  BY <1>3, FrameAssumption DEF DeleteBuffer, EncoderPC, Preparing, Encoding, Closing
<1>4. CASE PushFrame
  BY <1>4 DEF PushFrame, QueueFrame, EncoderPC, Preparing, Encoding, Closing, FrameRead
<1>5. CASE \/ StartPlay \/ EncodeLoop \/ EncoderToken \/ EncodeFrame
           \/ UnsetTimer \/ WaitSender \/ PlayLowers
  <2>1. CASE StartPlay
    BY <2>1 DEF StartPlay, RaiseRunning, EncoderPC, Preparing, Encoding, Closing, SenderPC, Ended
  <2>2. CASE EncodeLoop
    BY <2>2 DEF EncodeLoop, EncoderPC, Preparing, Encoding, Closing
  <2>3. CASE EncoderToken
    BY <2>3 DEF EncoderToken, EncoderPC, Preparing, Encoding, Closing
  <2>4. CASE EncodeFrame
    BY <2>4 DEF EncodeFrame, EncoderPC, Preparing, Encoding, Closing
  <2>5. CASE UnsetTimer
    BY <2>5 DEF UnsetTimer, StopTimer, EncoderPC, Preparing, Encoding, Closing
  <2>6. CASE WaitSender
    BY <2>6 DEF WaitSender, SenderGone, EncoderPC, Preparing, Encoding, Closing
  <2>7. CASE PlayLowers
    BY <2>7 DEF PlayLowers, EncoderPC, Preparing, Encoding, Closing
  <2>. QED
    BY <1>5, <2>1, <2>2, <2>3, <2>4, <2>5, <2>6, <2>7
<1>6. CASE SendFrame
  <2>1. buffer # <<>>
    BY <1>6 DEF SendFrame, SendHasFrame
  <2>2. Head(buffer) \in 1 .. Frames /\ Tail(buffer) \in Seq(1 .. Frames)
    BY <2>1, HeadAndTail
  <2>3. sent' \in 0 .. Frames /\ buffer' \in Seq(1 .. Frames)
    BY <1>6, <2>2 DEF SendFrame
  <2>. QED
    BY <1>6, <2>3 DEF SendFrame, SenderPC, Ended
<1>7. CASE \/ SenderFirstTest \/ SenderSecondTest \/ SenderRaises
           \/ SenderDrains \/ SenderToken \/ SenderLowers
  <2>1. CASE SenderFirstTest
    BY <2>1 DEF SenderFirstTest, LoopTest, SenderPC, Ended
  <2>2. CASE SenderSecondTest
    BY <2>2 DEF SenderSecondTest, LoopTest, SenderPC, Ended
  <2>3. CASE SenderRaises
    BY <2>3 DEF SenderRaises, SenderPC, Ended
  <2>4. CASE SenderDrains
    BY <2>4 DEF SenderDrains, SenderPC, Ended
  <2>5. CASE SenderToken
    BY <2>5 DEF SenderToken, SenderPC, Ended
  <2>6. CASE SenderLowers
    BY <2>6 DEF SenderLowers, SenderPC, Ended
  <2>. QED
    BY <1>7, <2>1, <2>2, <2>3, <2>4, <2>5, <2>6
<1>8. CASE \/ SeeSession \/ Throw \/ OpenSession \/ Close \/ CloseCheck
           \/ CloseRenews \/ CloseSocket
  <2>1. CASE SeeSession
    BY <2>1 DEF SeeSession, EncoderPC, Preparing, Encoding, Closing
  <2>2. CASE Throw
    BY <2>2 DEF Throw, EncoderPC, Preparing, Encoding, Closing
  <2>3. CASE OpenSession \/ Close
    BY <2>3 DEF OpenSession, Close
  <2>4. CASE CloseCheck \/ CloseRenews
    BY <2>4 DEF CloseCheck, CloseRenews
  <2>5. CASE CloseSocket
    BY <2>5 DEF CloseSocket
  <2>. QED
    BY <1>8, <2>1, <2>2, <2>3, <2>4, <2>5
<1>9. CASE UNCHANGED vars
  BY <1>9 DEF vars
<1>. QED
  BY <1>1, <1>2, <1>3, <1>4, <1>5, <1>6, <1>7, <1>8, <1>9
  DEF Next, EncoderStep, SenderStep, CloserStep

\* A step keeps the facts TypeOK rests on, and NoSender with them.
LEMMA TypeFactStep == TInv /\ [Next]_vars => (FrameRead /\ NoSender /\ SendHasFrame)'
<1> SUFFICES ASSUME TInv, [Next]_vars PROVE (FrameRead /\ NoSender /\ SendHasFrame)'
  OBVIOUS
<1> USE DEF TInv, TypeOK, FrameRead, NoSender, SendHasFrame, EncoderPC,
            SenderPC, Preparing, Encoding, Closing, Ended, playVars, sessionVars
<1>1. CASE \/ StartPlay \/ Prepare \/ EncodeLoop \/ ReadFrame \/ EncoderToken
           \/ EncodeFrame \/ PushFrame \/ UnsetTimer \/ WaitSender
           \/ PlayLowers \/ DeleteBuffer
  BY <1>1
     DEF StartPlay, RaiseRunning, Prepare, EncodeLoop, ReadFrame, SourceEnded,
         EncoderToken, EncodeFrame, PushFrame, QueueFrame, UnsetTimer,
         StopTimer, WaitSender, SenderGone, PlayLowers, DeleteBuffer
<1>2. CASE \/ SenderFirstTest \/ SenderSecondTest \/ SenderRaises
           \/ SenderDrains \/ SendFrame \/ SenderToken \/ SenderLowers
  BY <1>2
     DEF SenderFirstTest, LoopTest, SenderSecondTest, SenderRaises,
         SenderDrains, SendFrame, SenderToken, SenderLowers
<1>3. CASE \/ SeeSession \/ Throw \/ OpenSession \/ Close \/ CloseCheck
           \/ CloseRenews \/ CloseSocket
  BY <1>3
     DEF SeeSession, Throw, OpenSession, Close, CloseCheck, CloseRenews,
         CloseSocket
<1>4. CASE UNCHANGED vars
  BY <1>4 DEF vars
<1>. QED
  BY <1>1, <1>2, <1>3, <1>4
  DEF Next, EncoderStep, SenderStep, CloserStep

\* A step that unsets the timer comes after the last frame was queued.
LEMMA TimerStep == TInv /\ TimerIsLast /\ [Next]_vars => TimerIsLast'
<1> SUFFICES ASSUME TInv, TimerIsLast, [Next]_vars PROVE TimerIsLast'
  OBVIOUS
<1> USE DEF TInv, TypeOK, NoSender, TimerIsLast, EncoderPC, SenderPC, Preparing,
            Encoding, Closing, Ended, playVars, sessionVars
<1>1. CASE \/ StartPlay \/ Prepare \/ EncodeLoop \/ ReadFrame \/ EncoderToken
           \/ EncodeFrame \/ PushFrame \/ UnsetTimer \/ WaitSender
           \/ PlayLowers \/ DeleteBuffer
  BY <1>1
     DEF StartPlay, RaiseRunning, Prepare, EncodeLoop, ReadFrame, SourceEnded,
         EncoderToken, EncodeFrame, PushFrame, QueueFrame, UnsetTimer,
         StopTimer, WaitSender, SenderGone, PlayLowers, DeleteBuffer
<1>2. CASE SenderFirstTest
  BY <1>2 DEF SenderFirstTest, LoopTest
<1>3. CASE SenderSecondTest
  BY <1>3 DEF SenderSecondTest, LoopTest
<1>4. CASE SendFrame
  BY <1>4 DEF SendFrame
<1>5. CASE \/ SenderRaises \/ SenderDrains \/ SenderToken \/ SenderLowers
  BY <1>5 DEF SenderRaises, SenderDrains, SenderToken, SenderLowers
<1>6. CASE \/ SeeSession \/ Throw \/ OpenSession \/ Close \/ CloseCheck
           \/ CloseRenews \/ CloseSocket
  BY <1>6
     DEF SeeSession, Throw, OpenSession, Close, CloseCheck, CloseRenews,
         CloseSocket
<1>7. CASE UNCHANGED vars
  BY <1>7 DEF vars
<1>. QED
  BY <1>1, <1>2, <1>3, <1>4, <1>5, <1>6, <1>7
  DEF Next, EncoderStep, SenderStep, CloserStep

\* The end of the chain is a frame, or 0 before the first.
LEMMA LastIsFrame == TypeOK => Last \in 0 .. Frames
<1> SUFFICES ASSUME TypeOK, buffer # <<>> PROVE buffer[Len(buffer)] \in 1 .. Frames
  BY DEF TypeOK, Last
<1>1. buffer \in Seq(1 .. Frames)
  BY DEF TypeOK
<1>2. Len(buffer) \in 1 .. Len(buffer)
  BY <1>1, EmptySeq
<1>. QED
  BY <1>1, <1>2, ElementOfSeq

\* The order concerns only the encoder, its frame, the buffer and the wire.
LEMMA Unmoved ==
  ASSUME OInv, UNCHANGED <<encoder, frame, buffer, sent>>
  PROVE  OInv'
BY DEF OInv, Chained, EncoderFollows, Last

\* A step leaves what is on the wire, in the buffer and in the encoder's hands
\* in the order of the song.
LEMMA OrderStep == TInv /\ OInv /\ [Next]_vars => OInv'
<1> SUFFICES ASSUME TInv, OInv, [Next]_vars PROVE OInv'
  OBVIOUS
<1> USE DEF TInv, OInv, playVars, sessionVars
<1>1. CASE Prepare
  BY <1>1 DEF Prepare, Chained, EncoderFollows, Last
<1>2. CASE DeleteBuffer
  BY <1>2 DEF DeleteBuffer, Chained, EncoderFollows, Last
<1>3. CASE EncodeLoop
  BY <1>3 DEF EncodeLoop, Chained, EncoderFollows, Last
<1>4. CASE ReadFrame
  <2>1. Chained' /\ Last' = Last
    BY <1>4 DEF ReadFrame, Chained, Last
  <2>2. Last \in Int /\ frame \in Int
    BY LastIsFrame DEF TypeOK
  <2>. QED
    BY <1>4, <2>1, <2>2 DEF ReadFrame, EncoderFollows
<1>5. CASE EncodeFrame
  <2>1. Chained' /\ Last' = Last /\ frame' = frame
    BY <1>5 DEF EncodeFrame, Chained, Last
  <2>2. Last \in Int /\ frame \in Int
    BY LastIsFrame DEF TypeOK
  <2>. QED
    BY <1>5, <2>1, <2>2 DEF EncodeFrame, EncoderFollows
<1>6. CASE PushFrame
  <2>1. Follows(Last, frame)
    BY <1>6 DEF PushFrame, EncoderFollows, Follows
  <2>2. buffer \in Seq(1 .. Frames) /\ frame \in 1 .. Frames
    BY <1>6 DEF PushFrame, TypeOK, FrameRead
  <2>3. /\ buffer' # <<>> /\ Len(buffer') = Len(buffer) + 1
        /\ \A i \in 1 .. Len(buffer) : buffer'[i] = buffer[i]
        /\ buffer'[Len(buffer) + 1] = frame
    BY <1>6, <2>2 DEF PushFrame, QueueFrame
  <2>4. Chained'
    BY <1>6, <2>1, <2>2, <2>3 DEF PushFrame, Chained, Last
  <2>5. Last' = frame /\ frame' = frame
    BY <1>6, <2>2, <2>3 DEF PushFrame, Last
  <2>. QED
    BY <1>6, <2>2, <2>4, <2>5 DEF PushFrame, EncoderFollows
<1>7. CASE \/ StartPlay \/ EncoderToken \/ UnsetTimer \/ WaitSender
           \/ PlayLowers
  <2>1. /\ UNCHANGED <<frame, buffer, sent>>
        /\ \/ encoder = "token" /\ encoder' \in {"encode", "finish"}
           \/ encoder' \in {"prepare", "wait", "lower", "delete"}
    BY <1>7
       DEF StartPlay, RaiseRunning, EncoderToken, UnsetTimer, StopTimer,
             WaitSender, SenderGone, PlayLowers
  <2>2. Chained' /\ Last' = Last /\ frame' = frame
    BY <2>1 DEF Chained, Last
  <2>. QED
    BY <2>1, <2>2 DEF EncoderFollows
<1>8. CASE SendFrame
  <2>1. CASE UNCHANGED <<sent, buffer>>
    BY <1>8, <2>1 DEF SendFrame, Chained, EncoderFollows, Last
  <2>2. CASE sent' = Head(buffer) /\ buffer' = Tail(buffer)
    <3>1. buffer \in Seq(1 .. Frames) /\ buffer # <<>>
      BY <1>8 DEF SendFrame, TypeOK, SendHasFrame
    <3>2. /\ Len(buffer') = Len(buffer) - 1 /\ sent' = buffer[1]
          /\ \A i \in 1 .. Len(buffer) - 1 : buffer'[i] = buffer[i + 1]
      BY <2>2, <3>1
    <3>3. buffer' = <<>> <=> Len(buffer) = 1
      <4>1. buffer' \in Seq(1 .. Frames)
        BY <2>2, <3>1, HeadTailProperties
      <4>. QED
        BY <3>2, <4>1, EmptySeq
    <3>4. Chained'
      BY <3>1, <3>2, <3>3 DEF Chained, Follows
    <3>5. Last' = Last
      BY <3>1, <3>2, <3>3 DEF Last
    <3>. QED
      BY <1>8, <3>4, <3>5 DEF SendFrame, EncoderFollows
  <2>. QED
    BY <1>8, <2>1, <2>2 DEF SendFrame
<1>9. CASE \/ SenderFirstTest \/ SenderSecondTest \/ SenderRaises
           \/ SenderDrains \/ SenderToken \/ SenderLowers
  BY <1>9, Unmoved
     DEF SenderFirstTest, LoopTest, SenderSecondTest, SenderRaises,
         SenderDrains, SenderToken, SenderLowers
<1>10. CASE \/ SeeSession \/ Throw \/ OpenSession \/ Close \/ CloseCheck
            \/ CloseRenews \/ CloseSocket
  <2>1. CASE UNCHANGED <<encoder, frame, buffer, sent>>
    BY <2>1, Unmoved
  <2>2. CASE encoder' \in {"ready", "thrown"} /\ UNCHANGED <<frame, buffer, sent>>
    BY <2>2 DEF Chained, EncoderFollows, Last
  <2>. QED
    BY <1>10, <2>1, <2>2
       DEF SeeSession, Throw, OpenSession, Close, CloseCheck, CloseRenews,
           CloseSocket
<1>11. CASE UNCHANGED vars
  BY <1>11, Unmoved DEF vars
<1>. QED
  BY <1>1, <1>2, <1>3, <1>4, <1>5, <1>6, <1>7, <1>8, <1>9, <1>10, <1>11
  DEF Next, EncoderStep, SenderStep, CloserStep

-----------------------------------------------------------------------------
\* The first state, before any song.
LEMMA InitInv == Init => TInv /\ TimerIsLast /\ OInv
<1> SUFFICES ASSUME Init PROVE TInv /\ TimerIsLast /\ OInv
  OBVIOUS
<1>1. TypeOK
  <2>1. buffer \in Seq(1 .. Frames)
    BY EmptySeq DEF Init
  <2>2. encoder \in EncoderPC /\ sender \in SenderPC
    BY DEF Init, EncoderPC, SenderPC, Preparing, Ended
  <2>3. frame \in 0 .. Frames /\ sent \in 0 .. Frames
    BY FrameAssumption DEF Init
  <2>4. /\ run_timer \in BOOLEAN /\ running \in BOOLEAN /\ buffer_lock \in {"free", "leaked"}
        /\ canceled \in BOOLEAN /\ socket \in BOOLEAN /\ state \in BOOLEAN
        /\ closer \in {"none", "check", "pulse", "cleanup"}
    BY DEF Init
  <2>. QED
    BY <2>1, <2>2, <2>3, <2>4 DEF TypeOK
<1>2. FrameRead /\ NoSender /\ SendHasFrame
  BY DEF Init, FrameRead, NoSender, SendHasFrame, Preparing, Ended
<1>3. TimerIsLast
  BY DEF Init, TimerIsLast, Encoding
<1>4. OInv
  BY DEF Init, OInv, Chained, EncoderFollows
<1>. QED
  BY <1>1, <1>2, <1>3, <1>4 DEF TInv

\* The types, the place of the sender and the order of the frames hold together.
THEOREM PlayerInvariant == Spec => [](TInv /\ TimerIsLast /\ OInv)
<1>1. TInv /\ [Next]_vars => TInv'
  BY TypeStep, TypeFactStep DEF TInv
<1>. QED
  BY <1>1, InitInv, TimerStep, OrderStep, PTL DEF Spec

\* Every variable of play() keeps its type, for songs of any length.
THEOREM TypeCorrect == Spec => []TypeOK
<1>1. TInv => TypeOK
  BY DEF TInv
<1>. QED
  BY <1>1, PlayerInvariant, PTL

\* play() deletes the buffer only after its sender has ended.
THEOREM BufferIsNotUsedAfterDelete == Spec => []BufferOutlivesSender
<1>1. TInv => BufferOutlivesSender
  BY DEF TInv, NoSender, BufferOutlivesSender
<1>. QED
  BY <1>1, PlayerInvariant, PTL

\* A sender that ends by itself leaves nothing in the buffer.
THEOREM SongIsSentToItsEnd == Spec => []EndsWithEmptyBuffer
<1>1. TimerIsLast => EndsWithEmptyBuffer
  BY DEF TimerIsLast, EndsWithEmptyBuffer
<1>. QED
  BY <1>1, PlayerInvariant, PTL

\* The number of a frame a little behind a multiple of the width.
LEMMA BehindAWrap ==
  ASSUME NEW x \in Nat, NEW m \in Nat \ {0}, x % m = 0, NEW i \in 0 .. m - 1
  PROVE  (x + i) % m = i
OBVIOUS

\* A multiple of the width.
LEMMA Multiple ==
  ASSUME NEW m \in Nat \ {0}, NEW q \in Nat
  PROVE  (m * q) % m = 0
<1> DEFINE p == (m * q) \div m
<1> DEFINE r == (m * q) % m
<1>1. m * q \in Nat /\ p \in Int /\ r \in 0 .. m - 1 /\ m * q = m * p + r
  OBVIOUS
<1> HIDE DEF p, r
<1>2. r = m * (q - p)
  BY <1>1
<1>3. ~(q - p >= 1)
  <2>1. q - p >= 1 => m * (q - p) >= m
    BY <1>1
  <2>. QED
    BY <1>1, <1>2, <2>1
<1>4. ~(q - p <= -1)
  <2>1. q - p <= -1 => m * (q - p) <= -m
    BY <1>1
  <2>. QED
    BY <1>1, <1>2, <2>1
<1>5. q - p = 0
  BY <1>1, <1>3, <1>4
<1>6. r = 0
  BY <1>2, <1>5
<1>. QED
  BY <1>6 DEF r

\* The number of the next frame.
LEMMA NextNumber ==
  ASSUME NEW x \in Nat, NEW m \in Nat \ {0}, (x + 1) % m # 0
  PROVE  (x + 1) % m = (x % m) + 1
<1> DEFINE r == x % m
<1> DEFINE y == x - r
<1>1. r \in 0 .. m - 1 /\ y \in Nat /\ y = m * (x \div m) /\ x \div m \in Nat
  OBVIOUS
<1>2. y % m = 0
  BY <1>1, Multiple
<1>3. CASE r + 1 \in 0 .. m - 1
  <2>1. (y + (r + 1)) % m = r + 1
    BY <1>1, <1>2, <1>3, BehindAWrap
  <2>. QED
    BY <1>1, <2>1
<1>4. CASE r + 1 = m
  <2>1. x + 1 = m * ((x \div m) + 1)
    BY <1>1, <1>4
  <2>2. (m * ((x \div m) + 1)) % m = 0
    <3>1. (x \div m) + 1 \in Nat
      BY <1>1
    <3>. QED
      BY <3>1, Multiple
  <2>3. (x + 1) % m = 0
    BY <2>1, <2>2
  <2>. QED
    BY <2>3
<1>. QED
  BY <1>1, <1>3, <1>4

\* The next frame that is not skipped lies behind the skipped ones of one wrap.
LEMMA FollowsAfter ==
  ASSUME NEW a \in Nat, NEW b \in Nat, a = 0 \/ ~Skipped(a), Follows(a, b)
  PROVE  b = FrameAfter(a)
<1> USE FrameAssumption DEF Skipped, Follows, FrameAfter
<1>1. ASSUME NEW x \in Nat, x % SeqMod = 0, x <= b,
             \A n \in Nat : x < n /\ n < b => n % SeqMod < SkipFrames
      PROVE  b = x + SkipFrames
  <2>1. \A i \in 0 .. SeqMod - 1 : (x + i) % SeqMod = i
    BY <1>1, BehindAWrap
  <2>2. SkipFrames < SeqMod
    <3>1. b % SeqMod \in 0 .. SeqMod - 1
      OBVIOUS
    <3>. QED
      BY <3>1
  <2>3. ~(b < x + SkipFrames)
    <3>1. ASSUME b < x + SkipFrames PROVE FALSE
      <4>1. b - x \in 0 .. SeqMod - 1 /\ x + (b - x) = b /\ b - x < SkipFrames
        BY <1>1, <2>2, <3>1
      <4>2. (x + (b - x)) % SeqMod = b - x
        BY <2>1, <4>1
      <4>. QED
        BY <4>1, <4>2
    <3>. QED
      BY <3>1
  <2>4. ~(x + SkipFrames < b)
    <3>1. SkipFrames \in 0 .. SeqMod - 1
      BY <2>2
    <3>2. (x + SkipFrames) % SeqMod = SkipFrames
      BY <2>1, <3>1
    <3>. QED
      BY <1>1, <3>2
  <2>. QED
    BY <2>3, <2>4
<1>2. CASE a = 0
  <2>1. 0 % SeqMod = 0
    OBVIOUS
  <2>. QED
    BY <1>1, <1>2, <2>1
<1>3. CASE a # 0 /\ (a + 1) % SeqMod = 0
  BY <1>1, <1>3
<1>4. CASE a # 0 /\ (a + 1) % SeqMod # 0
  <2>1. (a + 1) % SeqMod = (a % SeqMod) + 1
    BY <1>4, NextNumber
  <2>2. a % SeqMod \in Nat /\ ~(a % SeqMod < SkipFrames)
    BY <1>4
  <2>3. ~((a + 1) % SeqMod < SkipFrames)
    BY <2>1, <2>2
  <2>. QED
    BY <1>4, <2>3
<1>. QED
  BY <1>2, <1>3, <1>4

\* Frames reach the wire in order, with no gap but the skipped frames.
THEOREM SendsInOrder == Spec => FramesInOrder
<1>1. TInv /\ OInv /\ [Next]_vars => [sent' # sent /\ sent' # 0 => sent' = FrameAfter(sent)]_vars
  <2> SUFFICES ASSUME TInv, OInv, Next, sent' # sent, sent' # 0
               PROVE  sent' = FrameAfter(sent)
    OBVIOUS
  <2>1. SendFrame
    BY DEF Next, EncoderStep, SenderStep, CloserStep, SeeSession, StartPlay, Prepare,
           EncodeLoop, ReadFrame, EncoderToken, EncodeFrame, PushFrame, UnsetTimer,
           WaitSender, PlayLowers, DeleteBuffer, Throw, SenderFirstTest, SenderSecondTest,
           SenderRaises, SenderDrains, SenderToken, SenderLowers, OpenSession, Close,
           CloseCheck, CloseRenews, CloseSocket, playVars
  <2>2. sent' = buffer[1] /\ buffer # <<>>
    BY <2>1 DEF SendFrame, TInv, TypeOK, SendHasFrame
  <2>3. sent \in Nat /\ buffer[1] \in Nat
    BY <2>2, FrameAssumption DEF TInv, TypeOK
  <2>4. (sent = 0 \/ ~Skipped(sent)) /\ Follows(sent, buffer[1])
    BY <2>2 DEF OInv, Chained
  <2>. QED
    BY <2>2, <2>3, <2>4, FollowsAfter
<1>. QED
  BY <1>1, PlayerInvariant, PTL DEF Spec, FramesInOrder

-----------------------------------------------------------------------------
\* Each step of play() is a step of Playback or leaves its variables alone.
LEMMA PlaybackStep == TInv /\ [Next]_vars => [P!Next]_P!vars
<1> SUFFICES ASSUME TInv, [Next]_vars PROVE [P!Next]_P!vars
  OBVIOUS
<1> USE DEF P!Next, P!vars, P!Start, P!Flip, P!Return, P!Throw
<1>1. CASE StartPlay
  BY <1>1 DEF StartPlay, RaiseRunning
<1>2. CASE PlayLowers
  BY <1>2 DEF PlayLowers
<1>3. CASE Throw
  BY <1>3 DEF Throw
<1>4. CASE \/ SeeSession \/ DeleteBuffer \/ Prepare \/ EncodeLoop \/ ReadFrame
           \/ EncoderToken \/ EncodeFrame \/ PushFrame \/ UnsetTimer \/ WaitSender
  BY <1>4 DEF SeeSession, DeleteBuffer, Prepare, EncodeLoop, ReadFrame, EncoderToken,
              EncodeFrame, PushFrame, UnsetTimer, WaitSender
<1>5. CASE SenderStep
  <2>1. encoder \notin {"idle", "ready", "delete"} /\ running \in BOOLEAN
    BY <1>5 DEF TInv, NoSender, TypeOK, Preparing, Ended, SenderStep, SenderFirstTest,
                SenderSecondTest, SenderRaises, SenderDrains, SendFrame, SenderToken,
                SenderLowers
  <2>2. UNCHANGED encoder /\ running' \in BOOLEAN
    BY <1>5, <2>1 DEF SenderStep, SenderFirstTest, SenderSecondTest, SenderRaises,
                      SenderDrains, SendFrame, SenderToken, SenderLowers
  <2>3. running' = running \/ running' = ~running
    BY <2>1, <2>2
  <2>. QED
    BY <2>1, <2>2, <2>3
<1>6. CASE \/ OpenSession \/ Close \/ CloserStep \/ UNCHANGED vars
  BY <1>6 DEF OpenSession, Close, CloserStep, CloseCheck, CloseRenews, CloseSocket, vars
<1>. QED
  BY <1>1, <1>2, <1>3, <1>4, <1>5, <1>6 DEF Next, EncoderStep

\* play() implements Playback: what Pusher assumes of it holds for any song and
\* any closes, with the flag down and left alone once play() has returned.
THEOREM ImplementsPlayback == Spec => PlaybackSpec
<1>1. Init => P!Init
  BY DEF Init, P!Init
<1>. QED
  BY <1>1, PlaybackStep, PlayerInvariant, PTL DEF Spec, PlaybackSpec, P!Spec
=============================================================================
