------------------------- MODULE VoiceSessionProofs -------------------------
(***************************************************************************)
(* Proofs about VoiceSession for any number of sessions.  SessionInv says  *)
(* what keeps overlapping sessions from mixing in the wrong direction: a   *)
(* call of start that has not begun has left no trace, _token is that of   *)
(* the latest call or none, a session older than a call that has set its   *)
(* own can only be that of a call it overlaps with, and a key comes after  *)
(* an identification.                                                      *)
(***************************************************************************)
EXTENDS VoiceSession, TLAPS

\* A session beyond the latest call of start does not exist in any way.
NotYetStarted ==
  \A c \in Conns : c > latest =>
    /\ starting[c] = "none" /\ ws[c] = "none" /\ hello[c] = "none"
    /\ sentSession[c] = 0 /\ sentToken[c] = 0

LatestOrNone == token_ \in {0, latest}

\* A call that has not set session yet overlaps with every later call.
StillToSet == \A c, d \in Conns :
  d < c /\ starting[d] = "session" /\ starting[c] # "none" => d \in overlap[c]

\* The field is not older than a call that has set it, but for those calls.
SessionSince == \A c \in Conns :
  starting[c] \notin {"none", "session"} =>
    session = 0 \/ session >= c \/ session \in overlap[c]

\* A connection is asked for once, and only it says hello.
Unconnected == \A c \in Conns :
  starting[c] \in {"none", "session", "connect"} => ws[c] = "none" /\ hello[c] = "none"

\* A hello comes before everything else on its connection, a heartbeat task is
\* made before it is assigned, and the first connect has such a hello behind it.
HelloFirst ==
  /\ \A c \in Conns :
       /\ talk[c] # "none" => hello[c] \in {"heart", "assign", "done"}
       /\ hello[c] \in {"assign", "done"} => heart[c] # "none"
       /\ hello[c] = "done" => t # 0
  /\ connect => \E c \in Conns : talk[c] # "none"
  /\ t # 0 => heart[t] # "none"

PusherFirst == ~first_time => pushers > 0

\* A task that meets a closed socket has a closed session behind it.
ClosedByASession ==
  (\E c \in Conns : \/ talk[c] = "udp" /\ socket = 0
                    \/ talk[c] = "discover" /\ receiving[c] = 0)
    => \E c \in Conns : ws[c] = "closed"

SessionInv ==
  /\ TypeOK
  /\ NotYetStarted /\ LatestOrNone /\ Unconnected
  /\ StillToSet /\ SessionSince /\ NeverOlderCredentials
  /\ HelloFirst /\ WaitsOnATask
  /\ PusherFirst /\ SessionsHaveAPusher
  /\ ClosedByASession

\* The numbers of the sessions.
LEMMA ConnsAreNumbers ==
  /\ Conns \subseteq 0 .. MaxConns /\ 0 \in 0 .. MaxConns
  /\ Conns \subseteq Nat
BY ConnAssumption DEF Conns

\* The first state satisfies it: nothing has started.
LEMMA SessionInit == Init => SessionInv
<1> SUFFICES ASSUME Init PROVE SessionInv
  OBVIOUS
<1> USE ConnAssumption DEF Init, Conns
<1>1. TypeOK
  <2>1. DataTypeOK
    BY DEF DataTypeOK, StartPC, HelloPC, TalkPC, WsPC
  <2>2. FlagTypeOK
    BY DEF FlagTypeOK
  <2>. QED
    BY <2>1, <2>2 DEF TypeOK
<1>2. NotYetStarted /\ LatestOrNone /\ Unconnected
  BY DEF NotYetStarted, LatestOrNone, Unconnected
<1>3. StillToSet /\ SessionSince /\ NeverOlderCredentials
  BY DEF StillToSet, SessionSince, NeverOlderCredentials
<1>4. HelloFirst /\ WaitsOnATask
  BY DEF HelloFirst, WaitsOnATask
<1>5. PusherFirst /\ SessionsHaveAPusher /\ ClosedByASession
  BY DEF PusherFirst, SessionsHaveAPusher, ClosedByASession
<1>. QED
  BY <1>1, <1>2, <1>3, <1>4, <1>5 DEF SessionInv

\* A step keeps the types of everything but the flags.
LEMMA DataStep ==
  ASSUME DataTypeOK, [Next]_vars
  PROVE  DataTypeOK'
<1> USE ConnAssumption, ConnsAreNumbers DEF DataTypeOK, StartPC, HelloPC, TalkPC,
      WsPC, startVars, credentialVars, helloVars, udpVars, flagVars, heartVars
<1> SUFFICES ASSUME Next PROVE DataTypeOK'
  BY DEF vars
<1>1. ASSUME NEW c \in Conns, Running, SetToken(c) PROVE DataTypeOK'
  BY <1>1 DEF SetToken, Remember
<1>2. ASSUME NEW c \in Conns, Running, SetSession(c) PROVE DataTypeOK'
  BY <1>2 DEF SetSession
<1>3. ASSUME NEW c \in Conns, Running,
             RequestConnection(c) \/ RequestFails(c) \/ TestFirstTime(c)
      PROVE DataTypeOK'
  <2>1. CASE RequestConnection(c)
    BY <1>3, <2>1 DEF RequestConnection
  <2>2. CASE RequestFails(c)
    BY <1>3, <2>2 DEF RequestFails
  <2>3. CASE TestFirstTime(c)
    BY <1>3, <2>3 DEF TestFirstTime
  <2>. QED
    BY <1>3, <2>1, <2>2, <2>3
<1>4. ASSUME NEW c \in Conns, Running, Launch(c) PROVE DataTypeOK'
  <2>1. starting' \in [Conns -> StartPC] /\ pushers' \in Nat
    BY <1>4 DEF Launch
  <2>2. UNCHANGED <<latest, overlap, ws, hello, talk, heart, token_, session, sentSession,
                    sentToken, key, socket, receiving, t, awaited>>
    BY <1>4 DEF Launch
  <2>. QED
    BY <2>1, <2>2
<1>5. ASSUME NEW c \in Conns, Running, Open(c) \/ Lose(c) PROVE DataTypeOK'
  <2>1. CASE Open(c)
    BY <1>5, <2>1 DEF Open
  <2>2. CASE Lose(c)
    BY <1>5, <2>2 DEF Lose
  <2>. QED
    BY <1>5, <2>1, <2>2
<1>6. ASSUME NEW c \in Conns, Running,
             Hello(c) \/ Ready(c) \/ SessionDescription(c)
      PROVE DataTypeOK'
  <2>1. CASE Hello(c)
    BY <1>6, <2>1 DEF Hello, Receives
  <2>2. CASE Ready(c)
    BY <1>6, <2>2 DEF Ready, ReceiveTalk, Receives
  <2>3. CASE SessionDescription(c)
    BY <1>6, <2>3 DEF SessionDescription, ReceiveTalk, Receives
  <2>. QED
    BY <1>6, <2>1, <2>2, <2>3
<1>7. ASSUME NEW c \in Conns, Running,
             ReadSession(c) \/ Identify(c) \/ MakeHeart(c) \/ AssignTask(c)
      PROVE DataTypeOK'
  <2>1. CASE ReadSession(c)
    BY <1>7, <2>1 DEF ReadSession
  <2>2. CASE Identify(c)
    BY <1>7, <2>2 DEF Identify
  <2>3. CASE MakeHeart(c)
    BY <1>7, <2>3 DEF MakeHeart
  <2>4. CASE AssignTask(c)
    BY <1>7, <2>4 DEF AssignTask
  <2>. QED
    BY <1>7, <2>1, <2>2, <2>3, <2>4
<1>8. ASSUME NEW c \in Conns, Running,
             StartUdp(c) \/ Discover(c) \/ SelectProtocol(c)
      PROVE DataTypeOK'
  <2>1. CASE StartUdp(c)
    BY <1>8, <2>1 DEF StartUdp
  <2>2. CASE Discover(c)
    BY <1>8, <2>2 DEF Discover
  <2>3. CASE SelectProtocol(c)
    BY <1>8, <2>3 DEF SelectProtocol
  <2>. QED
    BY <1>8, <2>1, <2>2, <2>3
<1>9. ASSUME NEW c \in Conns, Running, PushKey(c) PROVE DataTypeOK'
  <2>1. key' \in Seq(Conns)
    BY <1>9 DEF PushKey, PushPart
  <2>2. talk' \in [Conns -> TalkPC]
    BY <1>9 DEF PushKey
  <2>. QED
    BY <1>9, <2>1, <2>2 DEF PushKey
<1>10. ASSUME NEW c \in Conns, Running, SetState(c) \/ SetConnect(c) PROVE DataTypeOK'
  <2>1. CASE SetState(c)
    BY <1>10, <2>1 DEF SetState
  <2>2. CASE SetConnect(c)
    BY <1>10, <2>2 DEF SetConnect
  <2>. QED
    BY <1>10, <2>1, <2>2
<1>11. ASSUME NEW c \in Conns, Running, StopHeart(c) \/ Beat(c) PROVE DataTypeOK'
  <2>1. CASE StopHeart(c)
    BY <1>11, <2>1 DEF StopHeart
  <2>2. CASE Beat(c)
    BY <1>11, <2>2 DEF Beat
  <2>. QED
    BY <1>11, <2>1, <2>2
<1>12. ASSUME NEW c \in Conns, Running,
             WipeToken(c) \/ WipeSession(c) \/ CancelHeart(c)
      PROVE DataTypeOK'
  <2>1. CASE WipeToken(c)
    BY <1>12, <2>1 DEF WipeToken
  <2>2. CASE WipeSession(c)
    <3>1. ws' \in [Conns -> WsPC] /\ session' \in 0 .. MaxConns
      BY <2>2 DEF WipeSession
    <3>2. key' \in Seq(Conns)
      BY <2>2 DEF WipeSession
    <3>3. UNCHANGED <<latest, starting, overlap, hello, talk, heart, token_, sentSession,
                      sentToken, socket, receiving, t, awaited, pushers>>
      BY <2>2 DEF WipeSession
    <3>. QED
      BY <3>1, <3>2, <3>3
  <2>3. CASE CancelHeart(c)
    BY <1>12, <2>3 DEF CancelHeart
  <2>. QED
    BY <1>12, <2>1, <2>2, <2>3
<1>13. ASSUME NEW c \in Conns, Running, AwaitHeart(c) \/ WaitHeart(c) PROVE DataTypeOK'
  <2>1. CASE AwaitHeart(c)
    <3>1. awaited' \in [Conns -> 0 .. MaxConns] /\ ws' \in [Conns -> WsPC]
      <4>1. \/ awaited' = [awaited EXCEPT ![c] = t] /\ ws' = [ws EXCEPT ![c] = "wait"]
            \/ awaited' = awaited /\ ws' = ws
        BY <2>1 DEF AwaitHeart
      <4>. QED
        BY <4>1
    <3>2. UNCHANGED <<latest, starting, overlap, hello, talk, heart, token_, session,
                      sentSession, sentToken, key, socket, receiving, t, pushers>>
      BY <2>1 DEF AwaitHeart
    <3>. QED
      BY <3>1, <3>2
  <2>2. CASE WaitHeart(c)
    BY <1>13, <2>2 DEF WaitHeart
  <2>. QED
    BY <1>13, <2>1, <2>2
<1>14. ASSUME NEW c \in Conns, Running, RenewToken(c) PROVE DataTypeOK'
  BY <1>14 DEF RenewToken
<1>15. CASE UNCHANGED <<latest, starting, overlap, ws, hello, talk, heart, token_, session, sentSession, sentToken, key, socket, receiving, t, awaited, pushers>>
  BY <1>15
<1>. QED
  <2>1. ASSUME NEW c \in Conns, Running, StartStep(c) PROVE DataTypeOK'
    BY <2>1, <1>2, <1>3, <1>4 DEF StartStep
  <2>2. ASSUME NEW c \in Conns, Running, HelloStep(c) PROVE DataTypeOK'
    BY <2>2, <1>7 DEF HelloStep
  <2>3. ASSUME NEW c \in Conns, Running, TalkStep(c) PROVE DataTypeOK'
    BY <2>3, <1>8, <1>9, <1>10, <1>15 DEF TalkStep, StartUdpFails, ExitProgram
  <2>4. ASSUME NEW c \in Conns, Running, Outside(c) PROVE DataTypeOK'
    BY <2>4, <1>1, <1>5, <1>6 DEF Outside
  <2>5. ASSUME NEW c \in Conns, HeartStep(c) PROVE DataTypeOK'
    BY <2>5, <1>11 DEF HeartStep
  <2>6. ASSUME NEW c \in Conns, CloseStep(c) PROVE DataTypeOK'
    BY <2>6, <1>12, <1>13, <1>14 DEF CloseStep
  <2>. QED
    BY <2>1, <2>2, <2>3, <2>4, <2>5, <2>6 DEF Next

\* A step keeps the flags in their types.
LEMMA FlagStep ==
  ASSUME FlagTypeOK, [Next]_vars
  PROVE  FlagTypeOK'
<1> USE DEF FlagTypeOK, startVars, credentialVars, helloVars, udpVars, flagVars,
      heartVars
<1> SUFFICES ASSUME Next PROVE FlagTypeOK'
  BY DEF vars
<1>1. ASSUME NEW c \in Conns, Running, Launch(c) PROVE FlagTypeOK'
  BY <1>1 DEF Launch
<1>2. ASSUME NEW c \in Conns, Running,
             StartUdpFails(c) \/ ExitProgram(c)
      PROVE FlagTypeOK'
  <2>1. CASE StartUdpFails(c)
    BY <1>2, <2>1 DEF StartUdpFails
  <2>2. CASE ExitProgram(c)
    BY <1>2, <2>2 DEF ExitProgram
  <2>. QED
    BY <1>2, <2>1, <2>2
<1>3. ASSUME NEW c \in Conns, Running, SetState(c) \/ SetConnect(c) PROVE FlagTypeOK'
  <2>1. CASE SetState(c)
    BY <1>3, <2>1 DEF SetState
  <2>2. CASE SetConnect(c)
    BY <1>3, <2>2 DEF SetConnect
  <2>. QED
    BY <1>3, <2>1, <2>2
<1>4. ASSUME NEW c \in Conns, Running,
             WipeToken(c) \/ CancelHeart(c) \/ AwaitHeart(c) \/ RenewToken(c)
      PROVE FlagTypeOK'
  <2>1. CASE WipeToken(c)
    BY <1>4, <2>1 DEF WipeToken
  <2>2. CASE CancelHeart(c)
    BY <1>4, <2>2 DEF CancelHeart
  <2>3. CASE AwaitHeart(c)
    BY <1>4, <2>3 DEF AwaitHeart
  <2>4. CASE RenewToken(c)
    BY <1>4, <2>4 DEF RenewToken
  <2>. QED
    BY <1>4, <2>1, <2>2, <2>3, <2>4
<1>5. CASE UNCHANGED <<state, connect, canceled, first_time, ended>>
  BY <1>5
<1>. QED
  <2>1. ASSUME NEW c \in Conns, Running, StartStep(c) PROVE FlagTypeOK'
    BY <2>1, <1>1, <1>5
       DEF StartStep, SetSession, RequestConnection, RequestFails, TestFirstTime
  <2>2. ASSUME NEW c \in Conns, Running, HelloStep(c) PROVE FlagTypeOK'
    BY <2>2, <1>5 DEF HelloStep, ReadSession, Identify, MakeHeart, AssignTask
  <2>3. ASSUME NEW c \in Conns, Running, TalkStep(c) PROVE FlagTypeOK'
    BY <2>3, <1>2, <1>3, <1>5
       DEF TalkStep, StartUdp, Discover, SelectProtocol, PushKey, PushPart
  <2>4. ASSUME NEW c \in Conns, Running, Outside(c) PROVE FlagTypeOK'
    BY <2>4, <1>5
       DEF Outside, SetToken, Remember, Open, Lose, Hello, Receives, Ready,
           ReceiveTalk, SessionDescription
  <2>5. ASSUME NEW c \in Conns, HeartStep(c) PROVE FlagTypeOK'
    BY <2>5, <1>5 DEF HeartStep, StopHeart, Beat
  <2>6. ASSUME NEW c \in Conns, CloseStep(c) PROVE FlagTypeOK'
    BY <2>6, <1>4, <1>5 DEF CloseStep, WipeSession, WaitHeart
  <2>. QED
    BY <2>1, <2>2, <2>3, <2>4, <2>5, <2>6 DEF Next

\* Only SetToken begins a session, and it is then the latest.
LEMMA StartedStep ==
  ASSUME TypeOK, NotYetStarted, LatestOrNone, Unconnected, [Next]_vars
  PROVE  (NotYetStarted /\ LatestOrNone)'
<1> USE ConnAssumption DEF TypeOK, DataTypeOK, NotYetStarted, LatestOrNone,
      Unconnected, Conns, startVars, credentialVars, helloVars, udpVars, flagVars,
      heartVars
<1> SUFFICES ASSUME Next PROVE (NotYetStarted /\ LatestOrNone)'
  BY DEF vars
<1>1. ASSUME NEW c \in Conns, Running, SetToken(c) PROVE (NotYetStarted /\ LatestOrNone)'
  BY <1>1 DEF SetToken, Remember
<1>2. ASSUME NEW c \in Conns, Running,
             SetSession(c) \/ RequestConnection(c) \/ RequestFails(c)
      PROVE (NotYetStarted /\ LatestOrNone)'
  <2>1. CASE SetSession(c)
    BY <1>2, <2>1 DEF SetSession
  <2>2. CASE RequestConnection(c)
    BY <1>2, <2>2 DEF RequestConnection
  <2>3. CASE RequestFails(c)
    BY <1>2, <2>3 DEF RequestFails
  <2>. QED
    BY <1>2, <2>1, <2>2, <2>3
<1>3. ASSUME NEW c \in Conns, Running,
             TestFirstTime(c) \/ Launch(c)
      PROVE (NotYetStarted /\ LatestOrNone)'
  <2>1. CASE TestFirstTime(c)
    BY <1>3, <2>1 DEF TestFirstTime
  <2>2. CASE Launch(c)
    BY <1>3, <2>2 DEF Launch
  <2>. QED
    BY <1>3, <2>1, <2>2
<1>4. ASSUME NEW c \in Conns, Running,
             Open(c) \/ Lose(c)
      PROVE (NotYetStarted /\ LatestOrNone)'
  <2>1. CASE Open(c)
    BY <1>4, <2>1 DEF Open
  <2>2. CASE Lose(c)
    BY <1>4, <2>2 DEF Lose
  <2>. QED
    BY <1>4, <2>1, <2>2
<1>5. ASSUME NEW c \in Conns, Running, Hello(c) PROVE (NotYetStarted /\ LatestOrNone)'
  BY <1>5 DEF Hello, Receives
<1>6. ASSUME NEW c \in Conns, Running,
             ReadSession(c) \/ Identify(c) \/ MakeHeart(c) \/ AssignTask(c)
      PROVE (NotYetStarted /\ LatestOrNone)'
  <2>1. CASE ReadSession(c)
    BY <1>6, <2>1 DEF ReadSession
  <2>2. CASE Identify(c)
    BY <1>6, <2>2 DEF Identify
  <2>3. CASE MakeHeart(c)
    BY <1>6, <2>3 DEF MakeHeart
  <2>4. CASE AssignTask(c)
    BY <1>6, <2>4 DEF AssignTask
  <2>. QED
    BY <1>6, <2>1, <2>2, <2>3, <2>4
<1>7. ASSUME NEW c \in Conns, Running,
             WipeToken(c) \/ WipeSession(c) \/ CancelHeart(c)
      PROVE (NotYetStarted /\ LatestOrNone)'
  <2>1. CASE WipeToken(c)
    BY <1>7, <2>1 DEF WipeToken
  <2>2. CASE WipeSession(c)
    BY <1>7, <2>2 DEF WipeSession
  <2>3. CASE CancelHeart(c)
    BY <1>7, <2>3 DEF CancelHeart
  <2>. QED
    BY <1>7, <2>1, <2>2, <2>3
<1>8. ASSUME NEW c \in Conns, Running,
             AwaitHeart(c) \/ WaitHeart(c) \/ RenewToken(c)
      PROVE (NotYetStarted /\ LatestOrNone)'
  <2>1. CASE AwaitHeart(c)
    BY <1>8, <2>1 DEF AwaitHeart
  <2>2. CASE WaitHeart(c)
    BY <1>8, <2>2 DEF WaitHeart
  <2>3. CASE RenewToken(c)
    BY <1>8, <2>3 DEF RenewToken
  <2>. QED
    BY <1>8, <2>1, <2>2, <2>3
<1>9. CASE UNCHANGED <<latest, starting, ws, hello, sentSession, sentToken, token_>>
  BY <1>9
<1>. QED
  <2>1. ASSUME NEW c \in Conns, Running, StartStep(c) PROVE (NotYetStarted /\ LatestOrNone)'
    BY <2>1, <1>2, <1>3 DEF StartStep
  <2>2. ASSUME NEW c \in Conns, Running, HelloStep(c) PROVE (NotYetStarted /\ LatestOrNone)'
    BY <2>2, <1>6 DEF HelloStep
  <2>3. ASSUME NEW c \in Conns, Running, TalkStep(c) PROVE (NotYetStarted /\ LatestOrNone)'
    BY <2>3, <1>9
       DEF TalkStep, StartUdp, StartUdpFails, Discover, SelectProtocol, ExitProgram,
           PushKey, PushPart, SetState, SetConnect
  <2>4. ASSUME NEW c \in Conns, Running, Outside(c) PROVE (NotYetStarted /\ LatestOrNone)'
    BY <2>4, <1>1, <1>4, <1>5, <1>9
       DEF Outside, Ready, ReceiveTalk, Receives, SessionDescription
  <2>5. ASSUME NEW c \in Conns, HeartStep(c) PROVE (NotYetStarted /\ LatestOrNone)'
    BY <2>5, <1>9 DEF HeartStep, StopHeart, Beat
  <2>6. ASSUME NEW c \in Conns, CloseStep(c) PROVE (NotYetStarted /\ LatestOrNone)'
    BY <2>6, <1>7, <1>8 DEF CloseStep
  <2>. QED
    BY <2>1, <2>2, <2>3, <2>4, <2>5, <2>6 DEF Next

\* Only RequestConnection leaves the places in which there is no connection.
LEMMA UnconnectedStep ==
  ASSUME DataTypeOK, NotYetStarted, Unconnected, [Next]_vars
  PROVE  Unconnected'
<1> USE ConnAssumption DEF DataTypeOK, NotYetStarted, Unconnected, Conns, startVars,
      credentialVars, helloVars, udpVars, flagVars, heartVars
<1> SUFFICES ASSUME Next PROVE Unconnected'
  BY DEF vars
<1>1. ASSUME NEW c \in Conns, Running, SetToken(c) PROVE Unconnected'
  BY <1>1 DEF SetToken, Remember
<1>2. ASSUME NEW c \in Conns, Running,
             SetSession(c) \/ RequestConnection(c) \/ RequestFails(c)
      PROVE Unconnected'
  <2>1. CASE SetSession(c)
    BY <1>2, <2>1 DEF SetSession
  <2>2. CASE RequestConnection(c)
    BY <1>2, <2>2 DEF RequestConnection
  <2>3. CASE RequestFails(c)
    BY <1>2, <2>3 DEF RequestFails
  <2>. QED
    BY <1>2, <2>1, <2>2, <2>3
<1>3. ASSUME NEW c \in Conns, Running, TestFirstTime(c) \/ Launch(c) PROVE Unconnected'
  <2>1. CASE TestFirstTime(c)
    BY <1>3, <2>1 DEF TestFirstTime
  <2>2. CASE Launch(c)
    BY <1>3, <2>2 DEF Launch
  <2>. QED
    BY <1>3, <2>1, <2>2
<1>4. ASSUME NEW c \in Conns, Running, Open(c) \/ Lose(c) PROVE Unconnected'
  <2>1. CASE Open(c)
    BY <1>4, <2>1 DEF Open
  <2>2. CASE Lose(c)
    BY <1>4, <2>2 DEF Lose
  <2>. QED
    BY <1>4, <2>1, <2>2
<1>5. ASSUME NEW c \in Conns, Running, Hello(c) PROVE Unconnected'
  BY <1>5 DEF Hello, Receives
<1>6. ASSUME NEW c \in Conns, Running,
             ReadSession(c) \/ Identify(c) \/ MakeHeart(c) \/ AssignTask(c)
      PROVE Unconnected'
  <2>1. CASE ReadSession(c)
    BY <1>6, <2>1 DEF ReadSession
  <2>2. CASE Identify(c)
    BY <1>6, <2>2 DEF Identify
  <2>3. CASE MakeHeart(c)
    BY <1>6, <2>3 DEF MakeHeart
  <2>4. CASE AssignTask(c)
    BY <1>6, <2>4 DEF AssignTask
  <2>. QED
    BY <1>6, <2>1, <2>2, <2>3, <2>4
<1>7. ASSUME NEW c \in Conns, Running,
             WipeToken(c) \/ WipeSession(c) \/ CancelHeart(c)
      PROVE Unconnected'
  <2>1. CASE WipeToken(c)
    BY <1>7, <2>1 DEF WipeToken
  <2>2. CASE WipeSession(c)
    BY <1>7, <2>2 DEF WipeSession
  <2>3. CASE CancelHeart(c)
    BY <1>7, <2>3 DEF CancelHeart
  <2>. QED
    BY <1>7, <2>1, <2>2, <2>3
<1>8. ASSUME NEW c \in Conns, Running,
             AwaitHeart(c) \/ WaitHeart(c) \/ RenewToken(c)
      PROVE Unconnected'
  <2>1. CASE AwaitHeart(c)
    BY <1>8, <2>1 DEF AwaitHeart
  <2>2. CASE WaitHeart(c)
    BY <1>8, <2>2 DEF WaitHeart
  <2>3. CASE RenewToken(c)
    BY <1>8, <2>3 DEF RenewToken
  <2>. QED
    BY <1>8, <2>1, <2>2, <2>3
<1>9. CASE UNCHANGED <<starting, ws, hello>>
  BY <1>9
<1>. QED
  <2>1. ASSUME NEW c \in Conns, Running, StartStep(c) PROVE Unconnected'
    BY <2>1, <1>2, <1>3 DEF StartStep
  <2>2. ASSUME NEW c \in Conns, Running, HelloStep(c) PROVE Unconnected'
    BY <2>2, <1>6 DEF HelloStep
  <2>3. ASSUME NEW c \in Conns, Running, TalkStep(c) PROVE Unconnected'
    BY <2>3, <1>9
       DEF TalkStep, StartUdp, StartUdpFails, Discover, SelectProtocol, ExitProgram,
           PushKey, PushPart, SetState, SetConnect
  <2>4. ASSUME NEW c \in Conns, Running, Outside(c) PROVE Unconnected'
    BY <2>4, <1>1, <1>4, <1>5, <1>9
       DEF Outside, Ready, ReceiveTalk, Receives, SessionDescription
  <2>5. ASSUME NEW c \in Conns, HeartStep(c) PROVE Unconnected'
    BY <2>5, <1>9 DEF HeartStep, StopHeart, Beat
  <2>6. ASSUME NEW c \in Conns, CloseStep(c) PROVE Unconnected'
    BY <2>6, <1>7, <1>8 DEF CloseStep
  <2>. QED
    BY <2>1, <2>2, <2>3, <2>4, <2>5, <2>6 DEF Next

\* A call that begins overlaps with those that have yet to set session.
LEMMA OverlapStep ==
  ASSUME DataTypeOK, NotYetStarted, StillToSet, [Next]_vars
  PROVE  StillToSet'
<1> USE ConnAssumption DEF DataTypeOK, NotYetStarted, StillToSet, Conns, startVars,
      credentialVars, helloVars, udpVars, flagVars, heartVars
<1> SUFFICES ASSUME Next PROVE StillToSet'
  BY DEF vars
<1>1. ASSUME NEW c \in Conns, Running, SetToken(c) PROVE StillToSet'
  BY <1>1 DEF SetToken, Remember
<1>2. ASSUME NEW c \in Conns, Running, SetSession(c) PROVE StillToSet'
  BY <1>2 DEF SetSession
<1>3. ASSUME NEW c \in Conns, Running,
             RequestConnection(c) \/ RequestFails(c)
      PROVE StillToSet'
  <2>1. CASE RequestConnection(c)
    BY <1>3, <2>1 DEF RequestConnection
  <2>2. CASE RequestFails(c)
    BY <1>3, <2>2 DEF RequestFails
  <2>. QED
    BY <1>3, <2>1, <2>2
<1>4. ASSUME NEW c \in Conns, Running, TestFirstTime(c) \/ Launch(c) PROVE StillToSet'
  <2>1. CASE TestFirstTime(c)
    BY <1>4, <2>1 DEF TestFirstTime
  <2>2. CASE Launch(c)
    BY <1>4, <2>2 DEF Launch
  <2>. QED
    BY <1>4, <2>1, <2>2
<1>5. CASE UNCHANGED <<starting, overlap>>
  BY <1>5
<1>. QED
  <2>1. ASSUME NEW c \in Conns, Running, StartStep(c) PROVE StillToSet'
    BY <2>1, <1>2, <1>3, <1>4 DEF StartStep
  <2>2. ASSUME NEW c \in Conns, Running, HelloStep(c) PROVE StillToSet'
    BY <2>2, <1>5 DEF HelloStep, ReadSession, Identify, MakeHeart, AssignTask
  <2>3. ASSUME NEW c \in Conns, Running, TalkStep(c) PROVE StillToSet'
    BY <2>3, <1>5
       DEF TalkStep, StartUdp, StartUdpFails, Discover, SelectProtocol, ExitProgram,
           PushKey, PushPart, SetState, SetConnect
  <2>4. ASSUME NEW c \in Conns, Running, Outside(c) PROVE StillToSet'
    BY <2>4, <1>1, <1>5
       DEF Outside, Open, Lose, Hello, Receives, Ready, ReceiveTalk,
           SessionDescription
  <2>5. ASSUME NEW c \in Conns, HeartStep(c) PROVE StillToSet'
    BY <2>5, <1>5 DEF HeartStep, StopHeart, Beat
  <2>6. ASSUME NEW c \in Conns, CloseStep(c) PROVE StillToSet'
    BY <2>6, <1>5
       DEF CloseStep, WipeToken, WipeSession, CancelHeart, AwaitHeart, WaitHeart,
           RenewToken
  <2>. QED
    BY <2>1, <2>2, <2>3, <2>4, <2>5, <2>6 DEF Next

\* session is overwritten only by a call that overlaps with every later one.
LEMMA SinceStep ==
  ASSUME DataTypeOK, NotYetStarted, StillToSet, SessionSince, [Next]_vars
  PROVE  SessionSince'
<1> USE ConnAssumption DEF DataTypeOK, NotYetStarted, SessionSince, Conns,
      startVars, credentialVars, helloVars, udpVars, flagVars, heartVars
<1> SUFFICES ASSUME Next PROVE SessionSince'
  BY DEF vars
<1>1. ASSUME NEW c \in Conns, Running, SetToken(c) PROVE SessionSince'
  BY <1>1 DEF SetToken, Remember
<1>2. ASSUME NEW c \in Conns, Running, SetSession(c) PROVE SessionSince'
  BY <1>2 DEF SetSession, StillToSet
<1>3. ASSUME NEW c \in Conns, Running,
             RequestConnection(c) \/ RequestFails(c)
      PROVE SessionSince'
  <2>1. CASE RequestConnection(c)
    BY <1>3, <2>1 DEF RequestConnection
  <2>2. CASE RequestFails(c)
    BY <1>3, <2>2 DEF RequestFails
  <2>. QED
    BY <1>3, <2>1, <2>2
<1>4. ASSUME NEW c \in Conns, Running, TestFirstTime(c) \/ Launch(c) PROVE SessionSince'
  <2>1. CASE TestFirstTime(c)
    BY <1>4, <2>1 DEF TestFirstTime
  <2>2. CASE Launch(c)
    BY <1>4, <2>2 DEF Launch
  <2>. QED
    BY <1>4, <2>1, <2>2
<1>5. ASSUME NEW c \in Conns, Running, WipeSession(c) PROVE SessionSince'
  BY <1>5 DEF WipeSession
<1>6. CASE UNCHANGED <<starting, overlap, session>>
  BY <1>6
<1>. QED
  <2>1. ASSUME NEW c \in Conns, Running, StartStep(c) PROVE SessionSince'
    BY <2>1, <1>2, <1>3, <1>4 DEF StartStep
  <2>2. ASSUME NEW c \in Conns, Running, HelloStep(c) PROVE SessionSince'
    BY <2>2, <1>6 DEF HelloStep, ReadSession, Identify, MakeHeart, AssignTask
  <2>3. ASSUME NEW c \in Conns, Running, TalkStep(c) PROVE SessionSince'
    BY <2>3, <1>6
       DEF TalkStep, StartUdp, StartUdpFails, Discover, SelectProtocol, ExitProgram,
           PushKey, PushPart, SetState, SetConnect
  <2>4. ASSUME NEW c \in Conns, Running, Outside(c) PROVE SessionSince'
    BY <2>4, <1>1, <1>6
       DEF Outside, Open, Lose, Hello, Receives, Ready, ReceiveTalk,
           SessionDescription
  <2>5. ASSUME NEW c \in Conns, HeartStep(c) PROVE SessionSince'
    BY <2>5, <1>6 DEF HeartStep, StopHeart, Beat
  <2>6. ASSUME NEW c \in Conns, CloseStep(c) PROVE SessionSince'
    BY <2>6, <1>5, <1>6
       DEF CloseStep, WipeToken, CancelHeart, AwaitHeart, WaitHeart, RenewToken
  <2>. QED
    BY <2>1, <2>2, <2>3, <2>4, <2>5, <2>6 DEF Next

\* What is read is the field as it is, for a call that has set it.
LEMMA OlderStep ==
  ASSUME TypeOK, NotYetStarted, LatestOrNone, Unconnected, SessionSince, NeverOlderCredentials, [Next]_vars
  PROVE  NeverOlderCredentials'
<1> USE ConnAssumption DEF TypeOK, DataTypeOK, NotYetStarted, NeverOlderCredentials,
      Conns, startVars, credentialVars, helloVars, udpVars, flagVars, heartVars
<1> SUFFICES ASSUME Next PROVE NeverOlderCredentials'
  <2>1. CASE UNCHANGED <<overlap, sentSession, sentToken>>
    BY <2>1
  <2>. QED
    BY <2>1 DEF vars
<1>1. ASSUME NEW c \in Conns, Running, SetToken(c) PROVE NeverOlderCredentials'
  <2>1. /\ sentSession' = sentSession /\ sentToken' = sentToken
        /\ \A d \in Conns : d # c => overlap'[d] = overlap[d]
    BY <1>1 DEF SetToken
  <2>2. sentSession[c] = 0
    BY <1>1 DEF SetToken
  <2>3. ASSUME NEW d \in Conns, sentSession'[d] # 0
        PROVE  sentSession'[d] >= d \/ sentSession'[d] \in overlap'[d]
    BY <2>1, <2>2, <2>3
  <2>4. \A d \in Conns : sentToken'[d] # 0 => sentToken'[d] >= d
    BY <2>1
  <2>. QED
    BY <2>3, <2>4
<1>2. ASSUME NEW c \in Conns, Running, ReadSession(c) PROVE NeverOlderCredentials'
  <2>1. session = 0 \/ session >= c \/ session \in overlap[c]
    <3>1. starting[c] \notin {"none", "session"}
      BY <1>2 DEF ReadSession, Unconnected
    <3>. QED
      BY <3>1 DEF SessionSince
  <2>2. /\ sentSession'[c] = session
        /\ \A d \in Conns : d # c => sentSession'[d] = sentSession[d]
        /\ overlap' = overlap /\ sentToken' = sentToken
    BY <1>2 DEF ReadSession
  <2>3. ASSUME NEW d \in Conns, sentSession'[d] # 0
        PROVE  sentSession'[d] >= d \/ sentSession'[d] \in overlap'[d]
    <3>1. CASE d = c
      BY <2>1, <2>2, <2>3, <3>1
    <3>2. CASE d # c
      BY <2>2, <2>3, <3>2
    <3>. QED
      BY <3>1, <3>2
  <2>4. \A d \in Conns : sentToken'[d] # 0 => sentToken'[d] >= d
    BY <2>2
  <2>. QED
    BY <2>3, <2>4
<1>3. ASSUME NEW c \in Conns, Running, Identify(c) PROVE NeverOlderCredentials'
  <2>1. token_ # 0 => token_ >= c
    <3>1. c <= latest
      BY <1>3 DEF Identify
    <3>. QED
      BY <3>1 DEF LatestOrNone
  <2>2. /\ sentToken'[c] = token_
        /\ \A d \in Conns : d # c => sentToken'[d] = sentToken[d]
        /\ overlap' = overlap /\ sentSession' = sentSession
    BY <1>3 DEF Identify
  <2>3. ASSUME NEW d \in Conns, sentToken'[d] # 0 PROVE sentToken'[d] >= d
    <3>1. CASE d = c
      BY <2>1, <2>2, <2>3, <3>1
    <3>2. CASE d # c
      BY <2>2, <2>3, <3>2
    <3>. QED
      BY <3>1, <3>2
  <2>. QED
    BY <2>2, <2>3
<1>4. ASSUME NEW c \in Conns, Running, MakeHeart(c) PROVE NeverOlderCredentials'
  BY <1>4 DEF MakeHeart
<1>5. CASE UNCHANGED <<overlap, sentSession, sentToken>>
  BY <1>5
<1>. QED
  <2>1. ASSUME NEW c \in Conns, Running, StartStep(c) PROVE NeverOlderCredentials'
    BY <2>1, <1>5
       DEF StartStep, SetSession, RequestConnection, RequestFails, TestFirstTime,
           Launch
  <2>2. ASSUME NEW c \in Conns, Running, HelloStep(c) PROVE NeverOlderCredentials'
    BY <2>2, <1>2, <1>3, <1>4, <1>5 DEF HelloStep, AssignTask
  <2>3. ASSUME NEW c \in Conns, Running, TalkStep(c) PROVE NeverOlderCredentials'
    BY <2>3, <1>5
       DEF TalkStep, StartUdp, StartUdpFails, Discover, SelectProtocol, ExitProgram,
           PushKey, PushPart, SetState, SetConnect
  <2>4. ASSUME NEW c \in Conns, Running, Outside(c) PROVE NeverOlderCredentials'
    BY <2>4, <1>1, <1>5
       DEF Outside, Open, Lose, Hello, Receives, Ready, ReceiveTalk,
           SessionDescription
  <2>5. ASSUME NEW c \in Conns, HeartStep(c) PROVE NeverOlderCredentials'
    BY <2>5, <1>5 DEF HeartStep, StopHeart, Beat
  <2>6. ASSUME NEW c \in Conns, CloseStep(c) PROVE NeverOlderCredentials'
    BY <2>6, <1>5
       DEF CloseStep, WipeToken, WipeSession, CancelHeart, AwaitHeart, WaitHeart,
           RenewToken
  <2>. QED
    BY <2>1, <2>2, <2>3, <2>4, <2>5, <2>6 DEF Next

\* The handler of a hello goes forward, and what it has made stays.
LEMMA HelloStepKeeps ==
  ASSUME DataTypeOK, HelloFirst, [Next]_vars
  PROVE  HelloFirst'
<1> USE ConnAssumption DEF DataTypeOK, HelloFirst, Conns, startVars, credentialVars,
      helloVars, udpVars, flagVars, heartVars
<1> SUFFICES ASSUME Next PROVE HelloFirst'
  <2>1. CASE UNCHANGED <<hello, talk, heart, connect, t>>
    BY <2>1
  <2>. QED
    BY <2>1 DEF vars
<1>1. ASSUME NEW c \in Conns, Running,
             Hello(c) \/ ReadSession(c) \/ Identify(c)
      PROVE HelloFirst'
  <2>1. CASE Hello(c)
    BY <1>1, <2>1 DEF Hello, Receives
  <2>2. CASE ReadSession(c)
    BY <1>1, <2>2 DEF ReadSession
  <2>3. CASE Identify(c)
    BY <1>1, <2>3 DEF Identify
  <2>. QED
    BY <1>1, <2>1, <2>2, <2>3
<1>2. ASSUME NEW c \in Conns, Running, MakeHeart(c) \/ AssignTask(c) PROVE HelloFirst'
  <2>1. CASE MakeHeart(c)
    BY <1>2, <2>1 DEF MakeHeart
  <2>2. CASE AssignTask(c)
    BY <1>2, <2>2 DEF AssignTask
  <2>. QED
    BY <1>2, <2>1, <2>2
<1>3. ASSUME NEW c \in Conns, Running, Ready(c) \/ SessionDescription(c) PROVE HelloFirst'
  <2>1. CASE Ready(c)
    BY <1>3, <2>1 DEF Ready, ReceiveTalk, Receives
  <2>2. CASE SessionDescription(c)
    BY <1>3, <2>2 DEF SessionDescription, ReceiveTalk, Receives
  <2>. QED
    BY <1>3, <2>1, <2>2
<1>4. ASSUME NEW c \in Conns, Running,
             StartUdp(c) \/ Discover(c) \/ SelectProtocol(c)
      PROVE HelloFirst'
  <2>1. CASE StartUdp(c)
    BY <1>4, <2>1 DEF StartUdp
  <2>2. CASE Discover(c)
    BY <1>4, <2>2 DEF Discover
  <2>3. CASE SelectProtocol(c)
    BY <1>4, <2>3 DEF SelectProtocol
  <2>. QED
    BY <1>4, <2>1, <2>2, <2>3
<1>5. ASSUME NEW c \in Conns, Running, PushKey(c) PROVE HelloFirst'
  BY <1>5 DEF PushKey, PushPart
<1>6. ASSUME NEW c \in Conns, Running, SetState(c) \/ SetConnect(c) PROVE HelloFirst'
  <2>1. CASE SetState(c)
    BY <1>6, <2>1 DEF SetState
  <2>2. CASE SetConnect(c)
    BY <1>6, <2>2 DEF SetConnect
  <2>. QED
    BY <1>6, <2>1, <2>2
<1>7. ASSUME NEW c \in Conns, Running, StopHeart(c) \/ Beat(c) PROVE HelloFirst'
  <2>1. CASE StopHeart(c)
    <3>1. \A d \in Conns : heart[d] # "none" => heart'[d] # "none"
      BY <2>1 DEF StopHeart
    <3>2. UNCHANGED <<hello, talk, connect, t>>
      BY <2>1 DEF StopHeart
    <3>. QED
      BY <3>1, <3>2
  <2>2. CASE Beat(c)
    BY <1>7, <2>2 DEF Beat
  <2>. QED
    BY <1>7, <2>1, <2>2
<1>8. ASSUME NEW c \in Conns, Running, RenewToken(c) PROVE HelloFirst'
  BY <1>8 DEF RenewToken
<1>9. CASE UNCHANGED <<hello, talk, heart, connect, t>>
  BY <1>9
<1>. QED
  <2>1. ASSUME NEW c \in Conns, Running, StartStep(c) PROVE HelloFirst'
    BY <2>1, <1>9
       DEF StartStep, SetSession, RequestConnection, RequestFails, TestFirstTime,
           Launch
  <2>2. ASSUME NEW c \in Conns, Running, HelloStep(c) PROVE HelloFirst'
    BY <2>2, <1>1, <1>2 DEF HelloStep
  <2>3. ASSUME NEW c \in Conns, Running, TalkStep(c) PROVE HelloFirst'
    BY <2>3, <1>4, <1>5, <1>6, <1>9 DEF TalkStep, StartUdpFails, ExitProgram
  <2>4. ASSUME NEW c \in Conns, Running, Outside(c) PROVE HelloFirst'
    BY <2>4, <1>1, <1>3, <1>9 DEF Outside, SetToken, Remember, Open, Lose
  <2>5. ASSUME NEW c \in Conns, HeartStep(c) PROVE HelloFirst'
    BY <2>5, <1>7 DEF HeartStep
  <2>6. ASSUME NEW c \in Conns, CloseStep(c) PROVE HelloFirst'
    BY <2>6, <1>8, <1>9
       DEF CloseStep, WipeToken, WipeSession, CancelHeart, AwaitHeart, WaitHeart
  <2>. QED
    BY <2>1, <2>2, <2>3, <2>4, <2>5, <2>6 DEF Next

\* on_close waits for t only if connect is set, and then some hello is about to
\* make its task or has made it.
LEMMA WaitStep ==
  ASSUME DataTypeOK, HelloFirst, WaitsOnATask, [Next]_vars
  PROVE  WaitsOnATask'
<1> USE ConnAssumption, ConnsAreNumbers DEF DataTypeOK, WaitsOnATask, Running,
      startVars, credentialVars, helloVars, udpVars, flagVars, heartVars
<1> SUFFICES ASSUME Next PROVE WaitsOnATask'
  BY DEF vars
<1>1. ASSUME NEW c \in Conns, Running, RequestConnection(c) PROVE WaitsOnATask'
  BY <1>1 DEF RequestConnection
<1>2. ASSUME NEW c \in Conns, Running, Open(c) \/ Lose(c) PROVE WaitsOnATask'
  <2>1. CASE Open(c)
    BY <1>2, <2>1 DEF Open
  <2>2. CASE Lose(c)
    BY <1>2, <2>2 DEF Lose
  <2>. QED
    BY <1>2, <2>1, <2>2
<1>3. ASSUME NEW c \in Conns, Running,
             Hello(c) \/ ReadSession(c) \/ Identify(c)
      PROVE WaitsOnATask'
  <2>1. CASE Hello(c)
    BY <1>3, <2>1 DEF Hello, Receives
  <2>2. CASE ReadSession(c)
    BY <1>3, <2>2 DEF ReadSession
  <2>3. CASE Identify(c)
    BY <1>3, <2>3 DEF Identify
  <2>. QED
    BY <1>3, <2>1, <2>2, <2>3
<1>4. ASSUME NEW c \in Conns, Running, MakeHeart(c) \/ AssignTask(c) PROVE WaitsOnATask'
  <2>1. CASE MakeHeart(c)
    <3>1. \A d \in Conns : heart[d] # "none" => heart'[d] # "none"
      BY <2>1 DEF MakeHeart
    <3>2. \A d \in Conns :
            hello[d] \in {"heart", "assign"} => hello'[d] \in {"heart", "assign"}
      BY <2>1 DEF MakeHeart
    <3>3. ws' = ws /\ awaited' = awaited /\ t' = t /\ ended' = ended
      BY <2>1 DEF MakeHeart
    <3>4. ASSUME NEW d \in Conns, ws'[d] = "wait"
          PROVE  awaited'[d] # 0 /\ heart'[awaited'[d]] # "none"
      <4>1. awaited[d] # 0 /\ heart[awaited[d]] # "none"
        BY <3>3, <3>4
      <4>2. awaited[d] \in Conns
        BY <4>1 DEF Conns
      <4>. QED
        BY <4>1, <4>2, <3>1, <3>3
    <3>5. (ended' = "task" \/ \E d \in Conns : ws'[d] = "await" /\ t' = 0) =>
            \E d \in Conns : hello'[d] \in {"heart", "assign"}
      BY <3>2, <3>3
    <3>. QED
      BY <3>4, <3>5
  <2>2. CASE AssignTask(c)
    <3>1. t' # 0 /\ ended' # "task"
      BY <1>4, <2>2 DEF AssignTask, Conns
    <3>2. \A d \in Conns :
            ws'[d] = "wait" => awaited'[d] # 0 /\ heart'[awaited'[d]] # "none"
      BY <2>2 DEF AssignTask
    <3>. QED
      BY <3>1, <3>2
  <2>. QED
    BY <1>4, <2>1, <2>2
<1>5. ASSUME NEW c \in Conns, Running,
             StartUdpFails(c) \/ ExitProgram(c)
      PROVE WaitsOnATask'
  <2>1. CASE StartUdpFails(c)
    BY <1>5, <2>1 DEF StartUdpFails
  <2>2. CASE ExitProgram(c)
    BY <1>5, <2>2 DEF ExitProgram
  <2>. QED
    BY <1>5, <2>1, <2>2
<1>6. ASSUME NEW c \in Conns, Running, StopHeart(c) \/ Beat(c) PROVE WaitsOnATask'
  <2>1. CASE StopHeart(c)
    BY <1>6, <2>1 DEF StopHeart
  <2>2. CASE Beat(c)
    BY <1>6, <2>2 DEF Beat
  <2>. QED
    BY <1>6, <2>1, <2>2
<1>7. ASSUME NEW c \in Conns, Running,
             WipeToken(c) \/ WipeSession(c) \/ CancelHeart(c)
      PROVE WaitsOnATask'
  <2>1. CASE WipeToken(c)
    BY <1>7, <2>1 DEF WipeToken
  <2>2. CASE WipeSession(c)
    BY <1>7, <2>2 DEF WipeSession
  <2>3. CASE CancelHeart(c)
    BY <1>7, <2>3 DEF CancelHeart, HelloFirst
  <2>. QED
    BY <1>7, <2>1, <2>2, <2>3
<1>8. ASSUME NEW c \in Conns, Running, AwaitHeart(c) PROVE WaitsOnATask'
  <2>1. /\ heart' = heart /\ hello' = hello /\ t' = t
        /\ \A d \in Conns : d # c => ws'[d] = ws[d] /\ awaited'[d] = awaited[d]
    BY <1>8 DEF AwaitHeart
  <2>2. CASE t # 0 /\ ended' = ended /\ awaited'[c] = t
    <3>1. heart[t] # "none"
      BY <2>2 DEF HelloFirst
    <3>2. ASSUME NEW d \in Conns, ws'[d] = "wait"
          PROVE  awaited'[d] # 0 /\ heart'[awaited'[d]] # "none"
      BY <2>1, <2>2, <3>1, <3>2
    <3>. QED
      BY <1>8, <2>1, <2>2, <3>2
  <2>3. CASE t = 0 /\ UNCHANGED <<ws, awaited>>
    BY <1>8, <2>1, <2>3 DEF AwaitHeart
  <2>. QED
    BY <1>8, <2>2, <2>3 DEF AwaitHeart
<1>9. ASSUME NEW c \in Conns, Running, WaitHeart(c) \/ RenewToken(c) PROVE WaitsOnATask'
  <2>1. CASE WaitHeart(c)
    BY <1>9, <2>1 DEF WaitHeart
  <2>2. CASE RenewToken(c)
    BY <1>9, <2>2 DEF RenewToken
  <2>. QED
    BY <1>9, <2>1, <2>2
<1>10. CASE UNCHANGED <<ws, hello, heart, awaited, t, ended>>
  BY <1>10
<1>. QED
  <2>1. ASSUME NEW c \in Conns, Running, StartStep(c) PROVE WaitsOnATask'
    BY <2>1, <1>1, <1>10
       DEF StartStep, SetSession, RequestFails, TestFirstTime, Launch
  <2>2. ASSUME NEW c \in Conns, Running, HelloStep(c) PROVE WaitsOnATask'
    BY <2>2, <1>3, <1>4 DEF HelloStep
  <2>3. ASSUME NEW c \in Conns, Running, TalkStep(c) PROVE WaitsOnATask'
    BY <2>3, <1>5, <1>10
       DEF TalkStep, StartUdp, Discover, SelectProtocol, PushKey, PushPart,
           SetState, SetConnect
  <2>4. ASSUME NEW c \in Conns, Running, Outside(c) PROVE WaitsOnATask'
    BY <2>4, <1>2, <1>3, <1>10
       DEF Outside, SetToken, Remember, Ready, ReceiveTalk, Receives,
           SessionDescription
  <2>5. ASSUME NEW c \in Conns, HeartStep(c) PROVE WaitsOnATask'
    BY <2>5, <1>6 DEF HeartStep
  <2>6. ASSUME NEW c \in Conns, CloseStep(c) PROVE WaitsOnATask'
    BY <2>6, <1>7, <1>8, <1>9 DEF CloseStep
  <2>. QED
    BY <2>1, <2>2, <2>3, <2>4, <2>5, <2>6 DEF Next

\* The flag falls only together with the making of a pusher.
LEMMA PusherStep ==
  ASSUME DataTypeOK, PusherFirst, SessionsHaveAPusher, [Next]_vars
  PROVE  (PusherFirst /\ SessionsHaveAPusher)'
<1> USE DEF DataTypeOK, PusherFirst, SessionsHaveAPusher, startVars, credentialVars,
      helloVars, udpVars, flagVars, heartVars
<1> SUFFICES ASSUME Next PROVE (PusherFirst /\ SessionsHaveAPusher)'
  BY DEF vars
<1>1. ASSUME NEW c \in Conns, Running, SetToken(c)
      PROVE (PusherFirst /\ SessionsHaveAPusher)'
  BY <1>1 DEF SetToken, Remember
<1>2. ASSUME NEW c \in Conns, Running,
             SetSession(c) \/ RequestConnection(c) \/ RequestFails(c)
      PROVE (PusherFirst /\ SessionsHaveAPusher)'
  <2>1. CASE SetSession(c)
    BY <1>2, <2>1 DEF SetSession
  <2>2. CASE RequestConnection(c)
    BY <1>2, <2>2 DEF RequestConnection
  <2>3. CASE RequestFails(c)
    BY <1>2, <2>3 DEF RequestFails
  <2>. QED
    BY <1>2, <2>1, <2>2, <2>3
<1>3. ASSUME NEW c \in Conns, Running, TestFirstTime(c)
      PROVE (PusherFirst /\ SessionsHaveAPusher)'
  BY <1>3 DEF TestFirstTime
<1>4. ASSUME NEW c \in Conns, Running, Launch(c)
      PROVE (PusherFirst /\ SessionsHaveAPusher)'
  BY <1>4 DEF Launch
<1>5. CASE UNCHANGED <<starting, first_time, pushers>>
  BY <1>5
<1>. QED
  <2>1. ASSUME NEW c \in Conns, Running, StartStep(c) PROVE (PusherFirst /\ SessionsHaveAPusher)'
    BY <2>1, <1>2, <1>3, <1>4 DEF StartStep
  <2>2. ASSUME NEW c \in Conns, Running, HelloStep(c) PROVE (PusherFirst /\ SessionsHaveAPusher)'
    BY <2>2, <1>5 DEF HelloStep, ReadSession, Identify, MakeHeart, AssignTask
  <2>3. ASSUME NEW c \in Conns, Running, TalkStep(c) PROVE (PusherFirst /\ SessionsHaveAPusher)'
    BY <2>3, <1>5
       DEF TalkStep, StartUdp, StartUdpFails, Discover, SelectProtocol, ExitProgram,
           PushKey, PushPart, SetState, SetConnect
  <2>4. ASSUME NEW c \in Conns, Running, Outside(c) PROVE (PusherFirst /\ SessionsHaveAPusher)'
    BY <2>4, <1>1, <1>5
       DEF Outside, Open, Lose, Hello, Receives, Ready, ReceiveTalk,
           SessionDescription
  <2>5. ASSUME NEW c \in Conns, HeartStep(c) PROVE (PusherFirst /\ SessionsHaveAPusher)'
    BY <2>5, <1>5 DEF HeartStep, StopHeart, Beat
  <2>6. ASSUME NEW c \in Conns, CloseStep(c) PROVE (PusherFirst /\ SessionsHaveAPusher)'
    BY <2>6, <1>5
       DEF CloseStep, WipeToken, WipeSession, CancelHeart, AwaitHeart, WaitHeart,
           RenewToken
  <2>. QED
    BY <2>1, <2>2, <2>3, <2>4, <2>5, <2>6 DEF Next

\* A socket is closed only by the end of an on_close, and a closed session
\* stays closed.
LEMMA SocketStep ==
  ASSUME DataTypeOK, Unconnected, ClosedByASession, [Next]_vars
  PROVE  ClosedByASession'
<1> USE ConnAssumption DEF DataTypeOK, ClosedByASession, Conns, startVars,
      credentialVars, helloVars, udpVars, flagVars, heartVars
<1> SUFFICES ASSUME Next PROVE ClosedByASession'
  BY DEF vars
<1>1. ASSUME NEW c \in Conns, Running, RequestConnection(c) PROVE ClosedByASession'
  BY <1>1 DEF RequestConnection, Unconnected
<1>2. ASSUME NEW c \in Conns, Running, Open(c) \/ Lose(c) PROVE ClosedByASession'
  <2>1. CASE Open(c)
    BY <1>2, <2>1 DEF Open
  <2>2. CASE Lose(c)
    BY <1>2, <2>2 DEF Lose
  <2>. QED
    BY <1>2, <2>1, <2>2
<1>3. ASSUME NEW c \in Conns, Running,
             Ready(c) \/ SessionDescription(c)
      PROVE ClosedByASession'
  <2>1. CASE Ready(c)
    BY <1>3, <2>1 DEF Ready, ReceiveTalk, Receives
  <2>2. CASE SessionDescription(c)
    BY <1>3, <2>2 DEF SessionDescription, ReceiveTalk, Receives
  <2>. QED
    BY <1>3, <2>1, <2>2
<1>4. ASSUME NEW c \in Conns, Running, Identify(c) PROVE ClosedByASession'
  BY <1>4 DEF Identify
<1>5. ASSUME NEW c \in Conns, Running,
             StartUdp(c) \/ Discover(c) \/ SelectProtocol(c)
      PROVE ClosedByASession'
  <2>1. CASE StartUdp(c)
    <3>1. /\ socket' # 0 /\ ws' = ws /\ receiving' = receiving
          /\ \A d \in Conns : talk'[d] = "discover" => talk[d] = "discover"
      BY <2>1 DEF StartUdp
    <3>. QED
      BY <3>1
  <2>2. CASE Discover(c)
    BY <1>5, <2>2 DEF Discover
  <2>3. CASE SelectProtocol(c)
    BY <1>5, <2>3 DEF SelectProtocol
  <2>. QED
    BY <1>5, <2>1, <2>2, <2>3
<1>6. ASSUME NEW c \in Conns, Running, PushKey(c) PROVE ClosedByASession'
  BY <1>6 DEF PushKey, PushPart
<1>7. ASSUME NEW c \in Conns, Running,
             SetState(c) \/ SetConnect(c)
      PROVE ClosedByASession'
  <2>1. CASE SetState(c)
    BY <1>7, <2>1 DEF SetState
  <2>2. CASE SetConnect(c)
    BY <1>7, <2>2 DEF SetConnect
  <2>. QED
    BY <1>7, <2>1, <2>2
<1>8. ASSUME NEW c \in Conns, Running,
             WipeToken(c) \/ WipeSession(c) \/ CancelHeart(c)
      PROVE ClosedByASession'
  <2>1. CASE WipeToken(c)
    BY <1>8, <2>1 DEF WipeToken
  <2>2. CASE WipeSession(c)
    BY <1>8, <2>2 DEF WipeSession
  <2>3. CASE CancelHeart(c)
    BY <1>8, <2>3 DEF CancelHeart
  <2>. QED
    BY <1>8, <2>1, <2>2, <2>3
<1>9. ASSUME NEW c \in Conns, Running,
             AwaitHeart(c) \/ WaitHeart(c)
      PROVE ClosedByASession'
  <2>1. CASE AwaitHeart(c)
    BY <1>9, <2>1 DEF AwaitHeart
  <2>2. CASE WaitHeart(c)
    BY <1>9, <2>2 DEF WaitHeart
  <2>. QED
    BY <1>9, <2>1, <2>2
<1>10. ASSUME NEW c \in Conns, Running, RenewToken(c) PROVE ClosedByASession'
  <2>1. ws'[c] = "closed"
    BY <1>10 DEF RenewToken
  <2>. QED
    BY <2>1
<1>11. CASE UNCHANGED <<ws, talk, socket, receiving>>
  BY <1>11
<1>. QED
  <2>1. ASSUME NEW c \in Conns, Running, StartStep(c) PROVE ClosedByASession'
    BY <2>1, <1>1, <1>11
       DEF StartStep, SetSession, RequestFails, TestFirstTime, Launch
  <2>2. ASSUME NEW c \in Conns, Running, HelloStep(c) PROVE ClosedByASession'
    BY <2>2, <1>4, <1>11 DEF HelloStep, ReadSession, MakeHeart, AssignTask
  <2>3. ASSUME NEW c \in Conns, Running, TalkStep(c) PROVE ClosedByASession'
    BY <2>3, <1>5, <1>6, <1>7, <1>11 DEF TalkStep, StartUdpFails, ExitProgram
  <2>4. ASSUME NEW c \in Conns, Running, Outside(c) PROVE ClosedByASession'
    BY <2>4, <1>2, <1>3, <1>11 DEF Outside, SetToken, Remember, Hello, Receives
  <2>5. ASSUME NEW c \in Conns, HeartStep(c) PROVE ClosedByASession'
    BY <2>5, <1>11 DEF HeartStep, StopHeart, Beat
  <2>6. ASSUME NEW c \in Conns, CloseStep(c) PROVE ClosedByASession'
    BY <2>6, <1>8, <1>9, <1>10 DEF CloseStep
  <2>. QED
    BY <2>1, <2>2, <2>3, <2>4, <2>5, <2>6 DEF Next

\* The invariant the safety properties of the sessions are read from.
THEOREM SessionCorrect == Spec => []SessionInv
<1>1. SessionInv /\ [Next]_vars => SessionInv'
  BY DataStep, FlagStep, StartedStep, UnconnectedStep, OverlapStep, SinceStep, OlderStep,
     HelloStepKeeps, WaitStep, PusherStep, SocketStep
     DEF SessionInv, TypeOK
<1>. QED
  BY <1>1, SessionInit, PTL DEF Spec

\* Every variable keeps its type, however many sessions overlap.
THEOREM TypeCorrect == Spec => []TypeOK
<1>1. SessionInv => TypeOK
  BY DEF SessionInv
<1>. QED
  BY <1>1, SessionCorrect, PTL

\* Overlapping starts and closes never make a connection identify itself with
\* an earlier token, and with an earlier session only of a call that set it late.
THEOREM IdentifiesForward == Spec => []NeverOlderCredentials
<1>1. SessionInv => NeverOlderCredentials
  BY DEF SessionInv
<1>. QED
  BY <1>1, SessionCorrect, PTL

\* on_close waits on a task that exists, but in the window between a handler's
\* send and its assignment of t.
THEOREM AwaitsATask == Spec => []WaitsOnATask
<1>1. SessionInv => WaitsOnATask
  BY DEF SessionInv
<1>. QED
  BY <1>1, SessionCorrect, PTL

\* Every start() that made a connection finds or leaves a pusher running.
THEOREM PusherIsMade == Spec => []SessionsHaveAPusher
<1>1. SessionInv => SessionsHaveAPusher
  BY DEF SessionInv
<1>. QED
  BY <1>1, SessionCorrect, PTL

\* However many sessions set up the one udpclient at once, none loses its socket
\* but to the close of a session.
THEOREM SocketGoneBehindAClose == Spec => []SocketLostToAClose
<1>1. SessionInv => SocketLostToAClose
  BY DEF SessionInv, ClosedByASession, SocketLostToAClose
<1>. QED
  BY <1>1, SessionCorrect, PTL
=============================================================================
