------------------------- MODULE GatewayLinkProofs -------------------------
(***************************************************************************)
(* Proofs about GatewayLink for any number of connections and restarts.    *)
(* The argument is about who holds which source: a source is installed and *)
(* canceled only after the restart it is named after made it, so the one a *)
(* restart installs was never canceled before.  Connections are counted:   *)
(* each is made by a call of on_close, and each call stands for one that   *)
(* was terminated, or was noted in again.                                  *)
(***************************************************************************)
EXTENDS GatewayLink, FiniteSetTheorems, TLAPS

\* A source in use was made by its restart.
SourceMade ==
  \A r \in Restarts : r \in canceled \cup {cts, token} => restart[r].at \in {"token", "done"}

\* The restarts that will still install a source, or never will.
BeforeSource == {"wait", "await", "close", "frame", "source", "failed"}
CanceledSource == cts \in canceled => \E r \in Restarts : restart[r].at \in BeforeSource

\* Whoever asked for a restart had an open connection, which may have ended since.
Opened ==
  \A r \in Restarts : restart[r].at # "none" =>
    restart[r].conn \in Conns /\ ws[restart[r].conn] \in {"open", "closing", "closed"}

LinkInv ==
  /\ TypeOK
  /\ SourceMade /\ SourceAndTokenAgree /\ CanceledSource /\ CanceledByRestart
  /\ Opened /\ OneConnection

RestartRecord == [at : RestartPC, conn : 0 .. MaxConns, resumes : BOOLEAN]

\* The first state satisfies it: source 0 is installed and not canceled.
LEMMA LinkInit == Init => LinkInv
<1> SUFFICES ASSUME Init PROVE LinkInv
  OBVIOUS
<1> USE ConnAssumption, RestartAssumption DEF Init, Conns, Restarts, Sources
<1>1. TypeOK
  <2>1. ws \in [Conns -> WsPC] /\ hello \in [Conns -> HelloPC] /\ onclose \in Nat /\ again \in Nat
    BY DEF WsPC, HelloPC
  <2>2. heart \in [Conns -> HeartPC] /\ heartToken \in [Conns -> Sources]
    BY DEF HeartPC
  <2>3. /\ restart \in [Restarts -> RestartRecord]
        /\ \A r \in Restarts : restart[r].at = "none"
    BY DEF RestartRecord, RestartPC
  <2>4. awaits \in [Restarts -> 0 .. MaxConns] /\ t \in 0 .. MaxConns
    OBVIOUS
  <2>5. cts \in Sources /\ token \in Sources /\ canceled \subseteq Sources
    OBVIOUS
  <2>. QED
    BY <2>1, <2>2, <2>3, <2>4, <2>5 DEF TypeOK, RestartRecord
<1>2. SourceMade /\ SourceAndTokenAgree /\ CanceledSource /\ CanceledByRestart
  BY DEF SourceMade, SourceAndTokenAgree, CanceledSource, CanceledByRestart
<1>3. OneConnection
  <2>1. Current = {1}
    BY DEF Current
  <2>2. Cardinality({1}) = 1
    BY FS_Singleton
  <2>. QED
    BY <2>1, <2>2 DEF OneConnection
<1>4. Opened
  BY DEF Opened
<1>. QED
  BY <1>1, <1>2, <1>3, <1>4 DEF LinkInv

\* What a step of one restart does to the places of all of them: it moves one
\* restart along an edge of its program.
Edge(a, b) ==
  \/ a = "none" /\ b = "flag"
  \/ a = "flag" /\ b = "cancel"
  \/ a = "cancel" /\ b = "wait"
  \/ a = "wait" /\ b \in {"await", "failed"}
  \/ a = "await" /\ b = "close"
  \/ a = "close" /\ b \in {"frame", "failed"}
  \/ a = "frame" /\ b = "source"
  \/ a = "source" /\ b = "token"
  \/ a = "token" /\ b = "done"

MovesAlong(r) ==
  /\ restart' \in [Restarts -> RestartRecord]
  /\ awaits' \in [Restarts -> 0 .. MaxConns]
  /\ \A q \in Restarts : restart'[q].at = "await" => awaits'[q] # 0
  /\ Edge(restart[r].at, restart'[r].at)
  /\ \A q \in Restarts : q # r => restart'[q] = restart[q]

\* A restart that goes to pc without waiting keeps the types.
LEMMA GotoMoves ==
  ASSUME TypeOK, NEW r \in Restarts, NEW pc \in RestartPC,
         restart' = [restart EXCEPT ![r].at = pc], pc # "await",
         awaits' \in [Restarts -> 0 .. MaxConns],
         \A q \in Restarts : q # r => awaits'[q] = awaits[q],
         Edge(restart[r].at, pc)
  PROVE  MovesAlong(r)
<1>1. restart \in [Restarts -> RestartRecord]
  BY DEF TypeOK, RestartRecord
<1>2. restart'[r] = [restart[r] EXCEPT !.at = pc] /\ restart'[r].at = pc
  BY <1>1 DEF RestartRecord
<1>3. restart' \in [Restarts -> RestartRecord]
  BY <1>1 DEF RestartRecord
<1>4. \A q \in Restarts : q # r => restart'[q] = restart[q]
  BY <1>1
<1>5. \A q \in Restarts : restart'[q].at = "await" => awaits'[q] # 0
  BY <1>2, <1>4 DEF TypeOK
<1>. QED
  BY <1>2, <1>3, <1>4, <1>5 DEF MovesAlong

\* Every step of a restart is along an edge.
LEMMA RestartMoves ==
  ASSUME TypeOK, NEW r \in Restarts, RestartStep(r)
  PROVE  MovesAlong(r)
<1> USE DEF Goto, Edge, RestartPC
<1>a. awaits \in [Restarts -> 0 .. MaxConns]
  BY DEF TypeOK
<1>1. CASE SetFlag(r)
  BY <1>1, <1>a, GotoMoves DEF SetFlag
<1>2. CASE Cancel(r)
  BY <1>2, <1>a, GotoMoves DEF Cancel
<1>3. CASE WaitHeart(r)
  <2>1. CASE t = 0 /\ Goto(r, "failed")
    BY <1>3, <1>a, <2>1, GotoMoves DEF WaitHeart
  <2>2. CASE /\ t # 0 /\ awaits' = [awaits EXCEPT ![r] = t]
             /\ restart' = [restart EXCEPT ![r].at = "await"]
    <3>1. restart \in [Restarts -> RestartRecord] /\ t \in 0 .. MaxConns
      BY DEF TypeOK, RestartRecord
    <3>2. restart' \in [Restarts -> RestartRecord] /\ restart'[r].at = "await"
      BY <2>2, <3>1 DEF RestartRecord
    <3>3. \A q \in Restarts : q # r => restart'[q] = restart[q] /\ awaits'[q] = awaits[q]
      BY <1>a, <2>2, <3>1
    <3>4. awaits' \in [Restarts -> 0 .. MaxConns] /\ awaits'[r] # 0
      BY <1>a, <2>2, <3>1
    <3>5. \A q \in Restarts : restart'[q].at = "await" => awaits'[q] # 0
      BY <3>3, <3>4 DEF TypeOK
    <3>. QED
      BY <1>3, <3>2, <3>3, <3>4, <3>5 DEF MovesAlong, WaitHeart
  <2>. QED
    BY <1>3, <2>1, <2>2 DEF WaitHeart, Await
<1>4. CASE HeartOver(r)
  <2>1. /\ awaits' \in [Restarts -> 0 .. MaxConns]
        /\ \A q \in Restarts : q # r => awaits'[q] = awaits[q]
    BY <1>4, <1>a, ConnAssumption DEF HeartOver
  <2>. QED
    BY <1>4, <2>1, GotoMoves DEF HeartOver
<1>5. CASE CloseTest(r)
  BY <1>5, <1>a, GotoMoves DEF CloseTest, CloseThrows
<1>6. CASE Close(r)
  BY <1>6, <1>a, GotoMoves DEF Close
<1>7. CASE NewSource(r)
  BY <1>7, <1>a, GotoMoves DEF NewSource
<1>8. CASE GetToken(r)
  BY <1>8, <1>a, GotoMoves DEF GetToken
<1>. QED
  BY <1>1, <1>2, <1>3, <1>4, <1>5, <1>6, <1>7, <1>8 DEF RestartStep

\* So is a request, which begins a restart that has not begun.
LEMMA RequestMoves ==
  ASSUME TypeOK, NEW r \in Restarts, NEW c \in Conns, NEW resumes \in BOOLEAN,
         Request(r, c, resumes)
  PROVE  MovesAlong(r)
<1> DEFINE new == [at |-> "flag", conn |-> c, resumes |-> resumes]
<1>1. new \in RestartRecord /\ new.at = "flag"
  BY ConnAssumption DEF RestartRecord, RestartPC, Conns
<1>2. restart \in [Restarts -> RestartRecord]
  BY DEF TypeOK, RestartRecord
<1>3. restart' = [restart EXCEPT ![r] = new] /\ restart[r].at = "none" /\ UNCHANGED awaits
  BY DEF Request
<1>. HIDE DEF new
<1>4. restart' \in [Restarts -> RestartRecord] /\ restart'[r] = new
  BY <1>1, <1>2, <1>3
<1>5. \A q \in Restarts : q # r => restart'[q] = restart[q]
  BY <1>2, <1>3
<1>6. \A q \in Restarts : restart'[q].at = "await" => awaits'[q] # 0
  BY <1>1, <1>3, <1>4, <1>5 DEF TypeOK
<1>7. awaits' \in [Restarts -> 0 .. MaxConns]
  BY <1>3 DEF TypeOK
<1>. QED
  BY <1>1, <1>3, <1>4, <1>5, <1>6, <1>7 DEF MovesAlong, Edge

\* The step of a connection leaves the restarts and their sources alone.
ConnStep(c) ==
  Open(c) \/ Terminate(c) \/ OnClose \/ Hello(c) \/ HelloStep(c) \/ HeartStep(c)

\* Who may take a step.
LEMMA Steps ==
  ASSUME [Next]_vars
  PROVE  \/ UNCHANGED vars
         \/ \E c \in Conns : ConnStep(c)
         \/ \E r \in Restarts : Running /\ RestartStep(r)
         \/ \E r \in Restarts, c \in Conns, resumes \in BOOLEAN : Running /\ Request(r, c, resumes)
<1>1. 1 \in Conns
  BY ConnAssumption DEF Conns
<1>2. CASE OnClose
  BY <1>1, <1>2 DEF ConnStep
<1>3. ASSUME NEW r \in Restarts, NEW c \in Conns, Running,
             Reconnect(r, c) \/ InvalidSession(r, c) \/ RestartCommand(r, c)
      PROVE  \E resumes \in BOOLEAN : Running /\ Request(r, c, resumes)
  BY <1>3 DEF Reconnect, InvalidSession, RestartCommand
<1>. QED
  BY <1>2, <1>3 DEF Next, ConnStep

LEMMA ConnStepLeaves ==
  ASSUME NEW c \in Conns, ConnStep(c)
  PROVE  UNCHANGED <<restartVars, tokenVars>>
BY DEF ConnStep, Open, Terminate, OnClose, Hello, HelloStep, TestFlag, Identify, ResetFlag,
       MakeHeart, AssignTask, HeartStep, StopHeart, Beat

\* A step of a connection keeps the types.
LEMMA ConnTypeStep ==
  ASSUME TypeOK, NEW c \in Conns, ConnStep(c)
  PROVE  TypeOK'
<1>1. UNCHANGED <<restartVars, tokenVars>>
  BY ConnStepLeaves
<1>2. /\ restart' \in [Restarts -> [at : RestartPC, conn : 0 .. MaxConns, resumes : BOOLEAN]]
      /\ awaits' \in [Restarts -> 0 .. MaxConns]
      /\ cts' \in Sources /\ token' \in Sources /\ canceled' \subseteq Sources
      /\ \A r \in Restarts : restart'[r].at = "await" => awaits'[r] # 0
  BY <1>1 DEF TypeOK, restartVars, tokenVars
<1>3. /\ ws' \in [Conns -> WsPC] /\ hello' \in [Conns -> HelloPC]
      /\ onclose' \in Nat /\ again' \in Nat
      /\ heart' \in [Conns -> HeartPC] /\ heartToken' \in [Conns -> Sources]
      /\ is_websocket_restart' \in BOOLEAN /\ t' \in 0 .. MaxConns
  <2> USE DEF TypeOK, heartVars, closeVars
  <2>1. CASE Open(c)
    BY <2>1 DEF Open, WsPC
  <2>2. CASE Terminate(c)
    BY <2>2 DEF Terminate, WsPC
  <2>3. CASE OnClose
    BY <2>3 DEF OnClose, WsPC
  <2>4. CASE Hello(c)
    BY <2>4 DEF Hello, HelloPC
  <2>5. CASE TestFlag(c)
    BY <2>5 DEF TestFlag, HelloPC
  <2>6. CASE Identify(c)
    BY <2>6 DEF Identify, HelloPC
  <2>7. CASE ResetFlag(c)
    BY <2>7 DEF ResetFlag, HelloPC
  <2>8. CASE MakeHeart(c)
    BY <2>8 DEF MakeHeart, HelloPC, HeartPC
  <2>9. CASE AssignTask(c)
    BY <2>9, ConnAssumption DEF AssignTask, HelloPC, Conns
  <2>10. CASE StopHeart(c)
    BY <2>10 DEF StopHeart, HeartPC
  <2>11. CASE Beat(c)
    BY <2>11 DEF Beat, HeartPC
  <2>. QED
    BY <2>1, <2>2, <2>3, <2>4, <2>5, <2>6, <2>7, <2>8, <2>9, <2>10, <2>11
       DEF ConnStep, HelloStep, HeartStep
<1>. QED
  BY <1>2, <1>3 DEF TypeOK

\* So does a step of a restart, or a request for one.
LEMMA RestartTypeStep ==
  ASSUME TypeOK, NEW r \in Restarts,
         RestartStep(r) \/ (\E c \in Conns, resumes \in BOOLEAN : Request(r, c, resumes))
  PROVE  TypeOK' /\ MovesAlong(r)
<1>1. MovesAlong(r)
  BY RestartMoves, RequestMoves
<1>2. UNCHANGED <<hello, heartVars>>
  BY DEF RestartStep, SetFlag, Cancel, WaitHeart, HeartOver, CloseTest, Close, NewSource, GetToken,
         Request
<1>3. ws' \in [Conns -> WsPC] /\ onclose' \in Nat /\ again' \in Nat
  BY DEF RestartStep, SetFlag, Cancel, WaitHeart, HeartOver, CloseTest, Close, SendClose,
         NewSource, GetToken, Request, TypeOK, WsPC, closeVars
<1>4. is_websocket_restart' \in BOOLEAN
  BY DEF RestartStep, SetFlag, Cancel, WaitHeart, HeartOver, CloseTest, Close, NewSource,
         GetToken, Request, TypeOK
<1>5. cts' \in Sources /\ token' \in Sources /\ canceled' \subseteq Sources
  BY RestartAssumption
     DEF RestartStep, SetFlag, Cancel, WaitHeart, HeartOver, CloseTest, Close, NewSource,
         GetToken, TakeToken, Request, TypeOK, tokenVars, Sources, Restarts
<1>. QED
  BY <1>1, <1>2, <1>3, <1>4, <1>5 DEF TypeOK, MovesAlong, RestartRecord, heartVars

\* Who made, installed and canceled the sources, through one step.
SourceInv == SourceMade /\ SourceAndTokenAgree /\ CanceledSource /\ CanceledByRestart

LEMMA SourceStep ==
  ASSUME TypeOK, SourceInv, [Next]_vars
  PROVE  SourceInv'
<1> USE DEF SourceInv, SourceMade, SourceAndTokenAgree, CanceledSource,
      CanceledByRestart, Running, BeforeSource, UnderWay
<1>1. CASE UNCHANGED <<restart, tokenVars>>
  BY <1>1 DEF tokenVars
<1>2. ASSUME NEW r \in Restarts, MovesAlong(r), UNCHANGED tokenVars,
             restart[r].at \notin {"source", "token"}
      PROVE  SourceInv'
  BY <1>2 DEF MovesAlong, Edge, tokenVars
<1>3. ASSUME NEW r \in Restarts, Running, Cancel(r) PROVE SourceInv'
  <2>1. MovesAlong(r) /\ restart[r].at = "cancel" /\ restart'[r].at = "wait"
    BY <1>3, RestartMoves DEF RestartStep, Cancel, MovesAlong, Edge
  <2>. QED
    BY <1>3, <2>1 DEF Cancel, MovesAlong
<1>4. ASSUME NEW r \in Restarts, Running, NewSource(r) PROVE SourceInv'
  <2>1. MovesAlong(r) /\ restart[r].at = "source" /\ restart'[r].at = "token"
    BY <1>4, RestartMoves DEF RestartStep, NewSource, MovesAlong, Edge
  <2>2. r \notin canceled \cup {cts, token}
    BY <2>1
  <2>. QED
    BY <1>4, <2>1, <2>2 DEF NewSource, MovesAlong
<1>5. ASSUME NEW r \in Restarts, Running, GetToken(r) PROVE SourceInv'
  <2>1. MovesAlong(r) /\ restart[r].at = "token" /\ restart'[r].at = "done"
    BY <1>5, RestartMoves DEF RestartStep, GetToken, MovesAlong, Edge
  <2>. QED
    BY <1>5, <2>1 DEF GetToken, TakeToken, MovesAlong
<1>6. ASSUME NEW r \in Restarts, Running,
             \/ SetFlag(r) \/ WaitHeart(r) \/ HeartOver(r) \/ CloseTest(r) \/ Close(r)
             \/ \E c \in Conns, resumes \in BOOLEAN : Request(r, c, resumes)
      PROVE  SourceInv'
  <2>1. MovesAlong(r)
    BY <1>6, RestartTypeStep DEF RestartStep
  <2>2. UNCHANGED tokenVars /\ restart[r].at \notin {"source", "token"}
    BY <1>6 DEF SetFlag, WaitHeart, HeartOver, CloseTest, Close, Request
  <2>. QED
    BY <1>2, <2>1, <2>2
<1>7. ASSUME NEW c \in Conns, ConnStep(c) PROVE SourceInv'
  BY <1>1, <1>7, ConnStepLeaves DEF restartVars
<1>8. CASE UNCHANGED vars
  BY <1>1, <1>8 DEF vars, restartVars
<1>9. ASSUME NEW r \in Restarts, Running, RestartStep(r) PROVE SourceInv'
  BY <1>3, <1>4, <1>5, <1>6, <1>9 DEF RestartStep
<1>. QED
  BY <1>6, <1>7, <1>8, <1>9, Steps

\* No step takes a connection that was open back, or changes which one a
\* restart is for.
LEMMA OpenedStep ==
  ASSUME TypeOK, Opened, [Next]_vars
  PROVE  Opened'
<1>a. ws \in [Conns -> WsPC] /\ restart \in [Restarts -> RestartRecord]
  BY DEF TypeOK, RestartRecord
<1>1. CASE UNCHANGED restart
  <2> DEFINE was == {"open", "closing", "closed"}
             Keeps == \A c \in Conns : ws[c] \in was => ws'[c] \in was
  <2>1. Keeps
    <3>1. CASE UNCHANGED ws
      BY <3>1
    <3>2. ASSUME NEW c \in Conns, Open(c) \/ Terminate(c) PROVE Keeps
      BY <1>a, <3>2 DEF Open, Terminate
    <3>3. CASE OnClose
      BY <1>a, <3>3 DEF OnClose
    <3>4. ASSUME NEW r \in Restarts, Close(r) PROVE Keeps
      BY <1>a, <3>4 DEF Close, SendClose
    <3>. QED
      BY <3>1, <3>2, <3>3, <3>4
         DEF Next, RestartStep, SetFlag, Cancel, WaitHeart, HeartOver, CloseTest, NewSource,
             GetToken, Reconnect, InvalidSession, RestartCommand, Request, Hello, HelloStep,
             TestFlag, Identify, ResetFlag, MakeHeart, AssignTask,
             HeartStep, StopHeart, Beat, vars
  <2>. QED
    BY <1>1, <2>1 DEF Opened
<1>2. ASSUME NEW r \in Restarts, RestartStep(r) PROVE Opened'
  <2>1. MovesAlong(r)
    BY <1>2, RestartMoves
  <2>2. restart[r].at # "none" /\ restart'[r].conn = restart[r].conn
    BY <1>2, <1>a DEF RestartStep, SetFlag, Cancel, WaitHeart, Await, HeartOver, CloseTest,
       CloseThrows, Close, NewSource, GetToken, Goto, RestartRecord
  <2>3. \A q \in Restarts : q # r => restart'[q] = restart[q]
    BY <2>1 DEF MovesAlong
  <2>4. UNCHANGED ws \/ ws' = [ws EXCEPT ![restart[r].conn] = "closing"]
    BY <1>2 DEF RestartStep, SetFlag, Cancel, WaitHeart, HeartOver, CloseTest, Close,
       SendClose, NewSource, GetToken
  <2>. QED
    BY <1>a, <2>2, <2>3, <2>4 DEF Opened
<1>3. ASSUME NEW r \in Restarts, NEW c \in Conns, NEW resumes \in BOOLEAN,
             Request(r, c, resumes)
      PROVE  Opened'
  <2> DEFINE new == [at |-> "flag", conn |-> c, resumes |-> resumes]
  <2>1. restart' = [restart EXCEPT ![r] = new] /\ ws' = ws /\ ws[c] = "open" /\ new.conn = c
    BY <1>3 DEF Request
  <2>. HIDE DEF new
  <2>. QED
    BY <1>a, <2>1 DEF Opened
<1>4. CASE UNCHANGED vars
  BY <1>1, <1>4 DEF vars, restartVars
<1>5. ASSUME NEW c \in Conns, ConnStep(c) PROVE Opened'
  BY <1>1, <1>5, ConnStepLeaves DEF restartVars
<1>. QED
  BY <1>2, <1>3, <1>4, <1>5, Steps

\* A connection that opens, ends or comes to be changes their number so.
LEMMA CurrentIsFinite ==
  ASSUME TypeOK
  PROVE  IsFiniteSet(Current) /\ Cardinality(Current) \in Nat
<1>1. IsFiniteSet(Conns)
  BY FS_Interval, ConnAssumption DEF Conns
<1>2. Current \subseteq Conns
  BY DEF Current
<1>. QED
  BY <1>1, <1>2, FS_Subset, FS_CardinalityType

LEMMA CurrentCounts ==
  ASSUME TypeOK, NEW c \in Conns
  PROVE  /\ Cardinality(Current \cup {c}) \in Nat
         /\ Cardinality(Current \cup {c}) <= Cardinality(Current) + 1
         /\ c \in Current => Cardinality(Current \ {c}) = Cardinality(Current) - 1
BY CurrentIsFinite, FS_AddElement, FS_RemoveElement, FS_CardinalityType

\* Only on_close connects, once for each connection that was terminated, and
\* for each further call that was noted.
LEMMA ConnectionStep ==
  ASSUME TypeOK, Opened, OneConnection, [Next]_vars
  PROVE  OneConnection'
<1>a. ws \in [Conns -> WsPC] /\ onclose \in Nat /\ again \in Nat
  BY DEF TypeOK
<1>1. CASE UNCHANGED <<ws, closeVars>>
  BY <1>1 DEF OneConnection, Current, closeVars
<1>2. ASSUME NEW c \in Conns, Open(c) PROVE OneConnection'
  <2>1. /\ UNCHANGED closeVars
        /\ Current' = Current \/ (c \in Current /\ Current' = Current \ {c})
    BY <1>a, <1>2 DEF Open, Current
  <2>. QED
    BY <1>a, <2>1, CurrentCounts, CurrentIsFinite DEF OneConnection, closeVars
<1>3. ASSUME NEW c \in Conns, Terminate(c) PROVE OneConnection'
  <2>1. c \in Current /\ Current' = Current \ {c}
    BY <1>a, <1>3 DEF Terminate, Current
  <2>. QED
    BY <1>a, <1>3, <2>1, CurrentCounts, CurrentIsFinite DEF OneConnection, Terminate
<1>4. CASE OnClose
  <2>1. Current' = Current \/ \E c \in Conns : Current' = Current \cup {c}
    BY <1>a, <1>4 DEF OnClose, Current
  <2>2. Cardinality(Current') \in Nat /\ Cardinality(Current') <= Cardinality(Current) + 1
    <3>1. CASE Current' = Current
      BY <3>1, CurrentIsFinite
    <3>2. ASSUME NEW c \in Conns, Current' = Current \cup {c}
          PROVE  /\ Cardinality(Current') \in Nat
                 /\ Cardinality(Current') <= Cardinality(Current) + 1
      <4>1. /\ Cardinality(Current \cup {c}) \in Nat
            /\ Cardinality(Current \cup {c}) <= Cardinality(Current) + 1
        BY CurrentCounts
      <4>. QED
        BY <3>2, <4>1
    <3>. QED
      BY <2>1, <3>1, <3>2
  <2>3. onclose > 0 /\ onclose' = onclose - 1 /\ again' = again
    BY <1>4 DEF OnClose
  <2>. QED
    BY <1>a, <2>2, <2>3, CurrentCounts, CurrentIsFinite DEF OneConnection
<1>5. ASSUME NEW r \in Restarts, Close(r) PROVE OneConnection'
  <2> DEFINE c == restart[r].conn
  <2>1. CASE c \in Conns /\ ws[c] \in {"open", "closing"}
    <3>1. Current' = Current /\ onclose' = onclose /\ again' = again
      BY <1>a, <1>5, <2>1 DEF Close, SendClose, Current
    <3>. QED
      BY <3>1 DEF OneConnection
  <2>2. CASE c \in Conns /\ ws[c] = "closed"
    <3>1. Current' = Current \cup {c} /\ onclose' = onclose /\ again' = again + 1
      BY <1>a, <1>5, <2>2 DEF Close, SendClose, Current
    <3> HIDE DEF c
    <3>2. Cardinality(Current') \in Nat /\ Cardinality(Current') <= Cardinality(Current) + 1
      <4>1. /\ Cardinality(Current \cup {c}) \in Nat
            /\ Cardinality(Current \cup {c}) <= Cardinality(Current) + 1
        BY <2>2, CurrentCounts
      <4>. QED
        BY <3>1, <4>1
    <3>. QED
      BY <1>a, <3>1, <3>2, CurrentCounts, CurrentIsFinite DEF OneConnection
  <2>3. c \in Conns /\ ws[c] \in {"open", "closing", "closed"}
    BY <1>5 DEF Close, Opened
  <2>. QED
    BY <2>1, <2>2, <2>3
<1>. QED
  BY <1>1, <1>2, <1>3, <1>4, <1>5
     DEF Next, RestartStep, SetFlag, Cancel, WaitHeart, HeartOver, CloseTest, NewSource,
         GetToken, Reconnect, InvalidSession, RestartCommand, Request, Hello, HelloStep,
         TestFlag, Identify, ResetFlag, MakeHeart, AssignTask,
         HeartStep, StopHeart, Beat, vars

\* The inductive invariant of the link, for any number of connections that
\* follow each other and of restarts that overlap.
THEOREM LinkCorrect == Spec => []LinkInv
<1>1. Init => LinkInv
  BY LinkInit
<1>2. LinkInv /\ [Next]_vars => LinkInv'
  <2> SUFFICES ASSUME LinkInv, [Next]_vars PROVE LinkInv'
    OBVIOUS
  <2>1. TypeOK'
    <3>1. CASE UNCHANGED vars
      BY <3>1 DEF LinkInv, TypeOK, vars, closeVars, heartVars, restartVars, tokenVars
    <3>2. ASSUME NEW c \in Conns, ConnStep(c) PROVE TypeOK'
      BY <3>2, ConnTypeStep DEF LinkInv
    <3>3. ASSUME NEW r \in Restarts,
                 \/ RestartStep(r)
                 \/ \E c \in Conns, resumes \in BOOLEAN : Request(r, c, resumes)
          PROVE  TypeOK'
      BY <3>3, RestartTypeStep DEF LinkInv
    <3>. QED
      BY <3>1, <3>2, <3>3, Steps
  <2>2. SourceInv'
    BY SourceStep DEF LinkInv, SourceInv
  <2>3. Opened' /\ OneConnection'
    BY OpenedStep, ConnectionStep DEF LinkInv
  <2>. QED
    BY <2>1, <2>2, <2>3 DEF LinkInv, SourceInv
<1>. QED
  BY <1>1, <1>2, PTL DEF Spec

\* Every variable keeps its type, and a restart waits only for a heartbeat task
\* that was made.
THEOREM TypeCorrect == Spec => []TypeOK
<1>1. LinkInv => TypeOK
  BY DEF LinkInv
<1>. QED
  BY <1>1, LinkCorrect, PTL

\* Overlapping restarts leave the fields cts and token in agreement.
THEOREM FieldsAgree == Spec => []SourceAndTokenAgree
<1>1. LinkInv => SourceAndTokenAgree
  BY DEF LinkInv
<1>. QED
  BY <1>1, LinkCorrect, PTL

\* In a program that runs, a token is canceled only during a restart.
THEOREM TokenHeals == Spec => []CanceledByRestart
<1>1. LinkInv => CanceledByRestart
  BY DEF LinkInv
<1>. QED
  BY <1>1, LinkCorrect, PTL

\* Restarts and losses make a second connection only when the library calls
\* on_close once more than it should.
THEOREM NeverTwoConnections == Spec => []OneConnection
<1>1. LinkInv => OneConnection
  BY DEF LinkInv
<1>. QED
  BY <1>1, LinkCorrect, PTL
=============================================================================
