------------------------- MODULE GatewayEventsProofs -------------------------
(***************************************************************************)
(* Proofs about the events of a guild for any number of tasks and messages.*)
(* The invariant has three parts: what the maps and their entries are,     *)
(* what the tasks are, and what a task's place in a handler says of the    *)
(* maps.  The last is what the handlers rely on when they use an entry     *)
(* that an earlier step found, although none of them holds a lock; it is   *)
(* kept because no step ever takes an entry out of a map.                  *)
(***************************************************************************)
EXTENDS GatewayEvents, TLAPS

\* The maps point at the newest entry.
StoreOK ==
  /\ results \in Seq(Result) /\ mainqueue = Len(results)
  /\ clients \in Seq(Client) /\ voicegroup = Len(clients)
  /\ usergroup \in [Members -> UserInfo \union {None}]

TaskOK ==
  /\ task \in [Tasks -> Task]
  /\ messages \in 0 .. MaxMessages
  /\ overlapping \subseteq {"search", "choose", "create"}

\* A task that works on an entry can find one.
PlaceOK(t) ==
  /\ task[t].at \in {"go", "push", "channel", "start"} => clients # <<>>
  /\ task[t].at \in {"fill", "show", "clear", "unset"} => results # <<>>
  /\ task[t].at \in {"push", "unset"} => task[t].temp \in 1 .. Len(results)

PlacesOK == \A t \in Tasks : PlaceOK(t)

TInv == StoreOK /\ TaskOK /\ PlacesOK

\* An element of a sequence is replaced.
LEMMA Replaced ==
  ASSUME NEW S, NEW s \in Seq(S), NEW i \in 1 .. Len(s), NEW e \in S
  PROVE  /\ [s EXCEPT ![i] = e] \in Seq(S)
         /\ Len([s EXCEPT ![i] = e]) = Len(s)
OBVIOUS

\* An element is added to a sequence.
LEMMA Added ==
  ASSUME NEW S, NEW s \in Seq(S), NEW e \in S
  PROVE  Append(s, e) \in Seq(S) /\ Len(Append(s, e)) = Len(s) + 1
OBVIOUS

\* A sequence that is not empty has a last element.
LEMMA LastIndex ==
  ASSUME NEW S, NEW s \in Seq(S), s # <<>>
  PROVE  Len(s) \in 1 .. Len(s)
OBVIOUS

\* Queueing an id changes one client, which stays a client.
LEMMA QueueKeeps ==
  ASSUME StoreOK, clients # <<>>, NEW id \in MaybeNumber, Queue(id)
  PROVE  clients' \in Seq(Client) /\ Len(clients') = Len(clients)
<1> DEFINE new == [clients[voicegroup] EXCEPT !.songs = Append(@, id)]
<1>1. voicegroup \in 1 .. Len(clients)
  BY LastIndex DEF StoreOK
<1>2. clients[voicegroup] \in Client
  BY <1>1 DEF StoreOK
<1>3. Append(clients[voicegroup].songs, id) \in Seq(MaybeNumber)
  BY <1>2, Added DEF Client
<1>4. new \in Client
  BY <1>2, <1>3 DEF Client
<1>5. clients' = [clients EXCEPT ![voicegroup] = new]
  BY DEF Queue
<1>. QED
  BY <1>1, <1>4, <1>5, Replaced DEF StoreOK


\* The three ways in which a step changes a task leave it a task.
LEMMA GotoKeeps ==
  ASSUME task \in [Tasks -> Task], NEW t \in Tasks, NEW place \in Places, Goto(t, place)
  PROVE  task' \in [Tasks -> Task]
<1>1. [task[t] EXCEPT !.at = place] \in Task
  BY DEF Task
<1>. QED
  BY <1>1 DEF Goto

LEMMA FinishKeeps ==
  ASSUME task \in [Tasks -> Task], NEW t \in Tasks, Finish(t)
  PROVE  task' \in [Tasks -> Task]
<1>1. Free \in Task
  BY BoundAssumption DEF Free, Task, Places, Kinds
<1>. QED
  BY <1>1 DEF Finish

LEMMA ReceiveKeeps ==
  ASSUME TaskOK, NEW t \in Tasks, NEW kind \in Kinds, NEW place \in Places, NEW temp \in Nat,
         Receive(t, kind, place, temp)
  PROVE  task' \in [Tasks -> Task] /\ messages' \in 0 .. MaxMessages
<1>1. messages' \in 0 .. MaxMessages
  BY BoundAssumption DEF TaskOK, Receive
<1> DEFINE new == [at |-> place, kind |-> kind, number |-> IF kind = "search" THEN messages + 1 ELSE 0,
                   temp |-> temp, polls |-> 0]
<1>2. new \in Task
  BY BoundAssumption DEF TaskOK, Task
<1>. QED
  BY <1>1, <1>2 DEF TaskOK, Receive

\* Tasks stay tasks, messages are counted up to the bound.
LEMMA TaskStep ==
  ASSUME TInv, [Next]_vars
  PROVE  TaskOK'
<1> USE DEF TInv, TaskOK
<1>1. ASSUME NEW t \in Tasks, Play(t) PROVE TaskOK'
  <2>1. PICK kind \in {"play", "search"} : Receive(t, kind, "find", 0) /\ Overlap("search", kind = "search" /\ Others(t, "search"))
    BY <1>1 DEF Play
  <2>. QED
    BY <2>1, ReceiveKeeps DEF Kinds, Places, Overlap
<1>2. ASSUME NEW t \in Tasks, Join(t) PROVE TaskOK'
  BY <1>2, ReceiveKeeps DEF Join, Kinds, Places
<1>3. ASSUME NEW t \in Tasks, FindClient(t) PROVE TaskOK'
  <2>1. PICK place \in Places : Goto(t, place)
    BY <1>3 DEF FindClient, Places
  <2>. QED
    BY <1>3, <2>1, GotoKeeps DEF FindClient, Overlap
<1>4. ASSUME NEW t \in Tasks, CreateClient(t) PROVE TaskOK'
  <2>1. PICK place \in Places : Goto(t, place)
    BY <1>4 DEF CreateClient, Places
  <2>. QED
    BY <1>4, <2>1, GotoKeeps DEF CreateClient
<1>5. ASSUME NEW t \in Tasks, Answer(t) PROVE TaskOK'
  BY <1>5, FinishKeeps DEF Answer
<1>6. ASSUME NEW t \in Tasks, QueueLink(t) PROVE TaskOK'
  BY <1>6, FinishKeeps DEF QueueLink
<1>7. ASSUME NEW t \in Tasks, NewResults(t) PROVE TaskOK'
  BY <1>7, GotoKeeps DEF NewResults, Places
<1>8. ASSUME NEW t \in Tasks, FillResults(t) PROVE TaskOK'
  BY <1>8, GotoKeeps DEF FillResults, Places
<1>9. ASSUME NEW t \in Tasks, SearchThrows(t) PROVE TaskOK'
  BY <1>9, FinishKeeps DEF SearchThrows
<1>10. ASSUME NEW t \in Tasks, ShowResults(t) PROVE TaskOK'
  BY <1>10, FinishKeeps DEF ShowResults
<1>11. ASSUME NEW t \in Tasks, Choose(t) PROVE TaskOK'
  <2>1. mainqueue \in Nat
    BY DEF StoreOK
  <2>. QED
    BY <1>11, <2>1, ReceiveKeeps DEF Choose, Kinds, Places, Overlap
<1>12. ASSUME NEW t \in Tasks, QueueChoice(t) PROVE TaskOK'
  BY <1>12, GotoKeeps DEF QueueChoice, Places
<1>13. ASSUME NEW t \in Tasks, ClearData(t) PROVE TaskOK'
  <2>1. mainqueue \in Nat
    BY DEF StoreOK
  <2>2. [task[t] EXCEPT !.at = "unset", !.temp = mainqueue] \in Task
    BY <2>1 DEF Task, Places
  <2>. QED
    BY <1>13, <2>2 DEF ClearData
<1>14. ASSUME NEW t \in Tasks, Unset(t) PROVE TaskOK'
  BY <1>14, FinishKeeps DEF Unset
<1>15. ASSUME NEW t \in Tasks, StateUpdate(t) PROVE TaskOK'
  <2>1. PICK temp \in Nat : Receive(t, "state", "update", temp)
    BY <1>15 DEF StateUpdate
  <2>. QED
    BY <1>15, <2>1, ReceiveKeeps DEF StateUpdate, Kinds, Places
<1>16. ASSUME NEW t \in Tasks, FillUserInfo(t) PROVE TaskOK'
  BY <1>16, FinishKeeps DEF FillUserInfo
<1>17. ASSUME NEW t \in Tasks, ServerUpdate(t) PROVE TaskOK'
  BY <1>17, ReceiveKeeps DEF ServerUpdate, Kinds, Places
<1>18. ASSUME NEW t \in Tasks, Poll(t) PROVE TaskOK'
  <2>1. CASE Goto(t, "find")
    BY <1>18, <2>1, GotoKeeps DEF Poll, Places
  <2>2. CASE Finish(t)
    BY <1>18, <2>2, FinishKeeps DEF Poll
  <2>3. CASE task[t].polls + 1 < MaxPolls /\ task' = [task EXCEPT ![t].polls = @ + 1]
    <3>1. [task[t] EXCEPT !.polls = @ + 1] \in Task
      BY <2>3, BoundAssumption DEF Task
    <3>. QED
      BY <1>18, <2>3, <3>1 DEF Poll
  <2>. QED
    BY <1>18, <2>1, <2>2, <2>3 DEF Poll
<1>19. ASSUME NEW t \in Tasks, SetChannel(t) PROVE TaskOK'
  BY <1>19, GotoKeeps DEF SetChannel, Places
<1>20. ASSUME NEW t \in Tasks, Start(t) PROVE TaskOK'
  BY <1>20, FinishKeeps DEF Start
<1>21. CASE UNCHANGED vars
  BY <1>21 DEF vars
<1>. QED
  BY <1>1, <1>2, <1>3, <1>4, <1>5, <1>6, <1>7, <1>8, <1>9, <1>10, <1>11, <1>12, <1>13, <1>14, <1>15, <1>16, <1>17, <1>18, <1>19, <1>20, <1>21 DEF Next

\* The maps keep pointing at the newest entry, and entries keep their types.
LEMMA StoreStep ==
  ASSUME TInv, [Next]_vars
  PROVE  StoreOK'
<1> USE DEF TInv, StoreOK, cacheVars, clientVars

<1>1. ASSUME NEW t \in Tasks, CreateClient(t) PROVE StoreOK'
  <2>1. NewClient \in Client
    BY DEF NewClient, Client
  <2>. QED
    BY <1>1, <2>1, Added DEF CreateClient
<1>2. ASSUME NEW t \in Tasks, QueueLink(t) PROVE StoreOK'
  <2>1. Link \in MaybeNumber /\ clients # <<>>
    BY <1>2 DEF Link, MaybeNumber, QueueLink, At, PlacesOK, PlaceOK
  <2>. QED
    BY <1>2, <2>1, QueueKeeps DEF QueueLink
<1>3. ASSUME NEW t \in Tasks, NewResults(t) PROVE StoreOK'
  <2>1. [data |-> None, messageid |-> None, set |-> FALSE] \in Result
    BY DEF Result, MaybeNumber
  <2>. QED
    BY <1>3, <2>1, Added DEF NewResults
<1>4. ASSUME NEW t \in Tasks, FillResults(t) PROVE StoreOK'
  <2>1. mainqueue \in 1 .. Len(results)
    BY <1>4, LastIndex DEF FillResults, At, PlacesOK, PlaceOK
  <2>2. PICK found \in BOOLEAN :
          results' = [results EXCEPT ![mainqueue].set = found,
                                     ![mainqueue].data = IF found THEN task[t].number ELSE @]
    BY <1>4 DEF FillResults
  <2> DEFINE new == [results[mainqueue] EXCEPT !.set = found,
                                               !.data = IF found THEN task[t].number ELSE @]
  <2>3. results[mainqueue] \in Result /\ task[t].number \in Nat
    BY <2>1 DEF TaskOK, Task
  <2>4. new \in Result
    BY <2>3 DEF Result, MaybeNumber
  <2>5. results' = [results EXCEPT ![mainqueue] = new]
    BY <2>1, <2>2
  <2> HIDE DEF new
  <2>6. results' \in Seq(Result) /\ Len(results') = Len(results)
    BY <2>1, <2>4, <2>5, Replaced
  <2>. QED
    BY <1>4, <2>6 DEF FillResults
<1>5. ASSUME NEW t \in Tasks, ShowResults(t) PROVE StoreOK'
  <2>1. mainqueue \in 1 .. Len(results)
    BY <1>5, LastIndex DEF ShowResults, At, PlacesOK, PlaceOK
  <2>2. PICK id \in {task[t].number, None} :
          results' = IF id = None THEN results ELSE [results EXCEPT ![mainqueue].messageid = id]
    BY <1>5 DEF ShowResults
  <2>3. results[mainqueue] \in Result /\ task[t].number \in Nat
    BY <2>1 DEF TaskOK, Task
  <2>4. [results[mainqueue] EXCEPT !.messageid = id] \in Result
    BY <2>3 DEF Result, MaybeNumber
  <2>5. [results EXCEPT ![mainqueue].messageid = id]
          = [results EXCEPT ![mainqueue] = [results[mainqueue] EXCEPT !.messageid = id]]
    BY <2>1
  <2>6. results' \in Seq(Result) /\ Len(results') = Len(results)
    BY <2>1, <2>2, <2>4, <2>5, Replaced
  <2>. QED
    BY <1>5, <2>6 DEF ShowResults
<1>6. ASSUME NEW t \in Tasks, QueueChoice(t) PROVE StoreOK'
  <2>1. clients # <<>> /\ results[task[t].temp] \in Result
    BY <1>6 DEF QueueChoice, At, PlacesOK, PlaceOK
  <2>2. results[task[t].temp].data \in MaybeNumber
    BY <2>1 DEF Result
  <2>3. CASE UNCHANGED clients
    BY <1>6, <2>3 DEF QueueChoice
  <2>4. CASE Queue(results[task[t].temp].data)
    BY <1>6, <2>1, <2>2, <2>4, QueueKeeps DEF QueueChoice
  <2>. QED
    BY <1>6, <2>3, <2>4 DEF QueueChoice
<1>7. ASSUME NEW t \in Tasks, ClearData(t) PROVE StoreOK'
  <2>1. mainqueue \in 1 .. Len(results)
    BY <1>7, LastIndex DEF ClearData, At, PlacesOK, PlaceOK
  <2>2. results[mainqueue] \in Result
    BY <2>1
  <2>3. [results[mainqueue] EXCEPT !.data = None] \in Result
    BY <2>2 DEF Result, MaybeNumber
  <2>. QED
    BY <1>7, <2>1, <2>3, Replaced DEF ClearData
<1>8. ASSUME NEW t \in Tasks, Unset(t) PROVE StoreOK'
  <2>1. task[t].temp \in 1 .. Len(results)
    BY <1>8 DEF Unset, At, PlacesOK, PlaceOK
  <2>2. results[task[t].temp] \in Result
    BY <2>1
  <2>3. [results[task[t].temp] EXCEPT !.set = FALSE] \in Result
    BY <2>2 DEF Result, MaybeNumber
  <2>. QED
    BY <1>8, <2>1, <2>3, Replaced DEF Unset
<1>9. ASSUME NEW t \in Tasks, StateUpdate(t) PROVE StoreOK'
  <2>1. [channelid |-> None, sessionid |-> None] \in UserInfo
    BY DEF UserInfo
  <2>. QED
    BY <1>9, <2>1 DEF StateUpdate
<1>10. ASSUME NEW t \in Tasks, FillUserInfo(t) PROVE StoreOK'
  <2>1. PICK channel \in Channels \union {None}, session \in Sessions :
          usergroup' = [usergroup EXCEPT ![Subject(t)] =
                           [channelid |-> channel, sessionid |-> session]]
    BY <1>10 DEF FillUserInfo
  <2>2. [channelid |-> channel, sessionid |-> session] \in UserInfo
    BY DEF UserInfo
  <2>. QED
    BY <1>10, <2>1, <2>2 DEF FillUserInfo
<1>11. ASSUME NEW t \in Tasks, SetChannel(t) PROVE StoreOK'
  <2>1. voicegroup \in 1 .. Len(clients)
    BY <1>11, LastIndex DEF SetChannel, At, PlacesOK, PlaceOK
  <2>2. ChannelOf("self") \in Channels \union {None}
    BY DEF ChannelOf, Members, UserInfo
  <2>3. clients[voicegroup] \in Client
    BY <2>1
  <2>4. [clients[voicegroup] EXCEPT !.channel = ChannelOf("self")] \in Client
    BY <2>2, <2>3 DEF Client
  <2>. QED
    BY <1>11, <2>1, <2>4, Replaced DEF SetChannel
<1>12. ASSUME NEW t \in Tasks, Start(t) PROVE StoreOK'
  <2>1. voicegroup \in 1 .. Len(clients)
    BY <1>12, LastIndex DEF Start, At, PlacesOK, PlaceOK
  <2>2. SessionOf("self") \in Sessions \union {None}
    BY DEF SessionOf, Members, UserInfo
  <2>3. clients[voicegroup] \in Client
    BY <2>1
  <2>4. [clients[voicegroup] EXCEPT !.session = SessionOf("self")] \in Client
    BY <2>2, <2>3 DEF Client
  <2>. QED
    BY <1>12, <2>1, <2>4, Replaced DEF Start
<1>13. CASE UNCHANGED <<results, mainqueue, clients, voicegroup, usergroup>>
  BY <1>13
<1>. QED
  BY <1>1, <1>2, <1>3, <1>4, <1>5, <1>6, <1>7, <1>8, <1>9, <1>10, <1>11, <1>12, <1>13
     DEF Next, vars, Play, Join, FindClient, Answer, SearchThrows, Choose, ServerUpdate, Poll

\* No step takes an entry away or empties a queue.
LEMMA NothingIsTaken ==
  ASSUME TInv, [Next]_vars
  PROVE  /\ clients # <<>> => clients' # <<>>
         /\ results # <<>> => results' # <<>>
         /\ Len(results) <= Len(results')
<1> USE DEF TInv, StoreOK, cacheVars, clientVars
<1>1. ASSUME NEW t \in Tasks, NewResults(t)
      PROVE  UNCHANGED clients /\ results' # <<>> /\ Len(results) <= Len(results')
  BY <1>1 DEF NewResults
<1>2. ASSUME NEW t \in Tasks, CreateClient(t)
      PROVE  clients' # <<>> /\ UNCHANGED results
  BY <1>2 DEF CreateClient
<1>3. ASSUME NEW t \in Tasks,
             FillResults(t) \/ ShowResults(t) \/ ClearData(t) \/ Unset(t)
      PROVE  UNCHANGED clients /\ DOMAIN results' = DOMAIN results
  BY <1>3 DEF FillResults, ShowResults, ClearData, Unset
<1>4. ASSUME NEW t \in Tasks, QueueLink(t) \/ QueueChoice(t) \/ SetChannel(t) \/ Start(t)
      PROVE  UNCHANGED results /\ DOMAIN clients' = DOMAIN clients
  BY <1>4 DEF QueueLink, QueueChoice, Queue, SetChannel, Start
<1>5. results' \in Seq(Result) /\ clients' \in Seq(Client)
  BY StoreStep
<1>6. CASE UNCHANGED <<results, clients>>
  BY <1>6
<1>. QED
  BY <1>1, <1>2, <1>3, <1>4, <1>5, <1>6
     DEF Next, vars, Play, Join, FindClient, Answer, SearchThrows, Choose, StateUpdate,
         FillUserInfo, ServerUpdate, Poll

\* Whoever is not the one that steps keeps what its place needs.
LEMMA OthersKeep ==
  ASSUME TInv, [Next]_vars, NEW u \in Tasks, task'[u] = task[u]
  PROVE  PlaceOK(u)'
<1>1. PlaceOK(u)
  BY DEF TInv, PlacesOK
<1>2. Len(results) \in Nat /\ Len(results') \in Nat
  BY StoreStep DEF TInv, StoreOK
<1>. QED
  BY <1>1, <1>2, NothingIsTaken DEF PlaceOK

\* A place that works on an entry is reached only when there is one, and entries stay.
LEMMA PlaceStep ==
  ASSUME TInv, [Next]_vars
  PROVE  PlacesOK'
<1> USE DEF TInv, PlaceOK, At
<1> DEFINE Kept(t) == PlaceOK(t)' /\ \A u \in Tasks \ {t} : task'[u] = task[u]
<1>0. ASSUME NEW t \in Tasks, Kept(t) PROVE PlacesOK'
  BY <1>0, OthersKeep DEF PlacesOK
<1>1. ASSUME NEW t \in Tasks, Play(t) PROVE Kept(t)
  BY <1>1 DEF Play, Receive, TaskOK
<1>2. ASSUME NEW t \in Tasks, Join(t) PROVE Kept(t)
  BY <1>2 DEF Join, Receive, TaskOK
<1>3. ASSUME NEW t \in Tasks, FindClient(t) PROVE Kept(t)
  <2>1. voicegroup # 0 => clients' # <<>>
    BY <1>3 DEF FindClient, clientVars, StoreOK
  <2>. QED
    BY <1>3, <2>1 DEF FindClient, Goto, TaskOK
<1>4. ASSUME NEW t \in Tasks, CreateClient(t) PROVE Kept(t)
  <2>1. clients' # <<>>
    BY <1>4 DEF CreateClient, StoreOK
  <2>. QED
    BY <1>4, <2>1 DEF CreateClient, Goto, TaskOK
<1>5. ASSUME NEW t \in Tasks, Answer(t) PROVE Kept(t)
  BY <1>5 DEF Answer, Finish, Free, TaskOK
<1>6. ASSUME NEW t \in Tasks, QueueLink(t) PROVE Kept(t)
  BY <1>6 DEF QueueLink, Finish, Free, TaskOK
<1>7. ASSUME NEW t \in Tasks, NewResults(t) PROVE Kept(t)
  <2>1. results' # <<>>
    BY <1>7 DEF NewResults, StoreOK
  <2>. QED
    BY <1>7, <2>1 DEF NewResults, Goto, TaskOK
<1>8. ASSUME NEW t \in Tasks, FillResults(t) PROVE Kept(t)
  <2>1. results' # <<>>
    BY <1>8, NothingIsTaken DEF FillResults, PlacesOK
  <2>. QED
    BY <1>8, <2>1 DEF FillResults, Goto, TaskOK
<1>9. ASSUME NEW t \in Tasks, SearchThrows(t) PROVE Kept(t)
  BY <1>9 DEF SearchThrows, Finish, Free, TaskOK
<1>10. ASSUME NEW t \in Tasks, ShowResults(t) PROVE Kept(t)
  BY <1>10 DEF ShowResults, Finish, Free, TaskOK
<1>11. ASSUME NEW t \in Tasks, Choose(t) PROVE Kept(t)
  <2>1. mainqueue \in 1 .. Len(results) /\ clients # <<>>
    BY <1>11 DEF Choose, StoreOK
  <2>2. task'[t].at = "push" /\ task'[t].temp = mainqueue /\ \A u \in Tasks \ {t} : task'[u] = task[u]
    BY <1>11 DEF Choose, Receive, TaskOK
  <2>. QED
    BY <1>11, <2>1, <2>2 DEF Choose, cacheVars, clientVars
<1>12. ASSUME NEW t \in Tasks, QueueChoice(t) PROVE Kept(t)
  <2>1. PlaceOK(t)
    BY DEF PlacesOK
  <2>2. results # <<>> /\ UNCHANGED results
    BY <1>12, <2>1 DEF QueueChoice, cacheVars
  <2>. QED
    BY <1>12, <2>2 DEF QueueChoice, Goto, TaskOK
<1>13. ASSUME NEW t \in Tasks, ClearData(t) PROVE Kept(t)
  <2>1. results # <<>> /\ DOMAIN results' = DOMAIN results
    BY <1>13 DEF ClearData, PlacesOK
  <2>2. results' # <<>> /\ Len(results') = Len(results) /\ mainqueue \in 1 .. Len(results)
    BY <2>1, StoreStep, LastIndex DEF StoreOK
  <2>. QED
    BY <1>13, <2>2 DEF ClearData, TaskOK, Task
<1>14. ASSUME NEW t \in Tasks, Unset(t) PROVE Kept(t)
  BY <1>14 DEF Unset, Finish, Free, TaskOK
<1>15. ASSUME NEW t \in Tasks, StateUpdate(t) PROVE Kept(t)
  BY <1>15 DEF StateUpdate, Receive, TaskOK
<1>16. ASSUME NEW t \in Tasks, FillUserInfo(t) PROVE Kept(t)
  BY <1>16 DEF FillUserInfo, Finish, Free, TaskOK
<1>17. ASSUME NEW t \in Tasks, ServerUpdate(t) PROVE Kept(t)
  BY <1>17 DEF ServerUpdate, Receive, TaskOK
<1>18. ASSUME NEW t \in Tasks, Poll(t) PROVE Kept(t)
  <2>1. CASE Goto(t, "find")
    BY <2>1 DEF Goto, TaskOK
  <2>2. CASE Finish(t)
    BY <2>2 DEF Finish, Free, TaskOK
  <2>3. CASE task' = [task EXCEPT ![t].polls = @ + 1]
    BY <1>18, <2>3 DEF Poll, TaskOK
  <2>. QED
    BY <1>18, <2>1, <2>2, <2>3 DEF Poll
<1>19. ASSUME NEW t \in Tasks, SetChannel(t) PROVE Kept(t)
  <2>1. clients' # <<>>
    BY <1>19, NothingIsTaken DEF SetChannel, PlacesOK
  <2>. QED
    BY <1>19, <2>1 DEF SetChannel, Goto, TaskOK
<1>20. ASSUME NEW t \in Tasks, Start(t) PROVE Kept(t)
  BY <1>20 DEF Start, Finish, Free, TaskOK
<1>21. CASE UNCHANGED vars
  BY <1>21, OthersKeep DEF vars, PlacesOK
<1> HIDE DEF Kept
<1>. QED
  BY <1>0, <1>1, <1>2, <1>3, <1>4, <1>5, <1>6, <1>7, <1>8, <1>9, <1>10, <1>11, <1>12, <1>13, <1>14, <1>15, <1>16, <1>17, <1>18, <1>19, <1>20, <1>21 DEF Next

\* The events start with empty maps and every step keeps the three parts.
THEOREM TInvAlways == Spec => []TInv
<1>1. Init => TInv
  BY BoundAssumption DEF Init, TInv, StoreOK, TaskOK, PlacesOK, PlaceOK, Free, Task, Places, Kinds
<1>2. TInv /\ [Next]_vars => TInv'
  BY TaskStep, StoreStep, PlaceStep DEF TInv
<1>. QED
  BY <1>1, <1>2, PTL DEF Spec

\* Every task that got past the test of a map uses an entry that is there
\* (entry.cpp 1299-1802).
THEOREM TypeCorrect == Spec => []TypeOK
<1>1. TInv => TypeOK
  BY DEF TInv, StoreOK, TaskOK, PlacesOK, PlaceOK, TypeOK
<1>. QED
  BY <1>1, TInvAlways, PTL
-----------------------------------------------------------------------------
(***************************************************************************)
(* One client of a guild.  Len(clients) <= 1 is not kept by itself: it     *)
(* needs that a task makes a client only while there is none, and that no  *)
(* second task has found none as well.                                     *)
(***************************************************************************)
OneCreator ==
  \/ "create" \in overlapping
  \/ /\ \A u, v \in Tasks : At(u, "create") /\ At(v, "create") => u = v
     /\ \A u \in Tasks : At(u, "create") => clients = <<>>
     /\ Len(clients) <= 1

\* Every step but the search of the map and the new client leaves the creators and
\* the number of clients as they are.
LEMMA CreatorsAside ==
  ASSUME TInv, [Next]_vars,
         \A t \in Tasks : ~FindClient(t) /\ ~CreateClient(t)
  PROVE  /\ Len(clients') = Len(clients)
         /\ \A u \in Tasks : At(u, "create")' => At(u, "create")
<1> USE DEF TInv, TaskOK
<1>1. Len(clients') = Len(clients)
  <2>1. ASSUME NEW t \in Tasks, QueueLink(t) \/ QueueChoice(t) \/ SetChannel(t) \/ Start(t)
        PROVE  DOMAIN clients' = DOMAIN clients
    BY <2>1 DEF QueueLink, QueueChoice, Queue, SetChannel, Start
  <2>2. clients \in Seq(Client) /\ clients' \in Seq(Client)
    BY StoreStep DEF StoreOK
  <2>3. ASSUME NEW t \in Tasks,
               Play(t) \/ Join(t) \/ FindClient(t) \/ Answer(t) \/ NewResults(t) \/ FillResults(t)
                 \/ SearchThrows(t) \/ ShowResults(t) \/ Choose(t) \/ ClearData(t) \/ Unset(t)
                 \/ StateUpdate(t) \/ FillUserInfo(t) \/ ServerUpdate(t) \/ Poll(t)
        PROVE  UNCHANGED clients
    BY <2>3 DEF clientVars, Play, Join, FindClient, Answer, NewResults, FillResults, SearchThrows,
         ShowResults, Choose, ClearData, Unset, StateUpdate, FillUserInfo, ServerUpdate, Poll
  <2>4. DOMAIN clients' = DOMAIN clients
    BY <2>1, <2>3 DEF Next, vars
  <2>. QED
    BY <2>2, <2>4
<1>2. ASSUME NEW t \in Tasks, NEW place \in Places \ {"create"}, Goto(t, place), NEW u \in Tasks
      PROVE  At(u, "create")' => At(u, "create")
  BY <1>2 DEF Goto, At
<1>3. ASSUME NEW t \in Tasks, Finish(t), NEW u \in Tasks
      PROVE  At(u, "create")' => At(u, "create")
  BY <1>3 DEF Finish, Free, At
<1>4. ASSUME NEW t \in Tasks, NEW kind, NEW place \in Places \ {"create"}, NEW temp,
             Receive(t, kind, place, temp), NEW u \in Tasks
      PROVE  At(u, "create")' => At(u, "create")
  BY <1>4 DEF Receive, At
<1>5. ASSUME NEW t \in Tasks, Poll(t) \/ ClearData(t), NEW u \in Tasks
      PROVE  At(u, "create")' => At(u, "create")
  <2>1. CASE Goto(t, "find")
    BY <2>1, <1>2 DEF Places
  <2>2. CASE Finish(t)
    BY <2>2, <1>3
  <2>3. CASE task' = [task EXCEPT ![t].polls = @ + 1]
    BY <2>3 DEF At
  <2>4. CASE ClearData(t)
    BY <2>4 DEF ClearData, At
  <2>. QED
    BY <1>5, <2>1, <2>2, <2>3, <2>4 DEF Poll
<1>6. ASSUME NEW t \in Tasks,
             Play(t) \/ Join(t) \/ Choose(t) \/ StateUpdate(t) \/ ServerUpdate(t), NEW u \in Tasks
      PROVE  At(u, "create")' => At(u, "create")
  BY <1>4, <1>6 DEF Play, Join, Choose, StateUpdate, ServerUpdate, Places
<1>7. ASSUME NEW t \in Tasks,
             Answer(t) \/ QueueLink(t) \/ SearchThrows(t) \/ ShowResults(t) \/ Unset(t)
               \/ FillUserInfo(t) \/ Start(t), NEW u \in Tasks
      PROVE  At(u, "create")' => At(u, "create")
  BY <1>3, <1>7 DEF Answer, QueueLink, SearchThrows, ShowResults, Unset, FillUserInfo, Start
<1>8. ASSUME NEW t \in Tasks,
             NewResults(t) \/ FillResults(t) \/ QueueChoice(t) \/ SetChannel(t), NEW u \in Tasks
      PROVE  At(u, "create")' => At(u, "create")
  BY <1>2, <1>8 DEF NewResults, FillResults, QueueChoice, SetChannel, Places
<1>9. CASE UNCHANGED vars
  BY <1>1, <1>9 DEF vars, At
<1>. QED
  BY <1>1, <1>5, <1>6, <1>7, <1>8, <1>9 DEF Next

\* What two tasks did at the same time is never forgotten.
LEMMA OverlapStays ==
  ASSUME [Next]_vars, "create" \in overlapping
  PROVE  "create" \in overlapping'
BY DEF Next, vars, Overlap, Play, Join, FindClient, CreateClient, Answer, QueueLink, NewResults,
       FillResults, SearchThrows, ShowResults, Choose, QueueChoice, ClearData, Unset,
       StateUpdate, FillUserInfo, ServerUpdate, Poll, SetChannel, Start

\* A creator stays the only one, and its client the first.
LEMMA OneCreatorStep ==
  ASSUME TInv, OneCreator, [Next]_vars
  PROVE  OneCreator'
<1>1. CASE "create" \in overlapping
  BY <1>1, OverlapStays DEF OneCreator
<1>2. ASSUME "create" \notin overlapping, NEW t \in Tasks, FindClient(t)
      PROVE  OneCreator'
  <2>1. UNCHANGED clients /\ (\A u \in Tasks \ {t} : task'[u] = task[u])
    BY <1>2 DEF FindClient, Goto, clientVars, TInv, TaskOK
  <2>2. CASE voicegroup # 0
    <3>1. task'[t].at \in {"channel", "go"}
      BY <1>2, <2>2 DEF FindClient, Goto, TInv, TaskOK
    <3>. QED
      BY <1>2, <2>1, <3>1 DEF OneCreator, At
  <2>3. CASE voicegroup = 0 /\ \E u \in Tasks \ {t} : At(u, "create")
    BY <1>2, <2>3 DEF FindClient, Overlap, OneCreator
  <2>4. CASE voicegroup = 0 /\ ~ \E u \in Tasks \ {t} : At(u, "create")
    <3>1. clients = <<>>
      <4>1. clients \in Seq(Client) /\ Len(clients) = 0
        BY <2>4 DEF TInv, StoreOK
      <4>. QED
        BY <4>1
    <3>2. \A u, v \in Tasks : At(u, "create")' /\ At(v, "create")' => u = v
      BY <2>1, <2>4 DEF At
    <3>. QED
      BY <2>1, <3>1, <3>2 DEF OneCreator
  <2>. QED
    BY <2>2, <2>3, <2>4
<1>3. ASSUME "create" \notin overlapping, NEW t \in Tasks, CreateClient(t)
      PROVE  OneCreator'
  <2>1. clients = <<>> /\ \A u \in Tasks \ {t} : ~At(u, "create")
    BY <1>3 DEF CreateClient, OneCreator
  <2>2. Len(clients') = 1
    BY <1>3, <2>1 DEF CreateClient
  <2>3. \A u \in Tasks : ~At(u, "create")'
    BY <1>3, <2>1 DEF CreateClient, Goto, At, TInv, TaskOK
  <2>. QED
    BY <2>2, <2>3 DEF OneCreator
<1>4. CASE /\ "create" \notin overlapping
           /\ \A t \in Tasks : ~FindClient(t) /\ ~CreateClient(t)
  <2>1. /\ \A u, v \in Tasks : At(u, "create")' /\ At(v, "create")' => u = v
        /\ Len(clients') <= 1
    BY <1>4, CreatorsAside DEF OneCreator
  <2>2. ASSUME NEW u \in Tasks, At(u, "create")' PROVE clients' = <<>>
    <3>1. clients = <<>>
      BY <1>4, <2>2, CreatorsAside DEF OneCreator
    <3>2. clients' \in Seq(Client) /\ Len(clients') = 0
      BY <1>4, <3>1, CreatorsAside, StoreStep DEF StoreOK
    <3>. QED
      BY <3>2
  <2>. QED
    BY <2>1, <2>2 DEF OneCreator
<1>. QED
  BY <1>1, <1>2, <1>3, <1>4

\* ?p, ?join and VOICE_SERVER_UPDATE meet one client of the guild, unless two tasks
\* looked for it before either made it (entry.cpp 1299, 1537, 1777).
THEOREM OneClient == Spec => []GuildHasOneClient
<1>1. Init => OneCreator
  BY DEF Init, OneCreator, Free, At
<1>2. TInv /\ OneCreator /\ [Next]_vars => OneCreator'
  BY OneCreatorStep
<1>3. OneCreator => GuildHasOneClient
  BY DEF OneCreator, GuildHasOneClient
<1>. QED
  BY <1>1, <1>2, <1>3, TInvAlways, PTL DEF Spec
-----------------------------------------------------------------------------
(***************************************************************************)
(* The session of start().  That the wait for it ended is remembered only  *)
(* by where the task is, and what it saw may be replaced since.            *)
(***************************************************************************)
Renewing == \E u \in Tasks : At(u, "update") /\ Subject(u) = "self"

SelfKnown ==
  /\ \A t \in Tasks : task[t].at \in {"channel", "start"} => task[t].kind = "server"
  /\ \A t \in Tasks : task[t].kind = "server" /\ task[t].at \in {"find", "create", "channel", "start"}
       => usergroup["self"] # None
  /\ usergroup["self"] # None /\ SessionOf("self") = None => Renewing

\* An entry that was made stays, and is without a session only until it is filled.
LEMMA SelfEntry ==
  ASSUME TInv, SelfKnown, [Next]_vars
  PROVE  /\ usergroup["self"] # None => usergroup'["self"] # None
         /\ usergroup'["self"] # None /\ SessionOf("self")' = None => Renewing'
<1> USE DEF TInv, TaskOK, At
<1>0. "self" \in Members /\ usergroup \in [Members -> UserInfo \union {None}]
  BY DEF Members, StoreOK
<1>1. ASSUME NEW t \in Tasks, StateUpdate(t)
      PROVE  /\ usergroup["self"] # None => usergroup'["self"] # None
             /\ usergroup'["self"] # None /\ SessionOf("self")' = None => Renewing'
  <2>1. PICK m \in Members :
          /\ Receive(t, "state", "update", IF m = "self" THEN 1 ELSE 0)
          /\ usergroup' = [usergroup EXCEPT ![m] = [channelid |-> None, sessionid |-> None]]
    BY <1>1 DEF StateUpdate
  <2>2. [channelid |-> None, sessionid |-> None] # None
    <3>1. [channelid |-> None, sessionid |-> None] \in UserInfo
      BY DEF UserInfo
    <3>. QED
      BY <3>1, UserInfoAssumption
  <2>3. CASE m = "self"
    <3>1. At(t, "update")' /\ Subject(t)' = "self"
      BY <2>1, <2>3 DEF Receive, Subject
    <3>2. usergroup'["self"] # None
      BY <1>0, <2>1, <2>2, <2>3
    <3>. QED
      BY <3>1, <3>2 DEF Renewing
  <2>4. CASE m # "self"
    <3>1. usergroup'["self"] = usergroup["self"]
      BY <1>0, <2>1, <2>4
    <3>2. \A u \in Tasks : At(u, "update") => At(u, "update")' /\ Subject(u)' = Subject(u)
      BY <2>1 DEF Receive, Subject
    <3>. QED
      BY <3>1, <3>2 DEF Renewing, SelfKnown, SessionOf
  <2>. QED
    BY <2>3, <2>4
<1>2. ASSUME NEW t \in Tasks, FillUserInfo(t)
      PROVE  /\ usergroup["self"] # None => usergroup'["self"] # None
             /\ usergroup'["self"] # None /\ SessionOf("self")' = None => Renewing'
  <2>1. PICK channel \in Channels \union {None}, session \in Sessions :
          usergroup' = [usergroup EXCEPT ![Subject(t)] =
                           [channelid |-> channel, sessionid |-> session]]
    BY <1>2 DEF FillUserInfo
  <2>2. [channelid |-> channel, sessionid |-> session] # None
    <3>1. [channelid |-> channel, sessionid |-> session] \in UserInfo
      BY DEF UserInfo
    <3>. QED
      BY <3>1, UserInfoAssumption
  <2>3. CASE Subject(t) = "self"
    <3>1. usergroup'["self"] = [channelid |-> channel, sessionid |-> session]
      BY <1>0, <2>1, <2>3
    <3>2. SessionOf("self")' = session
      BY <2>2, <3>1 DEF SessionOf
    <3>3. session # None
      BY NoneAssumption
    <3>. QED
      BY <2>2, <3>1, <3>2, <3>3
  <2>4. CASE Subject(t) # "self"
    <3>1. usergroup'["self"] = usergroup["self"]
      BY <1>0, <2>1, <2>4
    <3>2. \A u \in Tasks : Subject(u) = "self" /\ At(u, "update")
            => At(u, "update")' /\ Subject(u)' = Subject(u)
      BY <1>2, <2>4 DEF FillUserInfo, Finish, Subject
    <3>. QED
      BY <3>1, <3>2 DEF Renewing, SelfKnown, SessionOf
  <2>. QED
    BY <2>3, <2>4
<1>3. ASSUME UNCHANGED usergroup,
             \A u \in Tasks : At(u, "update") => At(u, "update")' /\ Subject(u)' = Subject(u)
      PROVE  usergroup'["self"] # None /\ SessionOf("self")' = None => Renewing'
  BY <1>3 DEF Renewing, SelfKnown, SessionOf
<1>4. ASSUME NEW t \in Tasks, ~At(t, "update"), \A u \in Tasks \ {t} : task'[u] = task[u], NEW u \in Tasks
      PROVE  At(u, "update") => At(u, "update")' /\ Subject(u)' = Subject(u)
  BY <1>4 DEF Subject
<1>5. ASSUME NEW t \in Tasks,
             Play(t) \/ Join(t) \/ ServerUpdate(t) \/ Choose(t)
      PROVE  ~At(t, "update") /\ (\A u \in Tasks \ {t} : task'[u] = task[u]) /\ UNCHANGED usergroup
  BY <1>5 DEF Play, Join, ServerUpdate, Choose, Receive
<1>6. ASSUME NEW t \in Tasks,
             Answer(t) \/ QueueLink(t) \/ SearchThrows(t) \/ ShowResults(t) \/ Unset(t) \/ Start(t)
      PROVE  ~At(t, "update") /\ (\A u \in Tasks \ {t} : task'[u] = task[u]) /\ UNCHANGED usergroup
  BY <1>6 DEF Answer, QueueLink, SearchThrows, ShowResults, Unset, Start, Finish
<1>7. ASSUME NEW t \in Tasks,
             FindClient(t) \/ CreateClient(t) \/ NewResults(t) \/ FillResults(t) \/ QueueChoice(t)
               \/ SetChannel(t) \/ ClearData(t)
      PROVE  ~At(t, "update") /\ (\A u \in Tasks \ {t} : task'[u] = task[u]) /\ UNCHANGED usergroup
  BY <1>7 DEF FindClient, CreateClient, NewResults, FillResults, QueueChoice, SetChannel, ClearData, Goto
<1>8. ASSUME NEW t \in Tasks, Poll(t)
      PROVE  ~At(t, "update") /\ (\A u \in Tasks \ {t} : task'[u] = task[u]) /\ UNCHANGED usergroup
  BY <1>8 DEF Poll, Goto, Finish
<1>9. CASE UNCHANGED vars
  BY <1>3, <1>9 DEF vars, Subject
<1>. QED
  BY <1>1, <1>2, <1>3, <1>4, <1>5, <1>6, <1>7, <1>8, <1>9 DEF Next
ServerOK(t) ==
  /\ task[t].at \in {"channel", "start"} => task[t].kind = "server"
  /\ task[t].kind = "server" /\ task[t].at \in {"find", "create", "channel", "start"}
       => usergroup["self"] # None

\* Only a task of the event gets as far as a start, and only when it saw an entry.
LEMMA SelfKnownStep ==
  ASSUME TInv, SelfKnown, [Next]_vars
  PROVE  SelfKnown'
<1> USE DEF TInv, TaskOK, At, ServerOK
<1>0. ASSUME NEW u \in Tasks, task'[u] = task[u] PROVE ServerOK(u)'
  BY <1>0, SelfEntry DEF SelfKnown
<1>1. ASSUME NEW t \in Tasks,
             Play(t) \/ Join(t) \/ Choose(t) \/ StateUpdate(t) \/ ServerUpdate(t)
      PROVE  ServerOK(t)' /\ \A u \in Tasks \ {t} : task'[u] = task[u]
  BY <1>1 DEF Play, Join, Choose, StateUpdate, ServerUpdate, Receive
<1>2. ASSUME NEW t \in Tasks, Finish(t)
      PROVE  ServerOK(t)' /\ \A u \in Tasks \ {t} : task'[u] = task[u]
  BY <1>2 DEF Finish, Free
<1>3. ASSUME NEW t \in Tasks, NewResults(t) \/ FillResults(t) \/ QueueChoice(t) \/ ClearData(t)
      PROVE  ServerOK(t)' /\ \A u \in Tasks \ {t} : task'[u] = task[u]
  <2>1. CASE NewResults(t) \/ FillResults(t) \/ QueueChoice(t)
    <3>1. PICK place \in {"fill", "show", "clear"} : Goto(t, place)
      BY <2>1 DEF NewResults, FillResults, QueueChoice
    <3>. QED
      BY <3>1 DEF Goto
  <2>2. CASE ClearData(t)
    <3>1. task'[t].at = "unset"
      BY <2>2 DEF ClearData
    <3>. QED
      BY <2>2, <3>1 DEF ClearData
  <2>. QED
    BY <1>3, <2>1, <2>2
<1>4. ASSUME NEW t \in Tasks, FindClient(t) \/ CreateClient(t) \/ SetChannel(t)
      PROVE  ServerOK(t)' /\ \A u \in Tasks \ {t} : task'[u] = task[u]
  <2>1. ServerOK(t) /\ (usergroup["self"] # None => usergroup'["self"] # None)
    BY SelfEntry DEF SelfKnown
  <2>2. task[t].at \in {"find", "create", "channel"} /\ task'[t].kind = task[t].kind
        /\ \A u \in Tasks \ {t} : task'[u] = task[u]
    <3>1. PICK place \in Places : Goto(t, place)
      BY <1>4 DEF FindClient, CreateClient, SetChannel, Places
    <3>. QED
      BY <1>4, <3>1 DEF FindClient, CreateClient, SetChannel, Goto
  <2>3. task'[t].at \in {"channel", "start"} => task'[t].kind = "server"
    <3>1. CASE FindClient(t)
      BY <3>1 DEF FindClient, Goto
    <3>2. CASE CreateClient(t)
      BY <3>2 DEF CreateClient, Goto
    <3>3. CASE SetChannel(t)
      BY <2>1, <2>2, <3>3 DEF SetChannel
    <3>. QED
      BY <1>4, <3>1, <3>2, <3>3
  <2>. QED
    BY <2>1, <2>2, <2>3
<1>5. ASSUME NEW t \in Tasks, Poll(t)
      PROVE  ServerOK(t)' /\ \A u \in Tasks \ {t} : task'[u] = task[u]
  <2>1. CASE SessionOf("self") # None /\ Goto(t, "find")
    BY <1>5, <2>1 DEF Poll, SessionOf, Goto
  <2>2. CASE Finish(t)
    BY <2>2, <1>2
  <2>3. CASE task' = [task EXCEPT ![t].polls = @ + 1]
    BY <1>5, <2>3 DEF Poll
  <2>. QED
    BY <1>5, <2>1, <2>2, <2>3 DEF Poll
<1>6. ASSUME NEW t \in Tasks,
             Answer(t) \/ QueueLink(t) \/ SearchThrows(t) \/ ShowResults(t) \/ Unset(t)
               \/ FillUserInfo(t) \/ Start(t)
      PROVE  ServerOK(t)' /\ \A u \in Tasks \ {t} : task'[u] = task[u]
  BY <1>2, <1>6 DEF Answer, QueueLink, SearchThrows, ShowResults, Unset, FillUserInfo, Start
<1>7. CASE UNCHANGED vars
  BY <1>0, <1>7, SelfEntry DEF vars, SelfKnown
<1>8. \A u \in Tasks : ServerOK(u)'
  BY <1>0, <1>1, <1>3, <1>4, <1>5, <1>6, <1>7 DEF Next, vars
<1>. QED
  BY <1>8, SelfEntry DEF SelfKnown

\* start() is called without a session only while an update of the bot's own state
\* stands between the replacement of its entry and the values (entry.cpp 1692, 1789).
THEOREM SessionOrRenewal == Spec => StartsWithASession
<1>1. Init => SelfKnown
  BY DEF Init, SelfKnown, Free, Members
<1>2. TInv /\ SelfKnown /\ [Next]_vars => SelfKnown'
  BY SelfKnownStep
<1>3. SelfKnown => \A t \in Tasks : Start(t) /\ SessionOf("self") = None
                     => \E u \in Tasks : At(u, "update") /\ Subject(u) = "self"
  BY DEF SelfKnown, Start, At, Renewing
<1>. QED
  BY <1>1, <1>2, <1>3, TInvAlways, PTL DEF Spec, StartsWithASession
-----------------------------------------------------------------------------
(***************************************************************************)
(* What a choice queues.  A task that searches or chooses has a kind that  *)
(* says so as long as it runs, and is the only one of its kind unless two  *)
(* were noted; so an entry is filled by its own search, and whatever was   *)
(* queued is taken out of the entry before anybody can choose again.       *)
(***************************************************************************)
Running(t, kind) == ~At(t, "free") /\ task[t].kind = kind

Alone(kind) == kind \in overlapping \/ \A t, u \in Tasks : Running(t, kind) /\ Running(u, kind) => t = u

Songs == {Song(slot) : slot \in Slots}

\* What the places of a search and a choice say of their task.
ErrandOK(t) ==
  /\ task[t].at \in {"fill", "show"} => task[t].kind = "search"
  /\ task[t].at \in {"push", "clear", "unset"} <=> Running(t, "choose")
  /\ Running(t, "search") => task[t].number \in 1 .. messages

ErrandsOK == \A t \in Tasks : ErrandOK(t)

Datas == {results[r].data : r \in DOMAIN results}

\* A number is that of one search, and before its search filled an entry it is nowhere.
NumbersOK ==
  /\ Datas \subseteq 1 .. messages \union {None}
  /\ Songs \subseteq 0 .. messages \union {None}
  /\ \A t \in Tasks : Running(t, "search") /\ task[t].at # "show" =>
        task[t].number \notin Songs \union Datas
  /\ \A t, u \in Tasks : Running(t, "search") /\ Running(u, "search") /\ task[t].number = task[u].number => t = u

\* An entry whose message is shown is the one the search was shown for.
EntriesOK ==
  "search" \in overlapping \/
    /\ \A r \in DOMAIN results :
          results[r].messageid # None => results[r].data \in {results[r].messageid, None}
    /\ \A t \in Tasks : task[t].at \in {"fill", "show"} =>
          /\ results[mainqueue].messageid = None
          /\ results[mainqueue].data \in {task[t].number, None}

\* An entry that is set has data, but for the one that a choice is about to unset.
ChoicesOK ==
  "choose" \in overlapping \/
    /\ \A r \in DOMAIN results : results[r].set /\ results[r].data = None =>
          \E t \in Tasks : At(t, "unset") /\ task[t].temp = r
    /\ \A t \in Tasks : At(t, "push") => results[task[t].temp].data # None
    /\ None \notin Songs

\* What was queued is still in the entry only while its choice is about to clear it.
QueuedOnce ==
  {"search", "choose"} \intersect overlapping # {} \/
    /\ \A s1, s2 \in Slots : Song(s1) = Song(s2) /\ Song(s1) # Link => s1 = s2
    /\ \A t \in Tasks : At(t, "push") => results[task[t].temp].data \notin Songs
    /\ mainqueue # 0 /\ results[mainqueue].data \in Songs => \E t \in Tasks : At(t, "clear")

Choices ==
  /\ Alone("search") /\ Alone("choose") /\ ErrandsOK
  /\ NumbersOK /\ EntriesOK /\ ChoicesOK /\ QueuedOnce

\* A step counts up and forgets no overlap.
LEMMA NothingIsForgotten ==
  ASSUME TInv, [Next]_vars
  PROVE  messages <= messages' /\ overlapping \subseteq overlapping'
<1> USE DEF TInv, TaskOK
<1>1. ASSUME NEW t \in Tasks,
             Play(t) \/ Join(t) \/ Choose(t) \/ StateUpdate(t) \/ ServerUpdate(t)
      PROVE  messages <= messages' /\ overlapping \subseteq overlapping'
  BY <1>1 DEF Play, Join, Choose, StateUpdate, ServerUpdate, Receive, Overlap
<1>2. ASSUME NEW t \in Tasks, FindClient(t)
      PROVE  messages <= messages' /\ overlapping \subseteq overlapping'
  BY <1>2 DEF FindClient, Overlap
<1>3. CASE UNCHANGED <<messages, overlapping>>
  BY <1>3
<1>. QED
  BY <1>1, <1>2, <1>3 DEF Next, vars, CreateClient, Answer, QueueLink, NewResults, FillResults,
       SearchThrows, ShowResults, QueueChoice, ClearData, Unset, FillUserInfo, Poll, SetChannel, Start

\* Errands are kept, and a second one of a kind is noted.
LEMMA ErrandsStep ==
  ASSUME TInv, Alone("search"), Alone("choose"), ErrandsOK, [Next]_vars
  PROVE  Alone("search")' /\ Alone("choose")' /\ ErrandsOK'
<1> USE DEF TInv, TaskOK, At
<1> DEFINE New(t, kind) == Running(t, kind)' => Running(t, kind) \/ kind \in overlapping' \/ ~Others(t, kind)
           Kept(t) == /\ \A u \in Tasks \ {t} : task'[u] = task[u]
                      /\ ErrandOK(t)' /\ New(t, "search") /\ New(t, "choose")
<1>1. ASSUME NEW t \in Tasks, Kept(t) PROVE Alone("search")' /\ Alone("choose")' /\ ErrandsOK'
  <2>1. overlapping \subseteq overlapping' /\ messages <= messages' /\ messages \in Nat /\ messages' \in Nat
    BY NothingIsForgotten, TaskStep
  <2>2. ASSUME NEW u \in Tasks PROVE ErrandOK(u)'
    BY <1>1, <2>1, <2>2 DEF ErrandsOK, ErrandOK, Running, Task
  <2>3. ASSUME NEW kind, New(t, kind), Alone(kind) PROVE Alone(kind)'
    BY <1>1, <2>1, <2>3 DEF Alone, Running, Others
  <2>. QED
    BY <1>1, <2>2, <2>3 DEF ErrandsOK
<1>2. ASSUME NEW t \in Tasks, Play(t) PROVE Kept(t)
  BY <1>2 DEF Play, Receive, Overlap, ErrandOK, Running
<1>3. ASSUME NEW t \in Tasks, Choose(t) PROVE Kept(t)
  BY <1>3 DEF Choose, Receive, Overlap, ErrandOK, Running
<1>4. ASSUME NEW t \in Tasks, Join(t) \/ StateUpdate(t) \/ ServerUpdate(t) PROVE Kept(t)
  BY <1>4 DEF Join, StateUpdate, ServerUpdate, Receive, ErrandOK, Running
<1>5. ASSUME NEW t \in Tasks, Finish(t) PROVE Kept(t)
  BY <1>5 DEF Finish, Free, ErrandOK, Running
<1>6. ASSUME NEW t \in Tasks, FindClient(t) \/ CreateClient(t) \/ SetChannel(t) PROVE Kept(t)
  <2>1. PICK place \in {"create", "channel", "go", "start"} : Goto(t, place)
    BY <1>6 DEF FindClient, CreateClient, SetChannel
  <2>2. task[t].at \in {"find", "create", "channel"} /\ UNCHANGED messages
    BY <1>6 DEF FindClient, CreateClient, SetChannel
  <2>. QED
    BY <2>1, <2>2 DEF Goto, ErrandsOK, ErrandOK, Running
<1>7. ASSUME NEW t \in Tasks, NewResults(t) \/ FillResults(t) PROVE Kept(t)
  <2>1. PICK place \in {"fill", "show"} : Goto(t, place)
    BY <1>7 DEF NewResults, FillResults
  <2>2. Running(t, "search") /\ UNCHANGED messages
    BY <1>7 DEF NewResults, FillResults, ErrandsOK, ErrandOK, Running
  <2>. QED
    BY <2>1, <2>2 DEF Goto, ErrandsOK, ErrandOK, Running
<1>8. ASSUME NEW t \in Tasks, QueueChoice(t) PROVE Kept(t)
  BY <1>8 DEF QueueChoice, Goto, ErrandsOK, ErrandOK, Running
<1>9. ASSUME NEW t \in Tasks, ClearData(t) PROVE Kept(t)
  <2>1. /\ task[t].at = "clear" /\ task'[t].at = "unset" /\ task'[t].kind = task[t].kind
        /\ \A u \in Tasks \ {t} : task'[u] = task[u]
    BY <1>9 DEF ClearData
  <2>. QED
    BY <2>1 DEF ErrandsOK, ErrandOK, Running
<1>10. ASSUME NEW t \in Tasks, Poll(t) PROVE Kept(t)
  <2>1. CASE Goto(t, "find")
    BY <1>10, <2>1 DEF Poll, Goto, ErrandsOK, ErrandOK, Running
  <2>2. CASE task' = [task EXCEPT ![t].polls = @ + 1]
    BY <1>10, <2>2 DEF Poll, ErrandsOK, ErrandOK, Running
  <2>. QED
    BY <1>5, <1>10, <2>1, <2>2 DEF Poll
<1>11. ASSUME NEW t \in Tasks,
             Answer(t) \/ QueueLink(t) \/ SearchThrows(t) \/ ShowResults(t) \/ Unset(t)
               \/ FillUserInfo(t) \/ Start(t)
      PROVE  Finish(t)
  BY <1>11 DEF Answer, QueueLink, SearchThrows, ShowResults, Unset, FillUserInfo, Start
<1>12. CASE UNCHANGED vars
  BY <1>12 DEF vars, Alone, ErrandsOK, ErrandOK, Running
<1> HIDE DEF Kept
<1>. QED
  BY <1>1, <1>2, <1>3, <1>4, <1>5, <1>6, <1>7, <1>8, <1>9, <1>10, <1>11, <1>12 DEF Next

\* The places of the queues, one by one.
SlotsOf(cs) == UNION {{c} \X DOMAIN cs[c].songs : c \in DOMAIN cs}
IsSlot(cs, slot) == \E c \in DOMAIN cs : \E i \in DOMAIN cs[c].songs : slot = <<c, i>>

LEMMA SlotsAre ==
  ASSUME NEW cs, NEW slot
  PROVE  slot \in SlotsOf(cs) <=> IsSlot(cs, slot)
<1>1. ASSUME NEW c \in DOMAIN cs, slot \in {c} \X DOMAIN cs[c].songs PROVE IsSlot(cs, slot)
  <2>1. PICK i \in DOMAIN cs[c].songs : slot = <<c, i>>
    BY <1>1
  <2>. QED
    BY <2>1 DEF IsSlot
<1>2. ASSUME NEW c \in DOMAIN cs, NEW i \in DOMAIN cs[c].songs, slot = <<c, i>>
      PROVE  slot \in {c} \X DOMAIN cs[c].songs
  BY <1>2
<1>3. slot \in SlotsOf(cs) <=> \E c \in DOMAIN cs : slot \in {c} \X DOMAIN cs[c].songs
  BY SMT DEF SlotsOf
<1>. QED
  BY <1>1, <1>2, <1>3, Zenon DEF IsSlot

\* Only ?p of a link and a choice queue something.
LEMMA SongsStay ==
  ASSUME TInv, [Next]_vars, \A t \in Tasks : ~QueueLink(t) /\ ~QueueChoice(t)
  PROVE  Slots' = Slots /\ \A slot \in Slots : Song(slot)' = Song(slot)
<1> USE DEF TInv, StoreOK
<1> DEFINE Stay == Slots' = Slots /\ \A slot \in Slots : Song(slot)' = Song(slot)
<1>0. \A slot : /\ slot \in Slots <=> IsSlot(clients, slot)
                /\ slot \in Slots' <=> IsSlot(clients', slot)
  BY SlotsAre, Zenon DEF Slots, SlotsOf
<1>1. ASSUME \A c \in DOMAIN clients : c \in DOMAIN clients' /\ clients'[c].songs = clients[c].songs,
             \A c \in DOMAIN clients' \ DOMAIN clients : DOMAIN clients'[c].songs = {}
      PROVE  Stay
  <2>1. ASSUME NEW slot PROVE IsSlot(clients', slot) <=> IsSlot(clients, slot)
    BY <1>1 DEF IsSlot
  <2>2. ASSUME NEW slot, IsSlot(clients, slot) PROVE Song(slot)' = Song(slot)
    BY <1>1, <2>2 DEF IsSlot, Song
  <2>. QED
    BY <1>0, <2>1, <2>2, Zenon
<1>2. ASSUME NEW t \in Tasks, CreateClient(t) PROVE Stay
  <2>1. /\ DOMAIN clients' = DOMAIN clients \union {Len(clients) + 1}
        /\ \A c \in DOMAIN clients : clients'[c] = clients[c]
        /\ clients'[Len(clients) + 1] = NewClient
    BY <1>2 DEF CreateClient
  <2>2. DOMAIN NewClient.songs = {}
    BY DEF NewClient
  <2>. QED
    BY <1>1, <2>1, <2>2
<1>3. ASSUME NEW t \in Tasks, SetChannel(t) \/ Start(t) PROVE Stay
  <2>1. clients # <<>>
    BY <1>3 DEF SetChannel, Start, At, PlacesOK, PlaceOK
  <2>2. voicegroup \in DOMAIN clients /\ \A c \in DOMAIN clients : clients[c] \in Client
    BY <2>1, LastIndex
  <2>3. PICK field \in {"channel", "session"}, value \in {ChannelOf("self"), SessionOf("self")} :
          clients' = [clients EXCEPT ![voicegroup] = [@ EXCEPT ![field] = value]]
    BY <1>3 DEF SetChannel, Start
  <2>4. DOMAIN clients' = DOMAIN clients
    BY <2>3
  <2>5. ASSUME NEW c \in DOMAIN clients PROVE clients'[c].songs = clients[c].songs
    BY <2>2, <2>3 DEF Client
  <2>. QED
    BY <1>1, <2>4, <2>5
<1>4. CASE UNCHANGED clients
  BY <1>1, <1>4
<1>. QED
  BY <1>2, <1>3, <1>4
     DEF Next, vars, clientVars, Play, Join, FindClient, Answer, NewResults, FillResults, SearchThrows,
         ShowResults, Choose, ClearData, Unset, StateUpdate, FillUserInfo, ServerUpdate, Poll

\* What is queued is added at a new place.
LEMMA SongAdded ==
  ASSUME TInv, clients # <<>>, NEW id \in MaybeNumber, Queue(id)
  PROVE  \E new : /\ new \notin Slots /\ Slots' = Slots \union {new} /\ Song(new)' = id
                  /\ \A slot \in Slots : Song(slot)' = Song(slot)
<1> USE DEF TInv, StoreOK
<1>0. \A slot : /\ slot \in Slots <=> IsSlot(clients, slot)
                /\ slot \in Slots' <=> IsSlot(clients', slot)
  BY SlotsAre, Zenon DEF Slots, SlotsOf
<1>1. PICK c, n : c = voicegroup /\ n = Len(clients[voicegroup].songs) + 1
  OBVIOUS
<1>2. c \in DOMAIN clients
  BY <1>1, LastIndex
<1>3. clients[c] \in Client /\ clients[c].songs \in Seq(MaybeNumber)
  <2>1. clients[c] \in Client
    BY <1>2
  <2>. QED
    BY <2>1 DEF Client
<1>4. /\ DOMAIN clients' = DOMAIN clients
      /\ \A d \in DOMAIN clients \ {c} : clients'[d] = clients[d]
      /\ clients'[c].songs = Append(clients[c].songs, id)
  <2> DEFINE new == [clients[c] EXCEPT !.songs = Append(@, id)]
  <2>1. clients' = [clients EXCEPT ![c] = new]
    BY <1>1 DEF Queue
  <2>2. new.songs = Append(clients[c].songs, id)
    BY <1>3 DEF Client
  <2> HIDE DEF new
  <2>3. clients'[c] = new /\ \A d \in DOMAIN clients \ {c} : clients'[d] = clients[d]
    BY <1>2, <2>1
  <2>. QED
    BY <2>1, <2>2, <2>3
<1>5. /\ n \notin DOMAIN clients[c].songs
      /\ DOMAIN clients'[c].songs = DOMAIN clients[c].songs \union {n}
      /\ clients'[c].songs[n] = id
      /\ \A i \in DOMAIN clients[c].songs : clients'[c].songs[i] = clients[c].songs[i]
  BY <1>1, <1>3, <1>4
<1>6. ~IsSlot(clients, <<c, n>>) /\ Song(<<c, n>>)' = id
  BY <1>5 DEF IsSlot, Song
<1>7. ASSUME NEW slot PROVE IsSlot(clients', slot) <=> IsSlot(clients, slot) \/ slot = <<c, n>>
  BY <1>2, <1>4, <1>5 DEF IsSlot
<1>8. ASSUME NEW slot, IsSlot(clients, slot) PROVE Song(slot)' = Song(slot)
  <2>1. PICK d \in DOMAIN clients : \E i \in DOMAIN clients[d].songs : slot = <<d, i>>
    BY <1>8 DEF IsSlot
  <2>2. PICK i \in DOMAIN clients[d].songs : slot = <<d, i>>
    BY <2>1
  <2>3. Song(slot) = clients[d].songs[i] /\ Song(slot)' = clients'[d].songs[i]
    BY <2>2 DEF Song
  <2>4. clients'[d].songs[i] = clients[d].songs[i]
    BY <1>4, <1>5, <2>2
  <2>. QED
    BY <2>3, <2>4
<1>9. /\ <<c, n>> \notin Slots /\ Slots' = Slots \union {<<c, n>>}
      /\ \A slot \in Slots : Song(slot)' = Song(slot)
  BY <1>0, <1>6, <1>7, <1>8, Zenon
<1>. QED
  BY <1>6, <1>9, Zenon

\* The steps of a search and of a choice, entry by entry.
Same(r) == results'[r] = results[r]

LEMMA Filled ==
  ASSUME TInv, NEW t \in Tasks, FillResults(t)
  PROVE  /\ mainqueue \in DOMAIN results /\ DOMAIN results' = DOMAIN results
         /\ \A r \in DOMAIN results \ {mainqueue} : Same(r)
         /\ results'[mainqueue].messageid = results[mainqueue].messageid
         /\ \/ results'[mainqueue].set /\ results'[mainqueue].data = task[t].number
            \/ ~results'[mainqueue].set /\ results'[mainqueue].data = results[mainqueue].data
<1>1. mainqueue \in DOMAIN results /\ results[mainqueue] \in Result
  BY LastIndex DEF FillResults, At, TInv, StoreOK, PlacesOK, PlaceOK
<1>2. PICK found \in BOOLEAN :
        results' = [results EXCEPT ![mainqueue].set = found,
                                   ![mainqueue].data = IF found THEN task[t].number ELSE @]
  BY DEF FillResults
<1>. QED
  BY <1>1, <1>2 DEF Same, Result

LEMMA Shown ==
  ASSUME TInv, NEW t \in Tasks, ShowResults(t)
  PROVE  /\ mainqueue \in DOMAIN results /\ DOMAIN results' = DOMAIN results
         /\ \A r \in DOMAIN results \ {mainqueue} : Same(r)
         /\ results'[mainqueue].set = results[mainqueue].set
         /\ results'[mainqueue].data = results[mainqueue].data
         /\ results'[mainqueue].messageid \in {task[t].number, results[mainqueue].messageid}
<1>1. mainqueue \in DOMAIN results /\ results[mainqueue] \in Result
  BY LastIndex DEF ShowResults, At, TInv, StoreOK, PlacesOK, PlaceOK
<1>2. PICK id \in {task[t].number, None} :
        results' = IF id = None THEN results ELSE [results EXCEPT ![mainqueue].messageid = id]
  BY DEF ShowResults
<1>. QED
  BY <1>1, <1>2 DEF Same, Result

LEMMA Cleared ==
  ASSUME TInv, NEW t \in Tasks, ClearData(t)
  PROVE  /\ mainqueue \in DOMAIN results /\ DOMAIN results' = DOMAIN results
         /\ \A r \in DOMAIN results \ {mainqueue} : Same(r)
         /\ results'[mainqueue].set = results[mainqueue].set
         /\ results'[mainqueue].data = None
         /\ results'[mainqueue].messageid = results[mainqueue].messageid
<1>1. mainqueue \in DOMAIN results /\ results[mainqueue] \in Result
  BY LastIndex DEF ClearData, At, TInv, StoreOK, PlacesOK, PlaceOK
<1>. QED
  BY <1>1 DEF ClearData, Same, Result

LEMMA Unavailable ==
  ASSUME TInv, NEW t \in Tasks, Unset(t)
  PROVE  /\ DOMAIN results' = DOMAIN results
         /\ \A r \in DOMAIN results \ {task[t].temp} : Same(r)
         /\ \A r \in DOMAIN results : /\ results'[r].data = results[r].data
                                      /\ results'[r].messageid = results[r].messageid
         /\ ~results'[task[t].temp].set
<1>1. task[t].temp \in DOMAIN results /\ results[task[t].temp] \in Result
  BY DEF Unset, At, TInv, StoreOK, PlacesOK, PlaceOK
<1>. QED
  BY <1>1 DEF Unset, Same, Result

LEMMA Opened ==
  ASSUME TInv, NEW t \in Tasks, NewResults(t)
  PROVE  /\ DOMAIN results' = DOMAIN results \union {mainqueue'} /\ mainqueue' \notin DOMAIN results
         /\ \A r \in DOMAIN results : Same(r)
         /\ results'[mainqueue'] = [data |-> None, messageid |-> None, set |-> FALSE]
BY DEF NewResults, TInv, StoreOK, Same

\* The other steps leave entries alone, and no task comes to one or has its choice cut short.
Quiet(t) ==
  /\ UNCHANGED cacheVars
  /\ \A u \in Tasks \ {t} : task'[u] = task[u]
  /\ task'[t].at \notin {"fill", "show", "push", "clear", "unset"}
  /\ task[t].at \notin {"show", "push", "clear", "unset"}
  /\ Running(t, "search")' =>
       \/ Running(t, "search") /\ task'[t].number = task[t].number
       \/ messages' = messages + 1 /\ task'[t].number = messages + 1

LEMMA QuietSteps ==
  ASSUME TInv, NEW t \in Tasks,
         \/ Play(t) \/ Join(t) \/ FindClient(t) \/ CreateClient(t) \/ Answer(t) \/ QueueLink(t)
         \/ SearchThrows(t) \/ StateUpdate(t) \/ FillUserInfo(t) \/ ServerUpdate(t) \/ Poll(t)
         \/ SetChannel(t) \/ Start(t)
  PROVE  Quiet(t)
<1> USE DEF TInv, TaskOK, At
<1>1. CASE Play(t)
  <2>1. PICK kind \in {"play", "search"} : Receive(t, kind, "find", 0)
    BY <1>1 DEF Play
  <2>2. UNCHANGED cacheVars
    BY <1>1 DEF Play
  <2>. QED
    BY <2>1, <2>2 DEF Receive, Quiet, Running
<1>2. CASE Join(t) \/ StateUpdate(t) \/ ServerUpdate(t)
  BY <1>2 DEF Join, StateUpdate, ServerUpdate, Receive, Quiet, Running, cacheVars
<1>3. CASE FindClient(t) \/ CreateClient(t) \/ SetChannel(t)
  <2>1. PICK place \in {"create", "channel", "go", "start"} : Goto(t, place)
    BY <1>3 DEF FindClient, CreateClient, SetChannel
  <2>2. task[t].at \in {"find", "create", "channel"} /\ UNCHANGED cacheVars
    BY <1>3 DEF FindClient, CreateClient, SetChannel
  <2>. QED
    BY <2>1, <2>2 DEF Goto, Quiet, Running
<1>4. CASE Poll(t)
  <2>1. task[t].at = "poll" /\ UNCHANGED <<messages, cacheVars>>
    BY <1>4 DEF Poll
  <2>2. CASE Goto(t, "find")
    BY <2>1, <2>2 DEF Goto, Quiet, Running, Task
  <2>3. CASE Finish(t)
    BY <2>1, <2>3 DEF Finish, Free, Quiet, Running
  <2>4. CASE task' = [task EXCEPT ![t].polls = @ + 1]
    <3>1. /\ \A u \in Tasks \ {t} : task'[u] = task[u]
          /\ task'[t].at = "poll" /\ task'[t].kind = task[t].kind /\ task'[t].number = task[t].number
      BY <2>1, <2>4 DEF Task
    <3>. QED
      BY <2>1, <3>1 DEF Quiet, Running
  <2>. QED
    BY <1>4, <2>2, <2>3, <2>4 DEF Poll
<1>5. CASE Answer(t) \/ QueueLink(t) \/ SearchThrows(t) \/ FillUserInfo(t) \/ Start(t)
  <2>1. /\ Finish(t) /\ UNCHANGED cacheVars
        /\ task[t].at \notin {"show", "push", "clear", "unset"}
    BY <1>5 DEF Answer, QueueLink, SearchThrows, FillUserInfo, Start
  <2>. QED
    BY <2>1 DEF Finish, Free, Quiet, Running
<1>. QED
  BY <1>1, <1>2, <1>3, <1>4, <1>5

\* What a step does to the songs: nothing, or one more.
SongsSame == Slots' = Slots /\ \A slot \in Slots : Song(slot)' = Song(slot)
SongNew(id) == \E new : /\ new \notin Slots /\ Slots' = Slots \union {new} /\ Song(new)' = id
                        /\ \A slot \in Slots : Song(slot)' = Song(slot)

LEMMA SongsStep ==
  ASSUME TInv, NEW t \in Tasks, QueueLink(t) \/ QueueChoice(t)
  PROVE  \/ SongsSame
         \/ QueueLink(t) /\ SongNew(Link)
         \/ QueueChoice(t) /\ SongNew(results[task[t].temp].data)
<1> USE DEF TInv, StoreOK
<1>1. clients # <<>>
  BY DEF QueueLink, QueueChoice, At, PlacesOK, PlaceOK
<1>2. CASE QueueLink(t)
  <2>1. Queue(Link) /\ Link \in MaybeNumber
    BY <1>2 DEF QueueLink, Link, MaybeNumber
  <2>. QED
    BY <1>1, <1>2, <2>1, SongAdded DEF SongNew
<1>3. CASE QueueChoice(t) /\ UNCHANGED clients
  BY <1>3 DEF SongsSame, Slots, Song
<1>4. CASE QueueChoice(t) /\ Queue(results[task[t].temp].data)
  <2>1. results[task[t].temp] \in Result
    BY <1>4 DEF QueueChoice, At, PlacesOK, PlaceOK
  <2>2. results[task[t].temp].data \in MaybeNumber
    BY <2>1 DEF Result
  <2>. QED
    BY <1>1, <1>4, <2>2, SongAdded DEF SongNew
<1>. QED
  BY <1>2, <1>3, <1>4 DEF QueueChoice

LEMMA SongSets ==
  /\ SongsSame => Songs' = Songs
  /\ \A id : SongNew(id) => Songs' = Songs \union {id}
<1>1. ASSUME SongsSame PROVE Songs' = Songs
  BY <1>1 DEF SongsSame, Songs
<1>2. ASSUME NEW id, SongNew(id) PROVE Songs' = Songs \union {id}
  <2>1. PICK new : /\ new \notin Slots /\ Slots' = Slots \union {new} /\ Song(new)' = id
                   /\ \A slot \in Slots : Song(slot)' = Song(slot)
    BY <1>2 DEF SongNew
  <2>. QED
    BY <2>1 DEF Songs
<1>. QED
  BY <1>1, <1>2

\* What is queued next is a link or what an entry holds.
LEMMA SongsFrom ==
  ASSUME TInv, [Next]_vars
  PROVE  Songs' \subseteq Songs \union Datas \union {Link}
<1>1. CASE \A t \in Tasks : ~QueueLink(t) /\ ~QueueChoice(t)
  BY <1>1, SongsStay, SongSets DEF SongsSame
<1>2. ASSUME NEW t \in Tasks, QueueLink(t) \/ QueueChoice(t)
      PROVE  Songs' \subseteq Songs \union Datas \union {Link}
  <2>1. QueueChoice(t) => task[t].temp \in DOMAIN results
    BY DEF QueueChoice, At, TInv, StoreOK, PlacesOK, PlaceOK
  <2>2. QueueChoice(t) => results[task[t].temp].data \in Datas
    BY <2>1 DEF Datas
  <2>. QED
    BY <1>2, <2>2, SongsStep, SongSets
<1>. QED
  BY <1>1, <1>2

\* A step of a task changes what the entries hold to nothing or to its number.
LEMMA NumbersKept ==
  ASSUME TInv, TInv', ErrandsOK, NumbersOK, NEW t \in Tasks, messages <= messages',
         \A u \in Tasks \ {t} : task'[u] = task[u],
         Datas' \subseteq Datas \union {None, task[t].number},
         Songs' \subseteq Songs \union Datas \union {Link},
         task[t].number \in Datas' => task[t].number \in Datas \/ (Running(t, "search") /\ task'[t].at = "show"),
         Running(t, "search")' =>
           \/ /\ Running(t, "search") /\ task'[t].number = task[t].number
              /\ task'[t].at # "show" => task[t].at # "show"
           \/ messages' = messages + 1 /\ task'[t].number = messages + 1
  PROVE  NumbersOK'
<1>0. messages \in Nat /\ messages' \in Nat /\ None \notin Nat
  BY NoneAssumption DEF TInv, TaskOK
<1>1. Datas \subseteq 1 .. messages \union {None} /\ Songs \subseteq 0 .. messages \union {None}
  BY DEF NumbersOK
<1>2. \A u \in Tasks : Running(u, "search") => task[u].number \in 1 .. messages
  BY DEF ErrandsOK, ErrandOK
<1>3. Datas' \subseteq 1 .. messages' \union {None}
  <2>1. task[t].number \in Datas' => task[t].number \in 1 .. messages \union {None}
    BY <1>1, <1>2
  <2>. QED
    BY <1>0, <1>1, <2>1
<1>4. Songs' \subseteq 0 .. messages' \union {None}
  BY <1>0, <1>1 DEF Link
<1>5. ASSUME NEW u \in Tasks, Running(u, "search")', task'[u].at # "show"
      PROVE  task'[u].number \notin Songs' \union Datas'
  <2>1. CASE messages' = messages + 1 /\ task'[u].number = messages + 1
    <3>1. messages + 1 \notin Songs \union Datas \union {Link, None}
      BY <1>0, <1>1 DEF Link
    <3>2. task[t].number \in Datas' => task[t].number # messages + 1
      BY <1>0, <1>1, <1>2
    <3>. QED
      BY <2>1, <3>1, <3>2
  <2>2. CASE Running(u, "search") /\ task'[u].number = task[u].number /\ task[u].at # "show"
    <3>1. /\ task[u].number \notin Songs \union Datas
          /\ task[u].number \in 1 .. messages
      BY <1>2, <2>2 DEF NumbersOK
    <3>2. task[u].number \notin {Link, None}
      BY <1>0, <3>1 DEF Link
    <3>3. CASE task[u].number \in Datas'
      <4>1. task[u].number = task[t].number
        BY <3>1, <3>2, <3>3
      <4>2. Running(t, "search") /\ task'[t].at = "show"
        BY <3>1, <3>3, <4>1
      <4>3. u = t
        BY <2>2, <4>1, <4>2 DEF NumbersOK
      <4>. QED
        BY <1>5, <4>2, <4>3
    <3>. QED
      BY <2>2, <3>1, <3>2, <3>3
  <2>. QED
    BY <1>5, <2>1, <2>2 DEF Running, At
<1>6. ASSUME NEW u \in Tasks, NEW v \in Tasks, Running(u, "search")', Running(v, "search")',
             task'[u].number = task'[v].number
      PROVE  u = v
  <2>1. ASSUME NEW w \in Tasks, Running(w, "search")'
        PROVE  \/ Running(w, "search") /\ task'[w].number = task[w].number
               \/ w = t /\ task'[w].number = messages + 1
    BY <2>1 DEF Running, At
  <2>2. \A w \in Tasks : Running(w, "search") => task[w].number # messages + 1
    BY <1>0, <1>2
  <2>. QED
    BY <1>6, <2>1, <2>2 DEF NumbersOK
<1>. QED
  BY <1>3, <1>4, <1>5, <1>6 DEF NumbersOK

LEMMA NumbersStep ==
  ASSUME TInv, TInv', ErrandsOK, NumbersOK, [Next]_vars
  PROVE  NumbersOK'
<1>0. messages <= messages' /\ Songs' \subseteq Songs \union Datas \union {Link}
  BY NothingIsForgotten, SongsFrom
<1> USE DEF TInv, TaskOK
<1> DEFINE Only(t) == \A u \in Tasks \ {t} : task'[u] = task[u]
           Kept(t) == /\ Only(t)
                      /\ Datas' \subseteq Datas \union {None, task[t].number}
                      /\ task[t].number \in Datas' => task[t].number \in Datas \/ (Running(t, "search") /\ task'[t].at = "show")
                      /\ Running(t, "search")' =>
                           \/ /\ Running(t, "search") /\ task'[t].number = task[t].number
                              /\ task'[t].at # "show" => task[t].at # "show"
                           \/ messages' = messages + 1 /\ task'[t].number = messages + 1
<1>1. ASSUME NEW t \in Tasks, Kept(t) PROVE NumbersOK'
  BY <1>0, <1>1, NumbersKept
<1>2. ASSUME NEW t \in Tasks, Quiet(t) PROVE Kept(t)
  <2>1. Datas' = Datas
    BY <1>2 DEF Quiet, cacheVars, Datas
  <2>. QED
    BY <1>2, <2>1 DEF Quiet
<1>3. ASSUME NEW t \in Tasks, NewResults(t) PROVE Kept(t)
  <2>1. Datas' \subseteq Datas \union {None} /\ (task[t].number \in Datas' => task[t].number \in Datas)
    <3>1. task[t].number # None
      BY <1>3, NoneAssumption DEF NewResults, Task
    <3>2. Datas' \subseteq Datas \union {None}
      BY <1>3, Opened DEF Datas, Same
    <3>. QED
      BY <3>1, <3>2
  <2>2. Only(t) /\ task'[t] = [task[t] EXCEPT !.at = "fill"] /\ At(t, "go")
    BY <1>3 DEF NewResults, Goto
  <2>. QED
    BY <2>1, <2>2 DEF Running, At, Task
<1>4. ASSUME NEW t \in Tasks, FillResults(t) PROVE Kept(t)
  <2>1. Datas' \subseteq Datas \union {task[t].number}
    BY <1>4, Filled DEF Datas, Same
  <2>2. Only(t) /\ task'[t] = [task[t] EXCEPT !.at = "show"] /\ At(t, "fill")
    BY <1>4 DEF FillResults, Goto
  <2>3. Running(t, "search")
    BY <2>2 DEF ErrandsOK, ErrandOK, Running, At
  <2>. QED
    BY <2>1, <2>2, <2>3 DEF Running, At, Task
<1>5. ASSUME NEW t \in Tasks, ShowResults(t) PROVE Kept(t)
  <2>1. Datas' = Datas
    BY <1>5, Shown DEF Datas, Same
  <2>2. Only(t) /\ task'[t] = Free
    BY <1>5 DEF ShowResults, Finish
  <2>. QED
    BY <2>1, <2>2 DEF Running, At, Free
<1>6. ASSUME NEW t \in Tasks, Choose(t) PROVE Kept(t)
  <2>1. Datas' = Datas
    BY <1>6 DEF Choose, cacheVars, Datas
  <2>2. Only(t) /\ task'[t].kind = "choose"
    BY <1>6 DEF Choose, Receive
  <2>. QED
    BY <2>1, <2>2 DEF Running, At
<1>7. ASSUME NEW t \in Tasks, QueueChoice(t) PROVE Kept(t)
  <2>1. Datas' = Datas
    BY <1>7 DEF QueueChoice, cacheVars, Datas
  <2>2. Only(t) /\ task'[t].kind = task[t].kind /\ At(t, "push")
    BY <1>7 DEF QueueChoice, Goto, Task
  <2>3. task[t].kind = "choose"
    BY <2>2 DEF ErrandsOK, ErrandOK, Running, At
  <2>. QED
    BY <2>1, <2>2, <2>3 DEF Running, At
<1>8. ASSUME NEW t \in Tasks, ClearData(t) PROVE Kept(t)
  <2>1. Datas' \subseteq Datas \union {None} /\ (task[t].number \in Datas' => task[t].number \in Datas)
    <3>1. task[t].number # None
      BY <1>8, NoneAssumption DEF ClearData, Task
    <3>2. Datas' \subseteq Datas \union {None}
      BY <1>8, Cleared DEF Datas, Same
    <3>. QED
      BY <3>1, <3>2
  <2>2. Only(t) /\ task'[t].kind = task[t].kind /\ At(t, "clear")
    BY <1>8 DEF ClearData, Task
  <2>3. task[t].kind = "choose"
    BY <2>2 DEF ErrandsOK, ErrandOK, Running, At
  <2>. QED
    BY <2>1, <2>2, <2>3 DEF Running, At
<1>9. ASSUME NEW t \in Tasks, Unset(t) PROVE Kept(t)
  <2>1. Datas' = Datas
    BY <1>9, Unavailable DEF Datas
  <2>2. Only(t) /\ task'[t] = Free
    BY <1>9 DEF Unset, Finish
  <2>. QED
    BY <2>1, <2>2 DEF Running, At, Free
<1>10. CASE UNCHANGED vars
  <2>1. UNCHANGED <<messages, task, Datas>>
    BY <1>10 DEF vars, Datas
  <2>2. Songs' = Songs
    BY <1>10 DEF vars, Songs, Slots, Song
  <2>. QED
    BY <2>1, <2>2 DEF NumbersOK, Running, At
<1> HIDE DEF Kept
<1>. QED
  BY <1>1, <1>2, <1>3, <1>4, <1>5, <1>6, <1>7, <1>8, <1>9, <1>10, QuietSteps DEF Next

\* Two tasks of a kind that nobody noted are one.
LEMMA OnlyOne ==
  ASSUME NEW kind, Alone(kind), kind \notin overlapping,
         NEW t \in Tasks, NEW u \in Tasks, Running(t, kind), Running(u, kind)
  PROVE  t = u
BY DEF Alone

\* An entry is filled and shown by one search.
LEMMA EntriesStep ==
  ASSUME TInv, Alone("search"), ErrandsOK, EntriesOK, [Next]_vars
  PROVE  EntriesOK'
<1>0. "search" \notin overlapping' => "search" \notin overlapping
  BY NothingIsForgotten
<1> SUFFICES ASSUME "search" \notin overlapping PROVE EntriesOK'
  BY <1>0 DEF EntriesOK
<1> DEFINE ShownOK(r) == results[r].messageid # None => results[r].data \in {results[r].messageid, None}
           Mine(t) == task[t].at \in {"fill", "show"} =>
                        /\ results[mainqueue].messageid = None
                        /\ results[mainqueue].data \in {task[t].number, None}
<1>1. (\A r \in DOMAIN results : ShownOK(r)) /\ \A t \in Tasks : Mine(t)
  BY DEF EntriesOK
<1>2. SUFFICES (\A r \in DOMAIN results' : ShownOK(r)') /\ \A t \in Tasks : Mine(t)'
  BY DEF EntriesOK
<1>3. ASSUME NEW t \in Tasks, NEW u \in Tasks, Running(t, "search"), task[u].at \in {"fill", "show"}
      PROVE  u = t
  <2>1. Running(u, "search")
    BY <1>3 DEF ErrandsOK, ErrandOK, Running, At
  <2>. QED
    BY <1>3, <2>1, OnlyOne
<1>4. ASSUME NEW t \in Tasks, Quiet(t) \/ Choose(t) \/ QueueChoice(t)
      PROVE  (\A r \in DOMAIN results' : ShownOK(r)') /\ \A u \in Tasks : Mine(u)'
  <2>1. /\ UNCHANGED cacheVars /\ \A u \in Tasks \ {t} : task'[u] = task[u]
        /\ task'[t].at \notin {"fill", "show"}
    <3>1. CASE Quiet(t)
      BY <3>1 DEF Quiet
    <3>2. CASE Choose(t)
      BY <3>2 DEF Choose, Receive, TInv, TaskOK
    <3>3. CASE QueueChoice(t)
      BY <3>3 DEF QueueChoice, Goto, TInv, TaskOK
    <3>. QED
      BY <1>4, <3>1, <3>2, <3>3
  <2>. QED
    BY <1>1, <2>1 DEF cacheVars
<1>5. ASSUME NEW t \in Tasks, NewResults(t)
      PROVE  (\A r \in DOMAIN results' : ShownOK(r)') /\ \A u \in Tasks : Mine(u)'
  <2>1. /\ Running(t, "search")
        /\ task'[t].at = "fill" /\ \A u \in Tasks \ {t} : task'[u] = task[u]
    BY <1>5 DEF NewResults, Goto, Running, At, TInv, TaskOK
  <2>2. \A r \in DOMAIN results' : ShownOK(r)'
    BY <1>1, <1>5, Opened DEF Same
  <2>3. results'[mainqueue'].messageid = None /\ results'[mainqueue'].data = None
    BY <1>5, Opened
  <2>4. \A u \in Tasks : Mine(u)'
    BY <1>3, <2>1, <2>3
  <2>. QED
    BY <2>2, <2>4
<1>6. ASSUME NEW t \in Tasks, FillResults(t)
      PROVE  (\A r \in DOMAIN results' : ShownOK(r)') /\ \A u \in Tasks : Mine(u)'
  <2>1. /\ task[t].at = "fill" /\ task'[t].number = task[t].number /\ UNCHANGED mainqueue
        /\ \A u \in Tasks \ {t} : task'[u] = task[u]
    BY <1>6 DEF FillResults, Goto, At, TInv, TaskOK, Task
  <2>2. Running(t, "search")
    BY <2>1 DEF ErrandsOK, ErrandOK, Running, At
  <2>3. Mine(t)
    BY <1>1
  <2>4. \A r \in DOMAIN results' : ShownOK(r)'
    BY <1>1, <1>6, <2>1, <2>3, Filled DEF Same
  <2>5. results'[mainqueue'].messageid = None /\ results'[mainqueue'].data \in {task'[t].number, None}
    BY <1>6, <2>1, <2>3, Filled
  <2>6. \A u \in Tasks : Mine(u)'
    BY <1>3, <2>1, <2>2, <2>5
  <2>. QED
    BY <2>4, <2>6
<1>7. ASSUME NEW t \in Tasks, ShowResults(t)
      PROVE  (\A r \in DOMAIN results' : ShownOK(r)') /\ \A u \in Tasks : Mine(u)'
  <2>1. /\ task[t].at = "show" /\ task'[t].at = "free"
        /\ \A u \in Tasks \ {t} : task'[u] = task[u]
    BY <1>7 DEF ShowResults, Finish, Free, At, TInv, TaskOK
  <2>2. Running(t, "search")
    BY <2>1 DEF ErrandsOK, ErrandOK, Running, At
  <2>3. Mine(t)
    BY <1>1
  <2>4. \A r \in DOMAIN results' : ShownOK(r)'
    BY <1>1, <1>7, <2>1, <2>3, Shown DEF Same
  <2>5. \A u \in Tasks : Mine(u)'
    BY <1>3, <2>1, <2>2
  <2>. QED
    BY <2>4, <2>5
<1>8. ASSUME NEW t \in Tasks, ClearData(t) \/ Unset(t)
      PROVE  (\A r \in DOMAIN results' : ShownOK(r)') /\ \A u \in Tasks : Mine(u)'
  <2>1. /\ task'[t].at \notin {"fill", "show"} /\ UNCHANGED mainqueue
        /\ \A u \in Tasks \ {t} : task'[u] = task[u]
    BY <1>8 DEF ClearData, Unset, Finish, Free, TInv, TaskOK, Task
  <2>2. /\ DOMAIN results' = DOMAIN results
        /\ \A r \in DOMAIN results : /\ results'[r].messageid = results[r].messageid
                                     /\ results'[r].data \in {results[r].data, None}
    BY <1>8, Cleared, Unavailable DEF Same
  <2>3. \A r \in DOMAIN results' : ShownOK(r)'
    BY <1>1, <2>2
  <2>4. \A u \in Tasks \ {t} : task[u].at \in {"fill", "show"} => mainqueue \in DOMAIN results
    BY LastIndex DEF TInv, StoreOK, PlacesOK, PlaceOK
  <2>5. \A u \in Tasks : Mine(u)'
    BY <1>1, <2>1, <2>2, <2>4
  <2>. QED
    BY <2>3, <2>5
<1>9. CASE UNCHANGED vars
  BY <1>1, <1>9 DEF vars
<1>. QED
  BY <1>4, <1>5, <1>6, <1>7, <1>8, <1>9, QuietSteps DEF Next

\* A choice takes something, and the entry it clears is soon no longer available.
LEMMA ChoicesStep ==
  ASSUME TInv, Alone("choose"), ErrandsOK, ChoicesOK, [Next]_vars
  PROVE  ChoicesOK'
<1>0. overlapping \subseteq overlapping'
  BY NothingIsForgotten
<1> SUFFICES ASSUME "choose" \notin overlapping, "choose" \notin overlapping' PROVE ChoicesOK'
  BY <1>0 DEF ChoicesOK
<1> DEFINE SetOK(r) == results[r].set /\ results[r].data = None =>
                         \E t \in Tasks : At(t, "unset") /\ task[t].temp = r
           PushOK(t) == At(t, "push") => results[task[t].temp].data # None
           OK == (\A r \in DOMAIN results : SetOK(r)) /\ \A t \in Tasks : PushOK(t)
<1>1. OK /\ None \notin Songs
  BY DEF ChoicesOK
<1> SUFFICES OK' /\ None \notin Songs'
  BY DEF ChoicesOK
<1>2. ASSUME NEW t \in Tasks, NEW u \in Tasks,
             task[t].at \in {"push", "clear", "unset"}, task[u].at \in {"push", "clear", "unset"}
      PROVE  t = u
  <2>1. Running(t, "choose") /\ Running(u, "choose")
    BY <1>2 DEF ErrandsOK, ErrandOK
  <2>. QED
    BY <2>1, OnlyOne
<1>3. \A t \in Tasks : At(t, "push") => task[t].temp \in DOMAIN results
  BY DEF TInv, StoreOK, PlacesOK, PlaceOK, At
<1>4. None \notin Songs'
  <2>1. Link # None
    BY NoneAssumption DEF Link
  <2>2. ASSUME NEW t \in Tasks, QueueChoice(t) PROVE results[task[t].temp].data # None
    BY <1>1, <2>2 DEF QueueChoice
  <2>. QED
    BY <1>1, <2>1, <2>2, SongsStep, SongsStay, SongSets DEF SongsSame
<1>5. ASSUME NEW t \in Tasks, Quiet(t) PROVE OK'
  BY <1>1, <1>5 DEF Quiet, cacheVars, At
<1>6. ASSUME NEW t \in Tasks, NewResults(t) PROVE OK'
  <2>1. task[t].at = "go" /\ task'[t].at = "fill" /\ \A u \in Tasks \ {t} : task'[u] = task[u]
    BY <1>6 DEF NewResults, Goto, At, TInv, TaskOK
  <2>2. \A r \in DOMAIN results' : SetOK(r)'
    BY <1>1, <1>6, <2>1, Opened DEF Same, At
  <2>3. \A u \in Tasks : PushOK(u)'
    BY <1>1, <1>3, <1>6, <2>1, Opened DEF Same, At
  <2>. QED
    BY <2>2, <2>3
<1>7. ASSUME NEW t \in Tasks, FillResults(t) PROVE OK'
  <2>1. task[t].at = "fill" /\ task'[t].at = "show" /\ \A u \in Tasks \ {t} : task'[u] = task[u]
    BY <1>7 DEF FillResults, Goto, At, TInv, TaskOK
  <2>2. task[t].number # None
    BY NoneAssumption DEF TInv, TaskOK, Task
  <2>3. \A r \in DOMAIN results' : SetOK(r)'
    BY <1>1, <1>7, <2>1, <2>2, Filled DEF Same, At
  <2>4. \A u \in Tasks : PushOK(u)'
    BY <1>1, <1>3, <1>7, <2>1, <2>2, Filled DEF Same, At
  <2>. QED
    BY <2>3, <2>4
<1>8. ASSUME NEW t \in Tasks, ShowResults(t) PROVE OK'
  <2>1. task[t].at = "show" /\ task'[t].at = "free" /\ \A u \in Tasks \ {t} : task'[u] = task[u]
    BY <1>8 DEF ShowResults, Finish, Free, At, TInv, TaskOK
  <2>2. /\ DOMAIN results' = DOMAIN results
        /\ \A r \in DOMAIN results : results'[r].set = results[r].set /\ results'[r].data = results[r].data
    BY <1>8, Shown DEF Same
  <2>. QED
    BY <1>1, <1>3, <2>1, <2>2 DEF At
<1>9. ASSUME NEW t \in Tasks, Choose(t) PROVE OK'
  <2>1. /\ task[t].at = "free" /\ task'[t].at = "push" /\ task'[t].temp = mainqueue
        /\ \A u \in Tasks \ {t} : task'[u] = task[u]
        /\ UNCHANGED results /\ mainqueue \in DOMAIN results /\ results[mainqueue].set
        /\ ~Others(t, "choose")
    BY <1>9 DEF Choose, Receive, Overlap, is_avaiable, cacheVars, At, TInv, StoreOK, TaskOK
  <2>2. \A u \in Tasks : ~At(u, "unset")
    BY <2>1 DEF Others, ErrandsOK, ErrandOK, Running, At
  <2>3. results[mainqueue].data # None
    BY <1>1, <2>1, <2>2
  <2>. QED
    BY <1>1, <2>1, <2>3 DEF At
<1>10. ASSUME NEW t \in Tasks, QueueChoice(t) PROVE OK'
  <2>1. /\ task[t].at = "push" /\ task'[t].at = "clear" /\ \A u \in Tasks \ {t} : task'[u] = task[u]
        /\ UNCHANGED results
    BY <1>10 DEF QueueChoice, Goto, cacheVars, At, TInv, TaskOK
  <2>. QED
    BY <1>1, <2>1 DEF At
<1>11. ASSUME NEW t \in Tasks, ClearData(t) PROVE OK'
  <2>1. /\ task[t].at = "clear" /\ task'[t].at = "unset" /\ task'[t].temp = mainqueue
        /\ \A u \in Tasks \ {t} : task'[u] = task[u]
    BY <1>11 DEF ClearData, At, TInv, TaskOK, Task
  <2>2. \A r \in DOMAIN results' : SetOK(r)'
    BY <1>1, <1>11, <2>1, Cleared DEF Same, At
  <2>3. \A u \in Tasks : PushOK(u)'
    BY <1>2, <2>1 DEF At
  <2>. QED
    BY <2>2, <2>3
<1>12. ASSUME NEW t \in Tasks, Unset(t) PROVE OK'
  <2>1. task[t].at = "unset" /\ task'[t].at = "free" /\ \A u \in Tasks \ {t} : task'[u] = task[u]
    BY <1>12 DEF Unset, Finish, Free, At, TInv, TaskOK
  <2>2. \A r \in DOMAIN results' : SetOK(r)'
    BY <1>1, <1>12, <2>1, Unavailable DEF Same, At
  <2>3. \A u \in Tasks : PushOK(u)'
    BY <1>2, <2>1 DEF At
  <2>. QED
    BY <2>2, <2>3
<1>13. ASSUME UNCHANGED vars PROVE OK'
  BY <1>1, <1>13 DEF vars, At
<1> HIDE DEF OK
<1>14. OK'
  BY <1>5, <1>6, <1>7, <1>8, <1>9, <1>10, <1>11, <1>12, <1>13, QuietSteps DEF Next
<1>. QED
  BY <1>4, <1>14

\* One song more that no slot holds, or a link, leaves every song in one slot.
Distinct == \A s1, s2 \in Slots : Song(s1) = Song(s2) /\ Song(s1) # Link => s1 = s2

LEMMA DistinctKept ==
  ASSUME Distinct, SongsSame \/ \E id : SongNew(id) /\ (id = Link \/ id \notin Songs)
  PROVE  Distinct'
<1>1. CASE SongsSame
  BY <1>1 DEF SongsSame, Distinct
<1>2. ASSUME NEW id, SongNew(id), id = Link \/ id \notin Songs PROVE Distinct'
  <2>1. PICK new : /\ new \notin Slots /\ Slots' = Slots \union {new} /\ Song(new)' = id
                   /\ \A slot \in Slots : Song(slot)' = Song(slot)
    BY <1>2 DEF SongNew
  <2>2. \A slot \in Slots : Song(slot) \in Songs
    BY DEF Songs
  <2>. QED
    BY <1>2, <2>1, <2>2 DEF Distinct
<1>. QED
  BY <1>1, <1>2

\* A choice takes what nobody queued before, if nobody else searches or chooses.
LEMMA QueuedOnceStep ==
  ASSUME TInv, Alone("choose"), ErrandsOK, NumbersOK, ChoicesOK, QueuedOnce, [Next]_vars
  PROVE  QueuedOnce'
<1>0. overlapping \subseteq overlapping'
  BY NothingIsForgotten
<1> SUFFICES ASSUME "choose" \notin overlapping, "search" \notin overlapping,
                    "choose" \notin overlapping', "search" \notin overlapping'
             PROVE  QueuedOnce'
  BY <1>0 DEF QueuedOnce
<1> DEFINE PushOK(t) == At(t, "push") => results[task[t].temp].data \notin Songs
           NewestOK == mainqueue # 0 /\ results[mainqueue].data \in Songs => \E t \in Tasks : At(t, "clear")
           OK == (\A t \in Tasks : PushOK(t)) /\ NewestOK
<1>1. Distinct /\ (\A t \in Tasks : PushOK(t)) /\ NewestOK
  BY DEF QueuedOnce, Distinct
<1> SUFFICES Distinct' /\ OK'
  BY DEF QueuedOnce, Distinct
<1>2. ASSUME NEW t \in Tasks, NEW u \in Tasks,
             task[t].at \in {"push", "clear", "unset"}, task[u].at \in {"push", "clear", "unset"}
      PROVE  t = u
  <2>1. Running(t, "choose") /\ Running(u, "choose")
    BY <1>2 DEF ErrandsOK, ErrandOK
  <2>. QED
    BY <2>1, OnlyOne
<1>3. \A t \in Tasks : At(t, "push") => task[t].temp \in DOMAIN results
  BY DEF TInv, StoreOK, PlacesOK, PlaceOK, At
<1>4. None \notin Songs /\ Link \notin Datas
  <2>1. messages \in Nat /\ Link # None
    BY NoneAssumption DEF TInv, TaskOK, Link
  <2>. QED
    BY <2>1 DEF ChoicesOK, NumbersOK, Link
<1>5. mainqueue # 0 => mainqueue \in DOMAIN results
  BY DEF TInv, StoreOK
<1>6. Distinct'
  <2>1. ASSUME NEW t \in Tasks, QueueChoice(t) PROVE results[task[t].temp].data \notin Songs
    BY <1>1, <2>1 DEF QueueChoice
  <2>. QED
    BY <1>1, <2>1, SongsStep, SongsStay, DistinctKept DEF SongsSame
<1>7. ASSUME NEW t \in Tasks, Quiet(t), Songs' \subseteq Songs \union {Link} PROVE OK'
  <2>1. /\ UNCHANGED <<results, mainqueue>> /\ \A u \in Tasks \ {t} : task'[u] = task[u]
        /\ task'[t].at # "push" /\ task[t].at # "clear"
    BY <1>7 DEF Quiet, cacheVars
  <2>2. \A r \in DOMAIN results : results[r].data \in Songs' => results[r].data \in Songs
    BY <1>4, <1>7 DEF Datas
  <2>. QED
    BY <1>1, <1>3, <1>5, <2>1, <2>2 DEF At
<1>8. ASSUME NEW t \in Tasks, NewResults(t), Songs' = Songs PROVE OK'
  <2>1. task'[t].at = "fill" /\ \A u \in Tasks \ {t} : task'[u] = task[u]
    BY <1>8 DEF NewResults, Goto, At, TInv, TaskOK
  <2>2. \A u \in Tasks : PushOK(u)'
    BY <1>1, <1>3, <1>8, <2>1, Opened DEF Same, At
  <2>3. NewestOK'
    BY <1>4, <1>8, Opened
  <2>. QED
    BY <2>2, <2>3
<1>9. ASSUME NEW t \in Tasks, FillResults(t), Songs' = Songs PROVE OK'
  <2>1. /\ task[t].at = "fill" /\ task'[t].at = "show" /\ \A u \in Tasks \ {t} : task'[u] = task[u]
        /\ UNCHANGED mainqueue
    BY <1>9 DEF FillResults, Goto, At, TInv, TaskOK
  <2>2. task[t].number \notin Songs
    BY <2>1 DEF NumbersOK, ErrandsOK, ErrandOK, Running, At
  <2>3. \A u \in Tasks : PushOK(u)'
    BY <1>1, <1>3, <1>9, <2>1, <2>2, Filled DEF Same, At
  <2>4. NewestOK'
    BY <1>1, <1>9, <2>1, <2>2, Filled DEF At
  <2>. QED
    BY <2>3, <2>4
<1>10. ASSUME NEW t \in Tasks, ShowResults(t) \/ Unset(t), Songs' = Songs PROVE OK'
  <2>1. /\ task[t].at \in {"show", "unset"} /\ task'[t].at = "free"
        /\ \A u \in Tasks \ {t} : task'[u] = task[u]
    BY <1>10 DEF ShowResults, Unset, Finish, Free, At, TInv, TaskOK
  <2>2. \A r \in DOMAIN results : results'[r].data = results[r].data
    BY <1>10, Shown, Unavailable DEF Same
  <2>3. UNCHANGED mainqueue
    BY <1>10 DEF ShowResults, Unset
  <2>. QED
    BY <1>1, <1>3, <1>5, <1>10, <2>1, <2>2, <2>3 DEF At
<1>11. ASSUME NEW t \in Tasks, Choose(t), Songs' = Songs PROVE OK'
  <2>1. /\ task[t].at = "free" /\ task'[t].at = "push" /\ task'[t].temp = mainqueue
        /\ \A u \in Tasks \ {t} : task'[u] = task[u]
        /\ UNCHANGED <<results, mainqueue>> /\ mainqueue # 0
        /\ ~Others(t, "choose")
    BY <1>11 DEF Choose, Receive, Overlap, cacheVars, At, TInv, TaskOK
  <2>2. \A u \in Tasks : ~At(u, "clear")
    BY <2>1 DEF Others, ErrandsOK, ErrandOK, Running, At
  <2>3. results[mainqueue].data \notin Songs
    BY <1>1, <2>1, <2>2
  <2>. QED
    BY <1>1, <1>11, <2>1, <2>3 DEF At
<1>12. ASSUME NEW t \in Tasks, QueueChoice(t) PROVE OK'
  <2>1. task[t].at = "push" /\ task'[t].at = "clear" /\ \A u \in Tasks \ {t} : task'[u] = task[u]
    BY <1>12 DEF QueueChoice, Goto, At, TInv, TaskOK
  <2>2. \A u \in Tasks : PushOK(u)'
    BY <1>2, <2>1 DEF At
  <2>3. NewestOK'
    BY <2>1 DEF At
  <2>. QED
    BY <2>2, <2>3
<1>13. ASSUME NEW t \in Tasks, ClearData(t), Songs' = Songs PROVE OK'
  <2>1. /\ task[t].at = "clear" /\ task'[t].at = "unset" /\ \A u \in Tasks \ {t} : task'[u] = task[u]
        /\ UNCHANGED mainqueue
    BY <1>13 DEF ClearData, At, TInv, TaskOK, Task
  <2>2. \A u \in Tasks : PushOK(u)'
    BY <1>2, <2>1 DEF At
  <2>3. NewestOK'
    BY <1>4, <1>13, <2>1, Cleared
  <2>. QED
    BY <2>2, <2>3
<1>14. ASSUME UNCHANGED vars PROVE OK'
  BY <1>1, <1>14 DEF vars, At, Songs, Slots, Song
<1>15. ASSUME \A t \in Tasks : ~QueueLink(t) /\ ~QueueChoice(t) PROVE Songs' = Songs
  BY <1>15, SongsStay, SongSets DEF SongsSame
<1>16. ASSUME NEW t \in Tasks, QueueLink(t) PROVE Songs' \subseteq Songs \union {Link}
  <2>1. ~QueueChoice(t)
    BY <1>16 DEF QueueLink, QueueChoice, At
  <2>. QED
    BY <1>16, <2>1, SongsStep, SongSets
<1>17. CASE \E t \in Tasks : QueueLink(t)
  BY <1>6, <1>7, <1>16, <1>17, QuietSteps
<1>18. CASE \E t \in Tasks : QueueChoice(t)
  BY <1>6, <1>12, <1>18
<1>19. CASE \A t \in Tasks : ~QueueLink(t) /\ ~QueueChoice(t)
  <2>1. Songs' = Songs
    BY <1>15, <1>19
  <2> HIDE DEF OK
  <2>2. OK'
    BY <1>7, <1>8, <1>9, <1>10, <1>11, <1>13, <1>14, <1>19, <2>1, QuietSteps DEF Next
  <2>. QED
    BY <1>6, <2>2
<1>. QED
  BY <1>17, <1>18, <1>19

-----------------------------------------------------------------------------
\* The cache and the queues agree in every state (entry.cpp 1432-1499): an entry is
\* its own search's, and what a choice takes has been taken by nobody before.
THEOREM ChoicesAlways == Spec => []Choices
<1>1. ASSUME Init PROVE Choices
  <2>1. /\ \A t \in Tasks : task[t].at = "free"
        /\ results = <<>> /\ mainqueue = 0 /\ messages = 0 /\ clients = <<>>
    BY <1>1 DEF Init, Free
  <2>2. Slots = {} /\ Songs = {} /\ Datas = {}
    <3>1. \A slot : ~IsSlot(clients, slot)
      BY <2>1 DEF IsSlot
    <3>2. Slots = {}
      BY <3>1, SlotsAre, Zenon DEF Slots, SlotsOf
    <3>. QED
      BY <2>1, <3>2 DEF Songs, Datas
  <2>. QED
    BY <2>1, <2>2 DEF Choices, Alone, ErrandsOK, ErrandOK, NumbersOK, EntriesOK, ChoicesOK, QueuedOnce, Running, At
<1>2. ASSUME TInv, TInv', Choices, [Next]_vars PROVE Choices'
  BY <1>2, ErrandsStep, NumbersStep, EntriesStep, ChoicesStep, QueuedOnceStep DEF Choices
<1>. QED
  BY <1>1, <1>2, TInvAlways, PTL DEF Spec

\* No song of a search is queued twice and nothing empty is queued, as long as
\* neither two searches nor two choices of the user run side by side; and an entry
\* that can be chosen from is the one whose message the user sees.
THEOREM ChoiceIsQueuedOnceAlways == Spec => []ChoiceIsQueuedOnce
<1>1. ASSUME TInv, Choices PROVE ChoiceIsQueuedOnce
  <2>1. "choose" \notin overlapping => \A slot \in Slots : Song(slot) # None
    BY <1>1 DEF Choices, ChoicesOK, Songs
  <2>. QED
    BY <1>1, <2>1 DEF Choices, EntriesOK, QueuedOnce, ChoiceIsQueuedOnce, is_avaiable
<1>. QED
  BY <1>1, ChoicesAlways, TInvAlways, PTL
=============================================================================
