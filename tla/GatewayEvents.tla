---------------------------- MODULE GatewayEvents ----------------------------
(***************************************************************************)
(* The events of the gateway for one guild and one user.  on_message makes *)
(* a PPL task of every message, so tasks run side by side and end in any   *)
(* order; they share three maps without a lock: mainqueue (the search      *)
(* results a user may choose from), usergroup (what Discord said of voice  *)
(* states) and voicegroup (the guild's voice client).  A map entry is a    *)
(* pointer that later messages replace, and every use looks it up anew.    *)
(* A step is one use.                                                      *)
(***************************************************************************)
EXTENDS Naturals, Sequences

CONSTANTS
  Tasks,        \* PPL threads that run messages
  Channels,     \* voice channels of the guild
  Sessions,     \* session ids that Discord gives the bot
  None,         \* "" in the code
  MaxPolls,     \* looks at the session id before giving up, 5 in the code
  MaxMessages   \* bound: messages handled

ASSUME NoneAssumption == None \notin Channels \union Sessions \union Nat
ASSUME BoundAssumption == MaxPolls \in Nat \ {0} /\ MaxMessages \in Nat

Members == {"user", "self"}
Kinds == {"play", "search", "join", "choose", "state", "server"}

VARIABLES
  task,         \* what each task is doing
  messages,     \* number of messages so far
  results,      \* every querryqueue made so far; mainqueue points into it
  mainqueue,    \* the user's entry, 0: none
  usergroup,    \* the userinfo of each member, or None
  clients,      \* every voiceclient made so far; voicegroup points into it
  voicegroup,   \* the guild's entry, 0: none
  overlapping   \* history: which things two tasks did at the same time

vars == <<task, messages, results, mainqueue, usergroup, clients, voicegroup, overlapping>>

Places == {"free", "find", "create", "go", "new", "fill", "show", "push", "clear", "unset",
           "update", "poll", "channel", "start"}

Task == [at : Places, kind : Kinds, number : Nat, temp : Nat, polls : 0 .. MaxPolls]
Free == [at |-> "free", kind |-> "join", number |-> 0, temp |-> 0, polls |-> 0]

\* A search and the message that shows its results have the number of the message
\* that asked for it.
MaybeNumber == Nat \union {None}
Result == [data : MaybeNumber, messageid : MaybeNumber, set : BOOLEAN]
UserInfo == [channelid : Channels \union {None}, sessionid : Sessions \union {None}]
ASSUME UserInfoAssumption == None \notin UserInfo

\* songs are the ids queued, session the one that start was last called with.
Client == [channel : Channels \union {None}, songs : Seq(MaybeNumber),
           session : Sessions \union {None}]

TypeOK ==
  /\ task \in [Tasks -> Task]
  /\ messages \in 0 .. MaxMessages
  /\ results \in Seq(Result) /\ mainqueue \in 0 .. Len(results)
  /\ usergroup \in [Members -> UserInfo \union {None}]
  /\ clients \in Seq(Client) /\ voicegroup \in 0 .. Len(clients)
  /\ overlapping \subseteq {"search", "choose", "create"}
  \* whoever got past a test of a map uses an entry that is there
  /\ \A t \in Tasks : task[t].at \in {"push", "channel", "start"} => voicegroup # 0
  /\ \A t \in Tasks : task[t].at \in {"fill", "show", "clear", "unset"} => mainqueue # 0

Init ==
  /\ task = [t \in Tasks |-> Free] /\ messages = 0
  /\ results = <<>> /\ mainqueue = 0
  /\ usergroup = [m \in Members |-> None]
  /\ clients = <<>> /\ voicegroup = 0
  /\ overlapping = {}

-----------------------------------------------------------------------------
At(t, place) == task[t].at = place
Goto(t, place) == task' = [task EXCEPT ![t].at = place]
Finish(t) == task' = [task EXCEPT ![t] = Free]

\* Another task is in the middle of the same thing.
Others(t, kind) == \E u \in Tasks \ {t} : ~At(u, "free") /\ task[u].kind = kind

Overlap(what, if) == overlapping' = IF if THEN overlapping \union {what} ELSE overlapping

\* on_message: a message becomes a task that begins at place.
Receive(t, kind, place, temp) ==
  /\ At(t, "free") /\ messages < MaxMessages
  /\ messages' = messages + 1
  /\ task' = [task EXCEPT ![t] = [at |-> place, kind |-> kind, number |-> IF kind = "search" THEN messages + 1 ELSE 0,
                                  temp |-> temp, polls |-> 0]]

ChannelOf(m) == IF usergroup[m] = None THEN None ELSE usergroup[m].channelid
SessionOf(m) == IF usergroup[m] = None THEN None ELSE usergroup[m].sessionid

cacheVars == <<results, mainqueue>>
clientVars == <<clients, voicegroup>>

(***************************************************************************)
(* ?p and ?join make the guild's client first, if there is none yet.       *)
(***************************************************************************)
Play(t) ==
  /\ \E kind \in {"play", "search"} :
        /\ Receive(t, kind, "find", 0)
        /\ Overlap("search", kind = "search" /\ Others(t, "search"))
  /\ UNCHANGED <<cacheVars, usergroup, clientVars>>

Join(t) ==
  /\ Receive(t, "join", "find", 0)
  /\ ChannelOf("user") # None
  /\ UNCHANGED <<cacheVars, usergroup, clientVars, overlapping>>

\* voicegroup.find
FindClientNever(t) ==
  /\ At(t, "find") /\ Goto(t, "create")
  /\ UNCHANGED <<messages, cacheVars, usergroup, clientVars, overlapping>>

FindClient(t) ==
  /\ At(t, "find")
  /\ Goto(t, IF voicegroup = 0 THEN "create"
             ELSE IF task[t].kind = "server" THEN "channel" ELSE "go")
  /\ Overlap("create", voicegroup = 0 /\ \E u \in Tasks \ {t} : At(u, "create"))
  /\ UNCHANGED <<messages, cacheVars, usergroup, clientVars>>

NewClient == [channel |-> None, songs |-> <<>>, session |-> None]

CreateClient(t) ==
  /\ At(t, "create")
  /\ clients' = Append(clients, NewClient)
  /\ voicegroup' = Len(clients) + 1
  /\ Goto(t, IF task[t].kind = "server" THEN "channel" ELSE "go")
  /\ UNCHANGED <<messages, cacheVars, usergroup, overlapping>>

\* ?join only sends a request; ?p that names nothing to play, or of a user who is
\* in no voice channel, only a message.
Answer(t) ==
  /\ At(t, "go") /\ task[t].kind \in {"play", "join"}
  /\ Finish(t)
  /\ UNCHANGED <<messages, cacheVars, usergroup, clientVars, overlapping>>

\* The id of a link, which is not one of a search.
Link == 0

Queue(id) == clients' = [clients EXCEPT ![voicegroup].songs = Append(@, id)]

QueueLink(t) ==
  /\ At(t, "go") /\ task[t].kind = "play" /\ ChannelOf("user") # None
  /\ Queue(Link)
  /\ Finish(t)
  /\ UNCHANGED <<messages, cacheVars, usergroup, voicegroup, overlapping>>

(***************************************************************************)
(* A search: the query, a new entry, its data, the message that shows it.  *)
(***************************************************************************)
NewResults(t) ==
  /\ At(t, "go") /\ task[t].kind = "search"
  /\ results' = Append(results, [data |-> None, messageid |-> None, set |-> FALSE])
  /\ mainqueue' = Len(results) + 1
  /\ Goto(t, "fill")
  /\ UNCHANGED <<messages, usergroup, clientVars, overlapping>>

\* querryqueue::push; a reply without five ids leaves the data alone.
FillResults(t) ==
  /\ At(t, "fill")
  /\ \E found \in BOOLEAN :
        results' = [results EXCEPT ![mainqueue].set = found,
                                   ![mainqueue].data = IF found THEN task[t].number ELSE @]
  /\ Goto(t, "show")
  /\ UNCHANGED <<messages, mainqueue, usergroup, clientVars, overlapping>>

\* A call that failed throws: what it returned is no JSON, or the number 0, which
\* push() cannot look into.  The new entry, if there is one by then, has no message.
SearchThrows(t) ==
  /\ At(t, "fill") \/ (At(t, "go") /\ task[t].kind = "search")
  /\ Finish(t)
  /\ UNCHANGED <<messages, cacheVars, usergroup, clientVars, overlapping>>

\* youtubePrintSearchResult, which may fail, and setMessageId.
ShowResults(t) ==
  /\ At(t, "show")
  /\ \E id \in {task[t].number, None} :
        results' = IF id = None THEN results ELSE [results EXCEPT ![mainqueue].messageid = id]
  /\ Finish(t)
  /\ UNCHANGED <<messages, mainqueue, usergroup, clientVars, overlapping>>

(***************************************************************************)
(* The choice of a result.  It is queued from the entry that was found     *)
(* available, and whichever entry the user has by then is reset.           *)
(***************************************************************************)
is_avaiableEver(r) == results[r].messageid # None

is_avaiable(r) == results[r].messageid # None /\ results[r].set

Choose(t) ==
  /\ mainqueue # 0 /\ is_avaiable(mainqueue) /\ voicegroup # 0
  /\ Receive(t, "choose", "push", mainqueue)
  /\ Overlap("choose", Others(t, "choose"))
  /\ UNCHANGED <<cacheVars, usergroup, clientVars>>

QueueChoice(t) ==
  /\ At(t, "push")
  /\ \/ ChannelOf("user") = None /\ UNCHANGED clients
     \/ ChannelOf("user") # None /\ Queue(results[task[t].temp].data)
  /\ Goto(t, "clear")
  /\ UNCHANGED <<messages, cacheVars, usergroup, voicegroup, overlapping>>

\* querryqueue::reset; the ids it means to empty are local variables.
ClearData(t) ==
  /\ At(t, "clear")
  /\ results' = [results EXCEPT ![mainqueue].data = None]
  /\ task' = [task EXCEPT ![t].at = "unset", ![t].temp = mainqueue]
  /\ UNCHANGED <<messages, mainqueue, usergroup, clientVars, overlapping>>

Unset(t) ==
  /\ At(t, "unset")
  /\ results' = [results EXCEPT ![task[t].temp].set = FALSE]
  /\ Finish(t)
  /\ UNCHANGED <<messages, mainqueue, usergroup, clientVars, overlapping>>

(***************************************************************************)
(* VOICE_STATE_UPDATE replaces the member's entry and then fills it.       *)
(***************************************************************************)
StateUpdate(t) ==
  /\ \E m \in Members :
        /\ Receive(t, "state", "update", IF m = "self" THEN 1 ELSE 0)
        /\ usergroup' = [usergroup EXCEPT ![m] = [channelid |-> None, sessionid |-> None]]
  /\ UNCHANGED <<cacheVars, clientVars, overlapping>>

Subject(t) == IF task[t].temp = 1 THEN "self" ELSE "user"

FillUserInfo(t) ==
  /\ At(t, "update")
  /\ \E channel \in Channels \union {None}, session \in Sessions :
        usergroup' = [usergroup EXCEPT ![Subject(t)] =
                         [channelid |-> channel, sessionid |-> session]]
  /\ Finish(t)
  /\ UNCHANGED <<messages, cacheVars, clientVars, overlapping>>

(***************************************************************************)
(* VOICE_SERVER_UPDATE waits for the bot's session id, for a while, makes  *)
(* the client if need be, tells it its channel and starts it.              *)
(***************************************************************************)
ServerUpdate(t) ==
  /\ Receive(t, "server", "poll", 0)
  /\ UNCHANGED <<cacheVars, usergroup, clientVars, overlapping>>

PollUnlimited(t) ==
  /\ At(t, "poll")
  /\ IF SessionOf("self") # None \/ task[t].polls + 1 = MaxPolls THEN Goto(t, "find")
     ELSE task' = [task EXCEPT ![t].polls = @ + 1]
  /\ UNCHANGED <<messages, cacheVars, usergroup, clientVars, overlapping>>

PollBlind(t) ==
  /\ At(t, "poll")
  /\ IF SessionOf("self") # None THEN Goto(t, "channel")
     ELSE IF task[t].polls + 1 < MaxPolls THEN task' = [task EXCEPT ![t].polls = @ + 1]
     ELSE Finish(t)
  /\ UNCHANGED <<messages, cacheVars, usergroup, clientVars, overlapping>>

Poll(t) ==
  /\ At(t, "poll")
  /\ IF SessionOf("self") # None THEN Goto(t, "find")
     ELSE IF task[t].polls + 1 < MaxPolls THEN task' = [task EXCEPT ![t].polls = @ + 1]
     ELSE Finish(t)
  /\ UNCHANGED <<messages, cacheVars, usergroup, clientVars, overlapping>>

SetChannel(t) ==
  /\ At(t, "channel")
  /\ clients' = [clients EXCEPT ![voicegroup].channel = ChannelOf("self")]
  /\ Goto(t, "start")
  /\ UNCHANGED <<messages, cacheVars, usergroup, voicegroup, overlapping>>

Start(t) ==
  /\ At(t, "start")
  /\ clients' = [clients EXCEPT ![voicegroup].session = SessionOf("self")]
  /\ Finish(t)
  /\ UNCHANGED <<messages, cacheVars, usergroup, voicegroup, overlapping>>

Next == \E t \in Tasks :
  \/ Play(t) \/ Join(t) \/ FindClient(t) \/ CreateClient(t) \/ Answer(t) \/ QueueLink(t)
  \/ NewResults(t) \/ FillResults(t) \/ SearchThrows(t) \/ ShowResults(t)
  \/ Choose(t) \/ QueueChoice(t) \/ ClearData(t) \/ Unset(t)
  \/ StateUpdate(t) \/ FillUserInfo(t)
  \/ ServerUpdate(t) \/ Poll(t) \/ SetChannel(t) \/ Start(t)

Spec == Init /\ [][Next]_vars

-----------------------------------------------------------------------------
(***************************************************************************)
(* Properties.                                                             *)
(***************************************************************************)

\* The places of the guild's queues.
Slots == UNION {{c} \X DOMAIN clients[c].songs : c \in DOMAIN clients}
Song(slot) == clients[slot[1]].songs[slot[2]]

\* A user chooses from the results whose message they see, each search gives at
\* most one song, and nothing empty is queued (entry.cpp 1432-1499): for that a
\* choice must leave no entry available, although it resets another one than it
\* took when a search came in between.  Two searches of one user at the same time
\* share an entry, and two choices may both find it available.
ChoiceIsQueuedOnce ==
  /\ "search" \in overlapping \/ \A r \in DOMAIN results :
        is_avaiable(r) => results[r].data \in {results[r].messageid, None}
  /\ "choose" \in overlapping \/ \A slot \in Slots : Song(slot) # None
  /\ {"search", "choose"} \intersect overlapping # {} \/
        \A s1, s2 \in Slots : Song(s1) = Song(s2) /\ Song(s1) # Link => s1 = s2

\* All commands and events of a guild meet one voice client, whichever of ?p,
\* ?join and VOICE_SERVER_UPDATE comes first (entry.cpp 1299, 1537, 1777); a song
\* in another one would never be played.  Only tasks that look for it before
\* either has made it make two.
GuildHasOneClient == Len(clients) <= 1 \/ "create" \in overlapping

\* The session that start() is called with is looked up again after the wait for
\* it (entry.cpp 1752-1789): it is missing only while an update of the bot's own
\* state stands between the replacement of its entry and the values.
StartsWithASession ==
  [][\A t \in Tasks : Start(t) /\ SessionOf("self") = None =>
        \E u \in Tasks : At(u, "update") /\ Subject(u) = "self"]_vars
=============================================================================
