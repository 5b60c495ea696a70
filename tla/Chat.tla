--------------------------------- MODULE Chat ---------------------------------
(***************************************************************************)
(* What a chat message is taken for, and the two commands that configure a *)
(* guild's player.  A text is the sequence of its characters; what the     *)
(* commands do to queues, caches and connections is in the modules Pusher, *)
(* GatewayEvents and GatewayLink.                                          *)
(***************************************************************************)
EXTENDS Integers, SequencesExt

Digits == <<"0", "1", "2", "3", "4", "5", "6", "7", "8", "9">>

isStartWith(source, prefix) == IsPrefix(prefix, source)

\* The prefix goes together with the character behind it, whatever that is.
parse(param, msg) ==
    LET result == SubSeq(msg, Len(param) + 2, Len(msg))
    IN  IF isStartWith(msg, param) /\ result # <<>> THEN <<result>> ELSE <<>>

-----------------------------------------------------------------------------
(* The head of a message.  Absent fields are null, also those of a READY   *)
(* that has not been handled yet.                                          *)
null == "null"

Mentioned(message, self) ==
    (IF message.mentions = <<>> THEN null ELSE Head(message.mentions)) = self

Taken(message, self) ==
    IF message.bot # null THEN "skipped" ELSE IF Mentioned(message, self) THEN "mention" ELSE "content"

isOwner(author, ownerid) == author # null /\ author = ownerid

-----------------------------------------------------------------------------
(* Which branch takes a content: they are tried in this order.             *)

Song == <<"?", "p">>

Exactly ==
    << <<"choice", {<<"1">>, <<"2">>, <<"3">>, <<"4">>, <<"5">>}>>,
       <<"delete", {<<".">>}>>,
       <<"ping", {<<"p", "i", "n", "g">>, <<"P", "i", "n", "g">>}>>,
       <<"hello", {<<"H", "e", "l", "l", "o">>, <<"h", "e", "l", "l", "o">>}>>,
       <<"restart", {<<"r", "e", "s", "t", "a", "r", "t">>, <<"R", "e", "s", "t", "a", "r", "t">>}>>,
       <<"join", {<<"?", "j", "o", "i", "n">>}>>,
       <<"leave", {<<"?", "l", "e", "a", "v", "e">>}>>,
       <<"loop", {<<"?", "l", "o", "o", "p">>}>> >>

Loss == {<<"l", "o", "s", "s">>, <<"L", "o", "s", "s">>}
Offset == {<<"o", "f", "f", "s", "e", "t">>, <<"O", "f", "f", "s", "e", "t">>}

\* ?p wants a blank behind it, and tells the link of a song from a search.
SongBranch(content, link) ==
    IF Len(content) < 3 \/ content[3] # " " THEN "usage"
    ELSE IF link THEN "song" ELSE IF Len(content) = 3 THEN "empty search" ELSE "search"

Parsed(words, content) == {p \in words : parse(p, content) # <<>>}

Branch(content, link) ==
    LET exact == SelectInSeq(Exactly, LAMBDA e : content \in e[2])
    IN  IF isStartWith(content, Song) THEN SongBranch(content, link)
        ELSE IF exact # 0 THEN Exactly[exact][1]
        ELSE IF Parsed(Loss, content) # {} THEN "loss"
        ELSE IF Parsed(Offset, content) # {} THEN "offset" ELSE "none"

-----------------------------------------------------------------------------
(* Numbers.                                                                *)

OutOfRange == -1

Number(value) ==
    LET stop == SelectInSeq(value, LAMBDA c : c \notin ToSet(Digits))
    IN  IF stop = 0 THEN value ELSE SubSeq(value, 1, stop - 1)

\* An int has 32 bits; beyond them stoi throws.
stoi(num) ==
    LET Digit(c) == CHOOSE d \in 0..9 : Digits[d + 1] = c
        More(n, c) ==
            IF n = OutOfRange \/ n > 214748364 \/ (n = 214748364 /\ Digit(c) > 7)
            THEN OutOfRange ELSE 10 * n + Digit(c)
    IN  FoldLeft(More, 0, num)

\* What a configuration answers, and what the guild's field is afterwards.
Answer(reply, field) == [reply |-> reply, field |-> field]

NoLimit == -1

\* The number is cut to an unsigned short, which a limit of 100 leaves alone.
Configure(value, old, limit) ==
    LET num == Number(value)
    IN  IF value = <<"?">> THEN Answer("current", old)
        ELSE IF num = <<>> THEN Answer("no integer", old)
        ELSE IF stoi(num) = OutOfRange THEN Answer("throws", old)
        ELSE IF limit # NoLimit /\ stoi(num) >= limit THEN Answer("not between 0 and 99", old)
        ELSE Answer("changed", stoi(num) % 65536)

expected_packet_loss(value, old) == Configure(value, old, 100)
offset(value, old) == Configure(value, old, NoLimit)
=============================================================================
