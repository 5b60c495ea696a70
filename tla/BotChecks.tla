------------------------------- MODULE BotChecks -------------------------------
(***************************************************************************)
(* What the parts of the bot that are plain computations promise, and what *)
(* they do not, evaluated over bounded inputs whenever a model that        *)
(* extends this module is checked.                                         *)
(***************************************************************************)
LOCAL INSTANCE Integers
LOCAL INSTANCE SequencesExt

LOCAL U == INSTANCE Udp
LOCAL Http == INSTANCE HttpCalls
LOCAL C == INSTANCE Chat
LOCAL Pay == INSTANCE Payloads

LOCAL Texts(chars, n) == UNION {[1..k -> chars] : k \in 0..n}

-----------------------------------------------------------------------------
(***************************************************************************)
(* UDP.                                                                    *)
(***************************************************************************)
\* The port of a discovery is the one Discord wrote just when its low byte is
\* at most 127, or the high byte happens to be 255.
ASSUME PortIfLowByteIsSmall ==
    \A high, low \in {0, 1, 127, 128, 200, 254, 255} :
        U!my_port(high, low) = 256 * high + low <=> low <= 127 \/ high = 255

\* The request has the length it must have and names the ssrc, also one that
\* is negative as an int.
ASSUME RequestNamesSsrc ==
    \A ssrc \in {0, 1, 255, 256, 65535, 16777216, 2147483647, -1, -2147483647} :
        LET r == U!Request(ssrc)
            high == IF r[5] > 127 THEN r[5] - 256 ELSE r[5]
        IN  /\ Len(r) = 74 /\ \A i \in 1..74 : r[i] \in 0..255
            /\ high * 16777216 + r[6] * 65536 + r[7] * 256 + r[8] = ssrc

\* A reply is an address that ends at a zero, and a port.
ASSUME DiscoveryReadsTheReply ==
    LET reply == [i \in 1..74 |-> IF i \in 9..11 THEN 40 + i ELSE IF i > 72 THEN 1 ELSE 0]
    IN  U!ipDiscovery(U!Unused, reply).client = <<<<49, 50, 51>>, 257>>

\* Starts and cleanups of winsock balance only if each session reaches opcode
\* 2 before it closes: on_close cleans up in any case, a second opcode 2 does
\* not, and renew, which does, is never called.
ASSUME WinsockBalance ==
    LET opened == U!start(U!Unused, 50000, <<1>>)
    IN  /\ U!cleanup(opened).starts = 0
        /\ U!renew(opened, 50001, <<2>>).starts = 1
        /\ U!cleanup(U!start(opened, 50001, <<2>>)).starts = 1
        /\ U!cleanup(U!Unused).starts < 0

-----------------------------------------------------------------------------
(***************************************************************************)
(* HTTP.                                                                   *)
(***************************************************************************)
LOCAL Pieces == Texts({[contents |-> <<>>, realloc |-> TRUE], [contents |-> <<"a", "b">>, realloc |-> TRUE],
                       [contents |-> <<"c">>, realloc |-> FALSE]}, 3)

\* However a reply is cut, it is kept as it came with one zero behind it; a
\* piece that finds no memory is not the last word of a shorter reply.
ASSUME ReplyInPieces ==
    \A pieces \in Pieces :
        LET end == Http!Transfer(TRUE, TRUE, pieces)
            whole == FlattenSeq([i \in 1..Len(pieces) |-> pieces[i].contents])
        IN  IF \A i \in 1..Len(pieces) : pieces[i].realloc
            THEN end.end = "done" /\ (pieces # <<>> => end.chunk.memory = whole \o <<Http!NUL>>)
            ELSE end.end = "failed" /\ IsPrefix(SubSeq(end.chunk.memory, 1, end.chunk.size), whole)

\* Only a call without a handle leaves nothing behind: the memory of a reply is
\* never freed, the handle and its headers only behind a reply.
ASSUME CallsKeep ==
    \A handle, reaches, json \in BOOLEAN, pieces \in Pieces :
        LET call == Http!Call(handle, reaches, pieces, json)
        IN  /\ call.result \in {"reply", "throws"} => call.kept = {"reply"}
            /\ call.result \in {"number", "undefined"} /\ handle => {"list", "handle"} \subseteq call.kept

\* A message is deleted without a look at what the server answered; a title
\* that cannot be had is no empty string.
ASSUME FailuresAreTold ==
    /\ Http!deleteMsg(TRUE, TRUE, <<>>) = [result |-> 1, kept |-> {}]
    /\ Http!deleteMsg(TRUE, FALSE, <<>>) = [result |-> 0, kept |-> {"list", "handle"}]
    /\ Http!youtubeGetTitle(Http!Call(TRUE, FALSE, <<>>, TRUE), <<"t">>) = "undefined"
    /\ Http!ping(TRUE, TRUE, TRUE, 0, 40) = 1

\* A text is read back from its URL unless it holds a byte below 16, whose
\* code lacks a digit and takes the next character with it.
ASSUME UrlRoundTrip ==
    \A text \in Texts({9, 15, 16, 37, 65, 255}, 3) :
        Http!utf8_url_decode(Http!utf8_url_encode(text)) = text
          <=> \A i \in 1..Len(text) - 1 : text[i] >= 16

\* What HTML escaped is printed as it was, even an escaped name of an escape,
\* and what Discord would take for markup is quoted.
LOCAL Escaped(text) ==
    FlattenSeq([i \in 1..Len(text) |->
        CASE text[i] = "quote" -> <<"&", "quot;">> [] text[i] = "'" -> <<"&", "#39;">>
          [] text[i] = "&" -> <<"&", "amp;">> [] OTHER -> <<text[i]>>])
LOCAL Quoted(text) ==
    FlattenSeq([i \in 1..Len(text) |->
        IF text[i] \in {"|", "*"} THEN <<"\\", text[i]>> ELSE <<text[i]>>])

ASSUME TitlesArePrintedAsTheyWere ==
    \A title \in Texts({"&", "amp;", "quot;", "quote", "'", "|", "*"}, 3) :
        Http!Printed(Escaped(title)) = Quoted(title)

\* The list ends at the first item without a title.
ASSUME ListEndsAtAGap ==
    Http!youtubePrintSearchResult(<<<<"a">>, <<>>, <<"b">>>>) = <<<<1, <<"a">>>>>>

-----------------------------------------------------------------------------
(***************************************************************************)
(* Chat.                                                                   *)
(***************************************************************************)
\* Every word of a command reaches its own branch: neither the prefix ?p nor
\* an earlier word takes it.
ASSUME NoCommandIsShadowed ==
    /\ \A i \in DOMAIN C!Exactly : \A word \in C!Exactly[i][2] :
         C!Branch(word, FALSE) = C!Exactly[i][1]
    /\ \A word \in C!Loss : C!Branch(word \o <<" ", "5">>, FALSE) = "loss"
    /\ \A word \in C!Offset : C!Branch(word \o <<" ", "5">>, FALSE) = "offset"

\* A word that only begins like a command is one: talk about losses is answered,
\* and the first digit behind the word is lost.
ASSUME PrefixesAreCommands ==
    /\ C!Branch(<<"l", "o", "s", "s", "e", "s">>, FALSE) = "loss"
    /\ C!parse(<<"l", "o", "s", "s">>, <<"l", "o", "s", "s", "1", "5">>) = <<<<"5">>>>
    /\ C!Branch(<<"?", "p", "l", "a", "y">>, TRUE) = "usage"

\* Before READY was handled nobody is mentioned by every message without a
\* mention, and commands are lost.
ASSUME EarlyMessagesMention ==
    LET plain == [bot |-> C!null, mentions |-> <<>>]
    IN  C!Taken(plain, C!null) = "mention" /\ C!Taken(plain, "bot") = "content"

\* Whatever is written, the loss stays a percentage and a refused text changes
\* nothing; digits may be followed by anything.
ASSUME LossStaysAPercentage ==
    \A value \in Texts({"0", "9", "x", "?"}, 4) :
        LET answer == C!expected_packet_loss(value, 30)
        IN  /\ answer.field \in 0..99
            /\ answer.reply # "changed" => answer.field = 30

LOCAL Nines(n) == [i \in 1..n |-> "9"]

\* 65536 sets the offset to zero, and a number that no int can hold ends the
\* task with an exception, of the loss too, where it would be out of bounds.
ASSUME NumbersAtTheirWidth ==
    /\ C!offset(<<"6", "5", "5", "3", "5">>, 10).field = 65535
    /\ C!offset(<<"6", "5", "5", "3", "6">>, 10) = C!Answer("changed", 0)
    /\ C!stoi(<<"2", "1", "4", "7", "4", "8", "3", "6", "4", "7">>) = 2147483647
    /\ \A n \in 10..12 : C!offset(Nines(n), 10) = C!Answer("throws", 10)
    /\ C!expected_packet_loss(Nines(10), 30).reply = "throws"
    /\ C!expected_packet_loss(Nines(9), 30).reply = "not between 0 and 99"

-----------------------------------------------------------------------------
(***************************************************************************)
(* Messages the bot writes.                                                *)
(***************************************************************************)
\* A leave has a null for its channel, a join its name; the quoted null of
\* disconnect is the name of a channel.
ASSUME LeaveIsNull ==
    /\ \A channel \in {"c", "null"} :
         Pay!getVoiceStateUpdatePayload("g", channel).channel_id = Pay!null <=> channel = "null"
    /\ Pay!disconnect("g").channel_id # Pay!null

\* Only the gateway's heartbeat says what was received last.
ASSUME HeartbeatsCount ==
    /\ \A m, n \in 0..2 : Pay!getHeartBeatPayload(m) = Pay!getHeartBeatPayload(n) <=> m = n
    /\ Pay!VoiceHeartBeat(1) = Pay!VoiceHeartBeat(2)

\* A resume that could not be sent is tried again at the next hello.
ASSUME ResumeKeepsItsFlag ==
    \A sent \in BOOLEAN :
        Pay!resume([session_id |-> "s", seq_num |-> 1, is_websocket_restart |-> TRUE], "token", sent)
          .is_websocket_restart = ~sent
=============================================================================
