-------------------------------- MODULE MCWire --------------------------------
(* Instances of Wire: the peers, and the checks of what is only computed. *)
EXTENDS Wire, LibraryChecks

CONSTANTS MaxSends,  \* bound: sends of one peer
          MaxOdd     \* bound: odd frames of one peer

Key == <<17, 34, 68, 255>>

Call(op, fin, payload) == [op |-> op, payload |-> payload, fin |-> fin, key |-> Key]

\* 97 is a, <<195, 169>> and <<226, 130, 172>> are an accented e and a euro sign.
Sends == {
    Call(TEXT, TRUE, <<97, 226, 130, 172>>),
    Call(TEXT, FALSE, <<195, 169>>),
    Call(CONTINUATION, FALSE, <<97>>),
    Call(CONTINUATION, TRUE, <<195, 169, 97, 97, 97>>),
    Call(BINARY, TRUE, <<1, 2, 3, 4, 5, 6, 255>>),
    Call(BINARY, TRUE, <<>>),
    Call(PING, TRUE, <<8>>),
    Call(PONG, TRUE, <<>>) }

Closes == {[code |-> c, reason |-> r] : c \in {1000, 1004, 1005, 1006, 4999, 5000},
                                        r \in {<<>>, <<195, 169>>, <<97, 97, 97>>}}

CloseSends == {Call(CLOSE, TRUE, ClosePayload(c.code, c.reason)) :
                  c \in {d \in Closes : prepare_close(TRUE, d.code, d.reason, Key).ec = "none"}}

Formed ==
    {[server |-> server, lines |-> <<>>, formed |-> TRUE, sends |-> sends,
      bytes |-> Written(~server, sends)[Len(sends)]] :
        server \in BOOLEAN,
        sends \in {s \in UNION {[1..n -> Sends \union CloseSends] : n \in 1..MaxSends} :
                      AllProper(TRUE, s) /\ (Len(s) > 2 => ~s[1].fin)}}

\* Frames that prepare_data_frame and prepare_control would not make.
Frame(op, fin, rsv1, masked, payload) ==
    prepare_header(basic_header(op, Len(payload), fin, masked, rsv1),
                   extended_header(Len(payload), IF masked THEN Key ELSE <<>>))
    \o IF masked THEN byte_mask(payload, Key) ELSE payload

Odd(masked) == {
    Frame(TEXT, TRUE, FALSE, masked, <<195>>),
    Frame(TEXT, FALSE, FALSE, masked, <<195>>),
    Frame(CONTINUATION, TRUE, FALSE, masked, <<169>>),
    Frame(CONTINUATION, TRUE, FALSE, masked, <<195>>),
    Frame(CONTINUATION, FALSE, FALSE, masked, <<>>),
    Frame(CONTINUATION, TRUE, FALSE, masked, <<>>),
    Frame(BINARY, FALSE, FALSE, masked, <<1, 2, 3, 4>>),
    Frame(TEXT, TRUE, FALSE, masked, <<97, 255, 97>>),
    Frame(PING, TRUE, FALSE, masked, <<195>>),
    Frame(PING, FALSE, FALSE, masked, <<>>),
    Frame(PING, TRUE, FALSE, masked, <<1, 2, 3, 4, 5>>),
    Frame(TEXT, TRUE, TRUE, masked, <<97>>),
    Frame(3, TRUE, FALSE, masked, <<>>),
    Frame(BINARY, TRUE, FALSE, ~masked, <<1>>),
    <<130, IF masked THEN 254 ELSE 126, 0, 2>> \o (IF masked THEN Key ELSE <<>>) \o <<1, 2>>,
    <<130, IF masked THEN 255 ELSE 127, 0, 0, 0, 0, 0, 0, 0, 6>> \o (IF masked THEN Key ELSE <<>>),
    <<130, IF masked THEN 255 ELSE 127, 0, 0, 0, 0, 0, 0, 0, 9>> \o (IF masked THEN Key ELSE <<>>),
    <<130, IF masked THEN 255 ELSE 127, 0, 0, 0, 0, 1, 0, 0, 0>> \o (IF masked THEN Key ELSE <<>>),
    \* With four bytes before it the sum of the sizes wraps to 2, or just does not.
    <<128, IF masked THEN 255 ELSE 127, 0, 0, 0, 0, 0, 0, 0, SizeT - 2>>
        \o (IF masked THEN Key ELSE <<>>) \o <<1, 2, 3, 4, 5, 6, 7>>,
    <<128, IF masked THEN 255 ELSE 127, 0, 0, 0, 0, 0, 0, 0, SizeT - 5>>
        \o (IF masked THEN Key ELSE <<>>) \o <<1>> }

\* The stream may end inside a header.
OddStreams(masked) ==
    {FlattenSeq(frames) \o last : frames \in UNION {[1..n -> Odd(masked)] : n \in 1..MaxOdd},
                                   last \in {<<>>, <<129>>}}

Raw ==
    UNION {{[server |-> server, lines |-> <<>>, formed |-> FALSE, sends |-> <<>>, bytes |-> bytes] :
                bytes \in OddStreams(server)} : server \in BOOLEAN}

\* Heads: a first line, the lines of always and some of optional, in order.
Heads(first, always, optional) ==
    {<<f>> \o SetToSortSeq(always \union s, <) : f \in first, s \in SUBSET optional}

Hello == prepare_data_frame(TRUE, TEXT, <<195, 169>>, TRUE, Key).bytes
MaskedHello == prepare_data_frame(FALSE, TEXT, <<195, 169>>, TRUE, Key).bytes

Handshakes ==
    {[server |-> FALSE, lines |-> lines, formed |-> FALSE, sends |-> <<>>, bytes |-> Hello] :
        lines \in Heads({256, 257, 258}, {264}, {262, 266, 267, 273, 274})
                  \union {<<256>>, <<256, 258, 262, 264, 266>>, <<256, 262, 266>>,
                         <<256, 262, 264, 266, 266>>, <<256, 262, 264, 265, 263, 266>>}}
    \union
    {[server |-> TRUE, lines |-> lines, formed |-> FALSE, sends |-> <<>>, bytes |-> MaskedHello] :
        lines \in Heads({258, 259, 260, 261}, {264, 270}, {262, 268, 269, 273, 275})
                  \union {<<259, 262, 268, 269, 270>>, <<259>>,
                         <<259, 262, 264, 268, 269, 270, 272>>, <<259, 262, 264, 268, 269, 272, 270>>,
                         <<259, 262, 264, 268, 269, 270, 273>>, <<259, 262, 264, 268, 269, 271>>}}

AllScripts == Formed \union Raw \union Handshakes
=============================================================================
