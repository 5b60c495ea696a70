------------------------------ MODULE LibraryChecks ------------------------------
(***************************************************************************)
(* What the parts of the websocket library that are plain computations     *)
(* promise, evaluated over bounded inputs whenever a model that extends    *)
(* this module is checked.                                                 *)
(***************************************************************************)
LOCAL INSTANCE Integers
LOCAL INSTANCE SequencesExt

LOCAL Deflate == INSTANCE Deflate
LOCAL Md5 == INSTANCE Md5
LOCAL Sha1 == INSTANCE Sha1
LOCAL Base64 == INSTANCE Base64
LOCAL Uri == INSTANCE Uri
LOCAL Old == INSTANCE Hybi00
LOCAL Http == INSTANCE HttpApi
LOCAL Stream == INSTANCE Iostream
LOCAL End == INSTANCE Endpoint

LOCAL Texts(chars, n) == UNION {[1..k -> chars] : k \in 0..n}
LOCAL Repeated(byte, n) == [i \in 1..n |-> byte]

-----------------------------------------------------------------------------
(***************************************************************************)
(* Digests and base64.                                                     *)
(***************************************************************************)
\* The digest of an empty message, of md5's own test suite.
ASSUME Md5OfNothing ==
    Md5!md5_hash_hex(<<>>) = <<13, 4, 1, 13, 8, 12, 13, 9, 8, 15, 0, 0, 11, 2, 0, 4,
                               14, 9, 8, 0, 0, 9, 9, 8, 14, 12, 15, 8, 4, 2, 7, 14>>

\* Messages around the length that needs another block: the first bytes.
ASSUME Md5AroundBlocks ==
    /\ SubSeq(Md5!md5_hash_string(Repeated(97, 55)), 1, 4) = <<239, 23, 114, 182>>
    /\ SubSeq(Md5!md5_hash_string(Repeated(97, 56)), 1, 4) = <<59, 12, 138, 199>>

\* A message appended in two pieces, before, at and behind the places where the
\* padding and the block end, has the digest of the whole.
ASSUME Md5InPieces ==
    \A n \in {55, 56, 64, 65}, k \in {1, 63} :
        LET message == [i \in 1..n |-> i]
            cut == IF k > n THEN n ELSE k
        IN  Md5!md5_finish(Md5!md5_append(Md5!md5_append(Md5!md5_init, SubSeq(message, 1, cut)),
                                          SubSeq(message, cut + 1, n)))
            = Md5!md5_hash_string(message)

\* The digest of "abc" in the standard, and of a message whose length needs a
\* second block.
ASSUME Sha1OfKnown ==
    /\ Sha1!calc(<<97, 98, 99>>) = <<169, 153, 62, 54, 71, 6, 129, 106, 186, 62, 37, 113, 120, 80,
                                     194, 108, 156, 208, 216, 157>>
    /\ Sha1!calc(Repeated(97, 56)) = <<194, 219, 51, 15, 96, 131, 133, 76, 153, 212, 181, 191, 182,
                                       232, 242, 159, 32, 27, 230, 153>>

\* What was encoded is decoded, whatever is left over of the last group; the
\* encoding is a multiple of four characters.
ASSUME Base64RoundTrip ==
    \A input \in Texts({0, 63, 64, 255}, 4) :
        /\ Base64!base64_decode(Base64!base64_encode(input)) = input
        /\ Len(Base64!base64_encode(input)) = 4 * ((Len(input) + 2) \div 3)

\* A character that is not of the alphabet ends the text: what comes behind it
\* is lost without an error.
ASSUME Base64StopsSilently ==
    \A tail \in Texts({0, 1, 64, 65}, 3) :
        Base64!base64_decode(<<24, 22, 9, 35, 65>> \o tail) = <<97, 98, 99>>

-----------------------------------------------------------------------------
(***************************************************************************)
(* permessage-deflate.                                                     *)
(***************************************************************************)
LOCAL Values == {[empty |-> TRUE, number |-> 0]} \union
                {[empty |-> FALSE, number |-> n] : n \in {0, 8, 9, 15, 16, 265}}
LOCAL Offers ==
    {[present |-> p, unknown |-> u,
      value |-> [a \in Deflate!AttributeNames |->
                    IF a = "server_max_window_bits" THEN s
                    ELSE IF a = "client_max_window_bits" THEN c ELSE [empty |-> TRUE, number |-> 0]]] :
        p \in {{}, {"server_max_window_bits"}, {"client_max_window_bits"}, Deflate!AttributeNames},
        u \in {1, 3, 5, 6}, s \in Values, c \in Values}
LOCAL Set(bits, mode) ==
    Deflate!set_client_max_window_bits(Deflate!set_server_max_window_bits(Deflate!enabled, bits, mode), bits, mode)
LOCAL Extensions == {Set(bits, mode) : bits \in {8, 9, 15}, mode \in Deflate!Modes}

\* Whatever the settings and the offer, zlib is given a window it supports: an
\* offer that could be negotiated never fails to be initialised.
ASSUME NegotiatedWindows ==
    \A ext \in Extensions, offer \in Offers, server \in BOOLEAN :
        LET done == Deflate!TryOffer(ext, offer, server)
        IN  /\ done.m_server_max_window_bits \in 9..15 /\ done.m_client_max_window_bits \in 9..15
            /\ done.ec # "zlib_error"
            /\ done.m_enabled <=> done.m_initialized

\* A server that accepts, or takes the largest window, never answers a larger
\* one than it was asked for, 8 aside, which zlib cannot do.
ASSUME AnswerWithinAsked ==
    \A ext \in {Set(bits, mode) : bits \in {8, 9, 15}, mode \in {"accept", "largest"}},
       offer \in {o \in Offers : "server_max_window_bits" \in o.present} :
        LET done == Deflate!TryOffer(ext, offer, TRUE)
            asked == Deflate!uint8(offer.value["server_max_window_bits"].number)
        IN  done.m_enabled /\ asked > 8 => Deflate!generate_response(done).server <= asked

\* One that declines answers 15 bits, that is nothing, to a client that asked
\* for less; and 265 is taken for 9.
ASSUME DeclinedAndCut ==
    LET ask(n) == [present |-> {"server_max_window_bits"}, unknown |-> 6,
                   value |-> [a \in Deflate!AttributeNames |-> [empty |-> FALSE, number |-> n]]]
    IN  /\ Deflate!generate_response(Deflate!TryOffer(Set(15, "decline"), ask(9), TRUE)).present = {}
        /\ Deflate!TryOffer(Set(15, "accept"), ask(265), TRUE).m_server_max_window_bits = 9

\* An offer that failed leaves its settings behind: the answer to the next one
\* has a parameter that it did not ask for.
ASSUME FailedOfferLeaks ==
    LET Empty == [a \in Deflate!AttributeNames |-> [empty |-> TRUE, number |-> 0]]
        bad == [present |-> {"client_no_context_takeover", "server_max_window_bits"}, value |-> Empty, unknown |-> 6]
        plain == [present |-> {}, value |-> Empty, unknown |-> 6]
        result == Deflate!negotiate_extensions_helper(Deflate!enabled, <<bad, plain>>, TRUE)
    IN  result.ec = "none" /\ result.response[1].present = {"client_no_context_takeover"}

\* The pieces that the loops over zlib's buffer append add up to all it has,
\* also when the last piece fills the buffer.
ASSUME NothingCompressedIsLost ==
    LET on == Deflate!TryOffer(Deflate!enabled, Deflate!generate_offer, FALSE)
    IN  \A total \in 0..9, size \in 1..4 :
            LET out == Deflate!compress(on, 1, total, size).out
                back == Deflate!decompress(on, total, -1, size).out
            IN  FoldLeft(+, 0, out) = total /\ FoldLeft(+, 0, back) = total

-----------------------------------------------------------------------------
(***************************************************************************)
(* Addresses.                                                              *)
(***************************************************************************)
LOCAL UriText == Texts({"[", "]", ":", "/", "?", "h", "0", "8"}, 4) \ {<<>>}

\* An address that was read and written again reads as the same, if its host
\* has no colon, slash or bracket: those around an IPv6 address are not written.
ASSUME UriRoundTrip ==
    \A scheme \in {"ws", "https"}, text \in UriText :
        LET u == Uri!uri(scheme, text)
        IN  u.m_valid /\ u.m_host # <<>> /\ {":", "[", "/"} \intersect ToSet(u.m_host) = {}
            => Uri!uri(scheme, Uri!str(u)) = u

ASSUME UriDropsBrackets ==
    Uri!uri("ws", Uri!str(Uri!uri("ws", <<"[", ":", "h", "]", ":", "8">>))).m_valid = FALSE

\* A valid address has a port that exists, and a resource that begins with a
\* slash and ends with the query.
ASSUME UriParts ==
    \A scheme \in {"ws", "https"}, text \in UriText :
        LET u == Uri!uri(scheme, text)
        IN  u.m_valid => /\ u.m_port \in 1..65535 /\ u.m_resource[1] = "/"
                         /\ IsSuffix(Uri!get_query(u), u.m_resource)

\* 65536 is refused, and not taken for 0 or a default.
ASSUME UriPortRange ==
    /\ ~Uri!get_port_from_string(TRUE, <<"6", "5", "5", "3", "6">>).ok
    /\ ~Uri!get_port_from_string(TRUE, <<"h">>).ok
    /\ Uri!WithPortText("wss", <<"h">>, <<"6", "5", "5", "3", "5">>, <<>>).m_port = 65535

-----------------------------------------------------------------------------
(***************************************************************************)
(* The oldest protocol.                                                    *)
(***************************************************************************)
LOCAL Frames == Old!prepare_data_frame("text", <<97>>).bytes \o Old!prepare_data_frame("text", <<195, 169>>).bytes

\* The messages of bytes that come in two reads, taken as a connection does:
\* again and again, and a message whenever one is ready.
LOCAL Taken(reads) ==
    LET turn(s) ==
            LET read == Old!consume(s.proc, s.left, FALSE)
                rest == SubSeq(s.left, read.taken + 1, Len(s.left))
            IN  IF Old!ready(read.proc)
                THEN [proc |-> Old!get_message(read.proc), left |-> rest, got |-> Append(s.got, read.proc.m_msg)]
                ELSE [s EXCEPT !.proc = read.proc, !.left = rest]
        all(s) == turn(turn(turn(s)))
    IN  all([all([proc |-> Old!hybi00, left |-> reads[1], got |-> <<>>]) EXCEPT !.left = reads[2]]).got

\* Two messages arrive as they were sent, wherever the reads divide them.
ASSUME FramesDivided ==
    \A cut \in 0..Len(Frames) :
        Taken(<<SubSeq(Frames, 1, cut), SubSeq(Frames, cut + 1, Len(Frames))>>) = <<<<97>>, <<195, 169>>>>

\* No text that may be sent holds the byte that ends a frame, and what is not a
\* text is refused.
ASSUME PreparedIsReadBack ==
    \A payload \in Texts({97, 195, 169, 255}, 4) :
        LET prepared == Old!prepare_data_frame("text", payload)
        IN  IF prepared.ec # "none" THEN ~Old!Text!WellFormed(payload)
            ELSE Old!consume(Old!hybi00, prepared.bytes, FALSE).proc.m_msg = payload

\* An error is told once: the next read of a processor that failed takes
\* nothing and tells none.
ASSUME ErrorToldOnce ==
    LET failed == Old!consume(Old!hybi00, <<1>>, FALSE).proc
    IN  failed.ec = "protocol_violation"
        /\ Old!consume(failed, <<0, 97, 255>>, FALSE) = [proc |-> [failed EXCEPT !.ec = "none"], taken |-> 0]

\* A request whose first two keys give the numbers 74 and 9.
LOCAL Request(key3) ==
    [method |-> "GET", version |-> "HTTP/1.1", secure |-> FALSE, origin |-> <<"h">>,
     key1 |-> <<49, 32, 52, 32, 56>>, key2 |-> <<32, 57, 97>>, key3 |-> key3,
     host |-> <<"h", ":", "8", "1">>, resource |-> <<"/">>]

\* The bytes that are hashed are those of the request if its third key is
\* eight bytes long or more; one that is shorter is filled up with bytes that
\* were never written.
ASSUME ShortKeyIsNoAnswer ==
    \A n \in 1..9 :
        LET hashed(unset) == Old!key_final(Request(Repeated(97, n)), unset)
        IN  /\ Old!validate_handshake(Request(Repeated(97, n))) = "none"
            /\ SubSeq(hashed(0), 1, 8) = <<0, 0, 0, 74, 0, 0, 0, 9>>
            /\ (hashed(0) = hashed(255)) <=> n >= 8

\* An answer keeps the origin and the location the application has chosen.
ASSUME ChosenHeadersStay ==
    LET res == [key3 |-> <<>>, upgrade |-> "none", connection |-> "none", origin |-> <<>>,
                location |-> <<"l">>, protocol |-> <<>>]
        done == Old!process_handshake(Request(Repeated(97, 8)), <<"p">>, res, 0)
    IN  /\ done.location = <<"l">> /\ done.origin = <<"h">> /\ done.protocol = <<"p">>
        /\ Len(Old!get_raw(done).body) = 16 /\ "key3" \notin DOMAIN Old!get_raw(done).headers
        /\ Old!get_uri(Request(<<>>)).m_port = 81

-----------------------------------------------------------------------------
(***************************************************************************)
(* Header texts.                                                           *)
(***************************************************************************)
LOCAL HeaderText == Texts({"a", " ", "\r", "\n", ";", ",", "=", "\""}, 4)

\* White space is skipped altogether: what follows is none, and is not a line
\* that goes on.  A text that was stripped stays.
ASSUME WhiteSpaceSkipped ==
    \A text \in HeaderText :
        LET i == Http!extract_all_lws(text, 1)
        IN  /\ Http!extract_all_lws(text, i) = i
            /\ i <= Len(text) => text[i] \notin Http!Blanks
            /\ Http!strip_lws(Http!strip_lws(text)) = Http!strip_lws(text)

\* The parser stops inside the text or at its end, and every parameter it
\* lists has a name.
ASSUME ParametersHaveNames ==
    \A text \in HeaderText :
        LET read == Http!extract_parameters(text)
        IN  /\ read.at \in 1..Len(text) + 1
            /\ \A i \in DOMAIN read.list : read.list[i].name # <<>>

\* Parameters that were written are read back, whichever of their values is
\* quoted.
LOCAL Written(p) ==
    p.name \o IF DOMAIN p.attributes = {} THEN <<>>
              ELSE <<";", " ", "b">> \o
                   IF p.attributes[<<"b">>] = <<>> THEN <<>>
                   ELSE IF \A i \in DOMAIN p.attributes[<<"b">>] : Http!is_token_char(p.attributes[<<"b">>][i])
                   THEN <<" ", "=">> \o p.attributes[<<"b">>]
                   ELSE <<"=", "\"">> \o p.attributes[<<"b">>] \o <<"\"">>
LOCAL Parameters ==
    {[name |-> <<"a">>, attributes |-> f] :
        f \in {<<>>} \union [{<<"b">>} -> {<<>>, <<"c">>, <<",">>, <<"c", ";">>}]}

ASSUME ParametersReadBack ==
    \A p \in Parameters, q \in Parameters :
        Http!parse_parameter_list(Written(p) \o <<",", " ">> \o Written(q)) = [error |-> FALSE, list |-> <<p, q>>]

\* A quoted text is read back unless it ends in a backslash, which then counts
\* for the quote; quotes inside it are written behind a backslash.
LOCAL Quoted(text) ==
    <<"\"">> \o FlattenSeq([i \in DOMAIN text |-> IF text[i] = "\"" THEN <<"\\", "\"">> ELSE <<text[i]>>]) \o <<"\"">>

ASSUME QuotedReadBack ==
    \A text \in Texts({"a", "\\", "\""}, 4) :
        LET read == Http!extract_quoted_string(Quoted(text), 1)
        IN  IF text = <<>> \/ text[Len(text)] # "\\"
            THEN (\A i \in 1..Len(text) - 1 : text[i] = "\\" => text[i + 1] # "\"")
                 => read = [text |-> text, at |-> Len(Quoted(text)) + 1]
            ELSE read.at = 1

\* Headers of one name are joined; a name that is no token throws and changes
\* none.
ASSUME HeadersJoined ==
    LET once == Http!process_header(Http!parser, <<"a", " ", ":", " ", "b">>)
        twice == Http!process_header(once, <<"a", ":", "b", " ">>)
    IN  /\ Http!get_header(twice, <<"a">>) = <<"b", ",", " ", "b">>
        /\ Http!process_header(once, <<"a", " ", "a", ":">>) = [once EXCEPT !.ec = "bad_request"]
        /\ Http!set_body(Http!set_body(once, <<"b">>), <<>>) = once

-----------------------------------------------------------------------------
(***************************************************************************)
(* What an application asks of a connection: sequences of legal calls.     *)
(***************************************************************************)
LOCAL Steps(n, first, Next(_)) ==
    LET reached[k \in 0..n] == IF k = 0 THEN {first} ELSE reached[k - 1] \union UNION {Next(c) : c \in reached[k - 1]}
    IN  reached[n]

LOCAL Started == [Http!connection(FALSE) EXCEPT !.m_internal_state = "PROCESS_CONNECTION", !.reads = 1]
LOCAL ReadCalls(c) ==
    {Http!handle_pause_reading(c), Http!handle_resume_reading(c)}
    \union IF c.reads > 0 THEN {Http!handle_read_frame(c)} ELSE {}

\* A connection that reads has a read under way; one that was paused stops
\* with the read that was.
ASSUME ReadingGoesOn ==
    \A c \in Steps(5, Started, ReadCalls) :
        IF c.m_read_flag THEN c.reads > 0
        ELSE c.reads > 0 => Http!handle_read_frame(c).reads < c.reads

\* Two reads share the buffer when reading is resumed before the pause was
\* noticed, or was not paused at all.
ASSUME ResumedTwice ==
    /\ Http!handle_resume_reading(Started).reads = 2
    /\ Http!handle_resume_reading(Http!handle_pause_reading(Started)).reads = 2

\* Headers are shaped in the right state alone, and never one side's by the
\* other: what a client asked for is not changed once it was sent.  A server never selects what was not asked for.
LOCAL Shaping(c) ==
    {Http!AppendHeader(c, <<"a">>, <<"b">>), Http!ReplaceHeader(c, <<"a">>, <<"c">>), Http!RemoveHeader(c, <<"a">>),
     Http!SetBody(c, <<"b">>), Http!set_status(c, 200),
     Http!add_subprotocol(c, <<"p">>), Http!add_subprotocol(c, <<",">>), Http!select_subprotocol(c, <<"p">>),
     [c EXCEPT !.m_internal_state = "READ_HTTP_REQUEST"], [c EXCEPT !.m_internal_state = "PROCESS_HTTP_REQUEST"]}

ASSUME ShapedByTheRightSide ==
    \A server \in BOOLEAN : \A c \in Steps(4, Http!connection(server), Shaping) :
        /\ c.m_is_server => c.m_request = Http!parser /\ c.m_requested_subprotocols = <<>>
        /\ ~c.m_is_server => c.m_response.m_headers \in {<<>>, Http!set_body(Http!parser, <<"b">>).m_headers}
        /\ c.m_internal_state # "USER_INIT" => \A d \in Shaping(c) : d.m_request = c.m_request
        /\ c.m_subprotocol = <<>>
        /\ Http!extract_subprotocols(Http!Joined(c.m_requested_subprotocols)) = c.m_requested_subprotocols

-----------------------------------------------------------------------------
(***************************************************************************)
(* The transport that is fed by hand.                                      *)
(***************************************************************************)
LOCAL Waiting(plan) ==
    Stream!async_read_at_least([Stream!connection EXCEPT !.plan = plan], 2, 3)
LOCAL Plan == <<[num_bytes |-> 1, len |-> 2], [num_bytes |-> 3, len |-> 3]>>
LOCAL Bytes(t) == FlattenSeq([i \in DOMAIN t.done |-> t.done[i].bytes]) \o (IF t.m_reading THEN t.m_buf ELSE <<>>)

\* Bytes are handed on in order and once, however they are fed; what no read
\* waits for stays with the caller, who is told how many were taken.
ASSUME FedInOrder ==
    \A n \in 0..9 : \A cut \in 0..n :
        LET all == [i \in 1..n |-> i]
            first == Stream!read_all(Waiting(Plan), SubSeq(all, 1, cut))
            second == Stream!read_all(first.t, SubSeq(all, first.taken + 1, n))
        IN  /\ Bytes(second.t) = SubSeq(all, 1, first.taken + second.taken)
            /\ second.t.m_reading => first.taken + second.taken = n
            /\ ~second.t.empty_call

\* A good stream never finds the handler gone; a bad one that had enough bytes
\* completes its read twice, and nobody is there the second time.
ASSUME BadStreamCompletesTwice ==
    /\ \A n \in 0..9 : ~Stream!read(Waiting(Plan), [i \in 1..n |-> i], FALSE).empty_call
    /\ Stream!read(Waiting(<<>>), <<1, 2>>, TRUE).empty_call

\* Two reads at once, a read of more than its buffer, and a read of nothing are
\* answered at once and leave the one that waits alone.
ASSUME RefusedReads ==
    LET t == Stream!async_read_at_least(Stream!async_read_at_least(Waiting(<<>>), 1, 1), 2, 1)
    IN  /\ t.m_reading /\ t.m_bytes_needed = 2
        /\ [i \in DOMAIN t.done |-> t.done[i].ec] = <<"double_read", "invalid_num_bytes">>
        /\ Stream!fatal_error(Stream!eof(t)) = Stream!eof(t)
        /\ Stream!eof(t).done[3].ec = "eof"

\* A list of buffers is written as far as the first that fails, whole by a
\* handler that takes lists, and nowhere without a stream or a handler.
ASSUME ListsWritten ==
    \A failing \in 0..3 :
        LET bufs == <<<<1>>, <<2, 3>>, <<4>>>>
            some == FlattenSeq(SubSeq(bufs, 1, IF failing = 0 THEN 3 ELSE failing - 1))
            to(t) == Stream!async_write_list(t, bufs, failing)
        IN  /\ to(Stream!register_ostream(Stream!connection)).out = some
            /\ to(Stream!set_write_handler(Stream!connection)).out = some
            /\ to(Stream!set_vector_write_handler(Stream!connection)).out \in {<<>>, FlattenSeq(bufs)}
            /\ to(Stream!connection).ec = "output_stream_required"
            /\ (to(Stream!set_write_handler(Stream!connection)).ec = "none") <=> failing = 0

-----------------------------------------------------------------------------
(***************************************************************************)
(* Endpoints.                                                              *)
(***************************************************************************)
LOCAL TransportCalls(e) ==
    {End!init_asio_external(e), End!init_asio_internal(e), End!stop_listening(e), End!destroy(e)}
    \union {End!listen(e, failing) : failing \in {"none", "open", "bind"}}
LOCAL Listening == End!listen(End!init_asio_internal(End!endpoint), "none")

\* An endpoint listens with an open acceptor, and one that failed to is ready
\* to try again.
ASSUME ListensOpen ==
    \A e \in Steps(5, End!endpoint, LAMBDA s : TransportCalls(s) \ {End!destroy(s)}) :
        /\ e.m_state = "LISTENING" <=> e.m_acceptor = "open"
        /\ e.m_state = "UNINITIALIZED" <=> e.m_io_service = "none"
        /\ e.m_state # "UNINITIALIZED" => e.m_external_io_service = (e.m_io_service = "external")
        /\ End!destroy(e).freed = IF e.m_io_service = "own" THEN {"own"} ELSE {}

\* The variant of init_asio that returns its error clears the flag of an
\* endpoint that was given its io_service: the destructor then destroys what
\* belongs to the application.
ASSUME SecondInitDestroysTheirs ==
    End!destroy(End!init_asio_internal_ec(End!init_asio_external(End!endpoint))).freed = {"external"}

\* One accept is under way while a server listens, and none is left, nor
\* anything to wait for, once it has stopped and heard that its accept was
\* canceled.
LOCAL Server == End!start_accept([End!core(TRUE) EXCEPT !.transport = Listening], FALSE)
LOCAL Accepts(c) ==
    (IF c.transport.accepting = 0 THEN {} ELSE
        IF c.transport.m_acceptor = "open" THEN {End!handle_accept(c, End!Newest(c), "none", FALSE)}
        ELSE {End!handle_accept(c, End!Newest(c), "canceled", FALSE)})
    \union {[c EXCEPT !.transport = End!stop_listening(@)]}

ASSUME OneAcceptUnderWay ==
    \A c \in Steps(5, Server, Accepts) :
        /\ End!is_listening(c.transport) => c.transport.accepting = 1
        /\ c.started \intersect c.terminated = {}
        /\ ~End!is_listening(c.transport) /\ c.transport.accepting = 0 => End!RunReturns(c.transport)

\* A server that listens again before it heard of the canceled accept has two
\* loops, for good.
ASSUME TwoAcceptLoops ==
    LET again == [Server EXCEPT !.transport = End!listen(End!stop_listening(@), "none")]
        both == End!handle_accept(End!start_accept(again, FALSE), 1, "canceled", FALSE)
    IN  both.transport.accepting = 2

\* A connection keeps the settings it was made with.
ASSUME SettingsAreCopied ==
    LET c == End!set_handler(End!get_connection(End!set_timeout(End!core(FALSE), "pong"),
                                                [valid |-> TRUE, secure |-> TRUE], TRUE, FALSE), "open")
    IN  c.connections[1]["pong"] = 1 /\ c.connections[1]["open"] = 0 /\ c.set["open"] = 1

\* A call on a connection that is there is not made when its error code holds
\* the error of an earlier call.
ASSUME StaleErrorStopsCall ==
    LET c == End!get_connection(End!core(FALSE), [valid |-> TRUE, secure |-> FALSE], FALSE, FALSE)
        gone == End!Call(c, "send", 2, "none", "none")
    IN  /\ gone.ec = "bad_connection" /\ gone.calls = <<>>
        /\ End!Call(gone, "send", 1, gone.ec, "none").calls = <<>>
        /\ End!Call(gone, "send", 1, "none", "none").calls = << <<"send", 1>> >>
=============================================================================
