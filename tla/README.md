# A TLA+ model of BigBoss-Bot

BigBoss-Bot is a Discord music bot written in C++ on PPL tasks, websocketpp and
winsock. The bot itself is mostly `src/entry.cpp`: a *gateway client* that
receives chat commands and voice events, and one *voice client* per guild that
keeps a song queue, a voice websocket, a UDP socket and a player. Handlers, the
pusher, the player's sender and the heartbeats run on threads of their own and
share plain fields; three critical sections protect some of them. Both clients
talk through `src/websocketpp/`, a copy of the library that is built with the bot
and makes up most of the repository. This directory holds TLA+ modules of the
bot's concurrent core and of the library, TLC configurations for small
instances, and TLAPS proofs for instances of any size.

## 1. Inventory

| component | state | operations | talks to | hard because |
|---|---|---|---|---|
| Song queue and pusher task (`entry.cpp` 153-224, 576-597, 709-778) | `selfqueue`, `state`, `loop`, `nowplaying`, `is_pusher_locked`, `pusher_lock`, `running_lock`, `first_time`, an idle `counter` for each pusher | the pusher's loop, `lockPusher`, `unlockPusher`, `clear`, `_loop` | commands push songs and lock the gate; opcode 4 unlocks it; `play()` | the pusher reads size, gate, flag and front one after the other while others change them; a `break` leaves a lock held; two `start`s may each make a pusher |
| Player (782-1017, `FFmpegAudioSource.hpp`, `udp.hpp` 127-136) | `buffer`, `run_timer`, `running`, `p_token`, `buffer_lock`, the RTP sequence number | encoder loop, sender task, speak task | the pusher calls it; `on_close` cancels it; the sender uses the UDP socket | lifetime of `buffer`; the end of the song against the sender's test; cancellation as a 500 ms pulse; an error path that keeps a lock |
| Voice session (268-315, 377-570, 673-780) | credentials, `key`, `ssrc`, `connect`, `state`, `token`, `first_time`, heartbeat task `t` | `start`, opcodes 8, 2, 4, 6, IP discovery, `on_close`, heartbeat | gateway starts it; pusher and player watch it | an old connection is not stopped before a new one is started; `on_close` resets what `start` has set; one socket for all sessions |
| Gateway events (1192-1794) | `voicegroup`, `usergroup`, `ready`, `seq_num` | MESSAGE_CREATE, READY, VOICE_STATE_UPDATE, VOICE_SERVER_UPDATE | everything above | each message is a PPL task: no order between two events, and every use looks an entry up anew |
| Search cache (41-115, 1400-1427, 1432-1500) | `mainqueue` of `querryqueue` | search, print, choice, reset | queue | a choice resets whichever entry is there by then |
| Gateway link (1126-1190, 1795-1859, `utils.hpp` 356-367) | `token`, `cts`, heartbeat task `t`, `is_websocket_restart` | hello, heartbeat, acknowledgement, restart, resume, reconnect | Discord | restart renews the token after the close that makes the next hello come |
| Inactivity disconnect (764-776, 1817-1835) | `disconnect_queue` | pushed by pushers, drained by acknowledgements | both clients | no lock, no second look at the player, endless retry |
| UDP client (`udp.hpp`) | socket, addresses, winsock's count | `start`, `send`, `ipDiscovery`, `cleanup` | player, voice session | port put together from signed bytes; cleanups without starts |
| Chat words, HTTP calls, payloads (`entry.cpp` 1289-1690, `utils.hpp`, `embed.hpp`) | two settings | command dispatch, `stoi`, REST calls, url and HTML escapes | Discord, YouTube | prefixes, widths, partial failure |
| websocketpp: connection over asio (`impl/connection_impl.hpp`, `connection.hpp`, `transport/asio/connection.hpp`) | session state, internal state, timers, operations, write queue and flag | every handler of both roles, `send`, `ping`, `close`, `terminate` | its handlers call the two clients | callers on threads of their own against the strand; every stage races its deadline; `terminate` takes no lock |
| websocketpp: frames and heads (`processors/hybi13.hpp`, `frame.hpp`, `close.hpp`, `utf8_validator.hpp`, `http/`) | what has been parsed so far | `consume`, `prepare_*`, handshake validation | connection | reads end anywhere, also inside a header, a masking key or a code point |
| websocketpp: endpoints, older protocol, extension, digests | acceptor and io_service, offers, digests | `listen`, `start_accept`, `init_asio`, negotiation, md5, sha1, base64, uri | connection | sequences of legal calls nobody wrote a test for; boundaries |
| Audio sources from files, log, `voiceclient.hpp`; websocketpp's logging, pools, configurations, stub transport | - | - | - | unused, or output, constants and accessors only |

What makes each of them correct:

- *Queue and pusher*: a queued song is played once the session is up; the song
  removed is the one that was played; the queue's front is never used when it is
  empty; the gate holds songs back only until the next session.
- *Player*: the whole song is sent, in order, and nothing uses its buffer
  afterwards; cancellation and errors end it; `running` tells the pusher and the
  close handler the truth.
- *Voice session*: no connection identifies itself with credentials of an older
  session; `on_close` waits only for what exists and ends; heartbeats of closed
  connections end; a discovery loses its socket to a close only, never to the
  session that sets up the socket beside it. (Any failure of WSAStartup, `socket`
  or `recvfrom` ends the program.)
- *Gateway events and search cache*: all commands and events of a guild meet one
  client; it is started with the bot's session; a choice gives the song the user
  saw, once.
- *Gateway link*: one connection at a time, and one more for each further call
  that the library makes of `on_close`; each with a heartbeat that the next
  restart can end; a restart ends and leaves a token that is not canceled.
- *websocketpp connection*: the user hears of open, fail and close in matching
  pairs; a queued frame always has somebody who will write it; the state only
  advances; handshakes and closes end though the peer is silent.
- *websocketpp parsers*: what comes out does not depend on how the bytes arrive;
  what one side sends the other receives.

## 2. Modules

| module | models | composed with |
|---|---|---|
| `Pusher` | queue, gate, pusher loop and every thread that touches them | uses `play()` as the four actions of `Playback` |
| `Jukebox` | the queue of a guild as its users see it | implemented by `Pusher` (`JukeboxSpec`) |
| `Playback` | what `play()` promises about `running` | implemented by `Player` (`PlaybackSpec`) |
| `Player` | the inside of `play()`: encoder, sender, close handler | refines `Playback` |
| `VoiceSession` | overlapping voice websockets of one guild: `start`, opcodes 8, 2, 4, discovery, heartbeat, `on_close` | its `SetState`/`SetConnect` precede `Pusher`'s `unlockPusher`; its `RenewToken` contains `Player`'s close handler |
| `GatewayEvents` | the tasks of one guild's and one user's messages over `mainqueue`, `usergroup`, `voicegroup` | its `Start` is `VoiceSession`'s `start`, its queues are `Pusher`'s `selfqueue` |
| `GatewayLink` | the gateway's connections, hellos, heartbeats, restarts, reconnection | stands alone; its acknowledgements are tasks of `Pusher` |
| `AsioTransport` | operations and deadlines of one connection | extended by `Connection` |
| `Connection` | one websocketpp connection in either role | what `VoiceSession` and `GatewayLink` take as "a connection opens, is lost, is closed" |
| `ByteStream`, `Frame`, `Utf8`, `Close`, `Hybi13`, `HttpHead` | reads, frame layout, validation, close codes, the RFC 6455 processor, heads | `Wire` |
| `FrameStream` | what taking frames out of a stream promises, however it is cut | implemented by `Wire` (`FramesSpec`) |
| `Wire` | a connection's reading, from the head to the last frame | refines `FrameStream` |
| `Deflate`, `Words`, `Md5`, `Sha1`, `Base64`, `Uri`, `Hybi00`, `HttpText`, `HttpApi`, `Iostream`, `AsioEndpoint`, `Endpoint` | computations of the library, and calls on one object as functions on its fields | `LibraryChecks` |
| `Udp`, `HttpCalls`, `Chat`, `Payloads` | computations of the bot | `BotChecks` |
| `LibraryChecks`, `BotChecks` | what those promise, as named assumptions over bounded inputs | evaluated by runs `wire` and `events` |
| `MCPusher`, `MCGatewayEvents`, `MCWire` | instances for TLC (the other modules need none: their bounds are in their .cfg files) | |
| `PusherProofs`, `PlayerProofs`, `VoiceSessionProofs`, `GatewayLinkProofs`, `GatewayEventsProofs`, `ConnectionProofs`, `Utf8Proofs`, `WireProofs` | theorems | |

`Pusher` and `Player` compose through `Playback`: the actions `StartSong`,
`SenderFlips`, `PlayReturns` and `PlayThrows` of `Pusher` do to `running` what
`Start`, `Flip`, `Return` and `Throw` of `Playback` do, and `Player` is shown to
do nothing else to it. Each module abstracts the others to what they do to the
state it shares with them: `Pusher` has `OnClose` as the reset of `state` and
`loop`, `Player` has sessions as `OpenSession` and `Close`. The bot's modules use
of the library that a connection is opened, fails or is closed, that `close` and
`send` throw on one that is not open, and that handlers of one connection do not
overlap; `Connection` shows where each comes from. It also shows that a close
handler may run twice. `GatewayLink` takes that up, because the gateway's handler
makes a connection each time. In `Pusher` and `VoiceSession` a second call for a
connection would do what the close of one more session, lost before its hello,
does; their theorems hold for any number of sessions.

### Pusher

One action is one access to shared state, because every thread may run between
two of them. A section of `pusher_lock` or `running_lock` is one step; what
remains of the lock is whether it was left behind (`"leaked"`), which the two
`break`s at 716 and 721 can do. `start` tests and resets `first_time` (701-703)
without a lock, on the task of each VOICE_SERVER_UPDATE, so two of them may each
make a pusher: there is a set `Pushers`, and what they do to each other is part
of every property.

| variable | in the code |
|---|---|
| `selfqueue`, `state`, `loop`, `nowplaying`, `running`, `is_pusher_locked`, `first_time` | the fields of `voiceclient` |
| `pusher` | program counter of each run of the lambda at 709-778 |
| `counter` | the idle count of each |
| `task` | program counter of each handler thread, with the song it will queue |
| `opening`, `described` | voice websockets before and after opcode 4 |
| `placed`, `serverUpdate` | Discord's record of the bot's channel, a pending VOICE_SERVER_UPDATE |
| `disconnect_queue` | this guild's entries in the gateway's queue |
| `cleared`, `crashed` | history, read by properties; `crashed` stops the model at an access to an empty `std::queue`, or when the exception of a task nobody observes ends the program (`"task"`) |

`Poll` (the size), `CheckSession` (`state`), `CountIdle`, `CheckGate`,
`CheckRunning`, `StartSong`, `PopSong`, `WaitPlayer` and `Requeue` are the pusher's
loop in order. `RequestSong`, `lockPusher`, `PushSong`, `SendVoiceState` are `?p`
(1297-1337), which the selection of a search result repeats; whether the user's
channel is the one the bot believes to be in, and so whether the pusher is locked,
is a choice, and so is the channel that is sent. `Join`, `Leave`/`Clear`/`SendLeave`
and `ToggleLoop` are the other commands; a send that throws ends its handler.
`VoiceServerUpdate`, `TestFirstTime` and `Launch` are `start`. `SessionDescription`,
`SetReady` and `unlockPusher` are opcode 4. A pusher whose `play()` threw lives on
in the task that a field holds; assigning another one to the field, or not being the
one it holds, ends the program. `HeartbeatAck`, `AckCheck`, `AckSend` and `AckPop`
are the drain of `disconnect_queue` (1817-1835).

`Jukebox` is what all of this amounts to for the users of a guild: songs are taken
from the front in the order of the requests, the song that is removed is the one
that was played, it comes back behind the others only under ?loop, a close keeps
it, and only a ?leave loses songs. `J` in `Pusher` maps the pusher's place to
the stage a user sees (`Stage`), `selfqueue`, `nowplaying` and `cleared` to
`queue`, `song` and `dropped`; sessions, gate, flags, tasks and the idle count are
hidden. A removed song may be another than the one played in two cases, and
`Jukebox` says so: after a ?leave under it (`dropped`), a song requested since
then is at the front and is removed unplayed; and once two pushers share the
queue (stage `"shared"`), all that is left of the promise is that songs are taken
from the front and put back at the end.

### Playback and Player

A frame is its number in the song, a packet the frame in it. `encoder` is the
program counter of the pusher's thread inside `play()`, `sender` that of the task
at 876-913, `closer` that of the part of `on_close` that cancels the player
(548-569). The sender's loop condition is evaluated one operand at a time
(`SenderFirstTest`, `SenderSecondTest`), and its error path leaves `buffer_lock`
behind. At a full buffer the encoder sleeps once (919-921) and goes on, which no
property sees. `Skipped` keeps the width of `_sequence` as `SeqMod`. The module is
one pusher's `play()`: two at once, which share `buffer` and the flags, are not
modelled.

Three behaviours of the model that contradict what the code's own messages and
comments suggest are allowed for by its properties: "Player is not running" may
be logged, and the player not cancelled, in the middle of a song, because the
sender lowers `running` between bursts; behind "UDP error, stop player" the
sender returns with `buffer_lock` held and the encoder waits for it; and "skip
first 10 frames" (970) skips nine at the start, and ten more whenever the 16-bit
sequence number wraps, about every 22 minutes of a song. `FramesInOrder` says so
in numbers without a width: `FrameAfter` names the one frame that may follow
another, so that a frame missing anywhere else violates it.

### VoiceSession

Calls of `start` are numbered in the order in which they set `_token` (679): `c`
is the call, the values it sets, its connection and its key. `start` fills in the
credentials one field at a time, so `SetToken` and `SetSession` are steps of their
own, with those of another call between them; `guildid` and `user_id` are the same
in every call, and `endpoint` is not read again. `starting`, `ws`, `hello`, `talk` and
`heart` are the program counters of `start`, of the connection with its `on_close`,
of the task of opcode 8, of those of opcodes 2 and 4, and of the heartbeat.
`overlap[c]` is a history of the calls that stood between the two assignments when
`c` made the first.

Opcode 8 is four steps: `ReadSession` and `Identify` put the payload together
(`sentSession`, `sentToken`), `MakeHeart` makes the heartbeat task, `AssignTask` puts
it into `t`. Opcodes 2 and 4 and other connections' `on_close` go on in between. The
fields of the voice client (`token_`, `session`, `key`, `socket`, `state`, `connect`,
`canceled` for `token`, `t`, `first_time`) exist once, and every session writes
them: that is the point of the module. Opcode 2 makes the socket (`StartUdp`; one
that was there is not closed), and `Discover` waits for a reply on the socket it
began with (`receiving`). `ended` says what ended the program: WSAStartup or
`socket()` that failed (`StartUdpFails`), any failure of `recvfrom`
(`ExitProgram`), or `wait()` on a `t` that was never assigned (`AwaitHeart`).
`on_close` empties `_token` before `session` (`WipeToken`, `WipeSession`), looks at
`connect` (`CancelHeart`), waits, and closes the socket and renews the token
(`RenewToken`). `Open`, `Lose` and the order in which opcodes arrive belong to
Discord and the library; opcodes and `on_close` need an io thread
(`IoThreadFree`), which `on_close` occupies while it waits for a heartbeat.
`MaxTasks` bounds the handlers at work at the same time.

### GatewayEvents

`on_message` makes a task of every message; a task has a place in its handler
(`at`), and each step is one use of a map: `find` and `create` of the guild's
client (1299, 1537, 1777), the new entry of a search, its data, the message that
shows it (1400-1427), a choice with its two resets (1432-1500), the replacement
of a `userinfo` and the values filled in afterwards (1708-1730), the five looks
for a session id, the channel, and `start` (1751-1792). Entries are pointers that
later messages replace, so `results` and `clients` keep all that were made and
`mainqueue` and `voicegroup` point into them; every use looks the pointer up
again. A search and the message that shows its results have the number of the
message that asked. `overlapping` is a history of which things two tasks did at
the same time; the properties name these overlaps as the only exceptions. There
is one guild and one user beside the bot: guilds and users share nothing but the
maps, whose rehashing under a reader is undefined and left out. HTTP calls
succeed, fail or throw. An exception in a task nobody observes ends the program;
here it ends the task and the others go on, which only adds behaviours.

### GatewayLink

Connection `c` also names its hello and its heartbeat task. `Terminate` ends a
connection and leaves a call of `on_close` to be made, or two when the deadline of
the shutdown raced its end (at most `MaxAgain` times); each `OnClose` asks for a
connection. `again` counts the calls beside a connection's first. `utils::restart`
is taken apart line by line: `Cancel` (358), `WaitHeart` and `HeartOver` (359),
`CloseTest` and `Close` (361-362), `NewSource` (363) and `GetToken` (364), since
opcode 7, opcode 9 and the owner's command run it on tasks of their own and share
`cts`, `token` and `t`. A cancellation source is named by the restart that made it.
`close()` tests the state and sets it to closing under a lock that `terminate` does
not take, so a connection terminated in between is revived and terminated again: one
more call of `on_close`. Two exceptions are possible, `wait()` on a task that was
never made and `close` on a connection that is not open; nobody observes them, so
they end the program (`Running`). A websocket that cannot be opened has no handler
(`"failed"`), so the bot stays offline. The flag is tested before the resume and
reset after it, in steps of their own (`TestFlag`, `Identify`, `ResetFlag`).

### AsioTransport and Connection

`op` says of each asio operation whether it is idle, pending or canceled, `timer`
of each deadline whether it is off, armed, expired under somebody who had just
looked at the clock (`Racy`), or over. An operation ends when its handler runs,
with any result of `Results`: a canceled one may still succeed. `Connection` has
one action per handler: resolve, connect, the exchange with a proxy, the TLS
handshake (`handle_post_init`), the request and its answer in either role, the
write and read loops, the timeouts, the shutdown. Handlers of one connection run
one at a time on its strand (`StrandFree`); the threads that call `send`, `ping`
and `close` do not, and their calls are taken apart at their locks: test of the
state, preparation, push (`EnterCall`, `SetPongTimer`, `SetClosing`, `Push`). The
same steps are taken by the strand itself when it answers a ping or a close
(`io`). `terminate` decides from the state alone, without the lock, what
`handle_terminate` will tell the user; a second termination of a connection that
a late `close()` revived is kept apart (`shutdown2`, `revived`).

Details kept because they matter: the handshake timer is dropped with the open
handler, but `terminate` does not cancel the ping timer; after a protocol error
the connection stops reading, so the peer's close is never read; a data message
that comes while closing is dropped. Left out: the SNI failure of TLS's `pre_init`,
`interrupt`, the failure of extension negotiation (no extension is configured),
and `pause_reading`/`resume_reading`, which are in `HttpApi`. Whether there is a
proxy is a choice. A call before the connection is open only returns an error.
`needs_writing` is computed with the push that precedes it, under the same lock.
The configuration is `core_client`'s: 5 s deadlines, `drop_on_protocol_error` and
`silent_close` off.

### Wire and its parts

`stream` is all that the peer sends; each read takes any number of bytes up to
`MaxRead`. `HttpHead` parses the head out of the reads (a line of text is one
symbol above 255, so that its end and its meaning are told apart and its letters
are not), then `Hybi13` takes frames: basic header, extended header, payload in
pieces with the key turned, fragments with control frames between them, the
UTF-8 validator (the code's own table), close codes. `FrameStream` is the
abstract view: the stream is a sequence of frames, and taking the next one whole
is all that happens. Payload sizes 125 and 65535 and the head's limits are
constants, so that all three length forms fit in a few bytes; `SizeT` is the number
of values of `size_t`.

The limit on messages is computed as the code does. A continuation is refused when
what is kept plus what it declares exceeds the limit, and that sum is taken in
`size_t` (hybi13.hpp 457), where it wraps: a continuation that declares almost
`SizeT` bytes passes, and the connection waits for that many. `FrameStream` says the
same of the whole stream (`TooBig`): a message is refused above the limit, unless
the sum wrapped. That is less than the comment on `set_max_message_size`
(connection.hpp 565-567) promises. Nor does a
text message always end on a code point, as the comments at hybi13.hpp 512-514 and
536 say: the check is made for the frame that ends the message, when that frame
itself says TEXT. Fragments end with a CONTINUATION, and the text may then be cut
short within its last code point; `TextIsAtWorstCutShort` says where each holds.

A script that is `formed` comes from `sends`, the calls of the peer: `Prepared` is
what `connection::send` and the control calls make of one with `prepare_data_frame`
and `prepare_control`, `Written` the bytes of the first `k` of them as `write_push`
queues them, `Joined` the messages that they add up to. `AllProper` is what the
protocol asks of the caller: fragments in order, each piece of a text message
text by itself, no message above the reader's limit. Those calls are the reference
`ReceivesWhatWasSent` compares with; the other scripts are free bytes.

### Library computations (LibraryChecks) and bot computations (BotChecks)

These are functions; where the code changes an object, from its fields to its
fields. Their promises are named `ASSUME`s that TLC evaluates, over all inputs up
to a bound or all sequences of calls up to a length, whenever run `wire` or
`events` starts. What they show beside what one would expect:

- `resume_reading` when reading was not paused, or before the pause was noticed,
  starts a second read; `connection.hpp` 738 says that nothing is changed then.
- A second `init_asio(ec)` clears `m_external_io_service`, so the destructor
  deletes the application's io_service; listening again before the canceled
  accept was heard leaves two accept loops; an error code that is not cleared
  stops a later call on the endpoint.
- A bad istream completes a read twice. `base64_decode` stops silently at a
  character that is not its own. `uri::str()` drops the brackets of an IPv6
  address. `set_body` and `set_status` are not limited to servers.
- A declined `server_max_window_bits` answers 15, 265 is taken for 9, a failed
  offer leaks its settings, `client_max_window_bits` may be answered to a client
  that did not offer it; but no combination makes zlib fail.
- hybi00 hashes uninitialised bytes for a short key; its error is told once.
  `parse_parameter_list` returns true on an error.
- The discovered port is wrong for a low byte above 127. A close before opcode 2
  cleans winsock up without a start. Failed HTTP calls leak handle and headers,
  replies are never freed, a NULL title is undefined behaviour, a failed ping is
  told as 1 ms, and a byte below 16 is URL-encoded with one digit.
- A word that begins with `loss` or `offset` is that command and loses a
  character; before READY every message counts as a mention; 65536 sets the offset
  to 0 and longer numbers throw; the quoted null of `disconnect` is no leave.

## 3. Runs

| run | configuration | shows |
|---|---|---|
| `pusher` | 2 songs, 2 handler threads, 2 pushers, every command but `?loop` | a pusher alone stops only at a locked gate, two also at each other's song, each with its lock; after a stop at the gate nothing new is played; an empty queue is met only behind a `?leave` or another pusher; refinement of `Jukebox` |
| `pusher_live` | 1 song, 2 threads, 1 pusher, `?p` and `?loop`, `IdleLimit` 2, one disconnect | a queued song starts, an idle session is reported, the gate is served, each up to the exits the property names |
| `pusher_gate` | violation | `LockedUntilNextStart`, see findings |
| `pusher_inactive` | violation | `InactiveWhenDisconnected`, see findings |
| `player` | song of 7 frames, 2 skipped, `SeqMod` 4 | lifetime of `buffer`, order and completeness of the song, refinement of `Playback`, the song ends |
| `voice` | 2 sessions, 2 handlers at a time | what a connection identifies itself with is never older than its call of `start`, but for a call that overlapped it; `on_close` waits only on tasks that exist, or ends the program while a hello is under way; a discovery loses its socket to a close only; `on_close` and heartbeats of closed connections end; about 1257000 states |
| `voice_key` | violation | `StateMeansKey`, see findings |
| `gateway` | 2 connections, 2 restarts, 1 doubled shutdown | `cts` and `token` end in agreement, a token is canceled only while a restart is under way, one connection and one for each call of `on_close` that was one too many, and a restart is stuck only behind another one; about 1470000 states |
| `events` | 2 tasks, 5 messages of any kind | a choice queues what the user saw, once; one client per guild; a client starts with a session; `BotChecks` |
| `connection` | either role, a pinger and a closer, 2 frames, every stage and deadline | matching handlers, frames find a writer, the state only advances, handshakes and closes end; about 526000 states |
| `connection_twice` | violation, one closer | `CloseHandlerOnce`, see findings |
| `wire` | heads of every shape, 3 sends, 2 odd frames, reads of 1 to 5 bytes | refinement of `FrameStream`, what was sent is received, text in one frame is UTF-8 and fragmented text is but for its last code point, the verdict on a head does not depend on the reads; `LibraryChecks` |

Runs switch deadlock checking off where the program really may stop: a leaked
lock, an exception, an empty queue, a Discord that sends nothing more, a message
bound, or a closed connection.

### Bounds

- `Songs` 2: enough to tell the song that was played from the one that is
  removed. `Tasks` 2: two handlers overlap with each other and the pusher; every
  race found needs two actors and the pusher.
- `Pushers` 2 in `pusher`: what start() makes when its test is raced, and what two
  do to each other. One in the other runs: their question is what a single
  pusher does, and a second one only ends it sooner.
- `MaxQueue` 2: an empty, a singleton and a longer queue. The bound is in the
  guards of requests and ?loop. `?loop` is left out of `pusher`, where two pushers
  with it exceed the time of a run: the same configuration with `?p`, `?leave`
  and `?loop` alone has 10.7 million states and passes, and the theorems cover it.
- `IdleLimit` (55555 in the code) 1 or 2: the count matters only as below, at or
  past its limit. `MaxDisconnects` 0 in `pusher`, which keeps the acknowledgement
  out of the largest run, and 1 in the others.
- `MaxConns` of `Pusher` 1; overlapping connections are the business of
  `VoiceSession`, where it is 2: a session and its successor. Two is the least for
  which fields of one are overwritten or emptied by another; the theorems hold
  for any number. `MaxTasks` 2 keeps the run short: without that bound the safety
  properties hold over 4.9 million states.
- `Frames` 7 with `SeqMod` 4 and `SkipFrames` 2: the sequence number wraps inside
  the song, so frames are skipped again after two that were sent, and two more
  follow. The real values are 10 and 65536.
- `MaxConns` 2 and `MaxRestarts` 2 of `GatewayLink`: a connection and the one that
  replaces it, and two restarts of the same or of both; `MaxAgain` 1: one shutdown
  whose handler is called twice. A third connection exceeds what TLC finishes in
  minutes; the theorems cover any number.
- `WholeKey` 2: a key is 32 bytes copied one at a time; two parts already show a
  key that was cut or mixed.
- `MaxMessages` 5 and `Tasks` 2 of `GatewayEvents`: two searches, two choices and
  one more event, two at a time; `MaxPolls` 2 of 5 looks. The theorems hold for
  any number of tasks, messages and looks.
- `Connection`: one pinger, one closer; a sender takes the steps of a pinger
  without its timer, so it is left to the theorems. `MaxFrames` 2: a frame and
  what follows a close or a protocol error. `Racy` names the timers that may
  expire between the look at the clock and the cancel: the shutdown's, whose race
  is the one that calls a handler twice. The theorems hold for any set of them.
- `Wire`: 4 and 6 for 125 and 65535, `m_max_message_size` 8, `SizeT` 64 (with
  continuations whose size just wraps and just does not), heads of 60 bytes;
  each length form, limit and fragment boundary is met within reads of 1 to 5
  bytes.

### Fairness

Weak fairness is assumed of threads that the operating system schedules, one
condition per thread: the pusher, each handler task, encoder, sender, close
handler, heartbeat, and io thread. It is not assumed of users, of Discord, of the
network, nor that a song ends (`PlayStep` in `Pusher` is unfair; that a song ends
is `PlayEnds`, checked on `Player`). `VoiceSession` assumes it of heartbeats and
io threads alone, `GatewayLink` of heartbeats and restarts. A lock that was left
behind disables the step that needs it, so fairness does not help a blocked
thread. `Connection` assumes that timers expire and that a call that was begun
goes on, on the strand and on other threads; the network owes nothing, and an
operation may stay pending for ever: `HandshakeEnds` and `ClosingEnds` hold
because of the deadlines alone.

### Findings

Each one is a statement the repository makes of itself that a run refutes.

- `connection_twice`: "The close handler will be called exactly once"
  (`connection.hpp` 66): `terminate` looks at the state and sets it without its
  lock, so a `close()` that has tested it sets a terminated connection to closing,
  and it is terminated, and its handler called, again. The comment at 1716 of
  `connection_impl.hpp` asks whether this needs a mutex. The bot's close handler
  opens a new connection each time it runs.
- `pusher_gate`: `lockPusher` says "lock the pusher until next start"; a pusher
  that polls before `unlockPusher` finds the gate locked, leaves its loop with
  `pusher_lock` held (716), and the unlock blocks for ever.
- `pusher_inactive`: the message about leaving for inactivity can be followed by
  the disconnection of a bot that is playing: entries of `disconnect_queue` are
  not looked at again when they are acted upon.
- `voice_key`: "set true: when encrypt key received": an `on_close` between the
  copy of the key and the assignment leaves `state` set over an empty key.

Three more statements are not kept. They have no run; the property that is
checked says what holds instead:

- hybi13.hpp 536, "ensure that text messages end on a valid UTF8 code point"
  (512-514 alike): not when the last frame is a CONTINUATION
  (`TextIsAtWorstCutShort`).
- connection.hpp 565-567: a message above the maximum size fails the connection; not
  when the size a continuation declares makes hybi13.hpp 457 wrap (`FramesSpec`).
- entry.cpp 970, "skip first 10 frames": nine, and ten more at each wrap of the
  sequence number (`FramesInOrder`).

## 4. Proofs

All theorems are about `Spec`, without fairness, for every value of the constants.
They assume only the named assumptions of the modules: sizes are natural numbers
(positive where a modulus or limit is), `None` is not a song, channel or entry,
`Commands` holds known commands, the threads that send, ping and close are different
ones, the limit on messages is a value of `size_t`, and a script is symbols followed
by bytes. TLC evaluates these assumptions in every run. `FormedAssumption` of `Wire`
is a definition in this form: a script may call itself `formed` only if its bytes
are what calls of the library's own functions write (`Written`), and those calls
follow the protocol (`AllProper`). The theorems of `WireProofs` alone have
hypotheses, `CodeSizes` and, for `SentIsReceived`, `OfFour(m_max_message_size)`;
they are explained there.

- `PusherProofs`. `TInv` is the type invariant with `RequestsNameSongs` (a task
  about to queue has a song, without which the queue's type is not inductive).
  `QInv` adds what the properties need: `RunningIsPlaying` (the flag is up only
  while some `play()` is under way, or after one threw; a pusher at its test of
  the flag is at neither, so one alone never takes the second `break`),
  `FrontIsHeld` (from the size test to the pop, a single pusher's front is there
  and is the song played, unless a `?leave` came in between) and the invariants
  themselves. Theorems, for any number of pushers: `TypeCorrect`, `QueueCorrect`,
  `StopsOnlyAtTheGate`, `EmptyAccessNeedsLeave`, and the action properties
  `RemovesThePlayedSong` and `StoppedForGood`. What holds of one pusher only says
  so (`Several`); `StoppedForGood` holds of all of them, because the lock a pusher
  left with keeps every other one from passing the gate. `ImplementsJukebox`
  maps each step to one of `Jukebox` or a stutter: the second pusher's `Launch` is
  `Share`; while there is one, an access to an empty queue is a `Lose`, allowed
  because `FrontIsHeld` puts a ?leave before it, and the song that is put back is
  a song because of `SongIsNamed` (`nowplaying` names one from `StartSong` on, so the
  code's test against `""` always passes).
- `PlayerProofs`. `TInv` ties the sender's place to the encoder's (no sender while
  nothing is played, a frame in the buffer when one is being sent), `TimerIsLast`
  says that the encoder queues nothing after it unset the timer, `OInv` that the
  last frame sent, those in the buffer and the one being encoded follow each
  other: `NextNumber` and `FollowsAfter` show that the code's test of a number that
  wraps (`Skipped`) leaves exactly the frames out that `FrameAfter`, which does not
  wrap, does. Theorems: `TypeCorrect`, `BufferIsNotUsedAfterDelete`,
  `SongIsSentToItsEnd`, `SendsInOrder`, and `ImplementsPlayback`, which maps each
  step of `Player` to a step of `Playback` or a stutter.
- `VoiceSessionProofs`. `SessionInv` adds `NotYetStarted` (a call of `start` that
  has not come has left no trace), `LatestOrNone` (`_token` is the latest call's or
  none, although any session's close may empty it), `StillToSet` and `SessionSince`
  (`session` is not older than a call that has set it, unless one that it overlaps
  with came late), `Unconnected`, `HelloFirst` (whatever sets `connect` has a
  hello behind it, and a hello that is done has assigned a task, so `on_close`
  finds `t` unassigned only while a hello is under way), `PusherFirst` and
  `ClosedByASession` (a discovery whose socket is gone has a session that closed
  it). Theorems: `SessionCorrect`, `TypeCorrect`, `IdentifiesForward`,
  `AwaitsATask`, `PusherIsMade`, `SocketGoneBehindAClose`.
- `GatewayLinkProofs`. `LinkInv` adds `SourceMade` (a source is installed or
  canceled only after its restart made it, so the one a restart installs is fresh),
  `CanceledSource` (a canceled `cts` has a restart before its renewal, or one
  that threw), without which `CanceledByRestart` is not preserved by `GetToken`, and
  `Opened` (who asked for a restart had an open connection, so that setting it to
  closing adds a connection only if it was terminated, which `again` counts).
  `CurrentCounts` counts connections under a change of one of them. Each restart
  moves along the edges of its program (`MovesAlong`). Theorems: `LinkCorrect`,
  `TypeCorrect`, `FieldsAgree`, `TokenHeals`, `NeverTwoConnections`.
- `GatewayEventsProofs`. The type invariant says of every place in a handler
  what the task knows there (`PlaceOK`: whoever passed a test of a map uses an
  entry that is there) and that the maps point at the newest entries. `OneCreator`
  adds that one task at most is about to make a client, and only while there is
  none, unless two were noted in `overlapping`; `SelfKnown` that behind the looks
  the bot's entry exists and lacks a session only while an update stands between
  replacement and values. Theorems: `TypeCorrect`, `OneClient`, and the action
  property `SessionOrRenewal`. `Choices` is a second invariant, for the search
  cache. A search has the number of its message, so its songs are told apart from
  every other's (`NumbersOK`); an entry is its own search's as long as searches do
  not overlap (`EntriesOK`); an entry that was reset has a choice that holds it
  (`ChoicesOK`); and `QueuedOnce` says that a song that was queued is in the
  entry only while its choice is about to clear it, and in no local copy of
  another choice. "Once" alone is not inductive: it is that clearing which keeps a
  later choice from finding the song again. Each clause gives way to an overlap
  noted in `overlapping`, which never shrinks (`NothingIsForgotten`). Theorem:
  `ChoiceIsQueuedOnceAlways`.
- `ConnectionProofs`. Types are proved handler by handler from what `Begin`,
  `End`, `cancel` and their like make of operations and timers; in particular a
  shutdown under way always has been told what to report. `Sound` then ties five
  facts together: `WritersWake` (frames queued or taken keep the flag raised or a
  `write_frame` dispatched), `UsedWhenOpen` (whoever writes, calls or may call
  does so on a connection whose handshake is over), `FlagHasWrite` (a raised flag
  of a live connection has a pending write), `Stages` and `Answered` (what stage
  the handshake is in while anything of it is under way, a deferred answer
  included). The last two are needed because the handlers of the handshake end
  writes too: without them nothing excludes that one of them ends the write that
  the flag stands for. On top of them `Told` says what the user has heard: the
  first shutdown is begun once, `tstat` says what it will report (`WasOpen`,
  `WasNotOpen`), its timer whether it has been reported (`ToldOnce`), and a second
  shutdown needs a connection that `close()` revived. Theorems: `TypeCorrect`,
  `FramesFindAWriter`, `HandlersAlwaysMatch`, and the action property
  `StateAdvances`.
- `Utf8Proofs`. The automaton of `utf8_validator.hpp` and the grammar of code
  points are two folds over bytes. Both are unrolled into functions of the length
  (`RunIs`), and `EveryNumber` (a set with 0 and every successor holds every
  number, from the library's well-founded minimum) takes the place of induction.
  The automaton's states are the classes of unfinished code points. Theorems:
  `ValidatorIsRight` (it accepts exactly the well-formed texts), `AtWorstCutShort`
  and `RejectedOnlyIfHopeless` (it rejects as soon as nothing that follows could
  help, and not before).
- `WireProofs`. The invariant has three parts. `StreamInv`: what the peer sent never
  changes and no more of it is used than was read. `HeadInv`: while lines are read,
  some first `k` of them have been taken, the buffer is the stream from there to
  what was read, and the collected headers are those of these lines in their order
  (`Processed`); so whatever the cuts, the blank line finds the headers of the whole
  head, whose judgement is `Verdict`. `FrameInv`: the frame that is being read is
  determined by `start` and the stream alone (`H`, `E`, `Size`, `FrameKey`), and the
  processor's fields are that frame's as far as it has been read: in `InBasic` and
  `InExtended` the header bytes so far, in `InPayload(n)` the message that was kept
  with the first `n` bytes unmasked, the validator advanced over them and the key
  turned by `n`. From it each turn of `consume` is a stutter of `FrameStream` or,
  when it ends the frame or fails, `NextFrame` (`NextFrameIs`, `IllegalIs`,
  `NotTextIs`). Nothing weaker will do: the refinement needs the key and the state
  of the validator at every cut. `CodeSizes` fixes the two boundaries of the length
  forms to those of `frame.hpp`, 125 and 65535, and says that `size_t` has at least
  32 bits. The run makes them small so that its frames are, and then a basic size
  between 5 and 125 means nothing; its peers do not send one. The theorems are about
  all that a peer may send, so they take the code's sizes. `TextAlmostWhole` is an
  action property: in the step that delivers a message the validator's state is that
  of the whole payload (`InPayload`), and `Utf8Proofs` says what each of its states
  leaves open. `SentIsReceived` is a round trip, then an invariant of its own over
  the calls of the peer. `EncodedIsRead`: wherever the frame of one call stands in a
  stream, its header gives back the opcode, the flags and the size in each of the
  three forms of the length (`BigEndianTwo`, `BigEndianEight`), and unmasking gives
  back the payload (`XorTwice`, by its bits). `SentInv`: if the script is formed,
  nothing has failed, and `start` is the length of the first `k` calls' frames for
  some `k`; what is delivered and what waits for more fragments are what these `k`
  calls add up to (`Joined`). A step that takes a frame whole finds the one of call
  `k + 1` at `start`; the step changes `delivered` and `kept` as `Add` does, and
  neither the validator, the size limit nor the check of a close code objects to it.
  The hypothesis says that the reader's limit on messages is at most 4294967295:
  `BigEndian` writes the upper four bytes of the eight-byte form as zero, which is
  right for such lengths. The code's own limit is 32000000
  (`config/core_client.hpp`). Theorems: `TypesAlways`, `ReadsAsAWhole`,
  `SentIsReceived`, `TextAlmostWhole`, `HandshakeJudgedAsAWhole`.

Only model-checked: the liveness properties (`QueuedSongStarts`,
`IdleIsReported`, `GateIsServed`, `PlayEnds`, `CloseFinishes`, `ClosedHeartEnds`,
`RestartIsNotStuck`, `HandshakeEnds`, `ClosingEnds`), which need fairness; the
named assumptions of `LibraryChecks` and `BotChecks`, which hold over the inputs
they enumerate; and of course the findings, which are counterexamples. Every
invariant and every action property of a passing run is proved.

## 5. Abstractions and what is not modelled

- Operations on `std::queue`, `std::deque`, maps and plain flags are atomic steps.
  The code reads and writes several of them from different threads without a lock;
  a torn container has no outcome that could be enumerated, and those places are
  listed as hazards instead.
- Of the five assignments at 678-682 `_token` and `session` are steps; `guildid`
  and `user_id` are the same in every call and `endpoint` is not read again.
  `on_close` empties its fields (534-540) in two steps, `_token` with `state`, and
  `session` with `key`.
- Appending the integer `s_hbi` to a string literal (473) is an offset into the
  literal and undefined when large; its result is only logged.
- `c.reset()` while an io thread runs, the inside of TLS, zlib, asio and PPL:
  their results are choices.
- Real time: pacing of packets, the speak task's one-second sleeps, the countdown
  of a heartbeat. Time enters only as order.
- Several guilds and users (see GatewayEvents), READY and the sequence number,
  which are only stored.
- JSON text, embed setters nobody calls, logging: output without shared state.
- `hybi07` and `hybi08`: `hybi13` with another version number. Compressed frames:
  off in the bot's build, and their bytes are zlib's.
- Two threads on one endpoint: `Endpoint` has sequences of calls.
- `atoi` inputs have at most nine digits without sign or blank; numbers in hybi00
  keys are below 2^31.
- File audio sources: not used by the program. websocketpp's loggers, message
  pools, configurations, security accessors and stub transport: output, constants
  and accessors.

## 6. Plan

Done: the bot's concurrent core (`Pusher`, `Playback`, `Player`, `VoiceSession`,
`GatewayEvents`, `GatewayLink`), its computations, the library's connection,
parsers and computations, and the theorems of section 4. What could follow, in
order of importance:

1. The drain of `disconnect_queue` across a reconnection, composed of `Pusher`
   and `GatewayLink`.
2. Pacing: the sender's and the heartbeat's countdowns and the lifetime of
   `run_timer` in the speak task, as arithmetic over small steps of time.
