------------------------------- MODULE Payloads -------------------------------
(***************************************************************************)
(* The messages the bot writes itself, as what Discord reads in them.  A   *)
(* text in quotes is a value, one without is JSON's null.                  *)
(***************************************************************************)
EXTENDS Integers

null == "without quotes"

getVoiceStateUpdatePayload(guild, channel) ==
    [op |-> 4, guild_id |-> guild, channel_id |-> IF channel = "null" THEN null ELSE channel,
     self_mute |-> FALSE, self_deaf |-> TRUE]

\* disconnect, which nothing calls, quotes its null.
disconnect(guildid) ==
    [op |-> 4, guild_id |-> guildid, channel_id |-> "null", self_mute |-> TRUE, self_deaf |-> TRUE]

\* The gateway's heartbeat: the last sequence number, null before the first.
getHeartBeatPayload(seq_num) == [op |-> 1, d |-> IF seq_num = 0 THEN <<>> ELSE <<seq_num>>]

\* The voice heartbeat sends the same number every time.
VoiceHeartBeat(seq_num) == [op |-> 3, d |-> "633218964771569676"]

auth(str_token) == [op |-> 2, token |-> str_token, intents |-> 1664]

VoiceAuth(guildid, user_id, session, token) ==
    [op |-> 0, server_id |-> guildid, user_id |-> user_id, session_id |-> session, token |-> token]

\* Both clients: the flag falls only when the message could be sent.
resume(client, str_token, sent) ==
    [message |-> [op |-> 6, token |-> str_token, session_id |-> client.session_id, seq |-> client.seq_num],
     is_websocket_restart |-> client.is_websocket_restart /\ ~sent]

selectProtocol(address, port) ==
    [op |-> 1, protocol |-> "udp", address |-> address, port |-> port, mode |-> "xsalsa20_poly1305"]

Speaking(ssrc, speaking) == [op |-> 5, speaking |-> speaking, delay |-> 0, ssrc |-> ssrc]
speak(ssrc) == Speaking(ssrc, 1)
unspeak(ssrc) == Speaking(ssrc, 0)
=============================================================================
