--------------------------------- MODULE Udp ---------------------------------
(***************************************************************************)
(* The packets of IP discovery and the count of winsock's users, udp.hpp.  *)
(* Who shares the one udpclient, and when, is in module VoiceSession.      *)
(***************************************************************************)
EXTENDS Integers, SequencesExt

\* starts: WSAStartup without WSACleanup, by whoever called them.
Unused == [starts |-> 0, server |-> <<>>, ssrc |-> 0, client |-> <<>>]

start(u, serverPORT, serverIP) ==
    [u EXCEPT !.starts = @ + 1, !.server = <<serverIP, serverPORT>>]

cleanup(u) == [u EXCEPT !.starts = @ - 1]

renew(u, serverPORT, serverIP) == start(cleanup(u), serverPORT, serverIP)

setssrc(u, ssrc) == [u EXCEPT !.ssrc = ssrc]

\* A shift of an int, kept in a byte.
Byte(n, shift) == (n \div 2^shift) % 256

Request(ssrc) ==
    <<0, 1, 0, 70, Byte(ssrc, 24), Byte(ssrc, 16), Byte(ssrc, 8), Byte(ssrc, 0)>>
      \o [i \in 1..66 |-> 0]

\* Both characters are signed when they are widened: the sign of the low one
\* is or-ed into the high byte.
my_port(high, low) == IF low > 127 THEN 65280 + low ELSE 256 * high + low

\* The address ends at the first zero.
Text(bytes) ==
    LET zero == SelectInSeq(bytes, LAMBDA b : b = 0) IN SubSeq(bytes, 1, zero - 1)

ipDiscovery(u, reply) ==
    [u EXCEPT !.client = <<Text(SubSeq(reply, 9, 72)), my_port(reply[73], reply[74])>>]
=============================================================================
