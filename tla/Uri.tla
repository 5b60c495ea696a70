---------------------------------- MODULE Uri ----------------------------------
(***************************************************************************)
(* uri.hpp: an address, as it is read, made and written.  A text is a      *)
(* sequence of characters, each a string of length 1; the scheme is one of *)
(* the four the library knows.  A port has no blank, no sign and at most   *)
(* nine digits before anything else.                                       *)
(***************************************************************************)
EXTENDS Integers, SequencesExt

uri_default_port == 80
uri_default_secure_port == 443

Schemes == {"ws", "wss", "http", "https"}
Secure(scheme) == scheme \in {"wss", "https"}
default_port(secure) == IF secure THEN uri_default_secure_port ELSE uri_default_port

Digits == <<"0", "1", "2", "3", "4", "5", "6", "7", "8", "9">>
Digit(c) == CHOOSE d \in 0..9 : Digits[d + 1] = c

\* The digits at the front.
atoi(text) ==
    LET others == {i \in DOMAIN text : text[i] \notin ToSet(Digits)}
        digits == IF others = {} THEN text
                  ELSE SubSeq(text, 1, (CHOOSE i \in others : \A j \in others : i <= j) - 1)
    IN  FoldLeft(LAMBDA n, c : 10 * n + Digit(c), 0, digits)

Decimal(n) ==
    LET f[k \in Nat] == IF k < 10 THEN <<Digits[k + 1]>> ELSE Append(f[k \div 10], Digits[(k % 10) + 1])
    IN  f[n]

get_port_from_string(secure, port) ==
    IF port = <<>> THEN [port |-> default_port(secure), ok |-> TRUE]
    ELSE [port |-> atoi(port) % 65536, ok |-> atoi(port) \in 1..65535]

-----------------------------------------------------------------------------
(***************************************************************************)
(* The constructors.                                                       *)
(***************************************************************************)
Resource(resource) == IF resource = <<>> THEN <<"/">> ELSE resource

WithPort(scheme, host, port, resource) ==
    [m_scheme |-> scheme, m_secure |-> Secure(scheme), m_host |-> host, m_port |-> port,
     m_resource |-> Resource(resource), m_valid |-> TRUE]

WithoutPort(scheme, host, resource) ==
    WithPort(scheme, host, default_port(Secure(scheme)), resource)

WithPortText(scheme, host, port, resource) ==
    LET read == get_port_from_string(Secure(scheme), port)
    IN  [WithPort(scheme, host, read.port, resource) EXCEPT !.m_valid = read.ok]

Invalid == [m_valid |-> FALSE]

\* The first place from i on that holds one of the characters, or the end.
Find(text, i, chars) ==
    LET places == {j \in i..Len(text) : text[j] \in chars}
    IN  IF places = {} THEN Len(text) + 1 ELSE CHOOSE j \in places : \A k \in places : j <= k

\* What follows the host: a port after a colon, a resource after a slash.
AfterHost(scheme, host, rest) ==
    LET slash == Find(rest, 1, {"/"})
        port == IF rest # <<>> /\ rest[1] = ":" THEN SubSeq(rest, 2, slash - 1) ELSE <<>>
        read == get_port_from_string(Secure(scheme), port)
    IN  IF ~read.ok THEN Invalid
        ELSE WithPort(scheme, host, read.port, <<"/">> \o SubSeq(rest, slash + 1, Len(rest)))

\* The brackets of an IPv6 address are not part of the host.  rest is what
\* comes behind "://", and is not empty.
uri(scheme, rest) ==
    LET close == Find(rest, 2, {"]"})
        host == Find(rest, 1, {"/", ":"})
    IN  IF rest[1] # "["
        THEN AfterHost(scheme, SubSeq(rest, 1, host - 1), SubSeq(rest, host, Len(rest)))
        ELSE IF close > Len(rest) \/ (close < Len(rest) /\ rest[close + 1] \notin {"/", ":"})
        THEN Invalid
        ELSE AfterHost(scheme, SubSeq(rest, 2, close - 1), SubSeq(rest, close + 1, Len(rest)))

-----------------------------------------------------------------------------
(***************************************************************************)
(* What an address says.                                                   *)
(***************************************************************************)
get_authority(u) == u.m_host \o <<":">> \o Decimal(u.m_port)

get_host_port(u) == IF u.m_port = default_port(u.m_secure) THEN u.m_host ELSE get_authority(u)

\* What follows "://".
str(u) == get_host_port(u) \o u.m_resource

get_query(u) == SubSeq(u.m_resource, Find(u.m_resource, 1, {"?"}) + 1, Len(u.m_resource))
=============================================================================
