-------------------------------- MODULE HttpText --------------------------------
(***************************************************************************)
(* http/parser.hpp: the texts of headers.  A text is a sequence of         *)
(* characters; letters stand for the characters of a token, and a place in *)
(* a text runs from 1 to one behind it, which is the end.  What reads from *)
(* a place returns what it read and the place behind it.                   *)
(***************************************************************************)
EXTENDS Integers, SequencesExt, TLC

CR == "\r"
LF == "\n"
Quote == "\""
Backslash == "\\"
Blanks == {" ", "\t"}
Separators == {Quote, Backslash, ";", ",", "=", ":", "/", "(", ")"}

is_token_char(c) == c \notin {CR, LF} \union Blanks \union Separators

\* The first place from i on with one of the characters, or the end.
Find(text, i, chars) ==
    LET places == {j \in i..Len(text) : text[j] \in chars}
    IN  IF places = {} THEN Len(text) + 1 ELSE CHOOSE j \in places : \A k \in places : j <= k

AtEnd(text, i) == i > Len(text)

-----------------------------------------------------------------------------
(***************************************************************************)
(* The parts of a header's value.                                          *)
(***************************************************************************)
extract_token(text, i) ==
    LET stop == Find(text, i, {c \in ToSet(text) : ~is_token_char(c)})
    IN  [text |-> SubSeq(text, i, stop - 1), at |-> stop]

\* A quote behind a backslash is text.  Nothing is read without an end.
extract_quoted_string(text, i) ==
    LET closed[cursor \in 1..Len(text) + 2, marker \in 1..Len(text) + 2] ==
            LET quote == Find(text, cursor, {Quote})
            IN  IF AtEnd(text, quote) THEN [text |-> <<>>, at |-> i]
                ELSE IF text[quote - 1] # Backslash
                THEN [text |-> SubSeq(text, marker, quote - 1), at |-> quote + 1]
                ELSE LET more == closed[quote + 1, quote + 1]
                     IN  IF more.at = i THEN more
                         ELSE [more EXCEPT !.text = SubSeq(text, marker, quote - 2) \o <<Quote>> \o @]
    IN  IF AtEnd(text, i) \/ text[i] # Quote THEN [text |-> <<>>, at |-> i]
        ELSE closed[i + 1, i + 1]

\* A line break counts as a blank when a blank follows.
extract_lws(text, i) ==
    LET folded == /\ i + 2 <= Len(text)
                  /\ text[i] = CR /\ text[i + 1] = LF /\ text[i + 2] \in Blanks
    IN  Find(text, IF folded THEN i + 3 ELSE i, ToSet(text) \ Blanks)

extract_all_lws(text, i) ==
    LET pass[j \in 1..Len(text) + 1] ==
            LET next == extract_lws(text, j)
            IN  IF AtEnd(text, next) \/ next = j THEN next ELSE pass[next]
    IN  pass[i]

strip_lws(text) ==
    LET begin == extract_all_lws(text, 1)
        behind == extract_all_lws(Reverse(text), 1)
    IN  IF AtEnd(text, begin) \/ AtEnd(text, behind) THEN <<>>
        ELSE SubSeq(text, begin, Len(text) + 1 - behind)

\* The attributes of a parameter, from the place behind its semicolon.  They
\* are a function on the names so far; an error returns the place it began at.
\* A name that is given again without a value loses the one it had.
extract_attributes(text, begin) ==
    LET Failed == [attributes |-> <<>>, at |-> begin]
        Skip(i) == extract_all_lws(text, i)
        Value(i) ==
            LET quoted == extract_quoted_string(text, i)
            IN  IF quoted.at # i THEN quoted ELSE extract_token(text, i)
        \* One attribute from place i on: none was read if error is set.
        One(i) ==
            LET name == extract_token(text, Skip(i))
                equals == Skip(name.at)
                value == Value(Skip(equals + 1))
            IN  IF name.text = <<>> THEN [error |-> TRUE]
                ELSE IF AtEnd(text, equals) \/ text[equals] # "="
                THEN [error |-> FALSE, set |-> name.text :> <<>>, at |-> equals]
                ELSE IF AtEnd(text, Skip(equals + 1)) \/ value.at = Skip(equals + 1)
                THEN [error |-> TRUE]
                ELSE [error |-> FALSE, set |-> name.text :> value.text, at |-> value.at]
        From[i \in 1..Len(text) + 1] ==
            LET semicolon == Skip(i)
                one == One(IF i = begin THEN i ELSE semicolon + 1)
                more == From[one.at]
            IN  IF AtEnd(text, semicolon) THEN [attributes |-> <<>>, at |-> semicolon]
                ELSE IF i # begin /\ text[semicolon] # ";" THEN [attributes |-> <<>>, at |-> semicolon]
                ELSE IF one.error THEN Failed
                ELSE IF more = Failed THEN Failed
                ELSE [attributes |-> more.attributes @@ one.set, at |-> more.at]
    IN  From[begin]

\* The parameters of a list, each with its attributes.  An error returns place
\* 1, and leaves the parameters before it in the list.
extract_parameters(text) ==
    LET Skip(i) == extract_all_lws(text, i)
        From[i \in 1..Len(text) + 1] ==
            LET name == extract_token(text, Skip(i))
                next == Skip(name.at)
                listed == extract_attributes(text, next + 1)
                has == ~AtEnd(text, next) /\ text[next] = ";"
                one == <<[name |-> name.text, attributes |-> IF has THEN listed.attributes ELSE <<>>]>>
                comma == IF has THEN Skip(listed.at) ELSE next
                more == From[comma + 1]
            IN  IF AtEnd(text, Skip(i)) THEN [list |-> <<>>, at |-> Len(text) + 1]
                ELSE IF name.text = <<>> THEN [list |-> <<>>, at |-> 1]
                ELSE IF has /\ listed.at = next + 1 THEN [list |-> <<>>, at |-> 1]
                ELSE IF AtEnd(text, comma) \/ text[comma] # "," THEN [list |-> one, at |-> comma]
                ELSE IF AtEnd(text, comma + 1) THEN [list |-> one, at |-> 1]
                ELSE [list |-> one \o more.list, at |-> more.at]
    IN  IF text = <<>> THEN [list |-> <<>>, at |-> 1] ELSE From[1]

-----------------------------------------------------------------------------
(***************************************************************************)
(* class parser: the headers, a function on the names that are set, and    *)
(* the body.  Names are compared as the code does, without their case.     *)
(***************************************************************************)
parser == [m_headers |-> <<>>, m_body |-> <<>>, ec |-> "none"]

get_header(p, key) == IF key \in DOMAIN p.m_headers THEN p.m_headers[key] ELSE <<>>

\* TRUE is an error, and an empty text is none.
parse_parameter_list(text) ==
    LET read == extract_parameters(text)
    IN  IF text = <<>> THEN [error |-> FALSE, list |-> <<>>]
        ELSE [error |-> read.at = 1, list |-> read.list]

get_header_as_plist(p, key) == parse_parameter_list(get_header(p, key))

replace_header(p, key, val) == [p EXCEPT !.m_headers = key :> val @@ @]

append_header(p, key, val) ==
    IF \E i \in DOMAIN key : ~is_token_char(key[i]) THEN [p EXCEPT !.ec = "bad_request"]
    ELSE IF get_header(p, key) = <<>> THEN replace_header(p, key, val)
    ELSE replace_header(p, key, get_header(p, key) \o <<",", " ">> \o val)

remove_header(p, key) ==
    [p EXCEPT !.m_headers = [k \in DOMAIN @ \ {key} |-> @[k]]]

ContentLength == <<"Content-Length">>

\* The length is kept as a text of one symbol.
set_body(p, value) ==
    IF value = <<>> THEN [remove_header(p, ContentLength) EXCEPT !.m_body = <<>>]
    ELSE [replace_header(p, ContentLength, <<ToString(Len(value))>>) EXCEPT !.m_body = value]

\* One header line, without its end.
process_header(p, line) ==
    LET colon == Find(line, 1, {":"})
    IN  IF AtEnd(line, colon) THEN [p EXCEPT !.ec = "bad_request"]
        ELSE append_header(p, strip_lws(SubSeq(line, 1, colon - 1)),
                           strip_lws(SubSeq(line, colon + 1, Len(line))))
=============================================================================
