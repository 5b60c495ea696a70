------------------------------ MODULE HttpCalls ------------------------------
(***************************************************************************)
(* The calls of utils.hpp to Discord and YouTube over curl, and the texts  *)
(* they are made from.  A text is the sequence of its characters; NUL ends *)
(* the one a reply is kept in.                                             *)
(***************************************************************************)
EXTENDS Integers, SequencesExt

NUL == "\\0"

-----------------------------------------------------------------------------
(* Replies.  memory grows with each piece curl hands over.                 *)

payload == [memory |-> <<>>, size |-> 0, ok |-> TRUE]

\* A piece that does not fit returns 0, which makes curl give up.
write_data(chunk, contents, realloc) ==
    IF chunk.ok /\ realloc
    THEN [memory |-> SubSeq(chunk.memory, 1, chunk.size) \o contents \o <<NUL>>,
          size |-> chunk.size + Len(contents), ok |-> TRUE]
    ELSE [chunk EXCEPT !.ok = FALSE]

\* How a request ends: reaches says that curl got an answer, pieces are those of
\* the answer, each with whether there is memory for it.
Transfer(handle, reaches, pieces) ==
    LET chunk == FoldLeft(LAMBDA c, p : write_data(c, p.contents, p.realloc), payload, pieces)
    IN  [chunk |-> chunk,
         end |-> IF ~handle THEN "no handle" ELSE IF reaches /\ chunk.ok THEN "done" ELSE "failed"]

\* What nobody frees: all of it when the call fails, the reply in any case.
Kept(transfer, freed) ==
    (IF transfer.end = "no handle" \/ (freed /\ transfer.end = "done") THEN {} ELSE {"list", "handle"})
      \union (IF transfer.chunk.memory = <<>> THEN {} ELSE {"reply"})

\* sendMsg and youtubePerformQuerry.  NULL becomes the number 0; a reply of no
\* pieces is a string made from a null pointer, and one that is no JSON throws.
Call(handle, reaches, pieces, json) ==
    LET transfer == Transfer(handle, reaches, pieces)
        empty == transfer.chunk.memory = <<>>
    IN  [result |-> IF transfer.end # "done" THEN "number" ELSE IF empty THEN "undefined"
                    ELSE IF json THEN "reply" ELSE "throws",
         kept |-> Kept(transfer, ~empty)]

\* deleteMsg has no use for the reply, so none is fine.
deleteMsg(handle, reaches, pieces) ==
    LET transfer == Transfer(handle, reaches, pieces)
    IN  [result |-> IF transfer.end = "done" THEN 1 ELSE 0, kept |-> Kept(transfer, TRUE)]

\* youtubeGetTitle returns NULL as a std::string, which is no string at all.
youtubeGetTitle(call, title) == IF call.result = "number" THEN "undefined"
                                ELSE IF call.result = "reply" THEN title ELSE call.result

\* ping: a failed echo is told as a round trip of 1 ms.
ping(address, handle, buffer, replies, RoundTripTime) ==
    IF ~address \/ ~handle \/ ~buffer THEN -1 ELSE IF replies # 0 THEN RoundTripTime ELSE 1

-----------------------------------------------------------------------------
(* URL encoding.                                                           *)

HexDigits == <<"0", "1", "2", "3", "4", "5", "6", "7", "8", "9", "A", "B", "C", "D", "E", "F">>

\* std::hex without a width: no leading zero.
Hex(byte) == IF byte < 16 THEN <<HexDigits[byte + 1]>>
             ELSE <<HexDigits[(byte \div 16) + 1], HexDigits[(byte % 16) + 1]>>

utf8_url_encode(value) == FlattenSeq([i \in 1..Len(value) |-> <<"%">> \o Hex(value[i])])

HexValue(c) == CHOOSE n \in 0..15 : HexDigits[n + 1] = c

\* The code of a character of an encoded text.
Code(c) == IF c = "%" THEN 37 ELSE IF HexValue(c) < 10 THEN 48 + HexValue(c) ELSE 55 + HexValue(c)

\* stoi with base 16: as many digits as there are.
FromHex(text) ==
    LET other == SelectInSeq(text, LAMBDA c : c \notin ToSet(HexDigits))
    IN  FoldLeft(LAMBDA n, c : 16 * n + HexValue(c), 0,
                 IF other = 0 THEN text ELSE SubSeq(text, 1, other - 1))

\* Two characters behind a '%' are taken, whatever they are.
utf8_url_decode(value) ==
    LET Step(acc, i) ==
            IF i < acc.next THEN acc
            ELSE IF value[i] = "%"
            THEN [next |-> i + 3,
                  out |-> Append(acc.out, FromHex(SubSeq(value, i + 1,
                                     IF i + 2 <= Len(value) THEN i + 2 ELSE Len(value))))]
            ELSE [next |-> i + 1, out |-> Append(acc.out, Code(value[i]))]
    IN  FoldLeft(Step, [next |-> 1, out |-> <<>>], [i \in 1..Len(value) |-> i]).out

-----------------------------------------------------------------------------
(* The list of a search.  A character that HTML escapes is an ampersand    *)
(* and its name.                                                           *)

\* One replacement after the other, in the order of the code.
Replacements ==
    << <<<<"&", "quot;">>, <<"quote">>>>, <<<<"&", "#39;">>, <<"'">>>>, <<<<"&", "amp;">>, <<"&">>>>,
       <<<<"|">>, <<"\\", "|">>>>, <<<<"*">>, <<"\\", "*">>>> >>

\* regex_replace takes the matches from the left.
regex_replace(text, pattern, by) ==
    LET n == Len(pattern)
        Step(acc, i) ==
            IF i < acc.next THEN acc
            ELSE IF i + n - 1 <= Len(text) /\ SubSeq(text, i, i + n - 1) = pattern
            THEN [next |-> i + n, out |-> acc.out \o by]
            ELSE [next |-> i + 1, out |-> Append(acc.out, text[i])]
    IN  FoldLeft(Step, [next |-> 1, out |-> <<>>], [i \in 1..Len(text) |-> i]).out

Printed(title) == FoldLeft(LAMBDA text, r : regex_replace(text, r[1], r[2]), title, Replacements)

\* The titles up to the first item that has none, numbered.
youtubePrintSearchResult(titles) ==
    LET missing == SelectInSeq(titles, LAMBDA title : title = <<>>)
        shown == IF missing = 0 THEN Len(titles) ELSE missing - 1
    IN  [i \in 1..shown |-> <<i, Printed(titles[i])>>]
=============================================================================
