--------------------------- MODULE SxeHttpMessage ---------------------------
(***************************************************************************)
(* sxe-http-message.c: the parser that turns a received buffer into the    *)
(* elements of a request line and the header fields after it, as the bytes *)
(* arrive.  Between calls it remembers offsets into the buffer only: where *)
(* the current field begins (consumed), how much of it was seen (name,     *)
(* value_offset, value_length) and where the next one begins (next, 0 until*)
(* the current one is complete).  The caller may give the parsed part of   *)
(* the buffer back in between and move the rest to the front.  The lines   *)
(* that the caller has the parser ignore are in SxeHttpd.                  *)
(*                                                                         *)
(* A byte is one of the classes below, or a letter.  The loops look at a   *)
(* byte before they compare its offset with the length, so each parse also *)
(* depends on the byte left over just past the end of the data.            *)
(***************************************************************************)
EXTENDS Integers, Sequences, FiniteSets

CONSTANTS Texts,     \* the messages that may be received
          LineTypes, \* the element types that the caller asks for, in order, to the end of the line
          BufSize,   \* the size of the receive buffer
          Leftovers  \* the classes of the byte past the end

Sp == "space"        \* a space or a tab
Cr == "return"
Lf == "newline"
Colon == ":"
Nul == "nul"
Blank == {Sp, Cr, Lf}   \* isspace

PARSED == -1         \* SXE_HTTP_LINE_PARSED

ASSUME TextsFit == \A t \in Texts : Len(t) >= 2

VARIABLE message

-----------------------------------------------------------------------------
sxe_http_message_construct == [consumed |-> 0, element |-> 0, next |-> 0,
                               name |-> 0, value_offset |-> 0, value_length |-> 0]

Byte(b, left, o) == IF o < Len(b) THEN b[o + 1] ELSE left
Bytes(b, from, n) == SubSeq(b, from + 1, from + n)

\* The first offset, no less than from, that is past the data or holds one of stops.
Scan(b, left, from, stops) ==
    IF from >= Len(b) THEN from
    ELSE CHOOSE o \in from .. Len(b) :
            /\ o = Len(b) \/ Byte(b, left, o) \in stops
            /\ \A p \in from .. (o - 1) : Byte(b, left, p) \notin stops

sxe_http_message_skip_whitespace(b, left, from) ==
    IF from >= Len(b) THEN from
    ELSE CHOOSE o \in from .. Len(b) : /\ o < Len(b) => Byte(b, left, o) # Sp
                                       /\ \A p \in from .. (o - 1) : Byte(b, left, p) = Sp

\* buffer_length - offset is unsigned: it is not small when the offset is past the end.
FewerThanTwo(b, o) == Len(b) - o \in {0, 1}
ReturnNewline(b, left, o) == Byte(b, left, o) = Cr /\ Byte(b, left, o + 1) = Lf

Gives(m, r) == [m |-> m, r |-> r]

-----------------------------------------------------------------------------
\* The next token, or the rest, of the request or response line.  strchr finds a
\* NUL in every string of terminators.
sxe_http_message_parse_next_line_element(m, b, left, type) ==
    LET B(o) == Byte(b, left, o)
        terminator == IF type = "token" THEN {Sp, Cr, Nul} ELSE {Cr, Nul}
        parsed == m.element = PARSED \/ (m.next >= 2 /\ ReturnNewline(b, left, m.next - 2))
        first == IF m.next # 0 \/ m.consumed = 0
                 THEN [m EXCEPT !.element = 0, !.consumed = m.next, !.next = 0]
                 ELSE m
        at == IF first.element = 0
              THEN [first EXCEPT !.consumed = sxe_http_message_skip_whitespace(b, left, @)]
              ELSE first
        from == at.consumed
        o == Scan(b, left, from, terminator \cup {Lf})
        found == [at EXCEPT !.element = o - from]
    IN CASE parsed -> Gives([m EXCEPT !.element = PARSED], "eof")
         [] first.element = 0 /\ from >= Len(b) -> Gives(at, "block")
         [] FewerThanTwo(b, from) -> Gives(at, "block")
         [] ReturnNewline(b, left, from) ->
              Gives([at EXCEPT !.consumed = from + 2, !.next = from + 2, !.element = PARSED], "eof")
         [] B(o) = Lf -> Gives(at, "bad")
         [] B(o) \notin terminator -> Gives([found EXCEPT !.consumed = o], "block")
         [] B(o) = Cr /\ o + 1 >= Len(b) -> Gives([found EXCEPT !.element = @ + 1], "block")
         [] B(o) = Cr /\ B(o + 1) # Lf -> Gives(found, "bad")
         [] B(o) = Cr -> Gives([found EXCEPT !.next = o + 2], "ok")
         [] B(o) = Nul /\ type # "token" -> Gives(found, "block")
         [] OTHER -> Gives([found EXCEPT !.next = o + 1], "ok")

-----------------------------------------------------------------------------
\* The value less the white space that ends it.
Trimmed(m, b) ==
    LET blank(n) == Byte(b, Nul, m.value_offset + n - 1) \in Blank
    IN [m EXCEPT !.value_length = CHOOSE n \in 0 .. @ : /\ n > 0 => ~blank(n)
                                                        /\ \A k \in (n + 1) .. @ : blank(k)]

RECURSIVE ParseValue(_, _, _)

\* To the return that ends the value: one followed by a newline and a byte that
\* does not continue the line.
ParseValue(m, b, left) ==
    LET B(o) == Byte(b, left, o)
        o == Scan(b, left, m.value_offset + m.value_length, {Cr, Lf})
        seen == [m EXCEPT !.value_length = o - m.value_offset]
    IN CASE B(o) = Lf -> Gives(m, "bad")
         [] B(o) # Cr \/ o + 2 >= Len(b) -> Gives(seen, "block")
         [] B(o + 1) # Lf -> Gives(seen, "bad")
         [] B(o + 2) # Sp -> Gives(Trimmed([seen EXCEPT !.next = o + 2], b), "ok")
         [] OTHER -> ParseValue([seen EXCEPT !.value_length = @ + 2], b, left)

\* The spaces before the value, unless some of it was already seen.
ParseLeading(m, b, left) ==
    LET v == IF m.value_length = 0
             THEN sxe_http_message_skip_whitespace(b, left, m.value_offset)
             ELSE m.value_offset
        at == [m EXCEPT !.value_offset = v]
    IN IF m.value_length = 0 /\ v >= Len(b) THEN Gives(at, "block") ELSE ParseValue(at, b, left)

ParseName(m, b, left) ==
    LET o == Scan(b, left, m.consumed + m.name, {Colon, Nul} \cup Blank)
        seen == [m EXCEPT !.name = o - m.consumed]
    IN CASE m.name = 0 /\ Byte(b, left, m.consumed) = Colon -> Gives(m, "bad")
         [] Byte(b, left, o) = Colon -> ParseLeading([seen EXCEPT !.value_offset = o + 1], b, left)
         [] o >= Len(b) -> Gives(seen, "block")
         [] OTHER -> Gives(m, "bad")

\* The next header field.  Whether the headers have ended is looked at only in
\* the first call after a complete field.
sxe_http_message_parse_next_header(m, b, left) ==
    LET first == m.next # 0
        at == IF first
              THEN [m EXCEPT !.element = PARSED, !.consumed = m.next, !.next = 0, !.name = 0,
                             !.value_offset = 0, !.value_length = 0]
              ELSE [m EXCEPT !.element = PARSED]
        from == at.consumed
    IN CASE first /\ FewerThanTwo(b, from) -> Gives(at, "block")
         [] first /\ ReturnNewline(b, left, from) -> Gives([at EXCEPT !.consumed = from + 2], "eof")
         [] at.value_offset = 0 -> ParseName(at, b, left)
         [] OTHER -> ParseLeading(at, b, left)

\* A mutant of sxe_http_message_consume_parsed_headers that leaves the value where it was.
ConsumeKeepsValue(m) ==
    IF m.next # 0
    THEN [m |-> [m EXCEPT !.consumed = 0, !.name = 0, !.value_offset = 0, !.value_length = 0, !.next = 0],
          consumed |-> m.next]
    ELSE [m |-> [m EXCEPT !.consumed = 0], consumed |-> m.consumed]

sxe_http_message_consume_parsed_headers(m) ==
    IF m.next # 0
    THEN [m |-> [m EXCEPT !.consumed = 0, !.name = 0, !.value_offset = 0, !.value_length = 0, !.next = 0],
          consumed |-> m.next]
    ELSE [m |-> [m EXCEPT !.consumed = 0,
                          !.value_offset = IF @ # 0 THEN @ - m.consumed ELSE @],
          consumed |-> m.consumed]

sxe_http_message_get_line_element(m, b) == Bytes(b, m.consumed, m.element)
sxe_http_message_get_header(m, b) == <<Bytes(b, m.consumed, m.name), Bytes(b, m.value_offset, m.value_length)>>

-----------------------------------------------------------------------------
\* The outcomes of parsing the message when all of it is there at once.
RECURSIVE Headers(_, _), Elements(_, _, _)

Headers(m, b) ==
    LET p == sxe_http_message_parse_next_header(m, b, Nul)
    IN IF p.r = "ok" THEN <<sxe_http_message_get_header(p.m, b)>> \o Headers(p.m, b) ELSE <<p.r>>

TypeAt(i) == IF i > Len(LineTypes) THEN "rest" ELSE LineTypes[i]

Elements(m, b, i) ==
    LET p == sxe_http_message_parse_next_line_element(m, b, Nul, TypeAt(i))
    IN CASE p.r = "ok" -> <<sxe_http_message_get_line_element(p.m, b)>> \o Elements(p.m, b, i + 1)
         [] p.r = "eof" -> <<"line">> \o Headers(p.m, b)
         [] OTHER -> <<p.r>>

AllAtOnce == [t \in Texts |-> Elements(sxe_http_message_construct, t, 1)]

-----------------------------------------------------------------------------
\* What the caller has: the message still to arrive, the buffer, the outcomes so
\* far and the result of the last call; met are the ways in which a fragment has
\* shown: "left" when the byte past the end changed a result, "cut" when a line
\* element arrived in parts, "resumed" when a field is looked at again from its
\* first byte.
MessageInit == \E t \in Texts :
    message = [text |-> t, rest |-> t, buf |-> <<>>, m |-> sxe_http_message_construct,
               phase |-> "line", asked |-> 1, last |-> "block", got |-> <<>>, met |-> {}]

\* sxe_http_message_increase_buffer_length, when more data is received.
sxe_http_message_increase_buffer_length ==
    /\ message.last = "block" /\ message.phase # "end"
    /\ \E n \in 1 .. Len(message.rest) :
         /\ Len(message.buf) + n <= BufSize
         /\ message' = [message EXCEPT !.buf = @ \o SubSeq(message.rest, 1, n),
                                       !.rest = SubSeq(@, n + 1, Len(@)),
                                       !.last = "more"]

Blocks(p, met) == message' = [message EXCEPT !.m = p.m, !.last = "block", !.met = met]
Ends(p, r, met) == message' = [message EXCEPT !.m = p.m, !.last = r, !.met = met, !.phase = "end",
                                              !.got = Append(@, r)]

ParseLine == \E left \in Leftovers :
    LET type == TypeAt(message.asked)
        b == message.buf
        p == sxe_http_message_parse_next_line_element(message.m, b, left, type)
        usual == sxe_http_message_parse_next_line_element(message.m, b, "a", type)
        met == message.met \cup (IF p # usual THEN {"left"} ELSE {})
    IN /\ message.phase = "line" /\ message.last # "block"
       /\ \/ /\ p.r = "block"
             /\ Blocks(p, met \cup (IF p.m.element # 0 THEN {"cut"} ELSE {}))
          \/ /\ p.r = "bad"
             /\ Ends(p, "bad", met)
          \/ /\ p.r = "eof"
             /\ message' = [message EXCEPT !.m = p.m, !.last = "ok", !.met = met, !.phase = "headers",
                                           !.got = Append(@, "line")]
          \/ /\ p.r = "ok"
             /\ message' = [message EXCEPT !.m = p.m, !.last = "ok", !.met = met, !.asked = @ + 1,
                                           !.got = Append(@, sxe_http_message_get_line_element(p.m, b))]

ParseHeader == \E left \in Leftovers :
    LET b == message.buf
        m == message.m
        p == sxe_http_message_parse_next_header(m, b, left)
        usual == sxe_http_message_parse_next_header(m, b, "a")
        again == m.next = 0 /\ m.name = 0 /\ m.value_offset = 0
        met == message.met \cup (IF p # usual THEN {"left"} ELSE {})
                           \cup (IF again THEN {"resumed"} ELSE {})
    IN /\ message.phase = "headers" /\ message.last # "block"
       /\ \/ p.r = "block" /\ Blocks(p, met)
          \/ p.r \in {"bad", "eof"} /\ Ends(p, p.r, met)
          \/ /\ p.r = "ok"
             /\ message' = [message EXCEPT !.m = p.m, !.last = "ok", !.met = met,
                                           !.got = Append(@, sxe_http_message_get_header(p.m, b))]

\* The caller gives the parsed headers back when no more can be parsed, and moves
\* the rest to the front of the buffer.
Consume ==
    /\ message.phase = "headers" /\ message.last = "block"
    /\ LET c == sxe_http_message_consume_parsed_headers(message.m)
       IN /\ c.consumed # 0
          /\ message' = [message EXCEPT !.m = c.m,
                                        !.buf = SubSeq(@, c.consumed + 1, Len(@))]

\* Nothing more arrives, or the buffer is full of one field: see SxeHttpd.
Stalled == /\ \/ message.phase = "end"
              \/ message.last = "block" /\ (message.rest = <<>> \/ Len(message.buf) = BufSize)
           /\ UNCHANGED message

MessageNext == sxe_http_message_increase_buffer_length \/ ParseLine \/ ParseHeader \/ Consume \/ Stalled

MessageSpec == MessageInit /\ [][MessageNext]_message

-----------------------------------------------------------------------------
IsPrefixOf(s, t) == Len(s) <= Len(t) /\ SubSeq(t, 1, Len(s)) = s

Fields(s) == SelectSeq(s, LAMBDA r : r # "bad" /\ r # "eof")
AfterLine(s) == IF \E i \in DOMAIN s : s[i] = "line"
                THEN SubSeq(s, (CHOOSE i \in DOMAIN s : s[i] = "line") + 1, Len(s))
                ELSE <<>>

\* The header fields are those of the whole message, and in its order, however the
\* bytes arrive and whatever the caller has given back in between; the end of the
\* headers is found where it is, or, when a field is looked at again from its first
\* byte, refused as bad.  The byte past the end must not have changed a result.
HeadersAsWhole ==
    "left" \notin message.met =>
        LET got == AfterLine(message.got)
            whole == AfterLine(AllAtOnce[message.text])
        IN \/ IsPrefixOf(got, whole)
           \/ /\ "resumed" \in message.met /\ message.last = "bad"
              /\ got = Append(Fields(whole), "bad")

\* The elements of the line are those of the whole message unless one arrived in parts.
ElementsAsWhole == message.met = {} => IsPrefixOf(message.got, AllAtOnce[message.text])

\* Parsing as the bytes arrive gives what parsing the whole message does.
MessageAsWhole == HeadersAsWhole /\ ElementsAsWhole
=============================================================================
