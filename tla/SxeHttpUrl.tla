----------------------------- MODULE SxeHttpUrl -----------------------------
(***************************************************************************)
(* sxe_http_url_parse: a URL split into scheme, host, port and path.  The  *)
(* string is either counted, or ends with a NUL.  In the second case the   *)
(* length of the path is not computed.  The number that the port makes is  *)
(* left out.                                                               *)
(***************************************************************************)
EXTENDS Integers, Sequences, SequencesExt, FiniteSets

CONSTANTS UrlChars,   \* the characters of a URL: letters, "1" for the digits, ":" and "/"
          UrlStarts,  \* the texts that are extended
          MaxAdded    \* bound: the characters added to one

Digits == {"1"}

VARIABLE url   \* a text, whether it is counted, and how much was added to its start

UrlInit == \E text \in UrlStarts, counted \in BOOLEAN : url = [text |-> text, counted |-> counted, added |-> 0]

UrlNext == /\ url.added < MaxAdded
           /\ \E c \in UrlChars : url' = [url EXCEPT !.text = Append(@, c), !.added = @ + 1]

UrlSpec == UrlInit /\ [][UrlNext]_url

-----------------------------------------------------------------------------
Invalid == [valid |-> FALSE]
Url(scheme, host, port, path) == [valid |-> TRUE, scheme |-> scheme, host |-> host, port |-> port, path |-> path]

\* The offset of the first character from o on that is in stops, or of the end.
Find(s, o, stops) == LET at == {i \in o .. (Len(s) - 1) : s[i + 1] \in stops}
                     IN IF at = {} THEN Len(s) ELSE CHOOSE i \in at : \A j \in at : i <= j
Part(s, from, to) == SubSeq(s, from + 1, to)

\* The path, which is not there when its slash is not.
UrlPath(s, idx, counted) == IF counted THEN <<Part(s, idx, Len(s))>> ELSE <<"uncounted">>

\* A mutant of AfterHost that does not skip the slash after a port.
AfterPortSlash(s, scheme, start, idx, counted) ==
    LET host == Part(s, start, idx)
        digits == Find(s, idx + 1, UrlChars \ Digits)
        port == Part(s, idx + 1, digits)
    IN CASE idx >= Len(s) -> Url(scheme, host, <<>>, <<>>)
         [] idx < Len(s) /\ s[idx + 1] = "/" -> Url(scheme, host, <<>>, UrlPath(s, idx + 1, counted))
         [] OTHER -> CASE port = <<>> -> Invalid
                       [] port # <<>> /\ digits >= Len(s) -> Url(scheme, host, port, <<>>)
                       [] port # <<>> /\ digits < Len(s) /\ s[digits + 1] # "/" -> Invalid
                       [] OTHER -> Url(scheme, host, port, UrlPath(s, digits, counted))

\* After the host: the end, a colon and the port, or the slash of a path.
AfterHost(s, scheme, start, idx, counted) ==
    LET host == Part(s, start, idx)
        digits == Find(s, idx + 1, UrlChars \ Digits)
        port == Part(s, idx + 1, digits)
    IN CASE idx >= Len(s) -> Url(scheme, host, <<>>, <<>>)
         [] idx < Len(s) /\ s[idx + 1] = "/" -> Url(scheme, host, <<>>, UrlPath(s, idx + 1, counted))
         [] OTHER -> CASE port = <<>> -> Invalid
                       [] port # <<>> /\ digits >= Len(s) -> Url(scheme, host, port, <<>>)
                       [] port # <<>> /\ digits < Len(s) /\ s[digits + 1] # "/" -> Invalid
                       [] OTHER -> Url(scheme, host, port, UrlPath(s, digits + 1, counted))

sxe_http_url_parse(s, counted) ==
    LET colon == Find(s, 0, {":"})
        start == colon + 3
        idx == Find(s, start, {":", "/"})
    IN IF colon >= Len(s) \/ colon = 0 THEN Invalid
       ELSE IF colon + 2 >= Len(s) \/ Part(s, colon + 1, start) # <<"/", "/">> THEN Invalid
       ELSE IF idx = start \/ start >= Len(s) THEN Invalid
       ELSE AfterHost(s, Part(s, 0, colon), start, idx, counted)

-----------------------------------------------------------------------------
\* A URL of the parts, of which the port and the path may not be there.
Joined(scheme, host, port, path) ==
    scheme \o <<":", "/", "/">> \o host \o (IF port = <<>> THEN <<>> ELSE <<":">> \o port)
           \o (IF path = <<>> THEN <<>> ELSE <<"/">> \o path[1])

Without(s, chars) == s # <<>> /\ \A n \in DOMAIN s : s[n] \notin chars

\* The grammar, stated apart: a scheme up to its colon, two slashes, a host up to a
\* colon, a slash or the end, and after a colon a port of digits up to a slash or the end.
IsUrl(s) ==
    \E i \in 1 .. Len(s) - 3 :
        /\ Without(Part(s, 0, i), {":"}) /\ Part(s, i, i + 3) = <<":", "/", "/">>
        /\ \E j \in i + 4 .. Len(s) :
              /\ Without(Part(s, i + 3, j), {":", "/"})
              /\ \E k \in j .. Len(s) :
                    /\ k = j \/ (k > j + 1 /\ s[j + 1] = ":" /\ Without(Part(s, j + 1, k), UrlChars \ Digits))
                    /\ k = Len(s) \/ s[k + 1] = "/"

\* The parser takes exactly the texts of the form scheme://host[:port][/path], wherever
\* they end, and the parts it returns are the text's: put together again they are the
\* text, no colon is in the scheme, no colon or slash in the host, and the port has
\* digits only.  A string that ends with a NUL has the parts of one that is counted, but
\* for the path, whose length is not computed.
UrlRight ==
    LET p == sxe_http_url_parse(url.text, url.counted)
        counted == sxe_http_url_parse(url.text, TRUE)
    IN /\ p.valid <=> IsUrl(url.text)
       /\ p.valid =>
             /\ Without(p.scheme, {":"}) /\ Without(p.host, {":", "/"})
             /\ p.port = <<>> \/ Without(p.port, UrlChars \ Digits)
             /\ IF url.counted THEN Joined(p.scheme, p.host, p.port, p.path) = url.text
                ELSE p = [counted EXCEPT !.path = IF @ = <<>> THEN @ ELSE <<"uncounted">>]
=============================================================================
