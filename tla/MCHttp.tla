------------------------------- MODULE MCHttp -------------------------------
(***************************************************************************)
(* The HTTP server, the message parser and the URL parser, each checked on *)
(* an instance of its own: a behaviour is one of the component that under  *)
(* names, and the others stay as they were constructed.                    *)
(***************************************************************************)
EXTENDS SxeHttpd, SxeHttpMessage, SxeHttpUrl

VARIABLE under

allvars == <<under, httpdvars, message, url>>

Script(units, calls, app) == [units |-> units, calls |-> calls, app |-> app]
Get(app) == Script(<<"line", "eoh">>, <<"line", "eoh", "respond">>, app)

\* The first client sends a request with a body and a pipelined one, a header
\* too long for the buffer, a bad line, a line too long, or a bad header, or
\* gets a response made in every way.  The others make simple requests.
MCScripts ==
    <<{Script(<<"line", "length", "eoh", "data", "data", "line", "eoh">>,
              <<"line", "length", "eoh", "data", "data", "respond", "line", "eoh", "respond">>, {"start", "end", "pause", "close"}),
       Script(<<"line", "part", "part", "part", "part", "header", "header", "eoh">>,
              <<"line", "header", "eoh", "respond">>, {"start", "end", "pause"}),
       Script(<<"badline">>, <<>>, {}),
       Script(<<"badmethod">>, <<>>, {}),
       Script(<<"badversion">>, <<>>, {}),
       Script(<<"part", "part", "part", "part">>, <<>>, {}),
       Script(<<"line", "badheader">>, <<"line">>, {"pause"}),
       Get({"start", "header", "body", "raw", "send", "ready", "end", "close"})},
      {Get({"start", "body", "end", "close"})},
      {Get({"start", "end"})}>>

\* A field that ends in spaces, one that goes on in the next line, spaces before
\* and between the elements of a line, and a newline alone.
MCTexts == {<<"g", Sp, "/", Cr, Lf, "a", Colon, Sp, "b", Sp, Cr, Lf, "c", Colon, "d", Cr, Lf, Cr, Lf>>,
            <<"g", Cr, Lf, "a", "b", Colon, "c", Cr, Lf, Sp, "d", Cr, Lf, Cr, Lf>>,
            <<Sp, "g", Sp, Sp, "/", "x", Cr, Lf, Cr, Lf>>,
            <<Cr, Lf, "a", Colon, "b", Lf, Cr, Lf>>}
AnyText == <<Cr, Lf, "a", Colon, "b", Lf, Cr, Lf>>
MCLineTypes == <<"token">>
MCUrlStarts == {<<>>, <<"a", ":", "/", "/">>}

MCInit ==
    /\ under \in {"httpd", "message", "url"}
    /\ HttpdInit /\ (under # "httpd" => server.defaults)
    /\ MessageInit /\ (under # "message" => message.text = AnyText)
    /\ UrlInit /\ (under # "url" => url.text = <<>> /\ url.counted)

MCNext ==
    /\ UNCHANGED under
    /\ \/ under = "httpd" /\ HttpdNext /\ UNCHANGED <<message, url>>
       \/ under = "message" /\ MessageNext /\ UNCHANGED <<httpdvars, url>>
       \/ under = "url" /\ UrlNext /\ UNCHANGED <<httpdvars, message>>

MCSpec == MCInit /\ [][MCNext]_allvars
=============================================================================
