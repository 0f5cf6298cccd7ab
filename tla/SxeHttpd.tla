------------------------------ MODULE SxeHttpd ------------------------------
(***************************************************************************)
(* lib-sxe-httpd: an HTTP server on lib-sxe.  A pool of requests (one per  *)
(* connection) and a pool of output buffers serve the clients' streams.    *)
(*                                                                         *)
(* A stream is a sequence of units: a request line, a header, an empty     *)
(* line, a byte of body, or a part of a line that ends in a later unit.    *)
(* How lines are told apart, byte by byte, is SxeHttpMessage's subject;    *)
(* here the cells of the SXE's input buffer hold units, and the message    *)
(* parser reads those cells through its own pointer (base), as the code's  *)
(* does.  One thread runs everything: stack holds the callbacks of the     *)
(* application that have not returned, and the code after a callback runs  *)
(* when it does, in whatever state the callback left.                      *)
(***************************************************************************)
EXTENDS Integers, SequencesExt, FiniteSetsExt

CONSTANTS Requests,      \* max_connections requests
          Buffers,       \* buffer_count output buffers
          InputSize,       \* SXE_BUF_SIZE, in units
          Scripts,       \* for each connection: what the client may send, the callbacks that asks for,
                         \* and (a bound) the calls that the application answers with
          BodyLength,    \* the value of a Content-Length header
          MaxOut,        \* bound: buffers queued on a response
          MaxConnects,   \* bound: connections made
          MaxStack       \* bound: callbacks inside each other

App == "application"     \* a buffer that the application provides

ASSUME RequestsAssumption == IsFiniteSet(Requests) /\ Cardinality(Requests) >= 2
ASSUME InputSizeAssumption == InputSize \in Nat \ {0}
ASSUME BodyLengthAssumption == BodyLength \in Nat
ASSUME BuffersAssumption == IsFiniteSet(Buffers) /\ App \notin Buffers
ASSUME BoundsAssumption == MaxOut \in Nat /\ MaxConnects \in Nat /\ MaxStack \in Nat /\ Len(Scripts) = MaxConnects

VARIABLES server, stack, connects

httpdvars == <<server, stack, connects>>

States == {"FREE", "BAD", "IDLE", "LINE", "HEADERS", "BODY", "RESPONSE"}

\* The elements of list that are in S.
Only(list, S) ==
    LET first[k \in 0 .. Len(list)] ==
            IF k = 0 THEN <<>> ELSE IF list[k] \in S THEN Append(first[k - 1], list[k]) ELSE first[k - 1]
    IN first[Len(list)]

\* A connection: the SXE's buffer, watcher and flags, the message parser, the
\* request, and (history) the client's script and the callbacks made.
Fresh(s) == [state |-> "IDLE", cell |-> [k \in 1 .. InputSize |-> "junk"], in_total |-> 0, in_consumed |-> 0,
             watch |-> "read", held |-> FALSE, deferred |-> FALSE,
             base |-> 0, length |-> 0, next |-> 0, late |-> FALSE, ignore |-> FALSE,
             content_length |-> 0, content_seen |-> 0, paused |-> FALSE, started |-> FALSE, eoh |-> FALSE,
             out |-> <<>>, sending |-> "none", script |-> s, got |-> 0, calls |-> <<>>, skewed |-> FALSE]
NoScript == [units |-> <<>>, calls |-> <<>>, app |-> {}]
Closed(q) == [Fresh(NoScript) EXCEPT !.state = q.state, !.watch = "off"]

\* sxe_httpd_construct, and a listener.  order is the requests from the one
\* moved longest ago: each state's queue is its members in that order.
HttpdInit == /\ server \in [req : {[r \in Requests |-> [Fresh(NoScript) EXCEPT !.state = "FREE", !.watch = "off"]]},
                            order : {SetToSeq(Requests)}, free : {Buffers}, leaked : {{}}, aborted : {"none"},
                            defaults : BOOLEAN]
             /\ stack = <<>>
             /\ connects = 0

State(s, r) == s.req[r].state
Oldest(s, states) == Only(s.order, {r \in Requests : State(s, r) \in states})
Abort(s, why) == [s EXCEPT !.aborted = why]

\* sxe_pool_set_indexed_element_state, which aborts when the state is not old.
Move(s, r, old, new) ==
    IF State(s, r) # old THEN Abort(s, "state")
    ELSE [s EXCEPT !.req[r].state = new, !.order = Append(Only(@, Requests \ {r}), r)]

-----------------------------------------------------------------------------
(* The SXE under a request.                                                *)

Used(q) == q.in_total - q.in_consumed

\* memmove(in_buf, SXE_BUF(this), SXE_BUF_USED(this)).
Shuffle(q) == [q EXCEPT !.cell = [k \in 1 .. InputSize |-> IF k <= Used(q) THEN q.cell[k + q.in_consumed] ELSE q.cell[k]],
                        !.in_total = Used(q), !.in_consumed = 0]

sxe_buf_clear(q) == [q EXCEPT !.in_total = 0, !.in_consumed = 0, !.watch = IF @ = "off" THEN "read" ELSE @]

sxe_buf_consume(q, n) ==
    LET p == [q EXCEPT !.in_consumed = @ + n, !.held = TRUE] IN
    IF p.in_consumed = p.in_total THEN sxe_buf_clear(p) ELSE p

\* SXE_BUF_RESUME_IMMEDIATE.
sxe_buf_resume(q) ==
    LET p == IF q.in_consumed # 0 /\ q.in_total = InputSize
             THEN [Shuffle(q) EXCEPT !.watch = IF @ = "off" THEN "read" ELSE @] ELSE q IN
    [p EXCEPT !.held = FALSE, !.deferred = @ \/ Used(p) # 0]

\* The end of sxe_private_handle_read_data.
AfterRead(q) == IF q.in_total # InputSize THEN q
                ELSE IF q.in_consumed # 0 THEN Shuffle(q)
                ELSE [q EXCEPT !.watch = IF @ = "read" THEN "off" ELSE @]

-----------------------------------------------------------------------------
(* Output buffers.                                                         *)

AppEntries == [id : {App}, own : BOOLEAN, left : BOOLEAN]
Own(q) == {q.out[k].id : k \in DOMAIN q.out} \cap Buffers
Entry(b, own) == [id |-> b, own |-> own, left |-> TRUE]

\* sxe_httpd_get_buffer, and a push on the request's list.
PushBuffer(s, r, own) ==
    LET b == CHOOSE b \in s.free : TRUE IN
    [s EXCEPT !.free = @ \ {b}, !.req[r].out = Append(@, Entry(b, own))]

\* A mutant of sxe_httpd_give_buffers that gives only the first buffer back.
GiveFirst(s, r) ==
    [s EXCEPT !.free = @ \cup ({Head(s.req[r].out).id : k \in DOMAIN s.req[r].out} \cap Buffers),
              !.req[r].out = Only(@, AppEntries)]

sxe_httpd_give_buffers(s, r) ==
    [s EXCEPT !.free = @ \cup Own(s.req[r]), !.req[r].out = Only(@, AppEntries)]

\* The list is constructed again: buffers of the pool still on it stay USED.
sxe_httpd_clear_request(s, r) ==
    [s EXCEPT !.leaked = @ \cup Own(s.req[r]),
              !.req[r] = [@ EXCEPT !.content_length = 0, !.content_seen = 0, !.started = FALSE, !.eoh = FALSE,
                                   !.paused = FALSE, !.out = <<>>]]

\* sxe_close forgets the socket, the buffer, a deferred event and a write.
sxe_httpd_close(s, r) ==
    LET t == sxe_httpd_clear_request(s, r) IN
    Move([t EXCEPT !.req[r] = Closed(@)], r, State(s, r), "FREE")

\* The header, or the end of the headers, fits in the last buffer.
Fits(q, room) == room /\ q.out # <<>> /\ Last(q.out).own

sxe_httpd_response_start(s, r) ==
    IF s.free = {} THEN s ELSE [PushBuffer(s, r, TRUE) EXCEPT !.req[r].started = TRUE]

sxe_httpd_response_header(s, r, room) ==
    IF Fits(s.req[r], room) \/ s.free = {} THEN s ELSE PushBuffer(s, r, TRUE)

sxe_httpd_response_content_length(s, r, room) == sxe_httpd_response_header(s, r, room)

\* It has failed when eoh is still FALSE.
sxe_httpd_response_eoh(s, r, room) ==
    IF Fits(s.req[r], room) THEN [s EXCEPT !.req[r].eoh = TRUE]
    ELSE IF s.free = {} THEN s
    ELSE [PushBuffer(s, r, TRUE) EXCEPT !.req[r].eoh = TRUE]

EnsureEoh(s, r, room) == IF s.req[r].eoh THEN s ELSE sxe_httpd_response_eoh(s, r, room)

\* n buffers for the copy of a chunk, or none.
sxe_httpd_copy_data_to_buffer_list(s, n) == IF Cardinality(s.free) < n THEN {} ELSE CHOOSE B \in kSubset(n, s.free) : TRUE

Splice(s, r, B) == [s EXCEPT !.req[r].out = @ \o [k \in 1 .. Cardinality(B) |-> Entry(SetToSeq(B)[k], TRUE)]]

\* The buffers are taken before the end of the headers is written, and given
\* back when there is none left for that.
sxe_httpd_response_copy_body_data(s, r, n, room) ==
    LET B == sxe_httpd_copy_data_to_buffer_list(s, n)
        t == EnsureEoh([s EXCEPT !.free = @ \ B], r, room) IN
    IF B = {} THEN s
    ELSE IF ~t.req[r].eoh THEN [t EXCEPT !.free = @ \cup B]
    ELSE Splice(t, r, B)

sxe_httpd_response_copy_raw_data(s, r, n) ==
    LET B == sxe_httpd_copy_data_to_buffer_list(s, n) IN
    IF B = {} THEN s ELSE Splice([s EXCEPT !.free = @ \ B, !.req[r].eoh = TRUE], r, B)

sxe_httpd_response_add_body_data(s, r, room) ==
    LET t == EnsureEoh(s, r, room) IN
    IF ~t.req[r].eoh \/ t.free = {} THEN t ELSE PushBuffer(t, r, FALSE)

sxe_httpd_response_add_body_buffer(s, r, room) ==
    LET t == EnsureEoh(s, r, room) IN
    IF ~t.req[r].eoh THEN t ELSE [t EXCEPT !.req[r].out = Append(@, Entry(App, FALSE))]

sxe_httpd_response_add_raw_buffer(s, r) ==
    [s EXCEPT !.req[r].eoh = TRUE, !.req[r].out = Append(@, Entry(App, FALSE))]

-----------------------------------------------------------------------------
(* Sends.  stack holds, innermost first, the callbacks that have not       *)
(* returned: the callback, the request, and what the handler that called   *)
(* it keeps in its local variables.                                        *)

Frame(cb, r, consumed, kernel) == [cb |-> cb, r |-> r, consumed |-> consumed, kernel |-> kernel]
Sent(kind) == [end |-> "sent", send |-> "sent_part", file |-> "sent_file"][kind]

Emptied(s, r) == [s EXCEPT !.req[r].out = [k \in DOMAIN @ |-> [@[k] EXCEPT !.left = FALSE]]]

\* The written event of a send: the start of response_done, response_sent,
\* sendfile_ready and sendfile_done, up to the application's callback.
Completed(s, r, kind, ok) ==
    LET t == IF kind = "file" THEN s ELSE sxe_httpd_give_buffers(IF ok THEN Emptied(s, r) ELSE s, r) IN
    IF kind # "ready" THEN server' = t /\ stack' = <<Frame(Sent(kind), r, FALSE, FALSE)>> \o stack
    ELSE IF ~ok THEN server' = sxe_httpd_close(t, r) /\ UNCHANGED stack
    ELSE \/ server' = t /\ stack' = <<Frame(Sent("file"), r, FALSE, FALSE)>> \o stack
         \/ /\ server' = [t EXCEPT !.req[r].sending = "file", !.req[r].watch = "write"]
            /\ UNCHANGED stack

\* sxe_send_buffers: all is written, the socket fills up, or the write fails.
\* A failure is passed on, except by response_sendfile.
SendBuffers(s, r, kind) ==
    \/ \E ok \in BOOLEAN : /\ kind # "ready" \/ ok
                           /\ Completed(s, r, kind, ok)
    \/ kind = "ready" /\ server' = s /\ UNCHANGED stack
    \/ /\ server' = [s EXCEPT !.req[r].sending = kind, !.req[r].watch = "write"]
       /\ UNCHANGED stack

sxe_httpd_response_send(s, r) == SendBuffers(s, r, "send")

\* Without a buffer for the end of the headers nothing is sent.
sxe_httpd_response_end(s, r, room) ==
    LET t == EnsureEoh(s, r, room) IN
    IF t.req[r].eoh THEN SendBuffers(t, r, "end") ELSE server' = t /\ UNCHANGED stack

sxe_httpd_response_sendfile(s, r, room) ==
    LET t == EnsureEoh(s, r, room) IN
    IF t.req[r].eoh THEN SendBuffers(t, r, "ready") ELSE server' = t /\ UNCHANGED stack

\* A response without a body, up to its last send.
SimpleHead(s, r, room) ==
    LET t == sxe_httpd_response_header(sxe_httpd_response_start(s, r), r, room) IN
    sxe_httpd_response_content_length(t, r, room)

\* A mutant of ResponseDone that does not look at input that has been waiting.
ResponseDoneNoResume(s, r) ==
    LET t == sxe_httpd_clear_request(s, r) IN
    IF State(t, r) = "FREE" THEN t ELSE Move(t, r, State(t, r), "IDLE")

\* sxe_httpd_event_response_done after the callback.
ResponseDone(s, r) ==
    LET t == sxe_httpd_clear_request(s, r)
        u == Move(t, r, State(t, r), "IDLE") IN
    IF State(t, r) = "FREE" THEN t ELSE [u EXCEPT !.req[r] = sxe_buf_resume(@)]

\* The buffers that have been sent leave the list.
DropSent(s, r) ==
    LET out == s.req[r].out
        left == {k \in DOMAIN out : out[k].left} IN
    [s EXCEPT !.req[r].out = IF left = {} THEN <<>> ELSE SubSeq(@, Min(left), Len(@))]

-----------------------------------------------------------------------------
(* sxe_httpd_event_read.                                                   *)

\* The message parser reads the cells from base on.
At(q, k) == IF q.base + k <= InputSize THEN q.cell[q.base + k] ELSE "junk"
EndsLine(u) == u \notin {"part", "data", "junk"}
LineEnds(q) == {k \in q.next + 1 .. q.length : EndsLine(At(q, k))}

\* History: some of the n units from a place in the buffer on are not what the
\* client sent there.
Astray(q, from, n) ==
    \E k \in 1 .. n : from + k > InputSize \/ k > Used(q) \/ q.cell[from + k] # q.script.units[q.got - Used(q) + k]

\* SXE_EARLY_OUT, and the return into lib-sxe.
EarlyOut(s, r, consumed, kernel) ==
    LET q == s.req[r]
        p == IF consumed /\ ~q.paused /\ q.state # "FREE" THEN sxe_buf_resume(q) ELSE q IN
    [s EXCEPT !.req[r] = IF kernel THEN AfterRead(p) ELSE p]

Return(s, rest) == server' = s /\ stack' = rest

Callback(s, f, cb, r, units, rest) ==
    /\ server' = [s EXCEPT !.req[r].calls = @ \o units]
    /\ stack' = <<[f EXCEPT !.cb = cb]>> \o rest

\* SXE_ERROR_OUT.  The request is idle again, and made BAD, only when the
\* response was sent at once.
ErrorOut(s, f, r, rest) ==
    LET t == [s EXCEPT !.req[r] = sxe_buf_clear(@)] IN
    \E room, blocked \in BOOLEAN :
        LET u == EnsureEoh(SimpleHead(t, r, room), r, room)
            v == ResponseDone(sxe_httpd_give_buffers(u, r), r)
            w == IF u.req[r].eoh /\ ~blocked THEN Move(v, r, "IDLE", "BAD") ELSE Abort(u, "bad") IN
        Return(EarlyOut(w, r, FALSE, f.kernel), rest)

\* sxe_http_message_parse_next_header: the result, how much of an ignored line
\* to consume, and the parser.  A header is returned once the unit after it has
\* begun, for it could be a continuation.  The end of the headers is looked for in
\* the first call after a header only: late, when there was no byte of it yet.
ParseNextHeader(q) ==
    LET ends == LineEnds(q)
        k == Min(ends)
        Result(res, ignored, p) == [result |-> res, ignored |-> ignored, q |-> p]
        Ignored(n, more) == Result("block", n, [q EXCEPT !.length = @ - n, !.next = 0, !.late = ~more, !.ignore = more]) IN
    IF q.ignore
    THEN IF ends = {} THEN Ignored(q.length, TRUE)
         ELSE IF k = q.length THEN Ignored(k - 1, TRUE)
         ELSE IF At(q, k + 1) = "eoh" THEN Result("eof", 0, [q EXCEPT !.next = k + 1, !.ignore = FALSE])
         ELSE Ignored(k, FALSE)
    ELSE IF ends = {} THEN Result("block", 0, [q EXCEPT !.late = @ \/ q.next = q.length])
    ELSE IF At(q, k) = "eoh" /\ ~q.late /\ k = q.next + 1 THEN Result("eof", 0, [q EXCEPT !.next = k])
    ELSE IF At(q, k) \notin {"header", "length"} THEN Result("bad", 0, q)
    ELSE IF k = q.length THEN Result("block", 0, q)
    ELSE Result(At(q, k), 0, [q EXCEPT !.next = k, !.late = FALSE])

\* sxe_http_message_consume_parsed_headers, and sxe_buf_consume of as much.
ConsumeParsed(q) == sxe_buf_consume([q EXCEPT !.length = @ - q.next, !.next = 0], q.next)

\* sxe_http_message_buffer_shift_ignore_length.
ShiftIgnored(q, n) ==
    [q EXCEPT !.cell = [k \in 1 .. InputSize |-> IF k - q.base \in 1 .. q.length /\ k + n <= InputSize THEN @[k + n] ELSE @[k]]]

\* The loop over the headers, up to the next callback or the end of the event.
ReadHeaders(s, f, r, rest) ==
    LET q == [s.req[r] EXCEPT !.skewed = @ \/ Astray(s.req[r], s.req[r].base, s.req[r].length)]
        x == ParseNextHeader(q)
        With(p) == [s EXCEPT !.req[r] = p]
        Early(p, consumed) == Return(EarlyOut(With(p), r, consumed, f.kernel), rest) IN
    CASE x.result = "bad" -> ErrorOut(With(q), f, r, rest)
      [] x.ignored # 0 -> Early(ShiftIgnored(sxe_buf_consume(x.q, x.ignored), x.ignored), TRUE)
      [] x.result = "block" /\ x.ignored = 0 ->
            IF Used(q) # InputSize THEN Early(x.q, FALSE)
            ELSE IF q.next # 0 THEN Early(ConsumeParsed(x.q), TRUE)
            ELSE Early([sxe_buf_clear(x.q) EXCEPT !.length = 0, !.ignore = TRUE], FALSE)
      [] x.result = "eof" -> Callback(With(ConsumeParsed(x.q)), [f EXCEPT !.consumed = TRUE], "eoh", r, <<"eoh">>, rest)
      [] x.result = "header" -> Callback(With(x.q), f, "header", r, <<"header">>, rest)
      [] x.result = "length" -> Callback(With([x.q EXCEPT !.content_length = BodyLength]), f, "header", r, <<"length">>, rest)

\* The end of the body: the application is asked to respond.
Body(s, f, r, rest) ==
    IF s.req[r].content_length <= s.req[r].content_seen
    THEN Callback(Move(s, r, "BODY", "RESPONSE"), f, "respond", r, <<"respond">>, rest)
    ELSE Return(EarlyOut(s, r, f.consumed, f.kernel), rest)

Chunk(q) == Min({Used(q), q.content_length - q.content_seen})

ReadBody(s, f, r, rest) ==
    LET q == [s.req[r] EXCEPT !.skewed = @ \/ Astray(s.req[r], s.req[r].in_consumed, Used(s.req[r]))]
        n == Chunk(q)
        p == sxe_buf_consume([q EXCEPT !.content_seen = @ + n], n) IN
    IF q.content_length # 0 /\ Used(q) # 0
    THEN Callback([s EXCEPT !.req[r] = p], [f EXCEPT !.consumed = @ \/ n # 0], "body", r,
                  SubSeq(q.cell, q.in_consumed + 1, q.in_consumed + n), rest)
    ELSE Body(s, f, r, rest)

sxe_httpd_parse_method(u) == u # "badmethod"
sxe_httpd_parse_version(u) == u # "badversion"

\* The line has a method, a URL and a version, and ends there.
sxe_httpd_parse_request_line(p) ==
    LET ends == LineEnds(p)
        u == At(p, Min(ends)) IN
    ends # {} /\ u \in {"line", "badmethod", "badversion"} /\ sxe_httpd_parse_method(u) /\ sxe_httpd_parse_version(u)

\* LINE: wait for the end of the line, then parse it.
ReadLine(s, f, r) ==
    LET q == [s.req[r] EXCEPT !.length = Used(s.req[r])]
        p == [q EXCEPT !.skewed = @ \/ Astray(q, q.base, q.length)]
        t == [s EXCEPT !.req[r] = p] IN
    IF \A k \in p.in_consumed + 1 .. p.in_total : ~EndsLine(p.cell[k])
    THEN IF Used(p) = InputSize THEN ErrorOut(t, f, r, stack) ELSE Return(EarlyOut(t, r, FALSE, f.kernel), stack)
    ELSE IF ~sxe_httpd_parse_request_line(p) THEN ErrorOut(t, f, r, stack)
    ELSE Callback([t EXCEPT !.req[r].next = Min(LineEnds(p))], f, "request", r, <<"line">>, stack)

\* The buffer length of a message only grows.
Grown(s, r) == IF Used(s.req[r]) < s.req[r].length THEN Abort(s, "length")
               ELSE [s EXCEPT !.req[r].length = Used(s.req[r])]

sxe_httpd_event_read(s, r, kernel) ==
    LET f == Frame("read", r, FALSE, kernel)
        q == s.req[r] IN
    CASE q.paused \/ q.state \in {"BAD", "RESPONSE"} -> Return(EarlyOut(s, r, FALSE, kernel), stack)
      [] ~q.paused /\ q.state = "IDLE" ->
            ReadLine(Move([s EXCEPT !.req[r] = [@ EXCEPT !.base = q.in_consumed, !.length = Used(q), !.next = 0, !.late = FALSE, !.ignore = FALSE]],
                          r, "IDLE", "LINE"), f, r)
      [] ~q.paused /\ q.state = "LINE" -> ReadLine(Grown(s, r), f, r)
      [] ~q.paused /\ q.state = "HEADERS" -> ReadHeaders(Grown(s, r), f, r, stack)
      [] ~q.paused /\ q.state = "BODY" -> ReadBody(s, f, r, stack)

-----------------------------------------------------------------------------
(* What the loop calls.                                                    *)

Idle == stack = <<>> /\ server.aborted = "none"
Connected(r) == server.req[r].state # "FREE"
Full(q) == q.in_total = InputSize

\* A client connects: the oldest free request is its.
sxe_httpd_event_connect ==
    /\ Idle /\ connects < MaxConnects
    /\ connects' = connects + 1
    /\ \E script \in Scripts[connects + 1] :
          IF Oldest(server, {"FREE"}) = <<>>
          THEN server' = Abort(server, "connections") /\ UNCHANGED stack
          ELSE LET r == Head(Oldest(server, {"FREE"})) IN
               /\ server' = [Move(server, r, "FREE", "IDLE") EXCEPT !.req[r] = Fresh(script)]
               /\ stack' = <<Frame("connect", r, FALSE, FALSE)>>

\* BAD requests first, then the one that has been longest in its state.
Reaped(s) == Head(Oldest(s, {"BAD"}) \o Oldest(s, States \ {"FREE"}))

sxe_httpd_reap_oldest_connection(s) == sxe_httpd_close(s, Reaped(s))

\* recv returns data.  While the SXE is paused the data waits in its buffer.
Read(r) ==
    LET q == server.req[r] IN
    /\ Idle /\ Connected(r) /\ q.watch = "read" /\ UNCHANGED connects
    /\ \E n \in 1 .. Min({InputSize - q.in_total, Len(q.script.units) - q.got}) :
          LET p == [q EXCEPT !.cell = [k \in 1 .. InputSize |-> IF k - q.in_total \in 1 .. n THEN q.script.units[q.got + k - q.in_total] ELSE @[k]],
                             !.in_total = @ + n, !.got = @ + n]
              s == [server EXCEPT !.req[r] = p] IN
          IF p.held THEN server' = [s EXCEPT !.req[r] = AfterRead(p)] /\ UNCHANGED stack
          ELSE sxe_httpd_event_read(s, r, TRUE)

\* The deferred read event of a resumed SXE.
ReadDeferred(r) ==
    /\ Idle /\ Connected(r) /\ server.req[r].deferred /\ UNCHANGED connects
    /\ sxe_httpd_event_read([server EXCEPT !.req[r].deferred = FALSE], r, FALSE)

\* recv returns nothing: the client has closed, or there is no room.
sxe_httpd_event_close(r) ==
    LET q == server.req[r] IN
    /\ Idle /\ Connected(r) /\ q.watch = "read" /\ UNCHANGED connects
    /\ ~Full(q) \/ q.got < Len(q.script.units)
    /\ server' = sxe_httpd_close(server, r)
    /\ UNCHANGED stack

\* A blocked send comes to an end.
Written(r) ==
    LET kind == server.req[r].sending IN
    /\ Idle /\ Connected(r) /\ kind # "none" /\ UNCHANGED connects
    /\ \E ok \in BOOLEAN :
          Completed([server EXCEPT !.req[r].sending = "none", !.req[r].watch = IF kind = "file" THEN "off" ELSE "read"], r, kind, ok)

\* A callback returns, and the code after it runs.
CallbackReturns ==
    /\ stack # <<>> /\ server.aborted = "none" /\ UNCHANGED connects
    /\ LET f == Head(stack)
           r == f.r
           rest == Tail(stack)
           s == server IN
       CASE f.cb = "connect" ->
              Return(IF Oldest(s, {"FREE"}) = <<>> THEN sxe_httpd_reap_oldest_connection(s) ELSE s, rest)
         [] f.cb = "request" -> ReadHeaders(Grown(Move(s, r, "LINE", "HEADERS"), r), f, r, rest)
         [] f.cb = "header" -> ReadHeaders(s, f, r, rest)
         [] f.cb = "eoh" -> ReadBody(Move([s EXCEPT !.req[r].content_seen = 0], r, "HEADERS", "BODY"), f, r, rest)
         [] f.cb = "body" -> Body(s, f, r, rest)
         [] f.cb = "respond" -> Return(EarlyOut(s, r, f.consumed, f.kernel), rest)
         [] f.cb = "sent" -> Return(ResponseDone(s, r), rest)
         [] f.cb = "sent_part" -> Return(DropSent(s, r), rest)
         [] f.cb = "sent_file" -> Return([DropSent(s, r) EXCEPT !.req[r].watch = "read"], rest)

-----------------------------------------------------------------------------
(* What the application calls: in a callback for its request, or from a    *)
(* timer.  It responds once it is asked to, sends one thing at a time, and *)
(* does not use a request that it has closed.                              *)

InCallback(r, cbs) == stack # <<>> /\ Head(stack).r = r /\ Head(stack).cb \in cbs
Calling(r, cbs) == server.aborted = "none" /\ Connected(r) /\ UNCHANGED connects /\ (stack = <<>> \/ InCallback(r, cbs))

Writing(r, call) ==
              /\ Calling(r, {"respond", "sent_part", "sent_file"})
              /\ call \in server.req[r].script.app
              /\ State(server, r) = "RESPONSE" /\ server.req[r].sending = "none" /\ ~server.defaults
Queue(r, s) == Len(s.req[r].out) <= MaxOut /\ server' = s /\ UNCHANGED stack

CallStart(r) == Writing(r, "start") /\ ~server.req[r].started /\ Queue(r, sxe_httpd_response_start(server, r))

CallHeader(r) == /\ Writing(r, "header") /\ server.req[r].started /\ ~server.req[r].eoh
                 /\ \E room \in BOOLEAN : Queue(r, sxe_httpd_response_header(server, r, room))

CallBody(r) ==
    /\ Writing(r, "body") /\ server.req[r].started
    /\ \E room \in BOOLEAN :
          \/ \E n \in 1 .. 2 : Queue(r, sxe_httpd_response_copy_body_data(server, r, n, room))
          \/ Queue(r, sxe_httpd_response_add_body_data(server, r, room))
          \/ Queue(r, sxe_httpd_response_add_body_buffer(server, r, room))

CallRaw(r) == /\ Writing(r, "raw")
              /\ \/ Queue(r, sxe_httpd_response_copy_raw_data(server, r, 1))
                 \/ Queue(r, sxe_httpd_response_add_raw_buffer(server, r))

CallRespond(r) ==
    /\ server.req[r].started /\ Len(stack) < MaxStack
    /\ \/ Writing(r, "send") /\ sxe_httpd_response_send(server, r)
       \/ \E room \in BOOLEAN :
             \/ Writing(r, "end") /\ sxe_httpd_response_end(server, r, room)
             \/ Writing(r, "ready") /\ sxe_httpd_response_sendfile(server, r, room)

\* The default respond handler: sxe_httpd_response_simple with no body.
sxe_httpd_default_respond_handler(r) ==
    /\ server.defaults /\ server.aborted = "none" /\ UNCHANGED connects
    /\ InCallback(r, {"respond"}) /\ State(server, r) = "RESPONSE" /\ server.req[r].sending = "none"
    /\ ~server.req[r].started
    /\ \E room \in BOOLEAN : sxe_httpd_response_end(SimpleHead(server, r, room), r, room)

sxe_httpd_pause(r) ==
    /\ server.aborted = "none" /\ UNCHANGED connects
    /\ InCallback(r, {"request", "header", "eoh", "body"}) /\ ~server.req[r].paused /\ "pause" \in server.req[r].script.app
    /\ server' = [server EXCEPT !.req[r].paused = TRUE, !.req[r].held = TRUE]
    /\ UNCHANGED stack

sxe_httpd_resume(r) ==
    /\ Calling(r, {}) /\ server.req[r].paused
    /\ server' = [server EXCEPT !.req[r] = sxe_buf_resume([@ EXCEPT !.paused = FALSE])]
    /\ UNCHANGED stack

CallClose(r) ==
    /\ Calling(r, {"connect", "respond", "sent", "sent_part"}) /\ "close" \in server.req[r].script.app
    /\ server' = sxe_httpd_close(server, r)
    /\ UNCHANGED stack

Events(r) == Read(r) \/ ReadDeferred(r) \/ sxe_httpd_event_close(r) \/ Written(r)
AppCalls(r) == \/ CallStart(r) \/ CallHeader(r) \/ CallBody(r) \/ CallRaw(r) \/ CallRespond(r)
               \/ sxe_httpd_default_respond_handler(r)
               \/ sxe_httpd_pause(r) \/ sxe_httpd_resume(r) \/ CallClose(r)

HttpdNext == \/ sxe_httpd_event_connect
             \/ CallbackReturns
             \/ \E r \in Requests : Events(r) \/ AppCalls(r)

HttpdSpec == HttpdInit /\ [][HttpdNext]_httpdvars

-----------------------------------------------------------------------------
\* The callbacks that the application gets are, in order, those that the
\* client's stream asks for, however it was cut up by the network and by pauses:
\* as long as the parser has read what the client sent.
CallbacksFollowStream ==
    \A r \in Requests : server.req[r].skewed \/ IsPrefix(server.req[r].calls, server.req[r].script.calls)

\* When the loop is idle, all that a client sent has been handled, unless the
\* application holds the request, an event is deferred, or the stream was bad:
\* no pause, consume or pipelined request leaves input behind unnoticed.
InputHandled ==
    (stack = <<>> /\ server.aborted = "none") =>
        \A r \in Requests :
            LET q == server.req[r] IN
            (q.state \in {"IDLE", "LINE", "HEADERS", "BODY"} /\ ~q.paused /\ ~q.deferred /\ ~q.skewed) =>
                /\ ~q.held /\ q.watch = "read" /\ ~Full(q)
                /\ q.got = Len(q.script.units) => q.calls = q.script.calls

\* A used output buffer is in exactly one response, unless the request it was in
\* was cleared with output still queued; no free buffer is in a response.
BuffersAccounted ==
    LET q == server.req IN
    /\ \A r \in Requests : Cardinality(Own(q[r])) = Cardinality({k \in DOMAIN q[r].out : q[r].out[k].id # App})
    /\ \A r1, r2 \in Requests : r1 # r2 => Own(q[r1]) \cap Own(q[r2]) = {}
    /\ Buffers \ server.free = server.leaked \cup UNION {Own(q[r]) : r \in Requests}
    /\ \A r \in Requests : server.leaked \cap Own(q[r]) = {}

\* The one assertion that can fail is the move to BAD after an error response
\* that was not sent at once; the pool never runs out of requests, and every
\* handler finds its request in the state it left it in.
OnlyErrorResponsesAbort == server.aborted \in {"none", "bad"}

\* The stream of each client is handled, all of it and in order.
StreamHandled == CallbacksFollowStream /\ InputHandled

\* The server's own resources, whatever is closed, reaped or refused, and when.
HttpdSound == BuffersAccounted /\ OnlyErrorResponsesAbort
=============================================================================
