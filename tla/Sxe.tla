-------------------------------- MODULE Sxe ---------------------------------
(***************************************************************************)
(* lib-sxe: connection objects (SXEs) driven by one libev loop.  This      *)
(* module models TCP: allocation from the pool, listen, connect, accept,   *)
(* the input buffer with its pause, consume and resume, deferred events,   *)
(* writing with back pressure, sendfile, and close.                        *)
(*                                                                         *)
(* Everything runs in one thread, so what interleaves is the order of the  *)
(* kernel's events and what the application does inside each callback.  A  *)
(* handler that calls back is split where it calls: stack holds the        *)
(* callbacks that have not returned, and when one returns, the code after  *)
(* the call runs in a state that the callback may have changed.            *)
(***************************************************************************)
EXTENDS Integers, Sequences

Seqs == INSTANCE SequencesExt

CONSTANTS Number,        \* sxe_array_total
          BufSize,       \* SXE_BUF_SIZE
          DeferredMax,   \* the counter of deferred_generic_invoke (64)
          MaxIn,         \* bound: bytes that the peer of a connection sends
          MaxWaiting,    \* bound: connections that wait to be accepted
          MaxStack,      \* bound: handlers and callbacks inside each other
          Calls          \* the calls that the application makes

ASSUME NumberAssumption == Number \in Nat \ {0}
ASSUME BufSizeAssumption == BufSize \in Nat \ {0}
ASSUME DeferredMaxAssumption == DeferredMax \in Nat
ASSUME CallsAssumption == Calls \subseteq {"listen", "connect", "close", "clear", "consume", "pause", "resume", "send", "notify", "sendfile"}
ASSUME BoundsAssumption == MaxIn \in Nat /\ MaxWaiting \in Nat /\ MaxStack \in Nat \ {0}

Ids == 0 .. Number - 1
States == {"FREE", "USED", "DEFERRED"}

VARIABLES queue,         \* the pool: the SXEs of each state, oldest first
          sxe,           \* the fields of each SXE
          net,           \* the kernel's side of each SXE's socket
          pc,            \* where the loop is: the release callback, or polling
          counter,       \* events the release callback may still invoke
          stack,         \* the handlers and callbacks that have not returned, innermost first
          aborted        \* whether an assertion has failed

vars == <<queue, sxe, net, pc, counter, stack, aborted>>

\* The callback that each SXE's ev_io watcher has.
Callbacks == {"none", "accept", "connect", "read", "send", "notify", "sendfile"}

\* at is the place in the stream of the byte at in_buf[0]; in_event stands for
\* in_event_connected and in_event_read, which are set and cleared together.
Fields == [in_total : 0 .. BufSize, in_consumed : 0 .. BufSize, at : Nat, paused : BOOLEAN, oneshot : BOOLEAN,
           in_event : BOOLEAN, out_event : BOOLEAN, deferred_event : {"none", "resume"},
           socket : {"invalid", "listen", "connecting", "connected"}, cb : Callbacks, active : BOOLEAN]

\* in is the data that waits in a connection, or the connections that wait at
\* a listener; got and ate are the data read and the data that the application
\* is done with.
Net == [in : Nat, eof : BOOLEAN, got : Nat, ate : Nat]
NoNet == [in |-> 0, eof |-> FALSE, got |-> 0, ate |-> 0]

\* A callback is named for the code that waits for it to return.  The accept
\* loop is on the stack too, while it has more to accept.
Frame == [cb : {"accepting", "timer", "resume", "read", "eof", "accept", "connect", "refused", "sent", "writable", "sendfile", "sendfile_failed"},
          this : Ids]

StateOf(i) == CHOOSE s \in States : \E k \in 1 .. Len(queue[s]) : queue[s][k] = i
Allocated == {i \in Ids : StateOf(i) # "FREE"}

\* sxe_pool_set_indexed_element_state.
Place(list, i) == CHOOSE k \in 1 .. Len(list) : list[k] = i
Moved(q, i, old, new) == [[q EXCEPT ![old] = Seqs!RemoveAt(@, Place(@, i))] EXCEPT ![new] = Append(@, i)]

USED(x) == x.in_total - x.in_consumed
Full(x) == x.in_total = BufSize

sxe_new_internal(x) == [x EXCEPT !.in_total = 0, !.in_consumed = 0, !.at = 0, !.paused = FALSE, !.oneshot = FALSE,
                                 !.in_event = TRUE, !.deferred_event = "none", !.socket = "invalid"]

\* ev_io_stop, ev_io_init and ev_io_start.
sxe_private_set_watch_events(x, cb) == [x EXCEPT !.cb = cb, !.active = TRUE]
sxe_watch_read(x) == sxe_private_set_watch_events(x, "read")

\* A mutant of Shuffle that leaves in_consumed alone.
ShuffleNoReset(x) == [x EXCEPT !.at = @ + x.in_consumed, !.in_total = @ - x.in_consumed]

\* The bytes in use move to the front of the buffer.
Shuffle(x) == [x EXCEPT !.at = @ + x.in_consumed, !.in_total = @ - x.in_consumed, !.in_consumed = 0]

\* A mutant of sxe_buf_clear that never restarts the watcher.
ClearNoRestart(x) == [x EXCEPT !.at = @ + x.in_total, !.in_total = 0, !.in_consumed = 0]

sxe_buf_clear(x) == [x EXCEPT !.at = @ + x.in_total, !.in_total = 0, !.in_consumed = 0,
                              !.active = @ \/ x.socket # "invalid"]

sxe_pause(x) == [x EXCEPT !.paused = TRUE]

sxe_buf_consume(x, bytes) ==
    LET y == sxe_pause([x EXCEPT !.in_consumed = @ + bytes]) IN
    IF y.in_consumed = y.in_total THEN sxe_buf_clear(y) ELSE y

\* The part of sxe_buf_resume that changes only the SXE.
sxe_buf_resume(x) ==
    LET y == [x EXCEPT !.paused = FALSE] IN
    IF y.in_consumed # 0 /\ Full(y) THEN [Shuffle(y) EXCEPT !.active = TRUE] ELSE y

\* sxe_close of an SXE that is not free: deferred_event and the close callback
\* stay.  The callback of the stopped watcher is forgotten, for it is set again
\* before the watcher is next started.
sxe_close(x) == [x EXCEPT !.socket = "invalid", !.active = @ /\ x.socket = "invalid", !.cb = "none",
                          !.in_event = FALSE, !.out_event = FALSE, !.in_total = 0, !.in_consumed = 0, !.at = 0]

\* The end of sxe_private_handle_read_data.
AfterRead(x) == IF ~Full(x) THEN x
                ELSE IF x.in_consumed # 0 THEN Shuffle(x) ELSE [x EXCEPT !.active = FALSE]

-----------------------------------------------------------------------------
NoFields == [in_total |-> 0, in_consumed |-> 0, at |-> 0, paused |-> FALSE, oneshot |-> FALSE, in_event |-> FALSE,
             out_event |-> FALSE, deferred_event |-> "none", socket |-> "invalid", cb |-> "none", active |-> FALSE]

\* sxe_init: all the SXEs are free, and the loop is about to be run.
Init == /\ queue = [s \in States |-> IF s = "FREE" THEN [k \in 1 .. Number |-> k - 1] ELSE <<>>]
        /\ sxe = [i \in Ids |-> NoFields]
        /\ net = [i \in Ids |-> NoNet]
        /\ pc = "release"
        /\ counter = DeferredMax
        /\ stack = <<>>
        /\ aborted = FALSE

Call(cb, this) == stack' = <<[cb |-> cb, this |-> this]>> \o stack
InLoop(p) == stack = <<>> /\ pc = p /\ ~aborted
Accepting == stack # <<>> /\ Head(stack).cb = "accepting"
InCallback == stack # <<>> /\ Head(stack).cb # "accepting" /\ ~aborted

Close(i) == /\ sxe' = [sxe EXCEPT ![i] = sxe_close(@)]
            /\ net' = [net EXCEPT ![i] = NoNet]
            /\ queue' = Moved(queue, i, StateOf(i), "FREE")

-----------------------------------------------------------------------------
(* The release callback: deferred_generic_invoke, once before every poll.  *)

deferred_generic_invoke ==
    /\ InLoop("release")
    /\ IF queue["DEFERRED"] = <<>>
       THEN pc' = "poll" /\ UNCHANGED <<queue, sxe, counter, stack, aborted>>
       ELSE LET i == Head(queue["DEFERRED"]) IN
            /\ queue' = Moved(queue, i, "DEFERRED", "USED")
            /\ IF counter = 0
               THEN pc' = "poll" /\ UNCHANGED <<sxe, counter, stack, aborted>>
               ELSE /\ counter' = counter - 1
                    /\ aborted' = (sxe[i].deferred_event = "none")
                    /\ sxe' = [sxe EXCEPT ![i].deferred_event = "none"]
                    /\ Call("resume", i)
                    /\ UNCHANGED pc
    /\ UNCHANGED net

\* The loop starts again.
Iterate == /\ InLoop("poll")
           /\ pc' = "release"
           /\ counter' = DeferredMax
           /\ UNCHANGED <<queue, sxe, net, stack, aborted>>

-----------------------------------------------------------------------------
(* The kernel acts at any time.  Only the loop and the accept loop can tell,  *)
(* so a step of the kernel is put off while a callback runs.                *)

Peers == ~aborted /\ (InLoop("poll") \/ Accepting)

PeerSends(i) == /\ Peers /\ sxe[i].socket = "connected" /\ ~net[i].eof /\ net[i].in + net[i].got < MaxIn
                /\ net' = [net EXCEPT ![i].in = @ + 1]
                /\ UNCHANGED <<queue, sxe, pc, counter, stack, aborted>>

PeerCloses(i) == /\ Peers /\ sxe[i].socket = "connected" /\ ~net[i].eof
                 /\ net' = [net EXCEPT ![i].eof = TRUE]
                 /\ UNCHANGED <<queue, sxe, pc, counter, stack, aborted>>

PeerConnects(i) == /\ Peers /\ sxe[i].socket = "listen" /\ net[i].in < MaxWaiting
                   /\ net' = [net EXCEPT ![i].in = @ + 1]
                   /\ UNCHANGED <<queue, sxe, pc, counter, stack, aborted>>

\* sxe_sendfile has started the read watcher of an SXE that its callback closed
\* and connected again, so only the kernel knows that the connection is made.
PeerAccepts(i) == /\ Peers /\ sxe[i].socket = "connecting" /\ sxe[i].cb # "connect"
                  /\ sxe' = [sxe EXCEPT ![i].socket = "connected"]
                  /\ UNCHANGED <<queue, net, pc, counter, stack, aborted>>

-----------------------------------------------------------------------------
(* Watcher callbacks.                                                      *)

Watching(i, cb) == InLoop("poll") /\ sxe[i].active /\ sxe[i].cb = cb

\* sxe_io_cb_read, when recv returns data.
ReadData(i) ==
    /\ Watching(i, "read") /\ sxe[i].socket = "connected"
    /\ \E length \in 1 .. BufSize - sxe[i].in_total :
          /\ length <= net[i].in
          /\ LET x == [sxe[i] EXCEPT !.in_total = @ + length] IN
             /\ net' = [net EXCEPT ![i].in = @ - length, ![i].got = @ + length]
             /\ IF x.paused
                THEN sxe' = [sxe EXCEPT ![i] = AfterRead(x)] /\ UNCHANGED stack
                ELSE sxe' = [sxe EXCEPT ![i] = x] /\ Call("read", i)
    /\ UNCHANGED <<queue, pc, counter, aborted>>

\* sxe_io_cb_read, when recv returns 0 or an error: there is no more data,
\* there is no room for it, or the socket is not connected.
ReadNothing(i) ==
    /\ Watching(i, "read")
    /\ \/ net[i].eof /\ net[i].in = 0
       \/ Full(sxe[i]) /\ net[i].in > 0
       \/ sxe[i].socket # "connected" /\ (sxe[i].socket = "listen" => net[i].in > 0)
    /\ Close(i)
    /\ Call("eof", i)
    /\ UNCHANGED <<pc, counter, aborted>>

\* sxe_io_cb_accept is called for a listener.
StartAccept(i) == /\ Watching(i, "accept")
                  /\ net[i].in > 0
                  /\ Call("accepting", i)
                  /\ UNCHANGED <<queue, sxe, net, pc, counter, aborted>>

\* A mutant of AcceptNext that leaves a connection waiting when no SXE is free.
AcceptOrWait ==
    /\ Accepting /\ ~aborted
    /\ LET i == Head(stack).this IN
       IF sxe[i].socket # "listen" \/ net[i].in = 0
       THEN stack' = Tail(stack) /\ UNCHANGED <<queue, sxe, net>>
       ELSE IF sxe[i].oneshot
       THEN /\ sxe' = [sxe EXCEPT ![i] = sxe_watch_read([@ EXCEPT !.socket = "connected"])]
            /\ net' = [net EXCEPT ![i] = NoNet]
            /\ stack' = <<[cb |-> "accept", this |-> i]>> \o Tail(stack)
            /\ UNCHANGED queue
       ELSE IF queue["FREE"] = <<>>
       THEN stack' = Tail(stack) /\ UNCHANGED <<queue, sxe, net>>
       ELSE LET that == Head(queue["FREE"]) IN
            /\ queue' = Moved(queue, that, "FREE", "USED")
            /\ sxe' = [sxe EXCEPT ![that] = sxe_watch_read([sxe_new_internal(@) EXCEPT !.socket = "connected"])]
            /\ net' = [net EXCEPT ![i].in = @ - 1, ![that] = NoNet]
            /\ Call("accept", that)
    /\ UNCHANGED <<pc, counter, aborted>>

\* One turn of the accept loop.  The listener may have been closed by the last
\* connected event; a one-shot listener becomes the connection; with no SXE
\* free, the accepted socket is closed and the loop ends.
AcceptNext ==
    /\ Accepting /\ ~aborted
    /\ LET i == Head(stack).this IN
       IF sxe[i].socket # "listen" \/ net[i].in = 0
       THEN stack' = Tail(stack) /\ UNCHANGED <<queue, sxe, net>>
       ELSE IF sxe[i].oneshot
       THEN /\ sxe' = [sxe EXCEPT ![i] = sxe_watch_read([@ EXCEPT !.socket = "connected"])]
            /\ net' = [net EXCEPT ![i] = NoNet]
            /\ stack' = <<[cb |-> "accept", this |-> i]>> \o Tail(stack)
            /\ UNCHANGED queue
       ELSE IF queue["FREE"] = <<>>
       THEN /\ net' = [net EXCEPT ![i].in = @ - 1]
            /\ stack' = Tail(stack)
            /\ UNCHANGED <<queue, sxe>>
       ELSE LET that == Head(queue["FREE"]) IN
            /\ queue' = Moved(queue, that, "FREE", "USED")
            /\ sxe' = [sxe EXCEPT ![that] = sxe_watch_read([sxe_new_internal(@) EXCEPT !.socket = "connected"])]
            /\ net' = [net EXCEPT ![i].in = @ - 1, ![that] = NoNet]
            /\ Call("accept", that)
    /\ UNCHANGED <<pc, counter, aborted>>

\* sxe_io_cb_connect: the connection is made, or the close event comes first
\* and the SXE is closed when it returns.
sxe_io_cb_connect(i) ==
    /\ Watching(i, "connect")
    /\ \/ /\ sxe' = [sxe EXCEPT ![i] = sxe_watch_read([@ EXCEPT !.socket = "connected"])]
          /\ Call("connect", i)
       \/ Call("refused", i) /\ UNCHANGED sxe
    /\ UNCHANGED <<queue, net, pc, counter, aborted>>

\* The rest of the buffers is sent, or the write fails; while it would block,
\* nothing changes.
sxe_io_cb_send_buffers(i) ==
    /\ Watching(i, "send")
    /\ sxe' = [sxe EXCEPT ![i] = sxe_watch_read(@)]
    /\ Call("sent", i)
    /\ UNCHANGED <<queue, net, pc, counter, aborted>>

sxe_io_cb_notify_writable(i) ==
    /\ Watching(i, "notify")
    /\ sxe' = [sxe EXCEPT ![i] = [sxe_watch_read(@) EXCEPT !.out_event = FALSE]]
    /\ IF sxe[i].out_event THEN Call("writable", i) ELSE UNCHANGED stack
    /\ UNCHANGED <<queue, net, pc, counter, aborted>>

\* sxe_sendfile: the file is sent (or its end reached), the socket fills up, or
\* the call fails.
sxe_sendfile(i) ==
    \/ /\ Call("sendfile", i)
       /\ sxe' = [sxe EXCEPT ![i].out_event = TRUE]
    \/ /\ sxe' = [sxe EXCEPT ![i] = [sxe_private_set_watch_events(@, "sendfile") EXCEPT !.out_event = TRUE]]
       /\ UNCHANGED stack
    \/ /\ Call("sendfile_failed", i)
       /\ sxe' = [sxe EXCEPT ![i].out_event = TRUE]

\* The callback that sxe_sendfile was given may be gone.
sxe_io_cb_sendfile(i) ==
    /\ Watching(i, "sendfile")
    /\ IF sxe[i].out_event THEN sxe_sendfile(i) /\ UNCHANGED aborted
                           ELSE aborted' = TRUE /\ UNCHANGED <<sxe, stack>>
    /\ UNCHANGED <<queue, net, pc, counter>>

\* A timer of the application.
Timer == /\ InLoop("poll")
         /\ Call("timer", 0)
         /\ UNCHANGED <<queue, sxe, net, pc, counter, aborted>>

-----------------------------------------------------------------------------
(* A callback returns, and the code after the call runs.                   *)

\* A completed sxe_sendfile watches for reading; libev asserts that the file
\* descriptor is not negative.
Return ==
    /\ InCallback
    /\ LET i == Head(stack).this
           cb == Head(stack).cb IN
       /\ stack' = Tail(stack)
       /\ CASE cb = "read" -> sxe' = [sxe EXCEPT ![i] = AfterRead(@)] /\ UNCHANGED <<queue, net>>
            [] cb = "refused" /\ StateOf(i) # "FREE" -> Close(i)
            [] cb = "sendfile" ->
                  /\ sxe' = [sxe EXCEPT ![i] = IF @.socket = "invalid" THEN @
                                               ELSE [sxe_watch_read(@) EXCEPT !.out_event = FALSE]]
                  /\ UNCHANGED <<queue, net>>
            [] cb = "sendfile_failed" -> sxe' = [sxe EXCEPT ![i].out_event = FALSE] /\ UNCHANGED <<queue, net>>
            [] OTHER -> UNCHANGED <<queue, sxe, net>>
       /\ aborted' = (cb = "sendfile" /\ sxe[i].socket = "invalid")
    /\ UNCHANGED <<pc, counter>>

-----------------------------------------------------------------------------
(* Calls that the application makes in a callback.                         *)

AppCall(c) == InCallback /\ c \in Calls

\* The application's call changes only the SXE.
Change(i, x) == sxe' = [sxe EXCEPT ![i] = x] /\ UNCHANGED <<queue, net, pc, counter, stack, aborted>>

sxe_new == /\ AppCall("listen") \/ AppCall("connect")
           /\ queue["FREE"] # <<>>
           /\ LET i == Head(queue["FREE"]) IN
              /\ queue' = Moved(queue, i, "FREE", "USED")
              /\ sxe' = [sxe EXCEPT ![i] = sxe_new_internal(@)]
           /\ UNCHANGED <<net, pc, counter, stack, aborted>>

sxe_listen(i) == /\ AppCall("listen")
                 /\ sxe[i].socket = "invalid"
                 /\ \E oneshot \in BOOLEAN :
                       Change(i, [sxe_private_set_watch_events(sxe[i], "accept") EXCEPT !.socket = "listen", !.oneshot = oneshot])

\* A connection in progress, or a failure after which the watcher is stopped.
sxe_connect(i) == /\ AppCall("connect")
                  /\ sxe[i].socket = "invalid"
                  /\ \/ Change(i, [sxe_private_set_watch_events(sxe[i], "connect") EXCEPT !.socket = "connecting"])
                     \/ Change(i, [sxe[i] EXCEPT !.cb = "connect"])

CallClose(i) == /\ AppCall("close")
                /\ Close(i)
                /\ UNCHANGED <<pc, counter, stack, aborted>>

CallClear(i) == /\ AppCall("clear")
                /\ sxe' = [sxe EXCEPT ![i] = sxe_buf_clear(@)]
                /\ net' = [net EXCEPT ![i].ate = @ + USED(sxe[i])]
                /\ UNCHANGED <<queue, pc, counter, stack, aborted>>

CallConsume(i) == /\ AppCall("consume")
                  /\ \E bytes \in 0 .. USED(sxe[i]) :
                        /\ sxe' = [sxe EXCEPT ![i] = sxe_buf_consume(@, bytes)]
                        /\ net' = [net EXCEPT ![i].ate = @ + bytes]
                  /\ UNCHANGED <<queue, pc, counter, stack, aborted>>

CallPause(i) == AppCall("pause") /\ Change(i, sxe_pause(sxe[i]))

\* SXE_BUF_RESUME_WHEN_MORE_DATA.
CallResume(i) == AppCall("resume") /\ Change(i, sxe_buf_resume(sxe[i]))

\* SXE_BUF_RESUME_IMMEDIATE, with data in the buffer: deferred_generic_setup.
CallResumeNow(i) ==
    /\ AppCall("resume")
    /\ USED(sxe[i]) # 0
    /\ IF StateOf(i) = "DEFERRED"
       THEN /\ sxe' = [sxe EXCEPT ![i] = sxe_buf_resume(@)]
            /\ UNCHANGED <<queue, aborted>>
       ELSE IF sxe[i].deferred_event # "none"
       THEN aborted' = TRUE /\ UNCHANGED <<queue, sxe>>
       ELSE /\ sxe' = [sxe EXCEPT ![i] = [sxe_buf_resume(@) EXCEPT !.deferred_event = "resume"]]
            /\ queue' = Moved(queue, i, "USED", "DEFERRED")
            /\ UNCHANGED aborted
    /\ UNCHANGED <<net, pc, counter, stack>>

\* One write at a time: the application waits for the written event.
MayWrite(i) == sxe[i].socket = "connected" /\ ~(sxe[i].active /\ sxe[i].cb \in {"send", "notify", "sendfile"})

\* All is written at once, or the write fails, or the rest waits.
sxe_send(i) == /\ AppCall("send")
               /\ MayWrite(i)
               /\ \/ Change(i, [sxe[i] EXCEPT !.out_event = TRUE])
                  \/ Change(i, [sxe_private_set_watch_events(sxe[i], "send") EXCEPT !.out_event = TRUE])

sxe_notify_writable(i) == /\ AppCall("notify")
                          /\ MayWrite(i)
                          /\ Change(i, [sxe_private_set_watch_events(sxe[i], "notify") EXCEPT !.out_event = TRUE])

CallSendfile(i) == /\ AppCall("sendfile")
                   /\ MayWrite(i) /\ Len(stack) < MaxStack
                   /\ sxe_sendfile(i)
                   /\ UNCHANGED <<queue, net, pc, counter, aborted>>

-----------------------------------------------------------------------------
Kernel(i) == PeerSends(i) \/ PeerCloses(i) \/ PeerConnects(i) \/ PeerAccepts(i)

Watcher(i) == \/ ReadData(i) \/ ReadNothing(i) \/ StartAccept(i) \/ sxe_io_cb_connect(i)
              \/ sxe_io_cb_send_buffers(i) \/ sxe_io_cb_notify_writable(i) \/ sxe_io_cb_sendfile(i)

App(i) == \/ sxe_listen(i) \/ sxe_connect(i) \/ CallClose(i) \/ CallClear(i) \/ CallConsume(i) \/ CallPause(i)
          \/ CallResume(i) \/ CallResumeNow(i) \/ sxe_send(i) \/ sxe_notify_writable(i) \/ CallSendfile(i)

Next == \/ deferred_generic_invoke \/ Iterate \/ AcceptNext \/ Return \/ Timer \/ sxe_new
        \/ \E i \in Ids : Kernel(i) \/ Watcher(i)
        \/ \E i \in Allocated : App(i)

Spec == Init /\ [][Next]_vars

\* Callbacks return, the loop goes round, and every poll reports every ready
\* watcher, so a watcher that is ready again and again is called.
FairSpec == /\ Spec
            /\ WF_vars(Return) /\ WF_vars(AcceptNext) /\ WF_vars(deferred_generic_invoke)
            /\ \A i \in Ids : SF_vars(StartAccept(i))

-----------------------------------------------------------------------------
\* Queues hold SXEs, the counts of every SXE stay inside its buffer, and the
\* release callback never invokes more events than its counter allows.
SxeTypeOK == /\ queue \in [States -> Seq(Ids)]
             /\ sxe \in [Ids -> Fields]
             /\ net \in [Ids -> Net]
             /\ pc \in {"release", "poll"}
             /\ counter \in 0 .. DeferredMax
             /\ stack \in Seq(Frame)
             /\ aborted \in BOOLEAN

\* A connection stops listening to its socket only when its buffer is full, so
\* data never waits for ever behind a buffer with room for it.
ReadsNotForgotten == \A i \in Ids : sxe[i].socket = "connected" /\ ~sxe[i].active => Full(sxe[i])

\* The buffer holds the stream's data in order, with nothing lost and nothing
\* twice: from the first byte the application has not consumed to the last
\* byte read.
BufferIsStream == \A i \in Ids : sxe[i].socket = "connected" =>
                      /\ sxe[i].at + sxe[i].in_total = net[i].got
                      /\ sxe[i].at + sxe[i].in_consumed = net[i].ate

\* Whatever is on the deferred queue has an event to invoke, a callback to
\* invoke it with, and an open socket: closing takes an SXE off the queue.
DeferredReady == \A i \in Ids : StateOf(i) = "DEFERRED" =>
                     sxe[i].deferred_event # "none" /\ sxe[i].in_event /\ sxe[i].socket # "invalid"

\* Whatever the application does in its callbacks, every SXE is in a state that the
\* loop can go on from: watched while it has room, and deferred only with an event
\* to invoke.
ConnectionsSound == SxeTypeOK /\ ReadsNotForgotten /\ DeferredReady

\* A connection that waits at a listener is accepted, or closed because no SXE
\* is free, unless the listener is closed: provided that the loop keeps coming
\* round, for sxe_io_cb_accept goes on as long as connections keep arriving.
NoneLeftWaiting == []<>InLoop("poll") =>
    \A i \in Ids : net[i].in > 0 /\ sxe[i].socket = "listen" ~> net[i].in = 0 \/ sxe[i].socket # "listen"

\* No assertion of sxe.c or of libev fails.
AssertionsHold == ~aborted
=============================================================================
