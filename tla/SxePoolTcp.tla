----------------------------- MODULE SxePoolTcp -----------------------------
(***************************************************************************)
(* lib-sxe-pool-tcp: a fixed number of connections to one peer, or to as   *)
(* many spawned processes, kept in a timed pool.  The application asks for *)
(* a ready-to-write event, writes a request on the oldest ready connection *)
(* and gets the reply, the close or the timeout of that connection.        *)
(*                                                                         *)
(* There is one thread.  stack holds the code that is still to run: the    *)
(* rest of a handler, or a callback of the application that has not        *)
(* returned.  The SXEs are those of the module Sxe seen from outside: free *)
(* in the order they were closed, connecting or connected.                 *)
(*                                                                         *)
(* The application keeps the rules that the assertions demand: it asks for *)
(* an event when it has a request, writes the request in the event, takes  *)
(* a reply out of the buffer when it is complete, and leaves closing to    *)
(* the pool.  The peer sends nothing but a greeting and replies.           *)
(***************************************************************************)
EXTENDS Integers, FiniteSets, Sequences

Seqs == INSTANCE SequencesExt

CONSTANTS Concurrency,       \* how many connections there are
          NumSxes,           \* how many SXEs were registered
          Requests,          \* what the application has to send: its user data
          ConnectionRamp,    \* SXE_CONNECTION_RAMP
          FailureMax,        \* SXE_POOL_TCP_FAILURE_MAX
          InitializesInClose,  \* whether the application finishes an initialization in a close callback
          MaxSegments        \* bound: the segments of a reply

ASSUME ConcurrencyAssumption == Concurrency \in Nat \ {0} /\ NumSxes \in Nat \ {0}
ASSUME LimitsAssumption == ConnectionRamp \in Nat \ {0} /\ FailureMax \in Nat \ {0} /\ MaxSegments \in Nat \ {0}
ASSUME ApplicationAssumption == InitializesInClose \in BOOLEAN
ASSUME RequestsAssumption == IsFiniteSet(Requests) /\ "none" \notin Requests

Nodes == 0 .. Concurrency - 1
Sxes == 0 .. NumSxes - 1
States == {"UNCONNECTED", "CONNECTING", "INITIALIZING", "READY_TO_SEND", "IN_USE"}
NULL == -1
THEIRS == -2      \* the user data of the application, lent to an SXE for a callback

VARIABLES queue,               \* the nodes in each state, oldest first
          failure_count,       \* SXE_POOL_TCP_NODE.failure_count
          node_sxe,            \* SXE_POOL_TCP_NODE.sxe
          user_data,           \* SXE_POOL_TCP_NODE.user_data
          spawns,              \* per node, whether previous_spawn and current_spawn have a pid
          kind,                \* is_spawn and has_initialization
          queued,              \* count_ready_to_write_events_queued
          free, sxe,           \* the SXEs
          pending,             \* requests written, and neither answered nor closed on
          stack, deleted, aborted

pool == <<queue, failure_count, node_sxe, user_data, spawns>>
vars == <<pool, kind, queued, free, sxe, pending, stack, deleted, aborted>>

\* user is SXE_USER_DATA, asked the request that the peer has, due the segments
\* that it has still to send, used SXE_BUF_USED.
Sxe == [status : {"free", "connecting", "failed", "connected"}, user : Nodes \cup {NULL, THEIRS},
        asked : Requests \cup {"none"}, due : 0 .. MaxSegments, used : 0 .. MaxSegments]
FreeSxe == [status |-> "free", user |-> NULL, asked |-> "none", due |-> 0, used |-> 0]

\* The application runs in the callbacks "ready" (with the request unwritten),
\* "app", "connected", "init", "read", "closed" and "timeout".
Callbacks == {"app", "connected", "init", "read", "closed", "timeout"}
Frame == [at : Callbacks \cup {"ready", "ramp", "dispatch", "assert", "close", "event_close"}, of : Nat]
At(at, of) == <<[at |-> at, of |-> of]>>
Rest == IF stack = <<>> THEN <<>> ELSE Tail(stack)

StateOf(n) == CHOOSE s \in States : n \in Seqs!ToSet(queue[s])
Ready == queue["READY_TO_SEND"]

\* sxe_pool_tcp_new_internal with new_connect or new_spawn: everything is
\* unconnected and the ramp is about to run.
Init == /\ queue = [s \in States |-> IF s = "UNCONNECTED" THEN [i \in 1 .. Concurrency |-> Concurrency - i] ELSE <<>>]
        /\ failure_count = [n \in Nodes |-> 0]
        /\ node_sxe = [n \in Nodes |-> NULL]
        /\ user_data = [n \in Nodes |-> "none"]
        /\ spawns = [n \in Nodes |-> [previous |-> FALSE, current |-> FALSE]]
        /\ kind \in [is_spawn : BOOLEAN, has_initialization : BOOLEAN]
        /\ queued = 0
        /\ free = [i \in 1 .. NumSxes |-> NumSxes - i]
        /\ sxe = [x \in Sxes |-> FreeSxe]
        /\ pending = {}
        /\ stack = At("ramp", ConnectionRamp)
        /\ deleted = FALSE /\ aborted = FALSE

Running == ~deleted /\ ~aborted
InLoop == Running /\ stack = <<>>
Doing(at) == Running /\ stack # <<>> /\ Head(stack).at = at
Of == Head(stack).of

\* sxe_pool_set_indexed_element_state, which aborts in the wrong state.
Place(list, n) == CHOOSE k \in 1 .. Len(list) : list[k] = n
Moved(q, n, old, new) == [[q EXCEPT ![old] = Seqs!RemoveAt(@, Place(@, n))] EXCEPT ![new] = Append(@, n)]
Set(n, old, new) == /\ aborted' = (n \notin Seqs!ToSet(queue[old]))
                    /\ queue' = IF n \in Seqs!ToSet(queue[old]) THEN Moved(queue, n, old, new) ELSE queue

\* sxe_close of the SXE's owner; the user data stays.
Closed(x) == [FreeSxe EXCEPT !.user = sxe[x].user]

-----------------------------------------------------------------------------
(* connect_ramp, one turn of its loop.                                     *)

RampEnds == /\ Doing("ramp")
            /\ Of = 0 \/ queue["UNCONNECTED"] = <<>>
            /\ stack' = Rest
            /\ UNCHANGED <<pool, kind, queued, free, sxe, pending, deleted, aborted>>

Skips(n) == failure_count[n] >= FailureMax

RampSkips == /\ Doing("ramp") /\ Of > 0 /\ queue["UNCONNECTED"] # <<>>
             /\ LET n == Head(queue["UNCONNECTED"]) IN
                /\ Skips(n)
                /\ queue' = Moved(queue, n, "UNCONNECTED", "UNCONNECTED")
             /\ stack' = At("ramp", Of - 1) \o Rest
             /\ UNCHANGED <<failure_count, node_sxe, user_data, spawns, kind, queued, free, sxe, pending, deleted, aborted>>

\* previous_spawn = current_spawn, and current_spawn is made.
Spawn(n, made) == spawns' = IF kind.is_spawn THEN [spawns EXCEPT ![n] = [previous |-> @.current, current |-> made \/ @.current]]
                                             ELSE spawns

\* There is no free SXE: the node goes back, and the ramp ends.
RampFails == /\ Doing("ramp") /\ Of > 0 /\ queue["UNCONNECTED"] # <<>>
             /\ free = <<>>
             /\ LET n == Head(queue["UNCONNECTED"]) IN
                /\ ~Skips(n)
                /\ queue' = Moved(queue, n, "UNCONNECTED", "UNCONNECTED")
                /\ Spawn(n, FALSE)
             /\ stack' = Rest
             /\ UNCHANGED <<failure_count, node_sxe, user_data, kind, queued, free, sxe, pending, deleted, aborted>>

\* The node gets an SXE.  The result of sxe_connect is not looked at.
RampConnects ==
    /\ Doing("ramp") /\ Of > 0 /\ queue["UNCONNECTED"] # <<>>
    /\ free # <<>>
    /\ LET n == Head(queue["UNCONNECTED"])
           x == Head(free) IN
       /\ ~Skips(n)
       /\ queue' = Moved(queue, n, "UNCONNECTED", "CONNECTING")
       /\ Spawn(n, TRUE)
       /\ free' = Tail(free)
       /\ node_sxe' = [node_sxe EXCEPT ![n] = x]
       /\ \E status \in {"connecting"} \cup (IF kind.is_spawn THEN {} ELSE {"failed"}) :
             sxe' = [sxe EXCEPT ![x] = [FreeSxe EXCEPT !.status = status, !.user = n]]
    /\ stack' = At("ramp", Of - 1) \o Rest
    /\ UNCHANGED <<failure_count, user_data, kind, queued, pending, deleted, aborted>>

-----------------------------------------------------------------------------
(* Ready-to-write events.                                                  *)

\* A queued event is served when a connection has become ready.
Dispatch == /\ Doing("dispatch")
            /\ IF queued > 0 THEN queued' = queued - 1 /\ stack' = At("ready", 0) \o Rest
                             ELSE stack' = Rest /\ UNCHANGED queued
            /\ UNCHANGED <<pool, kind, free, sxe, pending, deleted, aborted>>

\* A mutant of Write that takes the newest ready connection's request data for
\* the oldest: user_data is set on the other end of the queue.
WriteWrongNode(r) ==
    /\ aborted' = (Ready = <<>>)
    /\ IF Ready = <<>> THEN UNCHANGED <<queue, user_data, sxe, pending>>
       ELSE LET n == Head(Ready) IN
            /\ queue' = Moved(queue, n, "READY_TO_SEND", "IN_USE")
            /\ user_data' = [user_data EXCEPT ![Seqs!Last(Ready)] = r]
            /\ pending' = pending \cup {r}
            /\ \E due \in 0 .. MaxSegments : sxe' = [sxe EXCEPT ![node_sxe[n]].asked = r, ![node_sxe[n]].due = due]

\* sxe_pool_tcp_write: the peer will answer in one or more segments, or never
\* when it or sxe_write fails.
Write(r) ==
    /\ aborted' = (Ready = <<>>)
    /\ IF Ready = <<>> THEN UNCHANGED <<queue, user_data, sxe, pending>>
       ELSE LET n == Head(Ready) IN
            /\ queue' = Moved(queue, n, "READY_TO_SEND", "IN_USE")
            /\ user_data' = [user_data EXCEPT ![n] = r]
            /\ pending' = pending \cup {r}
            /\ \E due \in 0 .. MaxSegments : sxe' = [sxe EXCEPT ![node_sxe[n]].asked = r, ![node_sxe[n]].due = due]

\* The event: the application writes the request that it asked for, and goes on.
sxe_pool_tcp_write ==
    /\ Doing("ready")
    /\ \E r \in Requests \ pending : Write(r)
    /\ stack' = At("app", 0) \o Rest
    /\ UNCHANGED <<failure_count, node_sxe, spawns, kind, queued, free, deleted>>

\* Where the application runs: a timer of its own, or a callback.
App == Running /\ (stack # <<>> => Head(stack).at \in Callbacks)

\* It has a request for which it has not asked.
Spare == Cardinality(pending) + queued < Cardinality(Requests)

\* A write without an event, when the application sees that a connection is ready.
WriteUnasked == /\ App /\ Spare /\ Ready # <<>>
                /\ \E r \in Requests \ pending : Write(r)
                /\ UNCHANGED <<failure_count, node_sxe, spawns, kind, queued, free, stack, deleted>>

sxe_pool_tcp_queue_ready_to_write_event ==
    /\ App /\ Spare
    /\ IF Ready = <<>> THEN queued' = queued + 1 /\ UNCHANGED stack
                       ELSE stack' = At("ready", 0) \o stack /\ UNCHANGED queued
    /\ UNCHANGED <<pool, kind, free, sxe, pending, deleted, aborted>>

sxe_pool_tcp_unqueue_ready_to_write_event ==
    /\ App
    /\ queued > 0
    /\ queued' = queued - 1
    /\ UNCHANGED <<pool, kind, free, sxe, pending, stack, deleted, aborted>>

-----------------------------------------------------------------------------
(* Events of the SXEs.                                                     *)

\* sxe_pool_tcp_restart.
Restart == At("ramp", ConnectionRamp) \o At("dispatch", 0)

\* The exit of the previous process is a failure, or not.
sxe_pool_tcp_event_connected(x) ==
    LET n == sxe[x].user IN
    /\ InLoop /\ sxe[x].status = "connecting"
    /\ failure_count' \in {failure_count} \cup
          (IF kind.is_spawn /\ spawns[n].previous THEN {[failure_count EXCEPT ![n] = @ + 1]} ELSE {})
    /\ IF kind.has_initialization
       THEN /\ Set(n, "CONNECTING", "INITIALIZING")
            /\ sxe' = [sxe EXCEPT ![x].status = "connected", ![x].due = 1]
            /\ stack' = At("connected", x)
       ELSE /\ Set(n, "CONNECTING", "READY_TO_SEND")
            /\ sxe' = [sxe EXCEPT ![x].status = "connected"]
            /\ stack' = Restart \o At("connected", x)
    /\ UNCHANGED <<node_sxe, user_data, spawns, kind, queued, free, pending, deleted>>

InClose == \E i \in DOMAIN stack : stack[i].at = "closed"

\* Called by the application once it has seen the greeting.  In the close
\* callback of another connection, the ramp may give that connection's SXE to a
\* node, and the rest of sxe_pool_tcp_event_close then clears its user data.
sxe_pool_tcp_initialized(x) ==
    LET n == sxe[x].user IN
    /\ App /\ (InClose => InitializesInClose)
    /\ n \in Seqs!ToSet(queue["INITIALIZING"]) /\ sxe[x].status = "connected" /\ sxe[x].due = 0
    /\ Set(n, "INITIALIZING", "READY_TO_SEND")
    /\ stack' = Restart \o stack
    /\ UNCHANGED <<failure_count, node_sxe, user_data, spawns, kind, queued, free, sxe, pending, deleted>>

\* A segment arrives.  In a reply the SXE carries the user data of the
\* application, which takes the reply when it is complete.
sxe_pool_tcp_event_read(x) ==
    LET n == sxe[x].user
        segment == [sxe[x] EXCEPT !.due = @ - 1, !.used = @ + 1] IN
    /\ InLoop /\ sxe[x].status = "connected" /\ sxe[x].due > 0
    /\ IF StateOf(n) = "INITIALIZING"
       THEN /\ sxe' = [sxe EXCEPT ![x] = [segment EXCEPT !.used = 0]]
            /\ stack' = At("init", x)
            /\ UNCHANGED <<failure_count, pending>>
       ELSE /\ failure_count' = [failure_count EXCEPT ![n] = 0]
            /\ sxe' = [sxe EXCEPT ![x] = [segment EXCEPT !.user = THEIRS, !.used = IF segment.due = 0 THEN 0 ELSE @]]
            /\ pending' = IF segment.due = 0 THEN pending \ {user_data[n]} ELSE pending
            /\ stack' = At("read", n)
    /\ UNCHANGED <<queue, node_sxe, user_data, spawns, kind, queued, free, deleted, aborted>>

\* The rest of sxe_pool_tcp_event_read.
ReadReturns ==
    /\ Doing("read")
    /\ sxe' = [sxe EXCEPT ![node_sxe[Of]].user = Of]
    /\ IF sxe[node_sxe[Of]].used # 0
       THEN stack' = Rest /\ UNCHANGED <<queue, aborted>>
       ELSE Set(Of, "IN_USE", "READY_TO_SEND") /\ stack' = At("dispatch", 0) \o At("assert", Of) \o Rest
    /\ UNCHANGED <<failure_count, node_sxe, user_data, spawns, kind, queued, free, pending, deleted>>

\* Item %u is in UNCONNECTED state.
ReadAsserts == /\ Doing("assert")
               /\ aborted' = (Of \in Seqs!ToSet(queue["UNCONNECTED"]))
               /\ stack' = Rest
               /\ UNCHANGED <<pool, kind, queued, free, sxe, pending, deleted>>

\* sxe_pool_tcp_event_close up to the callback of the application, which hears
\* of the request that was on the connection.
EventClose(x, sx) ==
    LET n == sx[x].user IN
    /\ IF n \in Nodes
       THEN LET old == StateOf(n) IN
            /\ aborted' = (old = "UNCONNECTED")
            /\ failure_count' = IF ~kind.is_spawn \/ old = "CONNECTING" THEN [failure_count EXCEPT ![n] = @ + 1] ELSE failure_count
            /\ queue' = Moved(queue, n, old, "UNCONNECTED")
            /\ pending' = IF old = "IN_USE" THEN pending \ {user_data[n]} ELSE pending
       ELSE aborted' = TRUE /\ UNCHANGED <<queue, failure_count, pending>>
    /\ sxe' = [sx EXCEPT ![x].user = THEIRS]
    /\ UNCHANGED <<node_sxe, user_data, spawns, kind, queued, deleted>>

\* The connection is refused: the SXE is closed after its close event.
Refused(x) == /\ InLoop /\ sxe[x].status = "connecting" /\ ~kind.is_spawn
              /\ EventClose(x, sxe)
              /\ stack' = At("closed", x) \o At("close", x)
              /\ UNCHANGED free

\* The peer closes, or the read fails: the SXE is closed before its close event.
Disconnected(x) == /\ InLoop /\ sxe[x].status = "connected"
                   /\ EventClose(x, [sxe EXCEPT ![x] = Closed(x)])
                   /\ free' = Append(free, x)
                   /\ stack' = At("closed", x)

\* The rest of sxe_pool_tcp_event_close.
CloseReturns == /\ Doing("closed")
                /\ sxe' = [sxe EXCEPT ![Of].user = NULL]
                /\ stack' = At("ramp", ConnectionRamp) \o Rest
                /\ UNCHANGED <<pool, kind, queued, free, pending, deleted, aborted>>

\* The end of sxe_io_cb_connect for a refused connection.
CloseRefused == /\ Doing("close")
                /\ sxe' = [sxe EXCEPT ![Of] = Closed(Of)]
                /\ free' = Append(free, Of)
                /\ stack' = Rest
                /\ UNCHANGED <<pool, kind, queued, pending, deleted, aborted>>

\* A mutant of TimedStates in which the timeouts are one state off.
TimedStatesOff == {"CONNECTING", "READY_TO_SEND"}

\* The states to which sxe_pool_tcp_new_internal gives a timeout.
TimedStates == {"INITIALIZING", "IN_USE"}

\* sxe_pool_check_timeouts finds the oldest node of a state overdue.
sxe_pool_tcp_event_read_timeout(n) ==
    /\ InLoop
    /\ \E s \in TimedStates : queue[s] # <<>> /\ Head(queue[s]) = n
    /\ stack' = At("timeout", n)
    /\ UNCHANGED <<pool, kind, queued, free, sxe, pending, deleted, aborted>>

\* After the application's timeout callback: sxe_close, and the close event.
TimeoutReturns == LET x == node_sxe[Of] IN
                  /\ Doing("timeout")
                  /\ IF sxe[x].status = "free"
                     THEN aborted' = TRUE /\ UNCHANGED <<pool, kind, queued, free, sxe, pending, stack, deleted>>
                     ELSE /\ EventClose(x, [sxe EXCEPT ![x] = Closed(x)])
                          /\ free' = Append(free, x)
                          /\ stack' = At("closed", x) \o Rest

\* After the connected and the initialization callback, or a ready-to-write event.
CallbackReturns == /\ Doing("connected") \/ Doing("init") \/ Doing("app")
                   /\ aborted' = (Head(stack).at # "app" /\ sxe[Of].user \notin Nodes)
                   /\ stack' = Rest
                   /\ UNCHANGED <<pool, kind, queued, free, sxe, pending, deleted>>

\* Between two events: every connection is closed, and its SXE has no user data.
sxe_pool_tcp_delete ==
    LET open == {n \in Nodes : n \notin Seqs!ToSet(queue["UNCONNECTED"])} IN
    /\ InLoop
    /\ sxe' = [x \in Sxes |-> IF \E n \in open : node_sxe[n] = x THEN FreeSxe ELSE sxe[x]]
    /\ queued' = 0 /\ pending' = {}
    /\ deleted' = TRUE
    /\ UNCHANGED <<pool, kind, free, stack, aborted>>

-----------------------------------------------------------------------------
Returns == ReadReturns \/ ReadAsserts \/ CloseReturns \/ CloseRefused \/ TimeoutReturns \/ CallbackReturns

\* The code that is on the stack goes on.
Continue == RampEnds \/ RampSkips \/ RampFails \/ RampConnects \/ Dispatch \/ sxe_pool_tcp_write \/ Returns

SxeEvent(x) == sxe_pool_tcp_event_connected(x) \/ sxe_pool_tcp_event_read(x) \/ Refused(x) \/ Disconnected(x)

Application == \/ sxe_pool_tcp_queue_ready_to_write_event \/ sxe_pool_tcp_unqueue_ready_to_write_event
               \/ WriteUnasked \/ sxe_pool_tcp_delete
               \/ \E x \in Sxes : sxe_pool_tcp_initialized(x)

Next == \/ Continue \/ Application
        \/ \E x \in Sxes : SxeEvent(x)
        \/ \E n \in Nodes : sxe_pool_tcp_event_read_timeout(n)

\* Callbacks return, and the application calls sxe_pool_check_timeouts again and again.
Spec == /\ Init /\ [][Next]_vars
        /\ WF_vars(Continue)
        /\ \A n \in Nodes : SF_vars(sxe_pool_tcp_event_read_timeout(n))

-----------------------------------------------------------------------------
\* Every node is in one state, and a node that has failed FailureMax times is
\* not connected again: its failure count never passes the limit.
PoolTcpTypeOK ==
    /\ \A s \in States : queue[s] \in Seq(Nodes)
    /\ \A n \in Nodes : \E s \in States : n \in Seqs!ToSet(queue[s]) /\ \A z \in States \ {s} : n \notin Seqs!ToSet(queue[z])
    /\ failure_count \in [Nodes -> 0 .. FailureMax]
    /\ node_sxe \in [Nodes -> Sxes \cup {NULL}]
    /\ user_data \in [Nodes -> Requests \cup {"none"}]
    /\ queued \in Nat
    /\ free \in Seq(Sxes)
    /\ sxe \in [Sxes -> Sxe]
    /\ pending \subseteq Requests
    /\ stack \in Seq(Frame)
    /\ {deleted, aborted} \subseteq BOOLEAN

\* Between events, connections and SXEs match one to one: a node that is not
\* unconnected has an SXE of its own, open in the way its state says and with
\* the node as its user data, and every open SXE belongs to such a node.  None
\* is leaked and none is shared, whatever failed, timed out or was refused, and
\* deleting the pool closes them all.
SocketsMatch ==
    /\ stack = <<>> /\ Running =>
        /\ \A n \in Nodes : LET s == StateOf(n) IN s # "UNCONNECTED" =>
              /\ sxe[node_sxe[n]].user = n
              /\ sxe[node_sxe[n]].status \in IF s = "CONNECTING" THEN {"connecting", "failed"} ELSE {"connected"}
        /\ \A x \in Sxes : sxe[x].status # "free" =>
              \E n \in Nodes : node_sxe[n] = x /\ StateOf(n) # "UNCONNECTED"
    /\ deleted => \A x \in Sxes : sxe[x].status = "free"

\* Between events no ready-to-write event waits while a connection is ready.
NoneReadyWhileQueued == stack = <<>> /\ Running => queued = 0 \/ Ready = <<>>

\* Between events the requests that are neither answered nor closed on are
\* those of the connections in use, each on one connection, and what the peer
\* has still to send on it is the reply to that request.
RequestsTracked ==
    stack = <<>> /\ Running =>
        LET used == Seqs!ToSet(queue["IN_USE"]) IN
        /\ pending = {user_data[n] : n \in used}
        /\ \A m, n \in used : user_data[m] = user_data[n] => m = n
        /\ \A n \in used : sxe[node_sxe[n]].asked = user_data[n]

\* While the application keeps the rules, no assertion of sxe-pool-tcp.c or of
\* its pool fails: a ready-to-write event finds a ready connection, and every
\* handler finds its node in the state it expects.
TcpAssertionsHold == ~aborted

\* The pool's nodes, SXEs, queued events and requests agree between events, whatever
\* failed, timed out or was closed inside another callback.
TcpSound == PoolTcpTypeOK /\ SocketsMatch /\ NoneReadyWhileQueued /\ RequestsTracked /\ TcpAssertionsHold

\* A request that was written is answered, or the application hears that its
\* connection was closed, even when the peer never answers.
RequestsEnd == \A r \in Requests : r \in pending ~> r \notin pending
=============================================================================
