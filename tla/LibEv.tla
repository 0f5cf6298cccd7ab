-------------------------------- MODULE LibEv --------------------------------
(***************************************************************************)
(* lib-ev, the event loop: watchers, the queue of pending events of each   *)
(* priority, the heaps of timers and of periodics, and ev_loop, whose      *)
(* callbacks start, stop and feed watchers while events are pending.       *)
(*                                                                         *)
(* The time is a number of ticks.  A heap starts at 1 (HEAP0 in the code)  *)
(* and a watcher's active field is its place in its heap or its array.     *)
(* File descriptors are in LibEvEpoll, signals and asyncs in LibEvAsync.   *)
(***************************************************************************)
EXTENDS Integers, SequencesExt, FiniteSetsExt

CONSTANTS Timers, Periodics, Prepares, Checks, Idles,   \* watchers
          Priority,        \* ABSPRI of a watcher
          After, Repeat,   \* of a timer; the offset and the interval of a periodic
          Started,         \* what was started before the loop first runs, in order
          DHeap,           \* branches of the heaps: 4, or 2 with EV_MINIMAL
          MaxNow, MaxOps   \* bounds: the time, and calls made by callbacks

ASSUME DHeapAssumption == DHeap \in {2, 4}

VARIABLE ev

EvWatchers == Timers \cup Periodics \cup Prepares \cup Checks \cup Idles
Priorities == {Priority[w] : w \in EvWatchers}
PendingW == "pending_w"
Over == -1               \* below every priority: ev_invoke_pending is over
Lists == {<<"prepare", 0>>, <<"check", 0>>} \cup ({"idle"} \X Priorities)
ListOf(w) == IF w \in Prepares THEN <<"prepare", 0>> ELSE IF w \in Checks THEN <<"check", 0>> ELSE <<"idle", Priority[w]>>
HeapOf(w) == IF w \in Timers THEN "timers" ELSE "periodics"
RtNow(e) == e.now + e.skew

-----------------------------------------------------------------------------
(* Pending events.                                                         *)

\* ev_feed_event.  due (history): when a timer that expired was to, else FALSE.
FeedEvent(e, w, due) ==
    IF e.pending[w] # 0 THEN e
    ELSE [e EXCEPT !.pendings[Priority[w]] = Append(@, [w |-> w, due |-> due]), !.pending[w] = Len(e.pendings[Priority[w]]) + 1,
                   !.stopped = @ \ {w}]

QueueEvents(e, ws) == FoldLeft(LAMBDA x, w : FeedEvent(x, w, <<>>), e, ws)

\* feed_reverse_done: the last that was fed first.
FeedReverse(e, fed) == FoldLeft(LAMBDA x, f : FeedEvent(x, f.w, f.due), e, Reverse(fed))

ClearPending(e, w) ==
    IF e.pending[w] = 0 THEN e ELSE [e EXCEPT !.pendings[Priority[w]][e.pending[w]].w = PendingW, !.pending[w] = 0]

-----------------------------------------------------------------------------
(* The heaps.                                                              *)

HeapSet(e, h, k, he) == [e EXCEPT !.heap[h][k] = he, !.active[he.w] = k]
HParent(k) == (k - 2) \div DHeap + 1
Children(e, h, k) == {c \in DHeap * (k - 1) + 2 .. DHeap * k + 1 : c <= Len(e.heap[h])}
Soonest(e, h, cs) == CHOOSE c \in cs : \A d \in cs : e.heap[h][c].at < e.heap[h][d].at \/ (e.heap[h][c].at = e.heap[h][d].at /\ c <= d)

RECURSIVE DownHeap(_, _, _, _)
DownHeap(e, h, k, he) ==
    LET cs == Children(e, h, k)
        c == Soonest(e, h, cs) IN
    IF cs = {} \/ (cs # {} /\ he.at <= e.heap[h][c].at) THEN HeapSet(e, h, k, he)
    ELSE DownHeap(HeapSet(e, h, k, e.heap[h][c]), h, c, he)

RECURSIVE UpHeap(_, _, _, _)
UpHeap(e, h, k, he) ==
    IF k = 1 \/ (k # 1 /\ e.heap[h][HParent(k)].at <= he.at) THEN HeapSet(e, h, k, he)
    ELSE UpHeap(HeapSet(e, h, k, e.heap[h][HParent(k)]), h, HParent(k), he)

\* A mutant of AdjustHeap that only looks down.
AdjustHeapDown(e, h, k) == DownHeap(e, h, k, e.heap[h][k])

AdjustHeap(e, h, k) ==
    LET he == e.heap[h][k] IN
    IF k > 1 /\ he.at <= e.heap[h][HParent(k)].at THEN UpHeap(e, h, k, he) ELSE DownHeap(e, h, k, he)

ReHeap(e, h) == FoldLeft(LAMBDA x, k : UpHeap(x, h, k, x.heap[h][k]), e, [k \in DOMAIN e.heap[h] |-> k])

\* ANHE_at_cache of the watcher at k.
AtCache(e, h, k) == [e EXCEPT !.heap[h][k].at = e.at[e.heap[h][k].w]]

-----------------------------------------------------------------------------
(* Starting and stopping watchers.                                         *)

EvStart(e, w, active) == [e EXCEPT !.active[w] = active, !.activecnt = @ + 1]
EvStop(e, w) == [e EXCEPT !.active[w] = 0, !.activecnt = @ - 1]

HeapStart(e, w) ==
    LET h == HeapOf(w)
        k == Len(e.heap[h]) + 1
        he == [w |-> w, at |-> e.at[w]] IN
    UpHeap(EvStart([e EXCEPT !.heap[h] = Append(@, he)], w, k), h, k, he)

HeapStop(e, w) ==
    LET h == HeapOf(w)
        n == Len(e.heap[h])
        k == e.active[w]
        less == [e EXCEPT !.heap[h] = Front([@ EXCEPT ![k] = e.heap[h][n]])] IN
    EvStop(IF k < n THEN AdjustHeap(less, h, k) ELSE less, w)

TimerStart(e, w) == HeapStart([e EXCEPT !.at[w] = @ + e.now], w)

\* What is left of its time is kept.
TimerStop(e, w) == HeapStop([e EXCEPT !.at[w] = @ - e.now], w)

CeilDiv(a, b) == -((-a) \div b)

\* When a periodic is next due: never, or at its offset, without an interval.
PeriodicAt(e, w) == IF Repeat[w] = 0 THEN After[w] ELSE After[w] + CeilDiv(RtNow(e) - After[w], Repeat[w]) * Repeat[w]

PeriodicStart(e, w) == HeapStart([e EXCEPT !.at[w] = PeriodicAt(e, w)], w)

ListStart(e, w) == EvStart([e EXCEPT !.list[ListOf(w)] = Append(@, w)], w, Len(e.list[ListOf(w)]) + 1)

\* The last of the array takes the place of the one that stops.
ListStop(e, w) ==
    LET l == ListOf(w)
        last == Last(e.list[l]) IN
    EvStop([e EXCEPT !.list[l] = Front([@ EXCEPT ![e.active[w]] = last]), !.active[last] = e.active[w]], w)

\* ev_timer_start, ev_periodic_start, ev_prepare_start, ev_check_start, ev_idle_start
Start(e, w) ==
    IF e.active[w] # 0 THEN e
    ELSE IF w \in Timers THEN TimerStart(e, w) ELSE IF w \in Periodics THEN PeriodicStart(e, w) ELSE ListStart(e, w)

\* The stop functions: a timer that has expired is pending, and no longer active.
\* stopped (history): what was stopped since it was last fed.
Stop(e, w) ==
    LET c == [ClearPending(e, w) EXCEPT !.stopped = @ \cup {w}] IN
    IF e.active[w] = 0 THEN c
    ELSE IF w \in Timers THEN TimerStop(c, w) ELSE IF w \in Periodics THEN HeapStop(c, w) ELSE ListStop(c, w)

TimerAgain(e, w) ==
    LET again == [e EXCEPT !.at[w] = e.now + Repeat[w]] IN
    CASE e.active[w] # 0 /\ Repeat[w] # 0 -> AdjustHeap(AtCache(again, "timers", e.active[w]), "timers", e.active[w])
      [] e.active[w] # 0 /\ Repeat[w] = 0 -> Stop(e, w)
      [] e.active[w] = 0 /\ Repeat[w] # 0 -> TimerStart([e EXCEPT !.at[w] = Repeat[w]], w)
      [] OTHER -> e

-----------------------------------------------------------------------------
(* Time.                                                                   *)

PeriodicsReschedule(e) ==
    LET At(w) == IF Repeat[w] # 0 THEN PeriodicAt(e, w) ELSE e.at[w] IN
    ReHeap([e EXCEPT !.at = [w \in DOMAIN @ |-> IF w \in Periodics /\ e.active[w] # 0 THEN At(w) ELSE @[w]],
                     !.heap["periodics"] = [k \in DOMAIN @ |-> [w |-> @[k].w, at |-> At(@[k].w)]]], "periodics")

TimersReschedule(e, adjust) ==
    [e EXCEPT !.at = [w \in DOMAIN @ |-> IF w \in Timers /\ e.active[w] # 0 THEN @[w] + adjust ELSE @[w]],
              !.heap["timers"] = [k \in DOMAIN @ |-> [@[k] EXCEPT !.at = @ + adjust]]]

\* time_update: the real time may have jumped against the monotonic one.
TimeUpdate(e, now, skew) ==
    LET u == [e EXCEPT !.now = now, !.skew = skew] IN IF skew = e.skew THEN u ELSE PeriodicsReschedule(u)

\* ev_resume, when the time is now.
Resume(e, now) == PeriodicsReschedule(TimersReschedule([e EXCEPT !.now = now], now - e.now))

Due(e, h, now) == e.heap[h] # <<>> /\ e.heap[h][1].at < now
FirstDue(e, h) == [w |-> e.heap[h][1].w, due |-> <<e.heap[h][1].at>>]

\* The first of the heap is due again, at a later time.
Again(e, h, w, at) == LET a == AtCache([e EXCEPT !.at[w] = at], h, 1) IN DownHeap(a, h, 1, a.heap[h][1])

RECURSIVE TimersReify(_, _)
TimersReify(e, fed) ==
    LET w == e.heap["timers"][1].w
        at == e.at[w] + Repeat[w]
        next == IF Repeat[w] # 0 THEN Again(e, "timers", w, IF at < e.now THEN e.now ELSE at) ELSE TimerStop(ClearPending(e, w), w) IN
    IF Due(e, "timers", e.now) THEN TimersReify(next, Append(fed, FirstDue(e, "timers"))) ELSE FeedReverse(e, fed)

RECURSIVE PeriodicsReify(_, _)
PeriodicsReify(e, fed) ==
    LET w == e.heap["periodics"][1].w
        at == PeriodicAt(e, w)
        next == IF Repeat[w] # 0 THEN Again(e, "periodics", w, IF at = RtNow(e) THEN at + Repeat[w] ELSE at) ELSE HeapStop(ClearPending(e, w), w) IN
    IF Due(e, "periodics", RtNow(e)) THEN PeriodicsReify(next, Append(fed, FirstDue(e, "periodics"))) ELSE FeedReverse(e, fed)

\* The idle watchers of the highest priority that has some, unless an event of that
\* priority, or of a higher one, is pending.
IdleReify(e) ==
    LET busy == {p \in Priorities : e.pendings[p] # <<>> \/ e.list[<<"idle", p>>] # <<>>} IN
    IF busy = {} THEN e ELSE IF e.pendings[Max(busy)] # <<>> THEN e ELSE QueueEvents(e, e.list[<<"idle", Max(busy)>>])

-----------------------------------------------------------------------------
(* ev_loop.                                                                *)

EvInit == ev = FoldLeft(Start,
    [active |-> [w \in EvWatchers |-> 0], pending |-> [w \in EvWatchers |-> 0],
     at |-> [w \in Timers \cup Periodics |-> After[w]],
     heap |-> [h \in {"timers", "periodics"} |-> <<>>], list |-> [l \in Lists |-> <<>>],
     pendings |-> [p \in Priorities |-> <<>>], activecnt |-> 0, now |-> 0, skew |-> 0,
     loop_done |-> "cancel", pc |-> "out", pri |-> Over, ops |-> MaxOps, stopped |-> {}, wrong |-> FALSE], Started)

\* What a callback, or the program between loops, may call.
Calls(e) ==
    UNION {{[Start(e, w) EXCEPT !.ops = @ - 1], [Stop(e, w) EXCEPT !.ops = @ - 1], [FeedEvent(e, w, <<>>) EXCEPT !.ops = @ - 1]} : w \in EvWatchers}
        \cup {[TimerAgain(e, w) EXCEPT !.ops = @ - 1] : w \in Timers}
        \cup {[Resume(e, now) EXCEPT !.ops = @ - 1] : now \in e.now + 1 .. MaxNow}
        \cup {[e EXCEPT !.loop_done = how, !.ops = @ - 1] : how \in {"cancel", "one", "all"}}

Call == ev.pc = "out" /\ ev.ops > 0 /\ ev' \in Calls(ev)

EvLoop == ev.pc = "out" /\ ev' = [ev EXCEPT !.pc = "enter", !.pri = Max(Priorities), !.loop_done = "cancel"]

\* What ev_invoke_pending has still to empty: it goes down from priority pri, and an
\* event that is fed above it waits for the next time.
PendingPris == {p \in Priorities : p <= ev.pri /\ ev.pendings[p] # <<>>}

\* ev_invoke_pending: the last of a priority; its callback makes a call or none.
InvokePending ==
    LET p == Max(PendingPris)
        w == Last(ev.pendings[p]).w
        popped == [ev EXCEPT !.pendings[p] = Front(@), !.pri = p]
        e == IF w = PendingW THEN popped ELSE [popped EXCEPT !.pending[w] = 0, !.wrong = w \in ev.stopped] IN
    /\ PendingPris # {}
    /\ \/ ev' = e
       \/ w # PendingW /\ ev.ops > 0 /\ ev' \in Calls(e)

\* Without prepare watchers nothing is invoked before the poll.
QueuePrepares ==
    LET prepares == ev.list[<<"prepare", 0>>] IN
    /\ ev.pc = "enter" /\ PendingPris = {}
    /\ ev' = [QueueEvents(ev, prepares) EXCEPT !.pc = "prepare", !.pri = IF prepares = <<>> THEN Over ELSE Max(Priorities)]

\* The time passes while the backend polls.
BackendPoll ==
    /\ ev.pc = "prepare" /\ PendingPris = {} /\ ev.loop_done = "cancel"
    /\ \E now \in ev.now .. MaxNow, skew \in {ev.skew, 0, 1} : ev' = [TimeUpdate(ev, now, skew) EXCEPT !.pc = "polled", !.pri = Over]

Reify ==
    /\ ev.pc = "polled"
    /\ LET e == IdleReify(PeriodicsReify(TimersReify(ev, <<>>), <<>>)) IN
       ev' = [QueueEvents(e, e.list[<<"check", 0>>]) EXCEPT !.pc = "check", !.pri = Max(Priorities)]

\* Around again, or out.
LoopEnd ==
    /\ PendingPris = {} /\ ev.pc \in {"prepare", "check"} /\ (ev.pc = "prepare" => ev.loop_done # "cancel")
    /\ ev' = IF ev.pc = "check" /\ ev.activecnt > 0 /\ ev.loop_done = "cancel" THEN [ev EXCEPT !.pc = "enter", !.pri = Over]
             ELSE [ev EXCEPT !.pc = "out", !.pri = Over, !.loop_done = IF @ = "one" THEN "cancel" ELSE @]

EvNext == Call \/ EvLoop \/ InvokePending \/ QueuePrepares \/ BackendPoll \/ Reify \/ LoopEnd

EvSpec == EvInit /\ [][EvNext]_ev

-----------------------------------------------------------------------------
\* What ev_loop_verify asserts, in every state and not only once per iteration: the
\* heaps are heaps, every active watcher is where its active field says, and every
\* pending one where its pending field says, and nowhere else.  The loop's count of
\* what keeps it alive is the number of active watchers.
LoopVerified ==
    /\ \A h \in DOMAIN ev.heap : \A k \in DOMAIN ev.heap[h] :
          LET he == ev.heap[h][k] IN
          ev.active[he.w] = k /\ ev.at[he.w] = he.at /\ (k = 1 \/ ev.heap[h][HParent(k)].at <= he.at)
    /\ \A l \in Lists : \A k \in DOMAIN ev.list[l] : ev.active[ev.list[l][k]] = k
    /\ \A w \in EvWatchers : ev.pending[w] # 0 => ev.pendings[Priority[w]][ev.pending[w]].w = w
    /\ \A p \in Priorities : \A k \in DOMAIN ev.pendings[p] : ev.pendings[p][k].w = PendingW \/ ev.pending[ev.pendings[p][k].w] = k
    /\ ev.activecnt = Cardinality({w \in EvWatchers : ev.active[w] # 0})

\* A watcher that was stopped is not called, not even when its event was pending or
\* its timer had expired, until it is fed again.
StoppedNotCalled == ~ev.wrong

\* Of the timers that expired in one iteration with the same priority, the one that
\* was due first is called first, though the queue is emptied from its end.
TimersInOrder ==
    \A p \in Priorities : \A j, k \in DOMAIN ev.pendings[p] :
       LET a == ev.pendings[p][j]
           b == ev.pendings[p][k] IN
       (j < k /\ a.w \in Timers /\ b.w \in Timers /\ a.due # <<>> /\ b.due # <<>>) => a.due[1] >= b.due[1]

\* The loop's queues and heaps, whatever the callbacks start, stop and feed while
\* events are pending: consistent, without calls of stopped watchers, and in order.
LoopSound == LoopVerified /\ StoppedNotCalled /\ TimersInOrder
=============================================================================
