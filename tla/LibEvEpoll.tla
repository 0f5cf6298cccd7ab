----------------------------- MODULE LibEvEpoll -----------------------------
(***************************************************************************)
(* lib-ev, file descriptors: io watchers, the changes that fd_reify tells  *)
(* the kernel, and the epoll backend, which does not tell it of watchers   *)
(* that stop and finds stale events by a generation number.                *)
(*                                                                         *)
(* The kernel knows a file by the descriptor that it was added with, and   *)
(* keeps it until the file is closed everywhere: a child that was spawned  *)
(* may still have it.  The descriptor is then used for another file.       *)
(***************************************************************************)
EXTENDS Integers, SequencesExt, FiniteSetsExt

CONSTANTS IoWatchers,      \* watchers
          IoEvents,        \* of a watcher: what it waits for, a subset of {"R", "W"}
          IoFd,            \* of a watcher: its descriptor
          MaxFiles, MaxIoOps   \* bounds: files opened, calls of the program

VARIABLE epoll

Fds == {IoFd[w] : w \in IoWatchers}
NoFile == 0

EpollInit == epoll =
    [file |-> [fd \in Fds |-> NoFile],        \* the file open at each descriptor
     files |-> 0, elsewhere |-> {}, ready |-> [f \in 1 .. MaxFiles |-> {}],
     kernel |-> {},                           \* [fd, file, events, gen]
     head |-> [fd \in Fds |-> <<>>], events |-> [fd \in Fds |-> {}], emask |-> [fd \in Fds |-> {}], egen |-> [fd \in Fds |-> 0],
     reify |-> [fd \in Fds |-> {}],           \* EV_ANFD_REIFY and EV__IOFDSET
     fdset |-> [w \in IoWatchers |-> TRUE],   \* EV__IOFDSET of each watcher
     fdchanges |-> <<>>, postfork |-> FALSE, pendings |-> {}, pc |-> "run", ops |-> MaxIoOps,
     missed |-> [w \in IoWatchers |-> 0]]    \* history: polls in a row that missed its event

-----------------------------------------------------------------------------
(* ev_io_start and ev_io_stop.                                             *)

FdChange(e, fd, flags) ==
    [e EXCEPT !.reify[fd] = @ \cup flags, !.fdchanges = IF e.reify[fd] = {} THEN Append(@, fd) ELSE @]

IsActive(e, w) == w \in ToSet(e.head[IoFd[w]])
ClearIoPending(e, w) == [e EXCEPT !.pendings = {p \in @ : p.w # w}]

IoStart(e, w) ==
    IF IsActive(e, w) THEN e
    ELSE FdChange([e EXCEPT !.head[IoFd[w]] = <<w>> \o @, !.fdset[w] = FALSE], IoFd[w],
                  {"reify"} \cup (IF e.fdset[w] THEN {"fdset"} ELSE {}))

IoStop(e, w) ==
    LET c == [ClearIoPending(e, w) EXCEPT !.missed[w] = 0] IN
    IF IsActive(e, w) THEN FdChange([c EXCEPT !.head[IoFd[w]] = SelectSeq(@, LAMBDA x : x # w)], IoFd[w], {"reify"}) ELSE c

\* Both kinds of event and an error: there is no file to watch.
FdKill(e, fd) ==
    FoldLeft(LAMBDA x, w : LET s == IoStop(x, w) IN [s EXCEPT !.pendings = @ \cup {[w |-> w, file |-> NoFile]}], e, e.head[fd])

-----------------------------------------------------------------------------
(* The kernel.                                                             *)

Known(e, fd) == {k \in e.kernel : k.fd = fd /\ k.file = e.file[fd]}
Entry(e, fd, events) == [fd |-> fd, file |-> e.file[fd], events |-> events, gen |-> e.egen[fd]]
Put(e, fd, events) == [e EXCEPT !.kernel = (@ \ Known(e, fd)) \cup {Entry(e, fd, events)}]

\* epoll_ctl: what it answers to EPOLL_CTL_ADD or EPOLL_CTL_MOD.
EpollCtl(e, fd, mod) ==
    CASE e.file[fd] = NoFile -> "EBADF"
      [] e.file[fd] # NoFile /\ mod /\ Known(e, fd) = {} -> "ENOENT"
      [] e.file[fd] # NoFile /\ ~mod /\ Known(e, fd) # {} -> "EEXIST"
      [] OTHER -> "ok"

\* epoll_modify.  A watcher that stopped is not taken out of the kernel.
EpollModify(e, fd, oev, nev) ==
    LET new == [e EXCEPT !.emask[fd] = nev, !.egen[fd] = @ + 1]
        got == EpollCtl(new, fd, oev # {}) IN
    CASE nev = {} -> [e EXCEPT !.egen[fd] = @ + 1]
      [] nev # {} /\ got = "EEXIST" /\ e.emask[fd] = nev -> [new EXCEPT !.egen[fd] = @ - 1]
      [] nev # {} /\ got = "EBADF" -> LET k == FdKill(new, fd) IN [k EXCEPT !.egen[fd] = @ - 1]
      [] OTHER -> Put(new, fd, nev)

-----------------------------------------------------------------------------
Wanted(e, fd) == UNION {IoEvents[w] : w \in ToSet(e.head[fd])}

\* Is the kernel told of the descriptor?
Reifies(e, fd) == e.events[fd] # Wanted(e, fd) \/ "fdset" \in e.reify[fd]

\* fd_reify: changes that it makes itself come last.
RECURSIVE FdReify(_)
FdReify(e) ==
    LET fd == Head(e.fdchanges)
        r == [e EXCEPT !.fdchanges = Tail(@), !.reify[fd] = {}, !.events[fd] = Wanted(e, fd)] IN
    IF e.fdchanges = <<>> THEN e
    ELSE FdReify(IF Reifies(e, fd) THEN EpollModify(r, fd, e.events[fd], Wanted(e, fd)) ELSE r)

\* loop_fork: epoll_fork and fd_rearm_all.
LoopFork(e) ==
    LET rearm == SetToSeq({fd \in Fds : e.events[fd] # {}}) IN
    FoldLeft(LAMBDA x, fd : FdChange([x EXCEPT !.events[fd] = {}, !.emask[fd] = {}], fd, {"reify", "fdset"}),
             [e EXCEPT !.kernel = {}, !.postfork = FALSE], rearm)

-----------------------------------------------------------------------------
(* epoll_poll.                                                             *)

\* What the kernel reports of an entry: an error or a hangup always.
Reports(k, ready) == (k.events \cup {"E"}) \cap ready
Got(r) == IF "E" \in r THEN {"R", "W"} ELSE r

FdEvent(e, fd, got, file) ==
    IF e.reify[fd] # {} THEN e
    ELSE [e EXCEPT !.pendings = @ \cup {[w |-> w, file |-> file] : w \in {w \in ToSet(e.head[fd]) : IoEvents[w] \cap got # {}}}]

Spurious(e) == [e EXCEPT !.postfork = TRUE]

\* A mutant of IsCurrent that takes any event for one of the descriptor's file.
IsCurrentAlways(e, k) == TRUE

\* Is the event one of the file that the descriptor was last added with?
IsCurrent(e, k) == k.gen = e.egen[k.fd]

\* One event, of the entry k.
PollEvent(e, k) ==
    LET got == Got(Reports(k, e.ready[k.file]))
        want == e.events[k.fd]
        m == [e EXCEPT !.emask[k.fd] = want] IN
    CASE ~IsCurrent(e, k) -> Spurious(e)
      [] IsCurrent(e, k) /\ got \subseteq want -> FdEvent(e, k.fd, got, k.file)
      [] IsCurrent(e, k) /\ ~(got \subseteq want) /\ k \notin Known(e, k.fd) -> Spurious(m)
      [] OTHER -> FdEvent(IF want = {} THEN [m EXCEPT !.kernel = @ \ {k}] ELSE Put(m, k.fd, want), k.fd, got, k.file)

-----------------------------------------------------------------------------
(* The program, in its callbacks: it stops the watchers of a descriptor    *)
(* before it closes it, and sets them when it opens it again.              *)

Does(e) == epoll.pc = "run" /\ epoll.ops > 0 /\ epoll' = [e EXCEPT !.ops = @ - 1]

Open(fd) ==
    /\ epoll.file[fd] = NoFile /\ epoll.files < MaxFiles
    /\ \A w \in IoWatchers : IoFd[w] = fd => ~IsActive(epoll, w) /\ \A p \in epoll.pendings : p.w # w
    /\ Does([epoll EXCEPT !.files = @ + 1, !.file[fd] = epoll.files + 1, !.fdset = [w \in IoWatchers |-> IF IoFd[w] = fd THEN TRUE ELSE @[w]]])

Close(fd) ==
    /\ epoll.file[fd] # NoFile /\ epoll.head[fd] = <<>>
    /\ Does([epoll EXCEPT !.file[fd] = NoFile, !.kernel = IF epoll.file[fd] \in epoll.elsewhere THEN @ ELSE {k \in @ : k.file # epoll.file[fd]}])

\* A child gets the open files, and later ends.
Spawn == epoll.elsewhere = {} /\ \E fd \in Fds : epoll.file[fd] # NoFile /\ Does([epoll EXCEPT !.elsewhere = {epoll.file[f] : f \in Fds} \ {NoFile}])

ChildEnds ==
    /\ epoll.elsewhere # {}
    /\ epoll' = [epoll EXCEPT !.elsewhere = {}, !.kernel = {k \in @ : \E fd \in Fds : epoll.file[fd] = k.file}]

ev_io_start(w) == (epoll.file[IoFd[w]] # NoFile \/ epoll.fdset[w]) /\ Does(IoStart(epoll, w))
ev_io_stop(w) == Does(IoStop(epoll, w))

\* Files become ready, and are no longer.
Readiness == \E f \in 1 .. epoll.files, r \in {{}, {"R"}, {"E"}} :
    epoll.ready[f] # r /\ epoll' = [epoll EXCEPT !.ready[f] = r]

Invoke ==
    /\ epoll.pc = "run"
    /\ \E p \in epoll.pendings : epoll' = [epoll EXCEPT !.pendings = @ \ {p}]

\* ev_loop, from the end of the callbacks to the poll.
BeforePoll ==
    /\ epoll.pc = "run" /\ epoll.pendings = {}
    /\ epoll' = [FdReify(IF epoll.postfork THEN LoopFork(epoll) ELSE epoll) EXCEPT !.pc = "poll"]

\* A file that the watcher waits for, and that has what it waits for.
IoReady(e, w) == IsActive(e, w) /\ e.file[IoFd[w]] # NoFile /\ Got(e.ready[e.file[IoFd[w]]]) \cap IoEvents[w] # {}

Poll ==
    LET ready == {k \in epoll.kernel : Reports(k, epoll.ready[k.file]) # {}}
        e == FoldLeft(PollEvent, epoll, SetToSeq(ready))
        Missed(w) == IoReady(e, w) /\ \A p \in e.pendings : p.w # w IN
    /\ epoll.pc = "poll"
    /\ epoll' = [e EXCEPT !.pc = "run", !.missed = [w \in IoWatchers |-> IF Missed(w) THEN @[w] + 1 ELSE 0]]

EpollNext ==
    \/ \E fd \in Fds : Open(fd) \/ Close(fd)
    \/ \E w \in IoWatchers : ev_io_start(w) \/ ev_io_stop(w)
    \/ Spawn \/ ChildEnds \/ Readiness
    \/ Invoke \/ BeforePoll \/ Poll

EpollSpec == EpollInit /\ [][EpollNext]_epoll

-----------------------------------------------------------------------------
\* An event that is pending, other than an error, came from the file that is now
\* open at the watcher's descriptor, and the watcher is active.
EventsMatch ==
    \A p \in epoll.pendings : p.file # NoFile => IsActive(epoll, p.w) /\ p.file = epoll.file[IoFd[p.w]]

\* When the loop polls, the kernel watches the file that is open at each descriptor
\* for all that the descriptor's watchers wait for.
KernelInSync ==
    epoll.pc = "poll" => \A fd \in Fds : epoll.head[fd] # <<>> /\ epoll.file[fd] # NoFile => \E k \in Known(epoll, fd) : Wanted(epoll, fd) \subseteq k.events

\* When the file of an active watcher is ready, no two polls in a row miss it, though
\* its events may be taken for stale ones of an earlier file.
ReadyNotMissed == \A w \in IoWatchers : epoll.missed[w] <= 1

\* The loop's view of its descriptors and the kernel's agree where it matters, though
\* descriptors are closed, reused and inherited behind the loop's back.
EpollSound == EventsMatch /\ KernelInSync /\ ReadyNotMissed
=============================================================================
