----------------------------- MODULE LibEvAsync -----------------------------
(***************************************************************************)
(* lib-ev, what wakes the loop from outside: asyncs that other threads     *)
(* send, and signals, among them SIGCHLD.  A sender marks its watcher,     *)
(* tests and sets the flag of all asyncs (or of all signals), and writes   *)
(* to the event descriptor only when the flag was not set; pipecb reads    *)
(* the descriptor, resets each flag, and feeds what is marked.             *)
(*                                                                         *)
(* Each access to memory that is shared is a step, and what is written is  *)
(* seen at once (the machine the library is built for keeps the order of   *)
(* stores and the flags are volatile).  A signal handler is a sender.      *)
(***************************************************************************)
EXTENDS Integers, FiniteSets

CONSTANTS Asyncs,          \* async watchers
          Senders,         \* threads that send, and "handler"
          Pids,            \* children
          MaxSends,        \* bound: sends of a thread
          MaxChanges       \* bound: calls of loop_fork, ev_async_start and ev_async_stop

VARIABLE wake

Child == "SIGCHLD"
Sources == Asyncs \cup {Child}
Flag(s) == IF s = Child THEN "sig_pending" ELSE "async_pending"
Handler == "handler"

AsyncInit == wake =
    [mark |-> [s \in Sources |-> FALSE],      \* sent of an async, pending of a signal
     flag |-> [f \in {"sig_pending", "async_pending"} |-> FALSE],
     evfd |-> 0, active |-> Sources, pendings |-> {},
     sender |-> [t \in Senders |-> [pc |-> "idle", on |-> Child, left |-> MaxSends]],
     loop |-> "wait", todo |-> {}, changes |-> 0,
     running |-> Pids, zombies |-> {}, reaped |-> {}, raised |-> FALSE,
     due |-> {}]                              \* history: sent while active, and not yet fed

-----------------------------------------------------------------------------
(* ev_async_send, ev_sighandler and evpipe_write.                          *)

At(t, pc) == wake.sender[t].pc = pc

Send(t, a) ==
    /\ t # Handler /\ At(t, "idle") /\ wake.sender[t].left > 0
    /\ wake' = [wake EXCEPT !.mark[a] = TRUE, !.due = IF a \in wake.active THEN @ \cup {a} ELSE @,
                            !.sender[t] = [pc |-> "test", on |-> a, left |-> @.left - 1]]

\* A signal that is raised again before it is handled is handled once.
HandleSignal(t) ==
    /\ t = Handler /\ At(t, "idle") /\ wake.raised
    /\ wake' = [wake EXCEPT !.raised = FALSE, !.mark[Child] = TRUE, !.sender[t].pc = "test", !.sender[t].on = Child]

TestFlag(t) ==
    /\ At(t, "test")
    /\ wake' = [wake EXCEPT !.sender[t].pc = IF wake.flag[Flag(wake.sender[t].on)] THEN "idle" ELSE "set"]

SetFlag(t) ==
    /\ At(t, "set")
    /\ wake' = [wake EXCEPT !.flag[Flag(wake.sender[t].on)] = TRUE, !.sender[t].pc = "write"]

\* While loop_fork replaces the descriptor, what is written is lost.
Write(t) ==
    /\ At(t, "write")
    /\ wake' = [wake EXCEPT !.evfd = IF wake.loop = "closed" THEN @ ELSE 1, !.sender[t].pc = "idle"]

-----------------------------------------------------------------------------
(* pipecb, in the loop's thread.                                           *)

ReadPipe ==
    /\ wake.loop \in {"wait", "forked"} /\ (wake.loop = "wait" => wake.evfd # 0)
    /\ wake' = [wake EXCEPT !.evfd = 0, !.loop = "sig_pending"]

Marked(f) == {s \in wake.active : Flag(s) = f}
AfterFlag(f) == IF f = "sig_pending" THEN "async_pending" ELSE "invoke"

\* A mutant of ResetFlag that leaves the flag set.
ResetFlagNot == /\ wake.loop \in {"sig_pending", "async_pending"}
                /\ wake' = IF wake.flag[wake.loop] THEN [wake EXCEPT !.loop = IF wake.loop = "sig_pending" THEN "feed_sig" ELSE "feed_async", !.todo = Marked(wake.loop)]
                           ELSE [wake EXCEPT !.loop = AfterFlag(wake.loop)]

\* Nothing is looked at when the flag is not set.
ResetFlag == /\ wake.loop \in {"sig_pending", "async_pending"}
             /\ wake' = IF wake.flag[wake.loop] THEN [wake EXCEPT !.flag[wake.loop] = FALSE, !.loop = IF wake.loop = "sig_pending" THEN "feed_sig" ELSE "feed_async", !.todo = Marked(wake.loop)]
                        ELSE [wake EXCEPT !.loop = AfterFlag(wake.loop)]

\* The next watcher of those with the flag, and on after the last.
FeedMarked ==
    LET next == IF wake.loop = "feed_sig" THEN "async_pending" ELSE "invoke" IN
    /\ wake.loop \in {"feed_sig", "feed_async"}
    /\ \/ wake.todo = {} /\ wake' = [wake EXCEPT !.loop = next]
       \/ \E s \in wake.todo : wake' = [wake EXCEPT !.todo = @ \ {s}, !.mark[s] = FALSE,
                                                   !.pendings = IF wake.mark[s] THEN @ \cup {s} ELSE @,
                                                   !.due = IF wake.mark[s] THEN @ \ {s} ELSE @]

-----------------------------------------------------------------------------
(* Callbacks.                                                              *)

InvokeAsync ==
    /\ wake.loop = "invoke"
    /\ \E s \in wake.pendings \ {Child} : wake' = [wake EXCEPT !.pendings = @ \ {s}]

\* A mutant of ChildPending that does not call again.
ChildPendingOnce(p) == p \ {Child}

\* childcb feeds itself again until no child is left.
ChildPending(p) == p

\* childcb: waitpid for one child; child_reap feeds its watchers.
ChildCb ==
    /\ wake.loop = "invoke" /\ Child \in wake.pendings
    /\ \/ wake.zombies = {} /\ wake' = [wake EXCEPT !.pendings = @ \ {Child}]
       \/ \E pid \in wake.zombies : wake' = [wake EXCEPT !.zombies = @ \ {pid}, !.reaped = @ \cup {pid}, !.pendings = ChildPending(@)]

\* ev_async_stop and ev_async_start, which leave the mark as it is.
Toggle ==
    /\ wake.loop = "invoke" /\ wake.changes < MaxChanges
    /\ \E a \in Asyncs : wake' = IF a \in wake.active
                                  THEN [wake EXCEPT !.active = @ \ {a}, !.pendings = @ \ {a}, !.due = @ \ {a}, !.changes = @ + 1]
                                  ELSE [wake EXCEPT !.active = @ \cup {a}, !.changes = @ + 1]

BackToPoll == wake.loop = "invoke" /\ wake.pendings = {} /\ wake' = [wake EXCEPT !.loop = "wait"]

-----------------------------------------------------------------------------
(* loop_fork, which also a stale event of epoll leads to.                  *)

\* The flags are set so that nobody writes.
LockFlags ==
    /\ wake.loop = "wait" /\ wake.changes < MaxChanges
    /\ wake' = [wake EXCEPT !.flag = [f \in DOMAIN @ |-> TRUE], !.loop = "locked", !.changes = @ + 1]

ClosePipe == wake.loop = "locked" /\ wake' = [wake EXCEPT !.evfd = 0, !.loop = "closed"]
EvpipeInit == wake.loop = "closed" /\ wake' = [wake EXCEPT !.loop = "forked"]

\* A child exits, and the kernel raises SIGCHLD.
ChildExits ==
    \E pid \in wake.running : wake' = [wake EXCEPT !.running = @ \ {pid}, !.zombies = @ \cup {pid}, !.raised = TRUE]

-----------------------------------------------------------------------------
SenderStep(t) == HandleSignal(t) \/ TestFlag(t) \/ SetFlag(t) \/ Write(t)
LoopStep == \/ ReadPipe \/ ResetFlag \/ FeedMarked \/ InvokeAsync \/ ChildCb \/ BackToPoll
            \/ ClosePipe \/ EvpipeInit

AsyncNext == \/ \E t \in Senders : (\E a \in Asyncs : Send(t, a)) \/ SenderStep(t)
             \/ LoopStep \/ Toggle \/ LockFlags \/ ChildExits

\* Every thread runs, the loop's too, and a raised signal is delivered.
AsyncFairness == WF_wake(LoopStep) /\ \A t \in Senders : WF_wake(SenderStep(t))

AsyncSpec == AsyncInit /\ [][AsyncNext]_wake /\ AsyncFairness

-----------------------------------------------------------------------------
\* An async that is sent to an active watcher is fed to it, whatever other threads
\* send at the same time and though the descriptor may be replaced.
AsyncsDelivered == \A a \in Asyncs : a \in wake.due ~> a \notin wake.due

\* Every child that exits is waited for, though one signal may stand for several.
ChildrenReaped == \A pid \in Pids : pid \in wake.zombies ~> pid \in wake.reaped
=============================================================================
