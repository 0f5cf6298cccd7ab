------------------------------ MODULE MCEvents ------------------------------
(***************************************************************************)
(* The event loop's parts, directory watching, the log and sync points,    *)
(* each checked on an instance of its own: a behaviour is one of the       *)
(* component that under names, and the others stay as constructed.         *)
(***************************************************************************)
EXTENDS LibEv, LibEvEpoll, LibEvAsync, SxeDirwatch, SxeLog, SxeSyncEv

VARIABLE under

allvars == <<under, ev, epoll, wake, dirwatch, log, sync>>

MCPriority == [w \in EvWatchers |-> IF w \in {"i1", "t3"} THEN 0 ELSE 1]
\* Enough timers for a heap whose last entry can be sooner than the parent of the
\* place that it moves to.
MCAfter == [t1 |-> 0, t2 |-> 3, t3 |-> 1, t4 |-> 4, t5 |-> 4, t6 |-> 1, p1 |-> 1]
MCRepeat == [t1 |-> 0, t2 |-> 0, t3 |-> 0, t4 |-> 0, t5 |-> 0, t6 |-> 1, p1 |-> 2]
MCStarted == <<"t1", "t2", "t3", "t4", "t5", "t6", "p1", "c1", "i1", "i2">>
\* Two watchers of one descriptor.
MCIoEvents == [r |-> {"R"}, w |-> {"W"}]
MCIoFd == [r |-> 3, w |-> 3]
MCEnvironment == [f \in Files |-> IF f = "g" THEN 1 ELSE Unset]
MCMaxCalls == [t \in LogThreads |-> IF t = "t1" THEN 2 ELSE 1]

MCInit ==
    /\ under \in {"loop", "epoll", "async", "dirwatch", "log", "sync"}
    /\ EvInit /\ EpollInit /\ AsyncInit /\ DirwatchInit /\ LogInit /\ SyncInit

\* What follows a race in the log is not looked at.
MCNext ==
    /\ UNCHANGED under
    /\ \/ under = "loop" /\ EvNext /\ UNCHANGED <<epoll, wake, dirwatch, log, sync>>
       \/ under = "epoll" /\ EpollNext /\ UNCHANGED <<ev, wake, dirwatch, log, sync>>
       \/ under = "async" /\ AsyncNext /\ UNCHANGED <<ev, epoll, dirwatch, log, sync>>
       \/ under = "dirwatch" /\ DirwatchNext /\ UNCHANGED <<ev, epoll, wake, log, sync>>
       \/ under = "log" /\ ~log.raced /\ LogNext /\ UNCHANGED <<ev, epoll, wake, dirwatch, sync>>
       \/ under = "sync" /\ SyncNext /\ UNCHANGED <<ev, epoll, wake, dirwatch, log>>

\* The fairness that the component states, while it is the one that runs.
MCSpec == /\ MCInit /\ [][MCNext]_allvars
          /\ WF_wake(under = "async" /\ LoopStep)
          /\ \A t \in Senders : WF_wake(under = "async" /\ SenderStep(t))
          /\ WF_sync(under = "sync" /\ ~sync.aborted /\ SyncLoop)
=============================================================================
