------------------------------ MODULE SxeSpawn ------------------------------
(***************************************************************************)
(* sxe-spawn.c: a process runs commands, each with its standard input and  *)
(* output on one end of a socket pair whose other end is an SXE.  fork     *)
(* copies every descriptor of the parent, the SXEs of the commands spawned *)
(* before among them, so what a close of an SXE means to a command depends *)
(* on which processes still hold a copy.  Descriptors are numbers: a new   *)
(* one is the lowest that is free.                                         *)
(*                                                                         *)
(* The command reads its standard input to the end, and may exit before.   *)
(***************************************************************************)
EXTENDS Integers, FiniteSets, FiniteSetsExt

CONSTANTS Commands,    \* the commands that the parent spawns, each once
          MaxFd,       \* bound: the highest descriptor
          Inherited    \* the descriptors below 3 that the parent is started with

Parent == "parent"
Fds == 0 .. MaxFd
Closed == <<"none", "closed">>
Standard == <<"none", "standard">>
SxeEnd(c) == <<c, "sxe">>
CommandEnd(c) == <<c, "command">>

ASSUME SpawnAssumption == /\ Parent \notin Commands
                          /\ MaxFd >= 3 + 2 * Cardinality(Commands)
                          /\ \A s \in Inherited : s \subseteq 0 .. 2

VARIABLE spawn   \* descriptors, close-on-exec flags, states and what the parent has to do

SpawnInit == \E open \in Inherited :
    spawn = [fds |-> [p \in Commands \cup {Parent} |->
                         [fd \in Fds |-> IF p = Parent /\ fd \in open THEN Standard ELSE Closed]],
             cloexec |-> [p \in Commands \cup {Parent} |-> {}], child |-> [c \in Commands |-> "none"], sock |-> [c \in Commands |-> 0],
             sxe |-> [c \in Commands |-> "none"], forked |-> {}]

Fd(p, end) == CHOOSE fd \in Fds : spawn.fds[p][fd] = end
Held(end) == \E p \in DOMAIN spawn.fds : \E fd \in Fds : spawn.fds[p][fd] = end
NoFds == [fd \in Fds |-> Closed]

\* A mutant of Flagged: the descriptor stays open on exec.
FlaggedNot(flags, fd) == flags

\* fcntl(that->sxe->socket_as_fd, F_SETFD, 1).
Flagged(flags, fd) == flags \cup {fd}

\* sxe_spawn, up to the fork: the parent does nothing else until it has closed its
\* copy of the command's end.
sxe_spawn(c) ==
    LET table == spawn.fds[Parent]
        free == {fd \in Fds : table[fd] = Closed}
        one == Min(free)
        two == Min(free \ {one})
        paired == [table EXCEPT ![one] = SxeEnd(c), ![two] = CommandEnd(c)]
        flags == Flagged(spawn.cloexec[Parent], one) IN
    /\ spawn.child[c] = "none" /\ spawn.forked = {}
    /\ spawn' = [spawn EXCEPT !.fds = [@ EXCEPT ![Parent] = paired, ![c] = paired],
                              !.cloexec = [@ EXCEPT ![Parent] = flags, ![c] = flags],
                              !.sock[c] = two, !.child[c] = "forked", !.sxe[c] = "open", !.forked = {c}]

ParentCloses(c) ==
    /\ c \in spawn.forked
    /\ spawn' = [spawn EXCEPT !.fds[Parent][spawn.sock[c]] = Closed, !.forked = {}]

\* The child closes the SXE and descriptors 0 and 1, and makes its end of the pair
\* both of these.  When the pair was given them, its own end is closed too, and
\* the assertion on dup2 fails.
Wire(c) ==
    LET sock == spawn.sock[c]
        closed == [spawn.fds[c] EXCEPT ![Fd(c, SxeEnd(c))] = Closed, ![0] = Closed, ![1] = Closed] IN
    /\ spawn.child[c] = "forked"
    /\ spawn' = IF closed[sock] = Closed
                THEN [spawn EXCEPT !.child[c] = "aborted", !.fds[c] = NoFds]
                ELSE [spawn EXCEPT !.child[c] = "wired",
                                   !.cloexec[c] = {fd \in @ : closed[fd] # Closed},
                                   !.fds[c] = [closed EXCEPT ![0] = CommandEnd(c), ![1] = CommandEnd(c), ![sock] = Closed]]

Exec(c) ==
    /\ spawn.child[c] = "wired"
    /\ \/ spawn' = [spawn EXCEPT !.child[c] = "running",
                                 !.fds[c] = [fd \in Fds |-> IF fd \in spawn.cloexec[c] THEN Closed ELSE @[fd]]]
       \/ spawn' = [spawn EXCEPT !.child[c] = "exited", !.fds[c] = NoFds]     \* execlp failed

-----------------------------------------------------------------------------
\* The command ends by itself, or by the signal of sxe_spawn_kill.
Exit(c) == /\ spawn.child[c] = "running"
           /\ spawn' = [spawn EXCEPT !.child[c] = "exited", !.fds[c] = NoFds]

\* The command reads the end of file, when no process has the other end.
ReadEof(c) == /\ spawn.child[c] = "running" /\ ~Held(SxeEnd(c))
              /\ spawn' = [spawn EXCEPT !.child[c] = "exited", !.fds[c] = NoFds]

CloseSxe(c, as) ==
    LET fd == Fd(Parent, SxeEnd(c)) IN
    spawn' = [spawn EXCEPT !.sxe[c] = as, !.fds[Parent][fd] = Closed, !.cloexec[Parent] = @ \ {fd}]

sxe_close(c) == spawn.sxe[c] = "open" /\ spawn.forked = {} /\ CloseSxe(c, "closed")

\* The parent's SXE reads the end of file, and calls the close event.
CloseEvent(c) == /\ spawn.sxe[c] = "open" /\ spawn.forked = {} /\ ~Held(CommandEnd(c))
                 /\ CloseSxe(c, "told")

SpawnStep(c) == ParentCloses(c) \/ Wire(c) \/ Exec(c) \/ ReadEof(c) \/ CloseEvent(c)

SpawnNext == \E c \in Commands : sxe_spawn(c) \/ SpawnStep(c) \/ Exit(c) \/ sxe_close(c)

\* Every process runs, and the parent runs its event loop; nobody need close or exit.
SpawnFairness == \A c \in Commands : WF_spawn(SpawnStep(c))

SpawnSpec == SpawnInit /\ [][SpawnNext]_spawn /\ SpawnFairness

-----------------------------------------------------------------------------
\* "so that child process will exit when we sxe_close(that->sxe)" (sxe_spawn): a command
\* whose SXE the parent closes exits, even while others that were spawned after it go
\* on; and when a command exits, or never runs, the close event says so, unless the
\* parent had closed the SXE.
EndsTogether == \A c \in Commands :
    /\ spawn.sxe[c] = "closed" ~> spawn.child[c] \in {"exited", "aborted"}
    /\ spawn.child[c] \in {"exited", "aborted"} ~> spawn.sxe[c] \in {"closed", "told"}
=============================================================================
