------------------------------ MODULE MCBasics ------------------------------
(***************************************************************************)
(* What pools are made of, the lists, the lock and the timeouts, and the   *)
(* spawning of commands, each checked on an instance of its own.  A        *)
(* behaviour is one of the component that under names, and the others stay *)
(* as they were constructed.                                               *)
(***************************************************************************)
EXTENDS SxeListSpec, SxeSpinlock, SxePoolTimeouts, SxeSpawn

VARIABLE under

allvars == <<under, vars, spinvars, timedvars, spawn>>

\* Free and ready elements never time out; the other two states do.
MCTimeouts == [s \in 0 .. 3 |-> CASE s = 1 -> 1 [] s = 3 -> 2 [] OTHER -> 0]

MCInit == /\ under \in {"list", "lock", "timeouts", "spawn"}
          /\ ListInit /\ SpinInit /\ TimedInit
          /\ SpawnInit /\ (under # "spawn" => spawn.fds[Parent] = NoFds)

MCNext == /\ UNCHANGED under
          /\ \/ under = "list" /\ ListNext /\ UNCHANGED <<spinvars, timedvars, spawn>>
             \/ under = "lock" /\ SpinNext /\ UNCHANGED <<vars, timedvars, spawn>>
             \/ under = "timeouts" /\ TimedNext /\ UNCHANGED <<vars, spinvars, spawn>>
             \/ under = "spawn" /\ SpawnNext /\ UNCHANGED <<vars, spinvars, timedvars>>

\* The fairness that the component states, while it is the one that runs.
MCSpec == /\ MCInit /\ [][MCNext]_allvars
          /\ \A c \in Commands : WF_spawn(under = "spawn" /\ SpawnStep(c))
=============================================================================
