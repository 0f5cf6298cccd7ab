---------------------------- MODULE MCContainers ----------------------------
(***************************************************************************)
(* The containers and the memory of threads, each checked on an instance   *)
(* of its own: a behaviour is one of the component that under names, and   *)
(* the others stay as they were constructed.                               *)
(***************************************************************************)
EXTENDS SxeThreadMemory, SxeRingBuffer, SxeDict, SxeHash, SxeStrings

VARIABLE under

allvars == <<under, memvars, ringvars, dict, hash, str>>

\* "a" and "b" share a bucket of two and of four; "c" and "d" one of five.
\* The empty key, one byte, two that begin with it, and another byte.
MCDictKeys == {<<>>, <<"a">>, <<"a", "b">>, <<"b">>}
MCHashFunc == [k \in DictKeys |-> CASE k = <<>> -> 0 [] k = <<"a">> -> 4 [] k = <<"a", "b">> -> 1 [] OTHER -> 6]
\* All keys in one bucket.
MCSum == [k \in HashKeys |-> 0]
MCPieces == {<<"a">>, <<"b", "c">>}

MCInit ==
    /\ under \in {"memory", "ring", "dict", "hash", "strings"}
    /\ MemoryInit /\ RingInit /\ HashInit
    /\ IF under = "dict" THEN DictInit ELSE dict = Fresh(0)
    /\ IF under = "strings" THEN StringsInit ELSE str = sxe_buffer_construct("buffer", 1, NUL)

MCNext ==
    /\ UNCHANGED under
    /\ \/ under = "memory" /\ MemoryNext /\ UNCHANGED <<ringvars, dict, hash, str>>
       \/ under = "ring" /\ RingNext /\ UNCHANGED <<memvars, dict, hash, str>>
       \/ under = "dict" /\ DictNext /\ UNCHANGED <<memvars, ringvars, hash, str>>
       \/ under = "hash" /\ HashNext /\ UNCHANGED <<memvars, ringvars, dict, str>>
       \/ under = "strings" /\ StringsNext /\ UNCHANGED <<memvars, ringvars, dict, hash>>

\* The fairness that the component states, while it is the one that runs.
MCSpec == /\ MCInit /\ [][MCNext]_allvars
          /\ \A t \in Threads : WF_memvars(under = "memory" /\ Adds(t))
          /\ WF_memvars(under = "memory" /\ Frees) /\ SF_memvars(under = "memory" /\ TakeAll("UNUSED"))
=============================================================================
