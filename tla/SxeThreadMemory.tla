-------------------------- MODULE SxeThreadMemory ---------------------------
(***************************************************************************)
(* lib-sxe-thread, sxe-thread-memory.c: memory that threads allocate and   *)
(* the main thread frees once they are dead.  Each allocation has a        *)
(* tracker on a list without a lock: threads push on it with a compare and *)
(* swap, and the main thread takes the whole list, frees what it may and   *)
(* puts the rest back in front of what was pushed meanwhile.  A freed      *)
(* tracker's address may come back from the next malloc, and a dead        *)
(* thread's tid may come back as another thread.                           *)
(***************************************************************************)
EXTENDS Integers, FiniteSets

CONSTANTS Threads, Main,     \* the tids, and the main thread's
          Trackers, Blocks,  \* the addresses of trackers and of memory
          NULL

ASSUME MainAssumption == Main \in Threads
ASSUME NullAssumption == NULL \notin Trackers \cup Blocks
ASSUME AddressesAssumption == IsFiniteSet(Trackers) /\ Trackers \cap Blocks = {}

VARIABLES trackers,          \* the head of the list
          next, tid, memory, \* the fields of each tracker
          malloced,          \* the trackers and the blocks that are allocated
          thread_tid,        \* each thread's variable tid: set by its first allocation
          alive,           \* the threads that run: those with a directory in /proc
          pc,                \* each thread's place in its call
          my,                \* the tracker that a thread is adding
          what,              \* the argument of sxe_thread_memory_free, "UNUSED" or "ALL"
          tracker, keepers, last,  \* its local variables
          held,              \* the blocks that a thread was given and may use
          orphans,           \* trackers whose memory could not be allocated
          crashed            \* whether a null pointer was followed

callvars == <<what, tracker, keepers, last>>
memvars == <<trackers, next, tid, memory, malloced, thread_tid, alive, pc, my, callvars, held, orphans, crashed>>

NoTid == "-1"

ASSUME TidsAssumption == NoTid \notin Threads

MemoryInit == /\ trackers = NULL
              /\ next = [a \in Trackers |-> NULL]
              /\ tid = [a \in Trackers |-> Main]
              /\ memory = [a \in Trackers |-> NULL]
              /\ malloced = {}
              /\ thread_tid = [t \in Threads |-> NoTid]
              /\ alive = Threads
              /\ pc = [t \in Threads |-> "idle"]
              /\ my = [t \in Threads |-> NULL]
              /\ what = "UNUSED" /\ tracker = NULL /\ keepers = NULL /\ last = NULL
              /\ held = [t \in Threads |-> {}]
              /\ orphans = {}
              /\ crashed = FALSE

At(t, p) == t \in alive /\ pc[t] = p /\ ~crashed
Goto(t, p) == pc' = [pc EXCEPT ![t] = p]

\* It makes no difference which block malloc returns.
NewBlock == CHOOSE b \in Blocks : b \notin malloced

-----------------------------------------------------------------------------
(* sxe_thread_malloc and sxe_thread_realloc.                               *)

\* The tracker is filled in, with next read from the head of the list.
Allocate(t) ==
    /\ At(t, "idle")
    /\ Blocks \ malloced # {}
    /\ \E a \in Trackers \ malloced : LET b == NewBlock IN
          /\ malloced' = malloced \cup {a, b}
          /\ memory' = [memory EXCEPT ![a] = b]
          /\ thread_tid' = [thread_tid EXCEPT ![t] = IF @ = NoTid THEN t ELSE @]
          /\ tid' = [tid EXCEPT ![a] = thread_tid'[t]]
          /\ next' = [next EXCEPT ![a] = trackers]
          /\ my' = [my EXCEPT ![t] = a]
    /\ Goto(t, "push")
    /\ UNCHANGED <<trackers, alive, callvars, held, orphans, crashed>>

\* Out of memory: the tracker is forgotten, or there is none to look into.
AllocateFails(t) ==
    /\ At(t, "idle")
    /\ \/ /\ \E a \in Trackers \ malloced : malloced' = malloced \cup {a} /\ orphans' = orphans \cup {a}
          /\ UNCHANGED crashed
       \/ crashed' = TRUE /\ UNCHANGED <<malloced, orphans>>
    /\ UNCHANGED <<trackers, next, tid, memory, thread_tid, alive, pc, my, callvars, held>>

\* The compare and swap, and the return.
Push(t) ==
    /\ At(t, "push")
    /\ trackers = next[my[t]]
    /\ trackers' = my[t]
    /\ held' = [held EXCEPT ![t] = @ \cup {memory[my[t]]}]
    /\ my' = [my EXCEPT ![t] = NULL]
    /\ Goto(t, "idle")
    /\ UNCHANGED <<next, tid, memory, malloced, thread_tid, alive, callvars, orphans, crashed>>

PushAgain(t) ==
    /\ At(t, "push")
    /\ trackers # next[my[t]]
    /\ next' = [next EXCEPT ![my[t]] = trackers]
    /\ UNCHANGED <<trackers, tid, memory, malloced, thread_tid, alive, pc, my, callvars, held, orphans, crashed>>

\* A thread moves memory of its own; without memory, nothing changes.
sxe_thread_realloc(t) ==
    /\ At(t, "idle")
    /\ Blocks \ malloced # {}
    /\ \E a \in malloced \cap Trackers : LET b == NewBlock IN
          /\ memory[a] \in held[t]
          /\ memory' = [memory EXCEPT ![a] = b]
          /\ malloced' = (malloced \ {memory[a]}) \cup {b}
          /\ held' = [held EXCEPT ![t] = (@ \ {memory[a]}) \cup {b}]
    /\ UNCHANGED <<trackers, next, tid, thread_tid, alive, pc, my, callvars, orphans, crashed>>

-----------------------------------------------------------------------------
(* sxe_thread_memory_free, called by the main thread.                      *)

\* The compare and swap takes the list as it is at that moment.  Whoever frees
\* all does not use memory of its own any more.
TakeAll(w) ==
    /\ At(Main, "idle")
    /\ what' = w
    /\ tracker' = trackers /\ trackers' = NULL
    /\ keepers' = NULL /\ last' = NULL
    /\ held' = IF w = "ALL" THEN [held EXCEPT ![Main] = {}] ELSE held
    /\ Goto(Main, "walk")
    /\ UNCHANGED <<next, tid, memory, malloced, thread_tid, alive, my, orphans, crashed>>

\* A mutant of Reap that frees nothing of other threads.
ReapOwn(a) == thread_tid[Main] = tid[a] /\ what = "ALL"

Reap(a) == IF thread_tid[Main] = tid[a] THEN what = "ALL" ELSE tid[a] \notin alive

\* A thread may die after the test: its memory is kept until the next call.
\* The freed tracker's fields are forgotten.
FreeOne ==
    /\ At(Main, "walk") /\ tracker # NULL
    /\ Reap(tracker)
    /\ tracker' = next[tracker]
    /\ malloced' = malloced \ {tracker, memory[tracker]}
    /\ next' = [next EXCEPT ![tracker] = NULL]
    /\ tid' = [tid EXCEPT ![tracker] = Main]
    /\ memory' = [memory EXCEPT ![tracker] = NULL]
    /\ UNCHANGED <<trackers, thread_tid, alive, pc, my, what, keepers, last, held, orphans, crashed>>

KeepOne ==
    /\ At(Main, "walk") /\ tracker # NULL
    /\ ~Reap(tracker)
    /\ tracker' = next[tracker]
    /\ last' = IF last = NULL THEN tracker ELSE last
    /\ next' = [next EXCEPT ![tracker] = keepers]
    /\ keepers' = tracker
    /\ UNCHANGED <<trackers, tid, memory, malloced, thread_tid, alive, pc, my, what, held, orphans, crashed>>

\* Read the head of the list into last->next, if there is something to put back.
ReadHead ==
    /\ At(Main, "walk") /\ tracker = NULL
    /\ IF keepers = NULL
       THEN Goto(Main, "idle") /\ UNCHANGED next
       ELSE next' = [next EXCEPT ![last] = trackers] /\ Goto(Main, "restore")
    /\ UNCHANGED <<trackers, tid, memory, malloced, thread_tid, alive, my, callvars, held, orphans, crashed>>

\* A mutant of PutBack that stores without comparing.
PutBackBlind ==
    /\ At(Main, "restore")
    /\ trackers' = keepers
    /\ Goto(Main, "idle")
    /\ keepers' = NULL /\ last' = NULL
    /\ UNCHANGED <<next, tid, memory, malloced, thread_tid, alive, my, what, tracker, held, orphans, crashed>>

\* The compare and swap.
PutBack ==
    /\ At(Main, "restore")
    /\ trackers = next[last]
    /\ trackers' = keepers
    /\ Goto(Main, "idle")
    /\ keepers' = NULL /\ last' = NULL
    /\ UNCHANGED <<next, tid, memory, malloced, thread_tid, alive, my, what, tracker, held, orphans, crashed>>

PutBackAgain ==
    /\ At(Main, "restore")
    /\ trackers # next[last]
    /\ next' = [next EXCEPT ![last] = trackers]
    /\ UNCHANGED <<trackers, tid, memory, malloced, thread_tid, alive, pc, my, callvars, held, orphans, crashed>>

-----------------------------------------------------------------------------
\* A thread that is in no call ends.
Exit(t) ==
    /\ At(t, "idle") /\ t # Main
    /\ alive' = alive \ {t}
    /\ held' = [held EXCEPT ![t] = {}]
    /\ UNCHANGED <<trackers, next, tid, memory, malloced, thread_tid, pc, my, callvars, orphans, crashed>>

\* A new thread gets a dead one's tid.
Create(t) ==
    /\ t \notin alive /\ ~crashed
    /\ alive' = alive \cup {t}
    /\ thread_tid' = [thread_tid EXCEPT ![t] = NoTid]
    /\ UNCHANGED <<trackers, next, tid, memory, malloced, pc, my, callvars, held, orphans, crashed>>

Adds(t) == Push(t) \/ PushAgain(t)
Frees == FreeOne \/ KeepOne \/ ReadHead \/ PutBack \/ PutBackAgain

MemoryNext == \/ \E t \in Threads : Allocate(t) \/ AllocateFails(t) \/ Adds(t) \/ sxe_thread_realloc(t) \/ Exit(t) \/ Create(t)
              \/ \E w \in {"UNUSED", "ALL"} : TakeAll(w)
              \/ Frees

MemorySpec == MemoryInit /\ [][MemoryNext]_memvars

\* Threads run, and the main thread calls sxe_thread_memory_free again and again.
MemoryFairness == /\ \A t \in Threads : WF_memvars(Adds(t))
                  /\ WF_memvars(Frees) /\ SF_memvars(TakeAll("UNUSED"))

MemoryFairSpec == MemorySpec /\ MemoryFairness

-----------------------------------------------------------------------------
\* The trackers that the links lead to from a.
Chain(link, a) ==
    LET reach[i \in 0 .. Cardinality(Trackers)] ==
            IF i = 0 THEN {a} \ {NULL}
            ELSE reach[i - 1] \cup ({link[b] : b \in reach[i - 1]} \ {NULL})
    IN reach[Cardinality(Trackers)]

InHand == {my[t] : t \in Threads} \ {NULL}
Kept == Chain(next, keepers) \ (IF pc[Main] = "restore" THEN Chain(next, next[last]) ELSE {})

\* Every tracker is in exactly one place: on the list, in the hand of the
\* thread that adds it, among those that the main thread still has to look at
\* or among those it keeps.  None is lost to a race, none is freed while it is
\* linked, and none is reachable twice.  Only a failed allocation loses one.
TrackersConserved ==
    LET places == <<Chain(next, trackers), InHand, Chain(next, tracker), Kept, orphans>> IN
    /\ malloced \cap Trackers = UNION {places[i] : i \in 1 .. 5}
    /\ \A i, j \in 1 .. 5 : i < j => places[i] \cap places[j] = {}

\* A block that a live thread may still use is allocated, and its tracker will
\* get it freed when the thread is gone.
HeldMemoryValid == \A t \in alive : \A b \in held[t] :
                       /\ b \in malloced
                       /\ \E a \in malloced \cap Trackers : memory[a] = b /\ tid[a] = t

\* Whatever the threads do while the main thread takes, walks and puts back the
\* list, it keeps every tracker, and memory is not freed while it may be used.
MemorySound == TrackersConserved /\ HeldMemoryValid

\* The memory of a thread that is gone is freed, unless its tid comes back.
DeadMemoryFreed ==
    \A a \in Trackers : a \in malloced \ orphans /\ tid[a] \notin alive /\ a \notin InHand ~>
                            a \notin malloced \/ tid[a] \in alive \/ crashed
=============================================================================
