------------------------------ MODULE SxePool -------------------------------
(***************************************************************************)
(* lib-sxe-pool: a fixed array of elements, each in one state.  A state is *)
(* a list (SxeList) ordered from the element that entered it first to the  *)
(* one that entered it last; every move stamps the element with the next   *)
(* count.  The pool here has the option SXE_POOL_OPTION_LOCKED and not     *)
(* SXE_POOL_OPTION_TIMED: threads, or processes that map the same memory,  *)
(* call it together under one spinlock.                                    *)
(*                                                                         *)
(* A call runs in steps: it takes the lock (SxeSpinlock), takes an element *)
(* off its list ("body"), stamps it and puts it on a list ("push"), and    *)
(* gives the lock back ("give").  A thread may die between any two steps.  *)
(*                                                                         *)
(* Callers keep the rules that the assertions of sxe-pool.c demand: any    *)
(* thread may take elements out of a shared state, but an element in any   *)
(* other state belongs to the thread that put it there, and only that      *)
(* thread moves it with sxe_pool_set_indexed_element_state.                *)
(***************************************************************************)
EXTENDS SxeList

CONSTANTS Threads, SpinMax,
          Shared,      \* the states that any thread may take elements from
          MaxCount     \* bound: no call starts that could push next_count above it

ASSUME SharedAssumption == Shared \subseteq Lists /\ 0 \in Shared
ASSUME PoolThreadsAssumption == Threads \subseteq Nat \ {0} /\ SpinMax \in Nat \ {0}
ASSUME MaxCountAssumption == MaxCount \in Nat

VARIABLES last,        \* SXE_POOL_NODE.last.count of every element
          next_count,  \* SXE_POOL_IMPL.next_count
          lock, count, \* the spinlock, and the spins of each thread's take
          alive,       \* the threads that have not died
          pc,          \* each thread's place in its call
          call,        \* each thread's call
          hand,        \* the element each thread has off its list, or NULL
          res,         \* the result each thread's call will return
          owner,       \* the thread that an element in no shared state belongs to, or 0
          aborted      \* whether an assertion has failed

poolvars == <<next, prev, id, length, last, next_count, lock, count, alive, pc, call, hand, res, owner, aborted>>

Lock == INSTANCE SxeSpinlock WITH
            phase <- [t \in Threads |-> CASE pc[t] \in {"idle", "fail"} -> "out" [] pc[t] = "lock" -> "take" [] OTHER -> "hold"]

SXE_POOL_LOCK_TAKEN == 0
SXE_POOL_NO_INDEX == -1
SXE_POOL_INCORRECT_STATE == -2
SXE_POOL_LOCK_NOT_TAKEN == -3

Movers == {"set_indexed", "try_to_set", "set_oldest", "touch"}
Getters == {"oldest_index", "oldest_count"}
CallOf(op, e, old, new) == [op |-> op, e |-> e, old |-> old, new |-> new]
NoCall == CallOf("none", NULL, 0, 0)
\* The step of a walker is a call of SxePoolWalker.
Calls == [op : Movers \cup Getters \cup {"walker_step"}, e : Nodes \cup {NULL}, old : Lists, new : Lists] \cup {NoCall}

\* sxe_pool_construct pushes the elements from the last to the first on the
\* list of state 0, so each element's next is the one before it in the array
\* and the first element's next is -1, the sentinel of list 0.
sxe_pool_construct ==
    /\ next = [c \in Cells |-> IF c \in Nodes THEN c - 1 ELSE IF c = Sentinel(0) THEN Number - 1 ELSE c]
    /\ prev = [c \in Cells |-> IF c = Number - 1 THEN Sentinel(0)
                               ELSE IF c \in Nodes \/ c = Sentinel(0) THEN c + 1 ELSE c]
    /\ id = [c \in Cells |-> IF c \in Nodes THEN 0 ELSE -c - 1]
    /\ length = [s \in Lists |-> IF s = 0 THEN Number ELSE 0]
    /\ last = [n \in Nodes |-> Number - n]
    /\ next_count = Number
    /\ lock = 0

PoolInit == /\ sxe_pool_construct
            /\ count = [t \in Threads |-> 0]
            /\ alive = Threads
            /\ pc = [t \in Threads |-> "idle"]
            /\ call = [t \in Threads |-> NoCall]
            /\ hand = [t \in Threads |-> NULL]
            /\ res = [t \in Threads |-> SXE_POOL_LOCK_TAKEN]
            /\ owner = [n \in Nodes |-> 0]
            /\ aborted = FALSE

Goto(t, p) == pc' = [pc EXCEPT ![t] = p]
Result(t, r) == res' = [res EXCEPT ![t] = r]

-----------------------------------------------------------------------------
(* Calls.                                                                  *)

InFlight == {t \in alive : pc[t] # "idle"}

Start(t, c) == /\ pc[t] = "idle"
               /\ next_count + Cardinality(InFlight) < MaxCount
               /\ call' = [call EXCEPT ![t] = c]
               /\ count' = [count EXCEPT ![t] = 0]
               /\ Goto(t, "lock")
               /\ UNCHANGED <<next, prev, id, length, last, next_count, lock, alive, res, hand, owner, aborted>>

CallSetIndexed(t) == \E e \in Nodes, new \in Lists :
                        owner[e] = t /\ Start(t, CallOf("set_indexed", e, id[e], new))

CallTryToSet(t) == \E e \in Nodes, old \in Shared, new \in Lists :
                        Start(t, CallOf("try_to_set", e, old, new))

CallSetOldest(t) == \E old \in Shared, new \in Lists :
                        Start(t, CallOf("set_oldest", NULL, old, new))

CallTouch(t) == \E e \in Nodes : Start(t, CallOf("touch", e, 0, 0))

CallGet(t) == \E op \in Getters, s \in Lists : Start(t, CallOf(op, NULL, s, s))

\* sxe_pool_lock, a call of sxe_spinlock_take.
LockTaken(t) == /\ pc[t] = "lock"
                /\ Lock!take_swap(t)
                /\ Goto(t, "body")
                /\ UNCHANGED <<next, prev, id, length, last, next_count, alive, call, res, hand, owner, aborted>>

LockSpin(t) == /\ pc[t] = "lock"
               /\ Lock!take_spin(t)
               /\ UNCHANGED <<next, prev, id, length, last, next_count, alive, pc, call, res, hand, owner, aborted>>

\* The getters return the same as for an empty state, the others LOCK_NOT_TAKEN.
LockFailure(op) == CASE op = "oldest_index" -> SXE_POOL_NO_INDEX
                     [] op = "oldest_count" -> 0
                     [] OTHER -> SXE_POOL_LOCK_NOT_TAKEN

LockNotTaken(t) == /\ pc[t] = "lock"
                   /\ Lock!take_fail(t)
                   /\ Result(t, LockFailure(call[t].op))
                   /\ Goto(t, "fail")
                   /\ UNCHANGED <<next, prev, id, length, last, next_count, alive, call, hand, owner, aborted>>

-----------------------------------------------------------------------------
(* The bodies, under the lock.                                             *)

\* An assertion fails: the process aborts with the lock taken.
Abort(t) == /\ alive' = alive \ {t}
            /\ aborted' = TRUE
            /\ UNCHANGED <<next, prev, id, length, last, next_count, lock, count, pc, call, res, hand, owner>>

\* The first half of sxe_pool_set_indexed_element_state_unlocked for an
\* element in the right state: off the list of the old state.
TakeOff(t, e, old, r) ==
    /\ id[e] = old
    /\ RemoveAsserts(old, e)
    /\ sxe_list_remove(old, e)
    /\ hand' = [hand EXCEPT ![t] = e]
    /\ Result(t, r)
    /\ Goto(t, "push")
    /\ UNCHANGED <<last, next_count, lock, count, alive, call, owner, aborted>>

TakeOffFails(e, old) == id[e] = old /\ ~RemoveAsserts(old, e)

\* A call that finds nothing to move, or only looks.
Answer(t, r) == /\ Result(t, r)
                /\ Goto(t, "give")
                /\ UNCHANGED <<next, prev, id, length, last, next_count, lock, count, alive, call, hand, owner, aborted>>

sxe_pool_set_indexed_element_state(t) ==
    LET c == call[t] IN
    /\ pc[t] = "body" /\ c.op = "set_indexed"
    /\ \/ TakeOff(t, c.e, c.old, SXE_POOL_LOCK_TAKEN)
       \/ (id[c.e] # c.old \/ TakeOffFails(c.e, c.old)) /\ Abort(t)

\* A mutant of sxe_pool_try_to_set_indexed_element_state that passes
\* SXE_POOL_ON_INCORRECT_STATE_ABORT.
try_to_set_or_abort(t) ==
    LET c == call[t] IN
    /\ pc[t] = "body" /\ c.op = "try_to_set"
    /\ \/ TakeOff(t, c.e, c.old, c.e)
       \/ (id[c.e] # c.old \/ TakeOffFails(c.e, c.old)) /\ Abort(t)

\* On failure the caller learns the element's state from *new_state_inout.
sxe_pool_try_to_set_indexed_element_state(t) ==
    LET c == call[t] IN
    /\ pc[t] = "body" /\ c.op = "try_to_set"
    /\ \/ TakeOff(t, c.e, c.old, c.e)
       \/ id[c.e] # c.old /\ Answer(t, SXE_POOL_INCORRECT_STATE)
       \/ TakeOffFails(c.e, c.old) /\ Abort(t)

\* A mutant of sxe_pool_set_oldest_element_state that takes the newest.
set_newest_element_state(t) ==
    LET c == call[t]
        node == sxe_list_peek_tail(c.old) IN
    /\ pc[t] = "body" /\ c.op = "set_oldest"
    /\ \/ node = NULL /\ Answer(t, SXE_POOL_NO_INDEX)
       \/ node # NULL /\ TakeOff(t, node, c.old, node)

sxe_pool_set_oldest_element_state(t) ==
    LET c == call[t]
        node == sxe_list_peek_head(c.old) IN
    /\ pc[t] = "body" /\ c.op = "set_oldest"
    /\ \/ node = NULL /\ Answer(t, SXE_POOL_NO_INDEX)
       \/ node # NULL /\ TakeOff(t, node, c.old, node)

sxe_pool_touch_indexed_element(t) ==
    LET c == call[t] IN
    /\ pc[t] = "body" /\ c.op = "touch"
    /\ \/ TakeOff(t, c.e, id[c.e], SXE_POOL_LOCK_TAKEN)
       \/ TakeOffFails(c.e, id[c.e]) /\ Abort(t)

sxe_pool_get_oldest_element_index(t) ==
    LET node == sxe_list_peek_head(call[t].old) IN
    /\ pc[t] = "body" /\ call[t].op = "oldest_index"
    /\ Answer(t, IF node = NULL THEN SXE_POOL_NO_INDEX ELSE node)

sxe_pool_get_oldest_element_count(t) ==
    LET node == sxe_list_peek_head(call[t].old) IN
    /\ pc[t] = "body" /\ call[t].op = "oldest_count"
    /\ Answer(t, IF node = NULL THEN 0 ELSE last[node])

\* The state that a thread's element goes to; a touch puts it back.
Destination(t) == IF call[t].op = "touch" THEN id[hand[t]] ELSE call[t].new

\* A mutant of PutOn that stamps the element before it counts.
PutOnOldStamp(t) ==
    LET e == hand[t]
        new == Destination(t) IN
    /\ pc[t] = "push"
    /\ next_count' = next_count + 1
    /\ last' = [last EXCEPT ![e] = next_count]
    /\ sxe_list_push(new, e)
    /\ owner' = [owner EXCEPT ![e] = IF new \in Shared THEN 0 ELSE IF call[t].op = "touch" THEN @ ELSE t]
    /\ hand' = [hand EXCEPT ![t] = NULL]
    /\ Goto(t, "give")
    /\ UNCHANGED <<lock, count, alive, call, res, aborted>>

\* The second half of sxe_pool_set_indexed_element_state_unlocked: stamp the
\* element and push it on the list of the new state.
PutOn(t) ==
    LET e == hand[t]
        new == Destination(t) IN
    /\ pc[t] = "push"
    /\ next_count' = next_count + 1
    /\ last' = [last EXCEPT ![e] = next_count + 1]
    /\ sxe_list_push(new, e)
    /\ owner' = [owner EXCEPT ![e] = IF new \in Shared THEN 0 ELSE IF call[t].op = "touch" THEN @ ELSE t]
    /\ hand' = [hand EXCEPT ![t] = NULL]
    /\ Goto(t, "give")
    /\ UNCHANGED <<lock, count, alive, call, res, aborted>>

\* sxe_pool_unlock, and the return.
Unlock(t) == /\ pc[t] = "give"
             /\ Lock!GiveAssert(t)
             /\ Lock!sxe_spinlock_give(t)
             /\ call' = [call EXCEPT ![t] = NoCall]
             /\ Result(t, SXE_POOL_LOCK_TAKEN)
             /\ Goto(t, "idle")
             /\ UNCHANGED <<next, prev, id, length, last, next_count, alive, hand, owner, aborted>>

ReturnFailed(t) == /\ pc[t] = "fail"
                   /\ call' = [call EXCEPT ![t] = NoCall]
                   /\ Result(t, SXE_POOL_LOCK_TAKEN)
                   /\ Goto(t, "idle")
                   /\ UNCHANGED <<next, prev, id, length, last, next_count, lock, count, alive, hand, owner, aborted>>

-----------------------------------------------------------------------------
Die(t) == /\ alive' = alive \ {t}
          /\ UNCHANGED <<next, prev, id, length, last, next_count, lock, count, pc, call, res, hand, owner, aborted>>

\* Called by someone who knows that the lock's holder is dead.
sxe_pool_override_locked == /\ lock \in Threads \ alive
                            /\ Lock!sxe_spinlock_force(0)
                            /\ UNCHANGED <<next, prev, id, length, last, next_count, alive, pc, call, res, hand, owner, aborted>>

Body(t) == \/ sxe_pool_set_indexed_element_state(t)
           \/ sxe_pool_try_to_set_indexed_element_state(t)
           \/ sxe_pool_set_oldest_element_state(t)
           \/ sxe_pool_touch_indexed_element(t)
           \/ sxe_pool_get_oldest_element_index(t)
           \/ sxe_pool_get_oldest_element_count(t)

\* A call that has started goes on.
Progress(t) == /\ t \in alive
               /\ \/ LockTaken(t) \/ LockSpin(t) \/ LockNotTaken(t)
                  \/ Body(t) \/ PutOn(t) \/ Unlock(t) \/ ReturnFailed(t)

StartCall(t) == /\ t \in alive
                /\ \/ CallSetIndexed(t) \/ CallTryToSet(t) \/ CallSetOldest(t)
                   \/ CallTouch(t) \/ CallGet(t)

PoolNext == \/ sxe_pool_override_locked
            \/ \E t \in Threads : Progress(t) \/ StartCall(t)
            \/ \E t \in alive : Die(t)

PoolSpec == PoolInit /\ [][PoolNext]_poolvars

\* The operating system runs every live thread that is in a call.
FairPoolSpec == PoolSpec /\ \A t \in Threads : WF_poolvars(Progress(t))

-----------------------------------------------------------------------------
\* The links, stamps, calls and the lock keep their types, and no take spins
\* beyond the maximum.
PoolTypeOK ==
    /\ LinkTypeOK
    /\ last \in [Nodes -> Nat]
    /\ next_count \in Nat
    /\ lock \in Threads \cup {0}
    /\ count \in [Threads -> 0 .. SpinMax]
    /\ alive \in SUBSET Threads
    /\ pc \in [Threads -> {"idle", "lock", "body", "push", "give", "fail"}]
    /\ call \in [Threads -> Calls]
    /\ hand \in [Threads -> Nodes \cup {NULL}]
    /\ res \in [Threads -> Int]
    /\ owner \in [Nodes -> Threads \cup {0}]
    /\ aborted \in BOOLEAN

\* Stamps strictly increase from the head of a state's list to its tail and
\* none is ahead of next_count: the head is the oldest element.
StampsOrdered ==
    /\ \A n \in Nodes : next[n] \in Nodes => last[n] < last[next[n]]
    /\ \A n \in Nodes : last[n] <= next_count

\* A thread in the middle of a call has the lock.
LockHeld == \A t \in alive : pc[t] \in {"body", "push", "give"} => lock = t

\* An element is off the lists exactly while one thread has it in hand.
ElementsConserved ==
    /\ \A t \in Threads : hand[t] # NULL <=> pc[t] = "push"
    /\ \A e \in Nodes : ~Linked(e) <=> \E t \in Threads : hand[t] = e
    /\ \A t, u \in Threads : hand[t] = hand[u] /\ hand[t] # NULL => t = u

\* At every step of every thread, also after a thread died in the middle of a
\* move and the lock was overridden: the lists of the states are sound, so that
\* no assertion of a peek fails, they are in order of last use, and no element
\* is lost or on two of them but by the thread that has it in hand.
PoolSound == ListInv /\ PeekAssertions /\ StampsOrdered /\ ElementsConserved

\* Elements lost by a thread that died in the middle of a move and whose
\* lock was then overridden.
Lost == {e \in Nodes : \E t \in Threads \ alive : hand[t] = e /\ lock # t}

\* While callers keep the rules, no assertion of sxe-pool.c or sxe-list.c
\* fails, whatever the interleaving, unless overriding a dead thread's lock
\* has lost an element.
NoAbort == aborted => Lost # {}

\* A live thread's call returns, even when the lock's holder died and nobody
\* overrides the lock: the spinlock gives up.
CallsReturn == \A t \in Threads : pc[t] # "idle" ~> pc[t] = "idle" \/ t \notin alive

-----------------------------------------------------------------------------
\* The element in the lock holder's hand counts as already moved.
MovedTo(s) == {t \in Threads : lock = t /\ hand[t] # NULL /\ Destination(t) = s}

Queue == [s \in Lists |-> IF MovedTo(s) = {} THEN Walk(s)
                          ELSE Append(Walk(s), hand[CHOOSE t \in MovedTo(s) : TRUE])]

\* A call takes effect in its body.
Status == [t \in Threads |-> CASE pc[t] = "idle" -> "idle"
                               [] pc[t] \in {"lock", "body"} -> "called"
                               [] OTHER -> "done"]

Abs == INSTANCE SxePoolAbs WITH NoElement <- NULL, queue <- Queue, status <- Status

\* The calls are linearizable: each takes effect at one moment between its
\* start and its return, on first-in first-out queues, or fails and changes
\* nothing; only overriding a dead thread's lock can lose an element.
AbsPoolSpec == Abs!AbsSpec
=============================================================================
