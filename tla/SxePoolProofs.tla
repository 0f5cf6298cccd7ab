---------------------------- MODULE SxePoolProofs ---------------------------
(***************************************************************************)
(* The locked pool is sound for any number of elements, states and threads *)
(* and any shared states, with threads dying at any step and their locks   *)
(* being overridden.                                                       *)
(***************************************************************************)
EXTENDS SxePoolWalker, SxeListLemmas

\* A call that works on one element was given one.
CallsNameNodes == \A t \in Threads : pc[t] # "idle" /\ call[t].op \in {"set_indexed", "try_to_set", "touch"} => call[t].e \in Nodes

\* What every step of every thread preserves.  ListInv speaks of the links,
\* ElementsConserved of who has the elements that are on no list: PutOn needs
\* it to know that the element it pushes is on none.
PoolInv == PoolTypeOK /\ ListInv /\ StampsOrdered /\ LockHeld /\ ElementsConserved /\ CallsNameNodes

-----------------------------------------------------------------------------
\* Steps that leave the elements alone.
LEMMA QuietKeeps ==
    ASSUME PoolInv, UNCHANGED <<next, prev, id, length, last, next_count, hand, owner>>,
           PoolTypeOK', LockHeld', CallsNameNodes',
           \A t \in Threads : pc'[t] = "push" <=> pc[t] = "push"
    PROVE  PoolInv'
<1>1. ListInv'
  BY DEF PoolInv, ListInv, LinkTypeOK, LinksInverse, SentinelsLinked, IdsConsistent, LengthsCount, Members
<1>2. StampsOrdered'
  BY DEF PoolInv, StampsOrdered
<1>3. ElementsConserved'
  BY DEF PoolInv, ElementsConserved, Linked
<1> QED
  BY <1>1, <1>2, <1>3 DEF PoolInv

\* An element leaves its list: the stamps of its neighbours stay in order, and
\* the thread is the only one that has it.
LEMMA TakeOffKeeps ==
    ASSUME PoolInv, NEW t \in alive, NEW e \in Nodes, NEW old \in Lists, NEW r \in Int,
           pc[t] = "body", TakeOff(t, e, old, r)
    PROVE  PoolInv'
<1>1. t \in Threads /\ Linked(e) /\ id[e] = old
  BY DEF PoolInv, PoolTypeOK, TakeOff, RemoveAsserts, Linked
<1>2. ListInv'
  BY <1>1, RemovePreserves DEF PoolInv, TakeOff
<1>3. ListShape /\ e \in Cells
  BY CellFacts DEF PoolInv, ListInv, ListShape
<1>4. prev[e] \in Cells /\ next[e] \in Cells /\ next[prev[e]] = e
  BY <1>1, <1>3, Neighbours DEF Linked
<1>5. \A c \in Cells : next'[c] = IF c = e THEN NULL ELSE IF c = prev[e] THEN next[e] ELSE next[c]
  BY <1>3, <1>4 DEF TakeOff, sxe_list_remove, ListShape, LinkTypeOK
<1>6. PoolTypeOK'
  <2>1. LinkTypeOK'
    BY <1>2 DEF ListInv
  <2> QED
    BY <1>1, <2>1 DEF PoolInv, PoolTypeOK, TakeOff, Result, Goto
<1>7. StampsOrdered'
  <2>1. last' = last /\ next_count' = next_count /\ last \in [Nodes -> Nat]
    BY DEF TakeOff, PoolInv, PoolTypeOK
  <2>2. ASSUME NEW n \in Nodes, next'[n] \in Nodes PROVE last[n] < last[next'[n]]
    <3>1. n \in Cells /\ next'[n] # NULL
      BY <2>2, CellFacts
    <3>2. CASE n # prev[e]
      BY <1>5, <2>2, <3>1, <3>2 DEF PoolInv, StampsOrdered
    <3>3. CASE n = prev[e]
      <4>1. next'[n] = next[e] /\ next[n] = e
        BY <1>4, <1>5, <3>1, <3>3
      <4>2. last[n] < last[e] /\ last[e] < last[next[e]]
        BY <2>2, <4>1 DEF PoolInv, StampsOrdered
      <4> QED
        BY <2>1, <2>2, <4>1, <4>2
    <3> QED
      BY <3>2, <3>3
  <2> QED
    BY <2>1, <2>2 DEF PoolInv, StampsOrdered
<1>8. LockHeld'
  BY <1>1 DEF PoolInv, PoolTypeOK, LockHeld, TakeOff, Goto
<1>9. ElementsConserved'
  <2>1. /\ pc' = [pc EXCEPT ![t] = "push"] /\ hand' = [hand EXCEPT ![t] = e]
        /\ pc \in [Threads -> {"idle", "lock", "body", "push", "give", "fail"}]
        /\ hand \in [Threads -> Nodes \cup {NULL}]
    BY DEF TakeOff, Goto, PoolInv, PoolTypeOK
  <2>2. \A n \in Nodes : Linked(n)' <=> n # e /\ Linked(n)
    BY <1>4, <1>5, CellFacts DEF Linked
  <2>3. hand[t] = NULL /\ \A u \in Threads : hand[u] # e
    BY <1>1, <2>1 DEF PoolInv, ElementsConserved
  <2>4. e # NULL
    BY CellFacts
  <2>5. \A u \in Threads : hand'[u] # NULL <=> pc'[u] = "push"
    BY <1>1, <2>1, <2>4 DEF PoolInv, ElementsConserved
  <2>6. \A n \in Nodes : ~Linked(n)' <=> \E u \in Threads : hand'[u] = n
    BY <1>1, <2>1, <2>2, <2>3, CellFacts DEF PoolInv, ElementsConserved
  <2>7. \A u, v \in Threads : hand'[u] = hand'[v] /\ hand'[u] # NULL => u = v
    BY <1>1, <2>1, <2>3 DEF PoolInv, ElementsConserved
  <2> QED
    BY <2>5, <2>6, <2>7 DEF ElementsConserved
<1>10. CallsNameNodes'
  BY <1>1 DEF PoolInv, PoolTypeOK, CallsNameNodes, TakeOff, Goto
<1> QED
  BY <1>2, <1>6, <1>7, <1>8, <1>9, <1>10 DEF PoolInv

\* The element in a thread's hand goes to a state of the pool.
LEMMA DestinationIsState ==
    ASSUME PoolInv, NEW t \in Threads, hand[t] \in Nodes
    PROVE  Destination(t) \in Lists
<1>1. call[t] \in Calls /\ id \in [Cells -> Lists]
  BY DEF PoolInv, PoolTypeOK, LinkTypeOK
<1>2. call[t].new \in Lists
  BY <1>1, NListsAssumption DEF Calls, NoCall, CallOf, Lists
<1>3. id[hand[t]] \in Lists
  BY <1>1, CellFacts
<1> QED
  BY <1>2, <1>3 DEF Destination

\* The element goes on a list, with a stamp later than all others.
LEMMA PutOnKeeps ==
    ASSUME PoolInv, NEW t \in alive, PutOn(t)
    PROVE  PoolInv'
<1> DEFINE e == hand[t]
<1> DEFINE new == Destination(t)
<1>1. t \in Threads /\ pc[t] = "push" /\ e \in Nodes /\ ~Linked(e)
  BY DEF PoolInv, PoolTypeOK, PutOn, ElementsConserved
<1>2. new \in Lists
  BY <1>1, DestinationIsState
<1>3. /\ sxe_list_push(new, e)
      /\ last' = [last EXCEPT ![e] = next_count + 1] /\ next_count' = next_count + 1
      /\ hand' = [hand EXCEPT ![t] = NULL] /\ pc' = [pc EXCEPT ![t] = "give"]
      /\ UNCHANGED <<lock, count, alive, call, res, aborted>>
  BY DEF PutOn, Goto
<1>4. owner' \in [Nodes -> Threads \cup {0}]
  BY <1>1 DEF PutOn, PoolInv, PoolTypeOK
<1> HIDE DEF e, new
<1>5. ListInv'
  BY <1>1, <1>2, <1>3, AddPreserves DEF PoolInv
<1>6. ListShape /\ e \in Cells /\ Sentinel(new) \in Cells /\ Sentinel(new) \notin Nodes /\ next[Sentinel(new)] # NULL
  BY <1>1, <1>2, CellFacts DEF PoolInv, ListInv, ListShape, SentinelsLinked
<1>7. TAIL(new) \in Cells /\ next[TAIL(new)] = Sentinel(new) /\ next[e] = NULL
  BY <1>1, <1>2, <1>6, Neighbours DEF TAIL, Linked
<1>8. \A c \in Cells : next'[c] = IF c = TAIL(new) THEN e ELSE IF c = e THEN Sentinel(new) ELSE next[c]
  BY <1>3, <1>6, <1>7 DEF sxe_list_push, ListShape, LinkTypeOK
<1>9. PoolTypeOK'
  <2>1. LinkTypeOK'
    BY <1>5 DEF ListInv
  <2>2. next_count' \in Nat /\ last' \in [Nodes -> Nat]
    BY <1>1, <1>3 DEF PoolInv, PoolTypeOK
  <2>3. hand' \in [Threads -> Nodes \cup {NULL}] /\ pc' \in [Threads -> {"idle", "lock", "body", "push", "give", "fail"}]
    BY <1>1, <1>3 DEF PoolInv, PoolTypeOK
  <2> QED
    BY <1>3, <1>4, <2>1, <2>2, <2>3 DEF PoolInv, PoolTypeOK
<1>10. StampsOrdered'
  <2>1. \A n \in Nodes : last[n] \in Nat /\ next_count \in Nat /\ last[n] <= next_count
    BY DEF PoolInv, PoolTypeOK, StampsOrdered
  <2>2. \A n \in Nodes : last'[n] = IF n = e THEN next_count + 1 ELSE last[n]
    BY <1>3 DEF PoolInv, PoolTypeOK
  <2>3. \A n \in Cells : next[n] # e
    BY <1>6, <1>7, CellFacts DEF ListShape, LinksInverse
  <2>4. ASSUME NEW n \in Nodes, next'[n] \in Nodes PROVE last'[n] < last'[next'[n]]
    <3>1. n \in Cells
      BY CellFacts
    <3>2. CASE n = TAIL(new)
      <4>1. next'[n] = e /\ n # e
        BY <1>6, <1>7, <1>8, <3>1, <3>2, CellFacts
      <4> QED
        BY <2>1, <2>2, <4>1, <2>4
    <3>3. CASE n # TAIL(new)
      <4>1. n # e /\ next'[n] = next[n] /\ next[n] # e
        BY <1>6, <1>8, <2>3, <2>4, <3>1, <3>3
      <4>2. last[n] < last[next[n]]
        BY <2>4, <4>1 DEF PoolInv, StampsOrdered
      <4> QED
        BY <2>2, <2>4, <4>1, <4>2
    <3> QED
      BY <3>2, <3>3
  <2>5. \A n \in Nodes : last'[n] <= next_count'
    BY <1>3, <2>1, <2>2
  <2> QED
    BY <2>4, <2>5 DEF StampsOrdered
<1>11. LockHeld'
  BY <1>1, <1>3 DEF PoolInv, PoolTypeOK, LockHeld
<1>12. ElementsConserved'
  <2>1. /\ pc \in [Threads -> {"idle", "lock", "body", "push", "give", "fail"}]
        /\ hand \in [Threads -> Nodes \cup {NULL}] /\ hand[t] = e
    BY DEF PoolInv, PoolTypeOK, e
  <2>2. \A n \in Nodes : Linked(n)' <=> n = e \/ Linked(n)
    BY <1>6, <1>7, <1>8, CellFacts DEF Linked
  <2>3. \A u \in Threads : hand'[u] # NULL <=> pc'[u] = "push"
    BY <1>1, <1>3, <2>1 DEF PoolInv, ElementsConserved
  <2>4. \A n \in Nodes : ~Linked(n)' <=> \E u \in Threads : hand'[u] = n
    BY <1>1, <1>3, <2>1, <2>2, CellFacts DEF PoolInv, ElementsConserved
  <2>5. \A u, v \in Threads : hand'[u] = hand'[v] /\ hand'[u] # NULL => u = v
    BY <1>1, <1>3, <2>1 DEF PoolInv, ElementsConserved
  <2> QED
    BY <2>3, <2>4, <2>5 DEF ElementsConserved
<1>13. CallsNameNodes'
  BY <1>1, <1>3 DEF PoolInv, PoolTypeOK, CallsNameNodes
<1> QED
  BY <1>5, <1>9, <1>10, <1>11, <1>12, <1>13 DEF PoolInv

\* The calls that a thread can start, and what they name.
LEMMA StartsCall ==
    ASSUME PoolInv, NEW t \in alive, StartCall(t)
    PROVE  \E c \in [op : Movers \cup Getters, e : Nodes \cup {NULL}, old : Lists, new : Lists] :
               Start(t, c) /\ (c.op \in {"set_indexed", "try_to_set", "touch"} => c.e \in Nodes)
<1> DEFINE Named == [op : Movers \cup Getters, e : Nodes \cup {NULL}, old : Lists, new : Lists]
<1> USE SharedAssumption
<1>1. \A e \in Nodes \cup {NULL}, old, new \in Lists, op \in Movers \cup Getters :
          /\ CallOf(op, e, old, new) \in Named
          /\ CallOf(op, e, old, new).op = op /\ CallOf(op, e, old, new).e = e
  BY DEF CallOf
<1>2. \A e \in Nodes : id[e] \in Lists
  BY CellFacts DEF PoolInv, PoolTypeOK, LinkTypeOK
<1>3. 0 \in Lists
  BY NListsAssumption DEF Lists
<1> HIDE DEF Named
<1> SUFFICES \E c \in Named : Start(t, c) /\ (c.op \in {"set_indexed", "try_to_set", "touch"} => c.e \in Nodes)
  BY DEF Named
<1>4. CASE CallSetIndexed(t)
  BY <1>1, <1>2, <1>4 DEF CallSetIndexed, Movers
<1>5. CASE CallTryToSet(t)
  BY <1>1, <1>5 DEF CallTryToSet, Movers
<1>6. CASE CallSetOldest(t)
  BY <1>1, <1>6 DEF CallSetOldest, Movers
<1>7. CASE CallTouch(t)
  BY <1>1, <1>3, <1>7 DEF CallTouch, Movers
<1>8. CASE CallGet(t)
  BY <1>1, <1>8 DEF CallGet, Getters
<1> QED
  BY <1>4, <1>5, <1>6, <1>7, <1>8 DEF StartCall

\* A thread starts a call.
LEMMA StartKeeps ==
    ASSUME PoolInv, NEW t \in alive, StartCall(t)
    PROVE  PoolInv'
<1>1. PICK c \in Calls : /\ Start(t, c)
                         /\ c.op \in {"set_indexed", "try_to_set", "touch"} => c.e \in Nodes
  BY StartsCall DEF Calls
<1>2. /\ t \in Threads /\ pc[t] = "idle"
      /\ call' = [call EXCEPT ![t] = c] /\ count' = [count EXCEPT ![t] = 0] /\ pc' = [pc EXCEPT ![t] = "lock"]
      /\ UNCHANGED <<next, prev, id, length, last, next_count, lock, alive, res, hand, owner, aborted>>
  BY <1>1 DEF PoolInv, PoolTypeOK, Start, Goto
<1>3. PoolTypeOK'
  BY <1>2, PoolThreadsAssumption DEF PoolInv, PoolTypeOK, LinkTypeOK
<1>4. LockHeld'
  BY <1>2 DEF PoolInv, PoolTypeOK, LockHeld
<1>5. CallsNameNodes'
  BY <1>1, <1>2 DEF PoolInv, PoolTypeOK, CallsNameNodes
<1>6. \A u \in Threads : pc'[u] = "push" <=> pc[u] = "push"
  BY <1>2 DEF PoolInv, PoolTypeOK
<1> QED
  BY <1>2, <1>3, <1>4, <1>5, <1>6, QuietKeeps

\* The steps of sxe_spinlock_take, and the ends of a call.
LEMMA LockStepsKeep ==
    ASSUME PoolInv, NEW t \in alive, LockTaken(t) \/ LockSpin(t) \/ LockNotTaken(t) \/ Unlock(t) \/ ReturnFailed(t)
    PROVE  PoolInv'
<1> USE PoolThreadsAssumption
<1>1. t \in Threads
  BY DEF PoolInv, PoolTypeOK
<1>2. NoCall \in Calls /\ SXE_POOL_LOCK_TAKEN \in Int /\ \A op : LockFailure(op) \in Int
  BY DEF Calls, LockFailure, SXE_POOL_LOCK_TAKEN, SXE_POOL_NO_INDEX, SXE_POOL_LOCK_NOT_TAKEN
<1>3. NoCall.op = "none"
  BY DEF NoCall, CallOf
<1> USE DEF Goto, Result
<1>4. CASE LockTaken(t)
  <2>1. PoolTypeOK'
    BY <1>1, <1>4 DEF LockTaken, Lock!take_swap, PoolInv, PoolTypeOK, LinkTypeOK
  <2>2. LockHeld'
    BY <1>1, <1>4 DEF LockTaken, Lock!take_swap, PoolInv, PoolTypeOK, LockHeld
  <2>3. CallsNameNodes' /\ \A u \in Threads : pc'[u] = "push" <=> pc[u] = "push"
    BY <1>1, <1>4 DEF LockTaken, PoolInv, PoolTypeOK, CallsNameNodes
  <2> QED
    BY <1>4, <2>1, <2>2, <2>3, QuietKeeps DEF LockTaken
<1>5. CASE LockSpin(t)
  <2>1. PoolTypeOK'
    BY <1>1, <1>5 DEF LockSpin, Lock!take_spin, PoolInv, PoolTypeOK, LinkTypeOK
  <2>2. LockHeld'
    BY <1>1, <1>5 DEF LockSpin, Lock!take_spin, PoolInv, PoolTypeOK, LockHeld
  <2>3. CallsNameNodes' /\ \A u \in Threads : pc'[u] = "push" <=> pc[u] = "push"
    BY <1>1, <1>5 DEF LockSpin, PoolInv, PoolTypeOK, CallsNameNodes
  <2> QED
    BY <1>5, <2>1, <2>2, <2>3, QuietKeeps DEF LockSpin
<1>6. CASE LockNotTaken(t)
  <2>1. PoolTypeOK'
    BY <1>1, <1>2, <1>6 DEF LockNotTaken, Lock!take_fail, PoolInv, PoolTypeOK, LinkTypeOK
  <2>2. LockHeld'
    BY <1>1, <1>6 DEF LockNotTaken, Lock!take_fail, PoolInv, PoolTypeOK, LockHeld
  <2>3. CallsNameNodes' /\ \A u \in Threads : pc'[u] = "push" <=> pc[u] = "push"
    BY <1>1, <1>6 DEF LockNotTaken, PoolInv, PoolTypeOK, CallsNameNodes
  <2> QED
    BY <1>6, <2>1, <2>2, <2>3, QuietKeeps DEF LockNotTaken
<1>7. CASE Unlock(t)
  <2>1. PoolTypeOK'
    BY <1>1, <1>2, <1>7 DEF Unlock, Lock!sxe_spinlock_give, PoolInv, PoolTypeOK, LinkTypeOK
  <2>2. LockHeld'
    BY <1>1, <1>7 DEF Unlock, Lock!sxe_spinlock_give, Lock!GiveAssert, PoolInv, PoolTypeOK, LockHeld
  <2>3. CallsNameNodes' /\ \A u \in Threads : pc'[u] = "push" <=> pc[u] = "push"
    BY <1>1, <1>7 DEF Unlock, PoolInv, PoolTypeOK, CallsNameNodes
  <2> QED
    BY <1>7, <2>1, <2>2, <2>3, QuietKeeps DEF Unlock
<1>8. CASE ReturnFailed(t)
  <2>1. PoolTypeOK'
    BY <1>1, <1>2, <1>8 DEF ReturnFailed, PoolInv, PoolTypeOK, LinkTypeOK
  <2>2. LockHeld'
    BY <1>1, <1>8 DEF ReturnFailed, PoolInv, PoolTypeOK, LockHeld
  <2>3. CallsNameNodes' /\ \A u \in Threads : pc'[u] = "push" <=> pc[u] = "push"
    BY <1>1, <1>8 DEF ReturnFailed, PoolInv, PoolTypeOK, CallsNameNodes
  <2> QED
    BY <1>8, <2>1, <2>2, <2>3, QuietKeeps DEF ReturnFailed
<1> QED
  BY <1>4, <1>5, <1>6, <1>7, <1>8

\* A thread dies, by itself or in an assertion.
LEMMA DeathKeeps ==
    ASSUME PoolInv, NEW t \in alive, Die(t) \/ Abort(t)
    PROVE  PoolInv'
<1>1. /\ alive' = alive \ {t} /\ aborted' \in BOOLEAN
      /\ UNCHANGED <<next, prev, id, length, last, next_count, lock, count, pc, call, res, hand, owner>>
  BY DEF Die, Abort, PoolInv, PoolTypeOK
<1>2. PoolTypeOK' /\ LockHeld' /\ CallsNameNodes'
  BY <1>1 DEF PoolInv, PoolTypeOK, LinkTypeOK, LockHeld, CallsNameNodes
<1> QED
  BY <1>1, <1>2, QuietKeeps

LEMMA OverrideKeeps == ASSUME PoolInv, sxe_pool_override_locked PROVE PoolInv'
<1>1. /\ lock \in Threads \ alive /\ lock' = 0
      /\ UNCHANGED <<next, prev, id, length, last, next_count, count, alive, pc, call, res, hand, owner, aborted>>
  BY DEF sxe_pool_override_locked, Lock!sxe_spinlock_force
<1>2. PoolTypeOK' /\ LockHeld' /\ CallsNameNodes'
  BY <1>1 DEF PoolInv, PoolTypeOK, LinkTypeOK, LockHeld, CallsNameNodes
<1> QED
  BY <1>1, <1>2, QuietKeeps

\* A call answers without moving an element.
LEMMA AnswerKeeps ==
    ASSUME PoolInv, NEW t \in alive, NEW r \in Int, pc[t] = "body", Answer(t, r)
    PROVE  PoolInv'
<1>1. /\ t \in Threads
      /\ res' = [res EXCEPT ![t] = r] /\ pc' = [pc EXCEPT ![t] = "give"]
      /\ UNCHANGED <<next, prev, id, length, last, next_count, lock, count, alive, call, hand, owner, aborted>>
  BY DEF PoolInv, PoolTypeOK, Answer, Result, Goto
<1>2. PoolTypeOK' /\ LockHeld' /\ CallsNameNodes'
  BY <1>1 DEF PoolInv, PoolTypeOK, LinkTypeOK, LockHeld, CallsNameNodes
<1>3. \A u \in Threads : pc'[u] = "push" <=> pc[u] = "push"
  BY <1>1 DEF PoolInv, PoolTypeOK
<1> QED
  BY <1>1, <1>2, <1>3, QuietKeeps

\* The calls' bodies, under the lock.
BodyStep(t) == \/ \E e \in Nodes, old \in Lists, r \in Int : TakeOff(t, e, old, r)
               \/ \E r \in Int : Answer(t, r)
               \/ Abort(t)

LEMMA BodySteps ==
    ASSUME PoolInv, NEW t \in alive, Body(t)
    PROVE  t \in Threads /\ pc[t] = "body" /\ BodyStep(t)
<1> DEFINE c == call[t]
<1> DEFINE node == sxe_list_peek_head(c.old)
<1>1. t \in Threads /\ pc[t] = "body"
  BY DEF PoolInv, PoolTypeOK, Body, sxe_pool_set_indexed_element_state, sxe_pool_try_to_set_indexed_element_state,
         sxe_pool_set_oldest_element_state, sxe_pool_touch_indexed_element, sxe_pool_get_oldest_element_index,
         sxe_pool_get_oldest_element_count
<1> SUFFICES BodyStep(t)
  BY <1>1
<1>2. c \in Calls
  BY <1>1 DEF PoolInv, PoolTypeOK
<1>3. c.old \in Lists
  BY <1>2, NListsAssumption DEF Calls, NoCall, CallOf, Lists
<1>4. \A n \in Nodes : n \in Int /\ id[n] \in Lists /\ last[n] \in Int
  <2>1. \A n \in Nodes : n \in Int
    BY NumberAssumption DEF Nodes
  <2>2. \A n \in Nodes : id[n] \in Lists
    BY CellFacts DEF PoolInv, PoolTypeOK, LinkTypeOK
  <2>3. \A n \in Nodes : last[n] \in Int
    BY DEF PoolInv, PoolTypeOK
  <2> QED
    BY <2>1, <2>2, <2>3
<1>5. node = NULL \/ node \in Nodes
  <2>1. ListInv
    BY DEF PoolInv
  <2> QED
    BY <1>3, <2>1, EndsOfLists DEF sxe_list_peek_head
<1>6. c.op \in {"set_indexed", "try_to_set", "touch"} => c.e \in Nodes
  BY <1>1 DEF PoolInv, CallsNameNodes
<1>7. SXE_POOL_NO_INDEX \in Int /\ SXE_POOL_INCORRECT_STATE \in Int /\ SXE_POOL_LOCK_TAKEN \in Int /\ 0 \in Int
  BY DEF SXE_POOL_NO_INDEX, SXE_POOL_INCORRECT_STATE, SXE_POOL_LOCK_TAKEN
<1>8. ASSUME NEW e \in Nodes, NEW old \in Lists, NEW r \in Int, TakeOff(t, e, old, r) PROVE BodyStep(t)
  BY <1>8 DEF BodyStep
<1>9. ASSUME NEW r \in Int, Answer(t, r) PROVE BodyStep(t)
  BY <1>9 DEF BodyStep
<1>10. ASSUME Abort(t) PROVE BodyStep(t)
  BY <1>10 DEF BodyStep
<1>11. CASE sxe_pool_set_indexed_element_state(t)
  <2>1. c.e \in Nodes /\ (TakeOff(t, c.e, c.old, SXE_POOL_LOCK_TAKEN) \/ Abort(t))
    BY <1>6, <1>11 DEF sxe_pool_set_indexed_element_state
  <2> HIDE DEF c
  <2> QED
    BY <1>3, <1>7, <1>8, <1>10, <2>1
<1>12. CASE sxe_pool_try_to_set_indexed_element_state(t)
  <2>1. c.e \in Nodes /\ (TakeOff(t, c.e, c.old, c.e) \/ Answer(t, SXE_POOL_INCORRECT_STATE) \/ Abort(t))
    BY <1>6, <1>12 DEF sxe_pool_try_to_set_indexed_element_state
  <2> HIDE DEF c
  <2> QED
    BY <1>3, <1>4, <1>7, <1>8, <1>9, <1>10, <2>1
<1>13. CASE sxe_pool_set_oldest_element_state(t)
  <2>1. Answer(t, SXE_POOL_NO_INDEX) \/ (node # NULL /\ TakeOff(t, node, c.old, node))
    BY <1>13 DEF sxe_pool_set_oldest_element_state
  <2> HIDE DEF c, node
  <2> QED
    BY <1>3, <1>4, <1>5, <1>7, <1>8, <1>9, <2>1
<1>14. CASE sxe_pool_touch_indexed_element(t)
  <2>1. c.e \in Nodes /\ (TakeOff(t, c.e, id[c.e], SXE_POOL_LOCK_TAKEN) \/ Abort(t))
    BY <1>6, <1>14 DEF sxe_pool_touch_indexed_element
  <2> HIDE DEF c
  <2> QED
    BY <1>4, <1>7, <1>8, <1>10, <2>1
<1>15. CASE sxe_pool_get_oldest_element_index(t)
  <2> DEFINE r == IF node = NULL THEN SXE_POOL_NO_INDEX ELSE node
  <2>1. Answer(t, r)
    BY <1>15 DEF sxe_pool_get_oldest_element_index
  <2>2. r \in Int
    <3> HIDE DEF node
    <3> QED
      BY <1>4, <1>5, <1>7
  <2> HIDE DEF r
  <2> QED
    BY <1>9, <2>1, <2>2
<1>16. CASE sxe_pool_get_oldest_element_count(t)
  <2> DEFINE r == IF node = NULL THEN 0 ELSE last[node]
  <2>1. Answer(t, r)
    BY <1>16 DEF sxe_pool_get_oldest_element_count
  <2>2. r \in Int
    <3> HIDE DEF node
    <3> QED
      BY <1>4, <1>5, <1>7
  <2> HIDE DEF r
  <2> QED
    BY <1>9, <2>1, <2>2
<1> QED
  BY <1>11, <1>12, <1>13, <1>14, <1>15, <1>16 DEF Body

LEMMA BodyKeeps ==
    ASSUME PoolInv, NEW t \in alive, Body(t)
    PROVE  PoolInv'
  BY BodySteps, TakeOffKeeps, AnswerKeeps, DeathKeeps DEF BodyStep

-----------------------------------------------------------------------------
\* sxe_pool_construct leaves all elements on the list of state 0, in the order
\* of their stamps.
LEMMA PoolConstructs == ASSUME PoolInit PROVE PoolInv
<1> USE NumberAssumption, NListsAssumption
<1>1. LinkTypeOK
  BY DEF PoolInit, sxe_pool_construct, LinkTypeOK, Cells, Nodes, Sentinels, Sentinel, Lists, NULL
<1>2. LinksInverse
  BY DEF PoolInit, sxe_pool_construct, LinksInverse, Cells, Nodes, Sentinels, Sentinel, NULL
<1>3. SentinelsLinked
  BY DEF PoolInit, sxe_pool_construct, SentinelsLinked, Cells, Nodes, Sentinels, Sentinel, Lists, NULL
<1>4. IdsConsistent
  BY DEF PoolInit, sxe_pool_construct, IdsConsistent, Cells, Nodes, Sentinels, Sentinel, NULL
<1>5. LengthsCount
  <2>1. Members(0) = Nodes /\ \A s \in Lists : s # 0 => Members(s) = {}
    BY DEF PoolInit, sxe_pool_construct, Members, Cells, Nodes, Sentinels, Lists, NULL
  <2>2. Cardinality(Nodes) = Number
    BY FS_Interval DEF Nodes
  <2>3. Cardinality({}) = 0
    BY FS_EmptySet
  <2> QED
    BY <2>1, <2>2, <2>3 DEF PoolInit, sxe_pool_construct, LengthsCount
<1>6. PoolTypeOK
  <2>1. NoCall \in Calls /\ SXE_POOL_LOCK_TAKEN \in Int
    BY DEF Calls, SXE_POOL_LOCK_TAKEN
  <2>2. last \in [Nodes -> Nat] /\ next_count \in Nat
    BY DEF PoolInit, sxe_pool_construct, Nodes
  <2>3. lock \in Threads \cup {0} /\ owner \in [Nodes -> Threads \cup {0}] /\ aborted \in BOOLEAN
    BY DEF PoolInit, sxe_pool_construct
  <2>4. count \in [Threads -> 0 .. SpinMax]
    BY PoolThreadsAssumption DEF PoolInit
  <2>5. /\ alive \in SUBSET Threads
        /\ pc \in [Threads -> {"idle", "lock", "body", "push", "give", "fail"}]
        /\ hand \in [Threads -> Nodes \cup {NULL}]
    BY DEF PoolInit
  <2>6. call \in [Threads -> Calls] /\ res \in [Threads -> Int]
    BY <2>1 DEF PoolInit
  <2> QED
    BY <1>1, <2>2, <2>3, <2>4, <2>5, <2>6 DEF PoolTypeOK
<1>7. StampsOrdered
  BY DEF PoolInit, sxe_pool_construct, StampsOrdered, Cells, Nodes, Sentinels
<1>8. \A n \in Nodes : Linked(n)
  BY DEF PoolInit, sxe_pool_construct, Linked, Cells, Nodes, NULL
<1>9. LockHeld /\ ElementsConserved /\ CallsNameNodes
  BY <1>8, CellFacts DEF PoolInit, LockHeld, ElementsConserved, CallsNameNodes
<1> QED
  BY <1>1, <1>2, <1>3, <1>4, <1>5, <1>6, <1>7, <1>9 DEF PoolInv, ListInv

\* Every step of every thread keeps the pool sound.
LEMMA PoolStepsKeep == ASSUME PoolInv, [PoolNext]_poolvars PROVE PoolInv'
<1>1. CASE sxe_pool_override_locked
  BY <1>1, OverrideKeeps
<1>2. ASSUME NEW t \in Threads, Progress(t) PROVE PoolInv'
  BY <1>2, LockStepsKeep, BodyKeeps, PutOnKeeps DEF Progress
<1>3. ASSUME NEW t \in Threads, StartCall(t) PROVE PoolInv'
  <2>1. t \in alive
    BY <1>3 DEF StartCall
  <2> QED
    BY <1>3, <2>1, StartKeeps
<1>4. ASSUME NEW t \in alive, Die(t) PROVE PoolInv'
  BY <1>4, DeathKeeps
<1>5. CASE UNCHANGED poolvars
  <2>1. UNCHANGED <<next, prev, id, length, last, next_count, hand, owner>> /\ UNCHANGED <<lock, count, alive, pc, call, res, aborted>>
    BY <1>5 DEF poolvars
  <2>2. PoolTypeOK' /\ LockHeld' /\ CallsNameNodes'
    BY <2>1 DEF PoolInv, PoolTypeOK, LinkTypeOK, LockHeld, CallsNameNodes
  <2> QED
    BY <2>1, <2>2, QuietKeeps
<1> QED
  BY <1>1, <1>2, <1>3, <1>4, <1>5 DEF PoolNext

\* The inductive invariant.
THEOREM PoolInvHolds == PoolSpec => []PoolInv
  BY PoolConstructs, PoolStepsKeep, PTL DEF PoolSpec

\* Every variable of the pool stays in its type.
THEOREM PoolTypeCorrect == PoolSpec => []PoolTypeOK
<1>1. PoolInv => PoolTypeOK
  BY DEF PoolInv
<1> QED
  BY <1>1, PoolInvHolds, PTL

\* Elements are queued in each state in the order in which they entered it:
\* sxe_pool_set_oldest_element_state takes the oldest.
THEOREM PoolStampsOrdered == PoolSpec => []StampsOrdered
<1>1. PoolInv => StampsOrdered
  BY DEF PoolInv
<1> QED
  BY <1>1, PoolInvHolds, PTL

\* A live thread inside a call has the pool's lock, so two are never inside
\* at once, also when locks of dead threads are overridden.
THEOREM PoolLockHeld == PoolSpec => []LockHeld
<1>1. PoolInv => LockHeld
  BY DEF PoolInv
<1> QED
  BY <1>1, PoolInvHolds, PTL

\* An element is off the lists exactly while one thread, live or dead, has it
\* in hand between sxe_list_remove and sxe_list_push.
THEOREM PoolConservesElements == PoolSpec => []ElementsConserved
<1>1. PoolInv => ElementsConserved
  BY DEF PoolInv
<1> QED
  BY <1>1, PoolInvHolds, PTL

\* A locked pool is sound for any threads, elements and states, wherever threads
\* die: its lists are linked, ordered by last use and hold every element that is
\* in no thread's hand, and no assertion of sxe_list_peek_head fails.
THEOREM PoolIsSound == PoolSpec => []PoolSound
<1>1. PoolInv => PoolSound
  BY PeekAssertionsHold DEF PoolInv, PoolSound
<1> QED
  BY <1>1, PoolInvHolds, PTL
-----------------------------------------------------------------------------
(* While callers keep the rules, no assertion fails.                       *)

\* An element that belongs to a thread is in a state of its own.
OwnersPrivate == \A e \in Nodes : owner[e] # 0 => id[e] \notin Shared

\* A thread takes off a list only elements that belong to nobody else, but for
\* a touch, which puts the element back where it was.
HandsOwned == \A t \in Threads : hand[t] # NULL /\ call[t].op # "touch" => owner[hand[t]] \in {0, t}

\* The element of a pending sxe_pool_set_indexed_element_state stays the
\* caller's, in the state the caller named; the other movers name a shared one.
SettersOwn == \A t \in Threads :
    pc[t] \in {"lock", "body"} =>
        /\ call[t].op = "set_indexed" => owner[call[t].e] = t /\ id[call[t].e] = call[t].old
        /\ call[t].op \in {"try_to_set", "set_oldest"} => call[t].old \in Shared

RulesKept == OwnersPrivate /\ HandsOwned /\ SettersOwn /\ NoAbort

\* The list that a linked element's id names is not empty: following next from
\* the element, stamps grow, so that the last element on the way, the one with
\* the latest stamp, is before the sentinel.
LEMMA LinkedListNotEmpty ==
    ASSUME PoolInv, NEW e \in Nodes, Linked(e)
    PROVE  RemoveAsserts(id[e], e)
<1> DEFINE s == id[e]
<1> DEFINE T == {next_count - last[n] : n \in Members(s)}
<1>1. s \in Lists /\ ListShape /\ e \in Cells
  BY CellFacts DEF PoolInv, ListInv, ListShape, LinkTypeOK
<1>2. \A n \in Nodes : last[n] \in Nat /\ next_count \in Nat /\ last[n] <= next_count
  BY DEF PoolInv, PoolTypeOK, StampsOrdered
<1>3. T \subseteq Nat
  BY <1>2 DEF Members
<1>4. T # {}
  BY DEF Members, Linked
<1>5. PICK x \in T : \A y \in T : x <= y
  BY <1>3, <1>4, LeastNumber
<1>6. PICK n \in Members(s) : \A m \in Members(s) : last[m] <= last[n]
  <2>1. PICK n \in Members(s) : x = next_count - last[n]
    BY <1>5
  <2>2. \A m \in Members(s) : next_count - last[n] <= next_count - last[m]
    BY <1>5, <2>1
  <2> QED
    BY <1>2, <2>2 DEF Members
<1> HIDE DEF s
<1>7. n \in Nodes /\ n \in Cells /\ next[n] # NULL /\ id[n] = s
  BY CellFacts DEF Members
<1>8. next[n] \in Cells /\ next[next[n]] # NULL /\ id[next[n]] = s /\ prev[next[n]] = n
  BY <1>1, <1>7, Neighbours
<1>9. next[n] \notin Nodes
  <2> SUFFICES ASSUME next[n] \in Nodes PROVE FALSE
    OBVIOUS
  <2>1. last[n] < last[next[n]]
    BY <1>7 DEF PoolInv, StampsOrdered
  <2>2. last[next[n]] <= last[n]
    BY <1>6, <1>8 DEF Members
  <2> QED
    BY <1>2, <1>7, <2>1, <2>2
<1>10. next[n] = Sentinel(s)
  BY <1>1, <1>8, <1>9, CellFacts DEF ListShape, SentinelsLinked
<1>11. TAIL(s) # Sentinel(s)
  BY <1>1, <1>7, <1>8, <1>10, CellFacts DEF TAIL
<1>12. HEAD(s) # Sentinel(s)
  BY <1>1, <1>11, EndsOfLists DEF PoolInv
<1>13. next[e] # NULL /\ prev[e] # NULL
  BY <1>1 DEF Linked, ListShape, LinksInverse
<1> QED
  BY <1>11, <1>12, <1>13 DEF RemoveAsserts, s

\* What is lost stays lost: dead threads do nothing.
LEMMA LostGrows ==
    ASSUME PoolInv, NoAbort, aborted' = aborted, alive' \subseteq alive, lock' \in {lock, 0} \cup alive,
           \A u \in Threads \ alive : hand'[u] = hand[u]
    PROVE  NoAbort'
<1>1. Lost \subseteq Lost'
  BY PoolThreadsAssumption DEF Lost, PoolInv, PoolTypeOK
<1> QED
  BY <1>1 DEF NoAbort

\* Steps that move no element.
LEMMA QuietKeepsRules ==
    ASSUME PoolInv, RulesKept, UNCHANGED <<id, owner, hand, aborted>>,
           alive' \subseteq alive, lock' \in {lock, 0} \cup alive,
           \A u \in Threads : pc'[u] \in {"lock", "body"} => pc[u] \in {"lock", "body"} /\ call'[u] = call[u],
           \A u \in Threads : hand[u] # NULL => call'[u] = call[u]
    PROVE  RulesKept'
<1>1. NoAbort'
  BY LostGrows DEF RulesKept
<1>2. OwnersPrivate' /\ HandsOwned'
  BY DEF RulesKept, OwnersPrivate, HandsOwned
<1>3. SettersOwn'
  BY DEF RulesKept, SettersOwn
<1> QED
  BY <1>1, <1>2, <1>3 DEF RulesKept

LEMMA StartKeepsRules ==
    ASSUME PoolInv, RulesKept, NEW t \in alive, StartCall(t)
    PROVE  RulesKept'
<1>1. PICK c : /\ Start(t, c)
               /\ c.op = "set_indexed" => owner[c.e] = t /\ id[c.e] = c.old
               /\ c.op \in {"try_to_set", "set_oldest"} => c.old \in Shared
  <2>1. CASE \E e \in Nodes, new \in Lists : owner[e] = t /\ Start(t, CallOf("set_indexed", e, id[e], new))
    BY <2>1 DEF CallOf
  <2>2. CASE \E e \in Nodes, old \in Shared, new \in Lists : Start(t, CallOf("try_to_set", e, old, new))
    BY <2>2 DEF CallOf
  <2>3. CASE \E old \in Shared, new \in Lists : Start(t, CallOf("set_oldest", NULL, old, new))
    BY <2>3 DEF CallOf
  <2>4. CASE \E e \in Nodes : Start(t, CallOf("touch", e, 0, 0))
    BY <2>4 DEF CallOf
  <2>5. CASE \E op \in Getters, s \in Lists : Start(t, CallOf(op, NULL, s, s))
    BY <2>5 DEF CallOf, Getters
  <2> QED
    BY <2>1, <2>2, <2>3, <2>4, <2>5 DEF StartCall, CallSetIndexed, CallTryToSet, CallSetOldest, CallTouch, CallGet
<1>2. /\ t \in Threads /\ pc[t] = "idle" /\ hand[t] = NULL
      /\ call' = [call EXCEPT ![t] = c] /\ pc' = [pc EXCEPT ![t] = "lock"]
      /\ UNCHANGED <<id, lock, alive, hand, owner, aborted>>
  BY <1>1 DEF PoolInv, PoolTypeOK, ElementsConserved, Start, Goto
<1>3. \A u \in Threads : u # t => call'[u] = call[u] /\ pc'[u] = pc[u]
  BY <1>2 DEF PoolInv, PoolTypeOK
<1>4. call'[t] = c
  BY <1>2 DEF PoolInv, PoolTypeOK
<1>5. NoAbort'
  BY <1>2, LostGrows DEF RulesKept
<1>6. OwnersPrivate' /\ HandsOwned'
  BY <1>2, <1>3 DEF RulesKept, OwnersPrivate, HandsOwned
<1>7. SettersOwn'
  BY <1>1, <1>2, <1>3, <1>4 DEF RulesKept, SettersOwn
<1> QED
  BY <1>5, <1>6, <1>7 DEF RulesKept

LEMMA LockStepsKeepRules ==
    ASSUME PoolInv, RulesKept, NEW t \in alive, LockTaken(t) \/ LockSpin(t) \/ LockNotTaken(t) \/ Unlock(t) \/ ReturnFailed(t)
    PROVE  RulesKept'
<1>1. t \in Threads
  BY DEF PoolInv, PoolTypeOK
<1>2. /\ UNCHANGED <<id, owner, hand, aborted, alive>>
      /\ lock' \in {lock, 0, t}
  BY <1>1 DEF LockTaken, LockSpin, LockNotTaken, Unlock, ReturnFailed, Lock!take_swap, Lock!take_spin, Lock!take_fail,
         Lock!sxe_spinlock_give
<1>3. \A u \in Threads : pc'[u] \in {"lock", "body"} => pc[u] \in {"lock", "body"} /\ call'[u] = call[u]
  BY <1>1 DEF LockTaken, LockSpin, LockNotTaken, Unlock, ReturnFailed, Goto, PoolInv, PoolTypeOK
<1>4. \A u \in Threads : hand[u] # NULL => call'[u] = call[u]
  BY <1>1 DEF LockTaken, LockSpin, LockNotTaken, Unlock, ReturnFailed, PoolInv, PoolTypeOK, ElementsConserved
<1> QED
  BY <1>2, <1>3, <1>4, QuietKeepsRules

\* The element taken is the thread's own or nobody's.
LEMMA TakeOffKeepsRules ==
    ASSUME PoolInv, RulesKept, NEW t \in alive, NEW e \in Nodes, NEW old \in Lists, NEW r \in Int,
           pc[t] = "body", TakeOff(t, e, old, r), call[t].op # "touch" => owner[e] \in {0, t}
    PROVE  RulesKept'
<1>1. /\ t \in Threads
      /\ hand' = [hand EXCEPT ![t] = e] /\ pc' = [pc EXCEPT ![t] = "push"]
      /\ UNCHANGED <<id, lock, alive, call, owner, aborted>>
  BY DEF TakeOff, Goto, sxe_list_remove, PoolInv, PoolTypeOK
<1>2. \A u \in Threads : /\ hand'[u] = IF u = t THEN e ELSE hand[u]
                         /\ pc'[u] = IF u = t THEN "push" ELSE pc[u]
  BY <1>1 DEF PoolInv, PoolTypeOK
<1>3. NoAbort'
  BY <1>1, <1>2, LostGrows DEF RulesKept
<1>4. OwnersPrivate' /\ HandsOwned'
  BY <1>1, <1>2 DEF RulesKept, OwnersPrivate, HandsOwned
<1>5. SettersOwn'
  BY <1>1, <1>2 DEF RulesKept, SettersOwn
<1> QED
  BY <1>3, <1>4, <1>5 DEF RulesKept

\* The element gets the owner that its new state asks for; no other thread has
\* it in hand or waits to move it.
LEMMA PutOnKeepsRules ==
    ASSUME PoolInv, RulesKept, NEW t \in alive, PutOn(t)
    PROVE  RulesKept'
<1> DEFINE e == hand[t]
<1> DEFINE new == Destination(t)
<1> DEFINE own == IF new \in Shared THEN 0 ELSE IF call[t].op = "touch" THEN owner[e] ELSE t
<1>1. t \in Threads /\ pc[t] = "push" /\ e \in Nodes
  BY DEF PoolInv, PoolTypeOK, PutOn, ElementsConserved
<1>2. new \in Lists /\ e \in Cells
  <2>1. call[t] \in Calls /\ id \in [Cells -> Lists] /\ e \in Cells
    BY <1>1, CellFacts DEF PoolInv, PoolTypeOK, LinkTypeOK
  <2>2. call[t].new \in Lists
    BY <2>1, NListsAssumption DEF Calls, NoCall, CallOf, Lists
  <2> QED
    BY <2>1, <2>2 DEF Destination
<1>3. id[Sentinel(new)] = new
  BY <1>2 DEF PoolInv, ListInv, SentinelsLinked
<1>4. /\ id' = [id EXCEPT ![e] = new] /\ owner' = [owner EXCEPT ![e] = own]
      /\ hand' = [hand EXCEPT ![t] = NULL] /\ pc' = [pc EXCEPT ![t] = "give"]
      /\ UNCHANGED <<lock, alive, call, aborted>>
  BY <1>3 DEF PutOn, Goto, sxe_list_push
<1>5. /\ \A n \in Nodes : id'[n] = (IF n = e THEN new ELSE id[n]) /\ owner'[n] = (IF n = e THEN own ELSE owner[n])
      /\ \A u \in Threads : hand'[u] = (IF u = t THEN NULL ELSE hand[u]) /\ pc'[u] = (IF u = t THEN "give" ELSE pc[u])
  BY <1>4, CellFacts DEF PoolInv, PoolTypeOK, LinkTypeOK
<1>6. call[t].op = "touch" => new = id[e]
  BY DEF Destination
<1>7. call[t].op # "touch" => owner[e] \in {0, t}
  BY <1>1, CellFacts DEF RulesKept, HandsOwned
<1>8. e = hand[t] /\ own = IF new \in Shared THEN 0 ELSE IF call[t].op = "touch" THEN owner[e] ELSE t
  OBVIOUS
<1> HIDE DEF e, new, own
<1>9. NoAbort'
  BY <1>4, <1>5, LostGrows DEF RulesKept
<1>10. OwnersPrivate'
  BY <1>5, <1>8 DEF RulesKept, OwnersPrivate
<1>11. HandsOwned'
  <2>1. \A u \in Threads : hand'[u] # NULL => u # t /\ hand'[u] = hand[u] /\ hand[u] # e /\ hand[u] \in Nodes
    BY <1>1, <1>5, <1>8 DEF PoolInv, PoolTypeOK, ElementsConserved
  <2> QED
    BY <1>4, <1>5, <2>1 DEF RulesKept, HandsOwned
<1>12. SettersOwn'
  <2> SUFFICES ASSUME NEW u \in Threads, pc'[u] \in {"lock", "body"}
               PROVE  /\ call[u].op = "set_indexed" => owner'[call[u].e] = u /\ id'[call[u].e] = call[u].old
                      /\ call[u].op \in {"try_to_set", "set_oldest"} => call[u].old \in Shared
    BY <1>4 DEF SettersOwn
  <2>1. u # t /\ pc[u] \in {"lock", "body"} /\ u # 0
    BY <1>5, PoolThreadsAssumption
  <2>2. ASSUME call[u].op = "set_indexed" PROVE owner'[call[u].e] = u /\ id'[call[u].e] = call[u].old
    <3>1. call[u].e \in Nodes /\ owner[call[u].e] = u /\ id[call[u].e] = call[u].old
      BY <2>1, <2>2 DEF RulesKept, SettersOwn, PoolInv, CallsNameNodes
    <3>2. CASE call[u].e # e
      BY <1>5, <3>1, <3>2
    <3>3. CASE call[u].e = e
      <4>1. call[t].op = "touch" /\ new = id[e] /\ id[e] \notin Shared
        BY <1>1, <1>6, <1>7, <2>1, <3>1, <3>3 DEF RulesKept, OwnersPrivate
      <4> QED
        BY <1>1, <1>5, <1>8, <3>1, <3>3, <4>1
    <3> QED
      BY <3>2, <3>3
  <2> QED
    BY <2>1, <2>2 DEF RulesKept, SettersOwn
<1> QED
  BY <1>9, <1>10, <1>11, <1>12 DEF RulesKept

\* An assertion of sxe_list_remove fails only for an element that a dead
\* thread's overridden call has lost.
LEMMA FailureIsLoss ==
    ASSUME PoolInv, NEW t \in alive, pc[t] = "body", NEW e \in Nodes, ~RemoveAsserts(id[e], e)
    PROVE  e \in Lost
<1>1. ~Linked(e)
  BY LinkedListNotEmpty
<1>2. PICK u \in Threads : hand[u] = e
  BY <1>1 DEF PoolInv, ElementsConserved
<1>3. pc[u] = "push" /\ t \in Threads /\ lock = t
  BY <1>2, CellFacts DEF PoolInv, PoolTypeOK, ElementsConserved, LockHeld
<1>4. u # t /\ u \notin alive
  BY <1>3 DEF PoolInv, LockHeld
<1> QED
  BY <1>2, <1>3, <1>4 DEF Lost

LEMMA DeathKeepsRules ==
    ASSUME PoolInv, RulesKept, NEW t \in alive, Die(t) \/ (Abort(t) /\ Lost # {})
    PROVE  RulesKept'
<1>1. CASE Die(t)
  <2>1. UNCHANGED <<id, owner, hand, aborted, lock, pc, call>> /\ alive' \subseteq alive
    BY <1>1 DEF Die
  <2> QED
    BY <2>1, QuietKeepsRules
<1>2. CASE Abort(t) /\ Lost # {}
  <2>1. UNCHANGED <<id, owner, hand, lock, pc, call>> /\ alive' \subseteq alive
    BY <1>2 DEF Abort
  <2>2. Lost' # {}
    BY <1>2, <2>1 DEF Lost
  <2> QED
    BY <2>1, <2>2 DEF RulesKept, OwnersPrivate, HandsOwned, SettersOwn, NoAbort
<1> QED
  BY <1>1, <1>2

LEMMA AnswerKeepsRules ==
    ASSUME PoolInv, RulesKept, NEW t \in alive, NEW r, pc[t] = "body", Answer(t, r)
    PROVE  RulesKept'
<1>1. t \in Threads /\ UNCHANGED <<id, owner, hand, aborted, alive, lock, call>> /\ pc' = [pc EXCEPT ![t] = "give"]
  BY DEF Answer, Goto, PoolInv, PoolTypeOK
<1>2. \A u \in Threads : pc'[u] \in {"lock", "body"} => pc[u] \in {"lock", "body"}
  BY <1>1 DEF PoolInv, PoolTypeOK
<1> QED
  BY <1>1, <1>2, QuietKeepsRules

\* The calls' bodies: only sxe_pool_set_indexed_element_state aborts for an
\* element that is not in the state it names, and there it always is.
LEMMA BodyKeepsRules ==
    ASSUME PoolInv, RulesKept, NEW t \in alive, Body(t)
    PROVE  RulesKept'
<1> DEFINE c == call[t]
<1> DEFINE node == sxe_list_peek_head(c.old)
<1>1. t \in Threads /\ pc[t] = "body"
  BY DEF PoolInv, PoolTypeOK, Body, sxe_pool_set_indexed_element_state, sxe_pool_try_to_set_indexed_element_state,
         sxe_pool_set_oldest_element_state, sxe_pool_touch_indexed_element, sxe_pool_get_oldest_element_index,
         sxe_pool_get_oldest_element_count
<1>2. c \in Calls
  BY <1>1 DEF PoolInv, PoolTypeOK
<1>3. c.old \in Lists
  BY <1>2, NListsAssumption DEF Calls, NoCall, CallOf, Lists
<1>4. /\ \A n \in Nodes : n \in Int /\ id[n] \in Lists
      /\ SXE_POOL_LOCK_TAKEN \in Int
  BY NumberAssumption, CellFacts DEF Nodes, PoolInv, PoolTypeOK, LinkTypeOK, SXE_POOL_LOCK_TAKEN
<1>5. node = NULL \/ (node \in Nodes /\ id[node] = c.old)
  <2>1. ListInv
    BY DEF PoolInv
  <2> QED
    BY <1>3, <2>1, EndsOfLists DEF sxe_list_peek_head
<1>6. c.op \in {"set_indexed", "try_to_set", "touch"} => c.e \in Nodes
  BY <1>1 DEF PoolInv, CallsNameNodes
<1>7. /\ c.op = "set_indexed" => owner[c.e] = t /\ id[c.e] = c.old
      /\ c.op \in {"try_to_set", "set_oldest"} => \A n \in Nodes : id[n] = c.old => owner[n] = 0
  BY <1>1 DEF RulesKept, SettersOwn, OwnersPrivate
<1>8. ASSUME NEW e \in Nodes, NEW old \in Lists, NEW r \in Int, TakeOff(t, e, old, r),
             c.op # "touch" => owner[e] \in {0, t}
      PROVE  RulesKept'
  BY <1>1, <1>8, TakeOffKeepsRules
<1>9. ASSUME NEW r, Answer(t, r) PROVE RulesKept'
  BY <1>1, <1>9, AnswerKeepsRules
<1>10. ASSUME NEW e \in Nodes, Abort(t), TakeOffFails(e, id[e]) PROVE RulesKept'
  <2>1. Lost # {}
    BY <1>1, <1>10, FailureIsLoss DEF TakeOffFails
  <2> QED
    BY <1>10, <2>1, DeathKeepsRules
<1>11. CASE sxe_pool_set_indexed_element_state(t)
  <2>1. /\ c.e \in Nodes /\ owner[c.e] = t
        /\ TakeOff(t, c.e, c.old, SXE_POOL_LOCK_TAKEN) \/ (TakeOffFails(c.e, id[c.e]) /\ Abort(t))
    BY <1>6, <1>7, <1>11 DEF sxe_pool_set_indexed_element_state
  <2> HIDE DEF c
  <2> QED
    BY <1>3, <1>4, <1>8, <1>10, <2>1
<1>12. CASE sxe_pool_try_to_set_indexed_element_state(t)
  <2>1. /\ c.e \in Nodes
        /\ \/ TakeOff(t, c.e, c.old, c.e) /\ owner[c.e] = 0
           \/ Answer(t, SXE_POOL_INCORRECT_STATE)
           \/ TakeOffFails(c.e, id[c.e]) /\ Abort(t)
    BY <1>6, <1>7, <1>12 DEF sxe_pool_try_to_set_indexed_element_state, TakeOff, TakeOffFails
  <2> HIDE DEF c
  <2> QED
    BY <1>3, <1>4, <1>8, <1>9, <1>10, <2>1
<1>13. CASE sxe_pool_set_oldest_element_state(t)
  <2>1. Answer(t, SXE_POOL_NO_INDEX) \/ (node \in Nodes /\ TakeOff(t, node, c.old, node) /\ owner[node] = 0)
    <3>1. c.op = "set_oldest" /\ (Answer(t, SXE_POOL_NO_INDEX) \/ (node # NULL /\ TakeOff(t, node, c.old, node)))
      BY <1>13 DEF sxe_pool_set_oldest_element_state
    <3> HIDE DEF c, node
    <3> QED
      BY <1>5, <1>7, <3>1
  <2> HIDE DEF c, node
  <2> QED
    BY <1>3, <1>4, <1>8, <1>9, <2>1
<1>14. CASE sxe_pool_touch_indexed_element(t)
  <2>1. /\ c.e \in Nodes /\ c.op = "touch"
        /\ TakeOff(t, c.e, id[c.e], SXE_POOL_LOCK_TAKEN) \/ (TakeOffFails(c.e, id[c.e]) /\ Abort(t))
    BY <1>6, <1>14 DEF sxe_pool_touch_indexed_element
  <2> HIDE DEF c
  <2> QED
    BY <1>4, <1>8, <1>10, <2>1
<1>15. CASE sxe_pool_get_oldest_element_index(t)
  BY <1>9, <1>15 DEF sxe_pool_get_oldest_element_index
<1>16. CASE sxe_pool_get_oldest_element_count(t)
  BY <1>9, <1>16 DEF sxe_pool_get_oldest_element_count
<1> QED
  BY <1>11, <1>12, <1>13, <1>14, <1>15, <1>16 DEF Body

LEMMA PoolStepsKeepRules == ASSUME PoolInv, RulesKept, [PoolNext]_poolvars PROVE RulesKept'
<1>1. CASE sxe_pool_override_locked
  <2>1. UNCHANGED <<id, owner, hand, aborted, alive, pc, call>> /\ lock' = 0
    BY <1>1 DEF sxe_pool_override_locked, Lock!sxe_spinlock_force
  <2> QED
    BY <2>1, QuietKeepsRules
<1>2. ASSUME NEW t \in Threads, Progress(t) PROVE RulesKept'
  BY <1>2, LockStepsKeepRules, BodyKeepsRules, PutOnKeepsRules DEF Progress
<1>3. ASSUME NEW t \in Threads, StartCall(t) PROVE RulesKept'
  <2>1. t \in alive
    BY <1>3 DEF StartCall
  <2> QED
    BY <1>3, <2>1, StartKeepsRules
<1>4. ASSUME NEW t \in alive, Die(t) PROVE RulesKept'
  BY <1>4, DeathKeepsRules
<1>5. CASE UNCHANGED poolvars
  BY <1>5, QuietKeepsRules DEF poolvars
<1> QED
  BY <1>1, <1>2, <1>3, <1>4, <1>5 DEF PoolNext

\* While callers keep the rules, no assertion of sxe-pool.c or sxe-list.c ever
\* fails, for any threads, elements and states, unless overriding a dead
\* thread's lock has lost an element.
THEOREM PoolNeverAborts == PoolSpec => []NoAbort
<1>1. PoolInit => RulesKept
  BY DEF PoolInit, RulesKept, OwnersPrivate, HandsOwned, SettersOwn, NoAbort
<1>2. PoolInv /\ RulesKept /\ [PoolNext]_poolvars => RulesKept'
  BY PoolStepsKeepRules
<1>3. RulesKept => NoAbort
  BY DEF RulesKept
<1> QED
  BY <1>1, <1>2, <1>3, PoolInvHolds, PTL DEF PoolSpec
-----------------------------------------------------------------------------
(* The locked pool implements first-in first-out queues with atomic calls: *)
(* every step of a thread is a step of SxePoolAbs or leaves the abstract   *)
(* state alone.                                                            *)

\* A stamp is never 0, the count that sxe_pool_get_oldest_element_count
\* returns for an empty state.
StampsPositive == \A n \in Nodes : last[n] >= 1

\* A thread that is not idle is in a call of the interface.
CallsReal == \A t \in Threads : pc[t] # "idle" => call[t].op \in Movers \cup Getters

\* What the refinement needs beside PoolInv.
RefInv == ListsAreChains /\ StampsPositive /\ CallsReal

\* q gives the elements of every state's list in order.
Chains(q) == q = [s \in Lists |-> q[s]] /\ \A s \in Lists : ChainOf(s, q[s])

\* The thread with the lock, live or dead, has an element in hand.
Moving == lock \in Threads /\ hand[lock] # NULL

\* The lists with that element where it is going.
Settled(q) == [s \in Lists |-> IF Moving /\ s = Destination(lock) THEN Append(q[s], hand[lock]) ELSE q[s]]

LEMMA QueueIsSettled == \A q : Chains(q) => Queue = Settled(q)
<1> SUFFICES ASSUME NEW q, Chains(q) PROVE Queue = Settled(q)
  OBVIOUS
<1>1. \A s \in Lists : Walk(s) = q[s]
  BY WalkIsChain DEF Chains
<1>2. ASSUME NEW s \in Lists
      PROVE  (IF MovedTo(s) = {} THEN Walk(s) ELSE Append(Walk(s), hand[CHOOSE t \in MovedTo(s) : TRUE]))
             = IF Moving /\ s = Destination(lock) THEN Append(q[s], hand[lock]) ELSE q[s]
  <2>1. CASE Moving /\ s = Destination(lock)
    <3>1. MovedTo(s) = {lock}
      BY <2>1 DEF MovedTo, Moving
    <3>2. (CHOOSE t \in {lock} : TRUE) = lock
      OBVIOUS
    <3> QED
      BY <1>1, <2>1, <3>1, <3>2
  <2>2. CASE ~(Moving /\ s = Destination(lock))
    <3>1. MovedTo(s) = {}
      BY <2>2 DEF MovedTo, Moving
    <3> QED
      BY <1>1, <2>2, <3>1
  <2> QED
    BY <2>1, <2>2
<1> QED
  BY <1>2 DEF Queue, Settled

LEMMA QueueIsSettledNext == (\A q : Chains(q) => Queue = Settled(q))'
  BY QueueIsSettled, PTL

LEMMA ChainsExist == ASSUME ListsAreChains PROVE \E q : Chains(q)
<1> DEFINE q == [s \in Lists |-> CHOOSE p : ChainOf(s, p)]
<1>1. \A s \in Lists : ChainOf(s, q[s])
  BY DEF ListsAreChains
<1>2. q = [s \in Lists |-> q[s]]
  OBVIOUS
<1> HIDE DEF q
<1> QED
  BY <1>1, <1>2 DEF Chains

LEMMA ChainsSuffice == (\A q : Chains(q) => ListsAreChains)'
  BY DEF Chains, ListsAreChains

\* A step that leaves the links alone, and the lock holder's element.
LEMMA QuietQueue ==
    ASSUME ListsAreChains, UNCHANGED <<next, id>>,
           Moving' <=> Moving,
           Moving => lock' = lock /\ hand'[lock] = hand[lock] /\ Destination(lock)' = Destination(lock)
    PROVE  ListsAreChains' /\ Queue' = Queue
<1>1. PICK q : Chains(q)
  BY ChainsExist
<1>2. Chains(q)'
  BY <1>1 DEF Chains, ChainOf, CellAt, Members
<1>3. Settled(q)' = Settled(q)
  BY DEF Settled
<1> QED
  BY <1>1, <1>2, <1>3, QueueIsSettled, QueueIsSettledNext, ChainsSuffice

\* What a move of a thread's program counter is to its caller.
LEMMA StatusSteps ==
    ASSUME PoolTypeOK, NEW t \in Threads, NEW p, pc' = [pc EXCEPT ![t] = p]
    PROVE  /\ p = "idle" => Status' = [Status EXCEPT ![t] = "idle"]
           /\ p \in {"lock", "body"} => Status' = [Status EXCEPT ![t] = "called"]
           /\ p \in {"push", "give", "fail"} => Status' = [Status EXCEPT ![t] = "done"]
<1>1. \A u \in Threads : pc'[u] = IF u = t THEN p ELSE pc[u]
  BY DEF PoolTypeOK
<1> QED
  BY <1>1 DEF Status
-----------------------------------------------------------------------------
(* Each step, as its caller sees it.                                       *)

\* A call starts.
LEMMA StartImplements ==
    ASSUME PoolInv, RefInv, NEW t \in alive, StartCall(t)
    PROVE  RefInv' /\ Abs!AbsNext
<1>1. PICK c \in [op : Movers \cup Getters, e : Nodes \cup {NULL}, old : Lists, new : Lists] : Start(t, c)
  BY StartsCall
<1>2. /\ t \in Threads /\ PoolTypeOK /\ pc[t] = "idle" /\ hand[t] = NULL
      /\ call' = [call EXCEPT ![t] = c] /\ pc' = [pc EXCEPT ![t] = "lock"]
      /\ UNCHANGED <<next, id, last, lock, hand, res>>
  BY <1>1 DEF PoolInv, PoolTypeOK, ElementsConserved, Start, Goto
<1>3. Status' = [Status EXCEPT ![t] = "called"] /\ Status[t] = "idle"
  BY <1>2, StatusSteps DEF Status
<1>4. \A u \in Threads : /\ call'[u] = IF u = t THEN c ELSE call[u]
                         /\ pc'[u] = IF u = t THEN "lock" ELSE pc[u]
  <2>1. \A u \in Threads : call'[u] = IF u = t THEN c ELSE call[u]
    BY <1>2 DEF PoolTypeOK
  <2>2. \A u \in Threads : pc'[u] = IF u = t THEN "lock" ELSE pc[u]
    BY <1>2 DEF PoolTypeOK
  <2> QED
    BY <2>1, <2>2
<1>5. ListsAreChains' /\ Queue' = Queue
  <2>1. Moving' <=> Moving
    BY <1>2 DEF Moving
  <2>2. ASSUME Moving PROVE Destination(lock)' = Destination(lock)
    BY <1>2, <1>4, <2>2 DEF Moving, Destination
  <2> QED
    BY <1>2, <2>1, <2>2, QuietQueue DEF RefInv
<1>6. RefInv'
  <2>1. c.op \in Movers \cup Getters
    OBVIOUS
  <2> QED
    BY <1>2, <1>4, <1>5, <2>1 DEF RefInv, StampsPositive, CallsReal
<1>7. Abs!Begin(t)
  BY <1>2, <1>3, <1>5 DEF Abs!Begin, Abs!Calls, Abs!Movers, Abs!Getters, Movers, Getters
<1> QED
  BY <1>2, <1>6, <1>7 DEF Abs!AbsNext

\* A call returns.
LEMMA ReturnImplements ==
    ASSUME PoolInv, RefInv, NEW t \in alive, Unlock(t) \/ ReturnFailed(t)
    PROVE  RefInv' /\ Abs!AbsNext
<1>1. /\ t \in Threads /\ PoolTypeOK /\ pc[t] \in {"give", "fail"} /\ hand[t] = NULL
      /\ call' = [call EXCEPT ![t] = NoCall] /\ pc' = [pc EXCEPT ![t] = "idle"]
      /\ res' = [res EXCEPT ![t] = SXE_POOL_LOCK_TAKEN]
      /\ UNCHANGED <<next, id, last, hand>>
  BY DEF PoolInv, PoolTypeOK, ElementsConserved, Unlock, ReturnFailed, Goto, Result
<1>2. lock' = lock \/ (lock = t /\ lock' = 0)
  BY DEF Unlock, ReturnFailed, Lock!GiveAssert, Lock!sxe_spinlock_give
<1>3. Status' = [Status EXCEPT ![t] = "idle"] /\ Status[t] = "done"
  BY <1>1, StatusSteps DEF Status
<1>4. \A u \in Threads : /\ call'[u] = IF u = t THEN NoCall ELSE call[u]
                         /\ pc'[u] = IF u = t THEN "idle" ELSE pc[u]
  <2>1. \A u \in Threads : call'[u] = IF u = t THEN NoCall ELSE call[u]
    BY <1>1 DEF PoolTypeOK
  <2>2. \A u \in Threads : pc'[u] = IF u = t THEN "idle" ELSE pc[u]
    BY <1>1 DEF PoolTypeOK
  <2> QED
    BY <2>1, <2>2
<1>5. ListsAreChains' /\ Queue' = Queue
  <2>1. Moving' <=> Moving
    BY <1>1, <1>2, PoolThreadsAssumption DEF Moving
  <2>2. ASSUME Moving PROVE lock' = lock /\ Destination(lock)' = Destination(lock)
    BY <1>1, <1>2, <1>4, <2>2 DEF Moving, Destination
  <2> QED
    BY <1>1, <2>1, <2>2, QuietQueue DEF RefInv
<1>6. RefInv'
  <2>1. CallsReal'
    BY <1>4 DEF RefInv, CallsReal
  <2>2. StampsPositive'
    BY <1>1 DEF RefInv, StampsPositive
  <2> QED
    BY <1>5, <2>1, <2>2 DEF RefInv
<1>7. Abs!Return(t)
  BY <1>1, <1>3, <1>5 DEF Abs!Return, Abs!NoCall, Abs!CallOf, NoCall, CallOf, SXE_POOL_LOCK_TAKEN
<1> QED
  BY <1>1, <1>6, <1>7 DEF Abs!AbsNext

\* Until the lock is taken the caller sees nothing; when it is not, the call fails.
LEMMA LockImplements ==
    ASSUME PoolInv, RefInv, NEW t \in alive, LockTaken(t) \/ LockSpin(t) \/ LockNotTaken(t)
    PROVE  RefInv' /\ [Abs!AbsNext]_Abs!absvars
<1>1. /\ t \in Threads /\ PoolTypeOK /\ pc[t] = "lock" /\ hand[t] = NULL
      /\ call[t].op \in Movers \cup Getters
      /\ UNCHANGED <<next, id, last, hand, call>>
  BY DEF PoolInv, PoolTypeOK, ElementsConserved, LockTaken, LockSpin, LockNotTaken, RefInv, CallsReal
<1>2. \/ pc' = pc
      \/ pc' = [pc EXCEPT ![t] = "body"]
      \/ pc' = [pc EXCEPT ![t] = "fail"]
  BY DEF LockTaken, LockSpin, LockNotTaken, Goto
<1>3. lock' = lock \/ (lock = 0 /\ lock' = t)
  BY DEF LockTaken, LockSpin, LockNotTaken, Lock!take_swap, Lock!take_spin, Lock!take_fail
<1>4. ListsAreChains' /\ Queue' = Queue
  <2>1. Moving' <=> Moving
    BY <1>1, <1>3, PoolThreadsAssumption DEF Moving
  <2>2. ASSUME Moving PROVE lock' = lock /\ Destination(lock)' = Destination(lock)
    BY <1>1, <1>3, <2>2, PoolThreadsAssumption DEF Moving, Destination
  <2> QED
    BY <1>1, <2>1, <2>2, QuietQueue DEF RefInv
<1>5. RefInv'
  <2>1. \A u \in Threads : pc'[u] # "idle" => pc[u] # "idle"
    BY <1>1, <1>2 DEF PoolTypeOK
  <2> QED
    BY <1>1, <1>4, <2>1 DEF RefInv, StampsPositive, CallsReal
<1>6. CASE LockTaken(t) \/ LockSpin(t)
  <2>1. res' = res /\ (pc' = pc \/ pc' = [pc EXCEPT ![t] = "body"])
    BY <1>6 DEF LockTaken, LockSpin, Goto
  <2>2. Status' = Status
    <3>1. CASE pc' = pc
      BY <3>1 DEF Status
    <3>2. CASE pc' = [pc EXCEPT ![t] = "body"]
      <4>1. Status' = [Status EXCEPT ![t] = "called"] /\ Status[t] = "called"
        BY <1>1, <3>2, StatusSteps DEF Status
      <4> QED
        BY <4>1 DEF Status
    <3> QED
      BY <2>1, <3>1, <3>2
  <2> QED
    BY <1>1, <1>4, <1>5, <2>1, <2>2 DEF Abs!absvars
<1>7. CASE LockNotTaken(t)
  <2>1. res' = [res EXCEPT ![t] = LockFailure(call[t].op)] /\ pc' = [pc EXCEPT ![t] = "fail"]
    BY <1>7 DEF LockNotTaken, Result, Goto
  <2>2. Status' = [Status EXCEPT ![t] = "done"] /\ Status[t] = "called"
    BY <1>1, <2>1, StatusSteps DEF Status
  <2>3. /\ call[t].op \in Movers => LockFailure(call[t].op) = -3
        /\ call[t].op = "oldest_index" => LockFailure(call[t].op) = -1
        /\ call[t].op = "oldest_count" => LockFailure(call[t].op) = 0
    BY DEF LockFailure, Movers, SXE_POOL_NO_INDEX, SXE_POOL_LOCK_NOT_TAKEN
  <2>4. Abs!DoFail(t)
    BY <1>1, <1>4, <2>1, <2>2, <2>3 DEF Abs!DoFail, Abs!Done, Abs!Movers, Movers, Getters
  <2> QED
    BY <1>1, <1>5, <2>4 DEF Abs!AbsNext
<1> QED
  BY <1>6, <1>7

\* A thread in the body of its call has the lock and no element: the queues are
\* the lists.
LEMMA InBody ==
    ASSUME PoolInv, RefInv, NEW t \in alive, pc[t] = "body"
    PROVE  /\ t \in Threads /\ lock = t /\ hand[t] = NULL /\ ~Moving
           /\ Status[t] = "called"
           /\ call[t].op \in Movers \cup Getters /\ call[t].old \in Lists /\ call[t].new \in Lists
           /\ Chains(Queue)
<1>1. t \in Threads /\ lock = t /\ hand[t] = NULL
  BY DEF PoolInv, PoolTypeOK, LockHeld, ElementsConserved
<1>2. ~Moving
  BY <1>1 DEF Moving
<1>3. call[t] \in Calls /\ call[t].op \in Movers \cup Getters
  BY <1>1 DEF PoolInv, PoolTypeOK, RefInv, CallsReal
<1>4. call[t].old \in Lists /\ call[t].new \in Lists
  BY <1>3, NListsAssumption DEF Calls, NoCall, CallOf, Lists
<1>5. PICK q : Chains(q)
  BY ChainsExist DEF RefInv
<1>6. Queue = q
  BY <1>2, <1>5, QueueIsSettled DEF Settled, Chains
<1> QED
  BY <1>1, <1>2, <1>3, <1>4, <1>5, <1>6 DEF Status

\* The head of a state's list is the head of its queue.
LEMMA HeadOfQueue ==
    ASSUME PoolInv, Chains(Queue), NEW s \in Lists
    PROVE  /\ sxe_list_peek_head(s) = NULL <=> Queue[s] = <<>>
           /\ Queue[s] # <<>> => /\ sxe_list_peek_head(s) = Head(Queue[s])
                                 /\ Head(Queue[s]) \in Nodes /\ id[Head(Queue[s])] = s
<1>1. ListShape /\ ListInv /\ ChainOf(s, Queue[s])
  BY DEF PoolInv, ListInv, ListShape, Chains
<1> DEFINE q == Queue[s]
<1>2. q \in Seq(Nodes) /\ (q # <<>> => Head(q) = q[1] /\ 1 \in 1 .. Len(q))
  BY <1>1 DEF ChainOf
<1>3. /\ HEAD(s) = IF q = <<>> THEN Sentinel(s) ELSE q[1]
      /\ HEAD(s) = Sentinel(s) <=> q = <<>>
  BY <1>1, ChainEnds
<1>4. q # <<>> => q[1] \in Nodes /\ id[q[1]] = s
  BY <1>1, <1>2, ChainCells
<1> HIDE DEF q
<1>5. \A n \in Nodes : n # NULL
  BY CellFacts
<1>6. /\ sxe_list_peek_head(s) = NULL <=> q = <<>>
      /\ q # <<>> => sxe_list_peek_head(s) = Head(q) /\ Head(q) \in Nodes /\ id[Head(q)] = s
  BY <1>2, <1>3, <1>4, <1>5 DEF sxe_list_peek_head
<1> QED
  BY <1>6 DEF q

\* An element is in a state's queue exactly when it is linked with that id.
LEMMA InQueue ==
    ASSUME PoolInv, Chains(Queue), NEW s \in Lists, NEW e \in Nodes
    PROVE  Abs!InState(e, s) <=> Linked(e) /\ id[e] = s
<1>1. /\ Queue[s] \in Seq(Nodes)
      /\ Members(s) = {Queue[s][i] : i \in 1 .. Len(Queue[s])}
  BY DEF Chains, ChainOf
<1>2. Abs!InState(e, s) <=> e \in {Queue[s][i] : i \in 1 .. Len(Queue[s])}
  BY <1>1 DEF Abs!InState, Abs!ToSet
<1> QED
  BY <1>1, <1>2 DEF Members, Linked

\* A call that answers takes effect and moves nothing.
LEMMA AnswerImplements ==
    ASSUME PoolInv, RefInv, NEW t \in alive, pc[t] = "body", NEW r, Answer(t, r)
    PROVE  RefInv' /\ Queue' = Queue /\ Abs!Done(t, r)
<1>1. /\ t \in Threads /\ PoolTypeOK /\ lock = t /\ hand[t] = NULL /\ ~Moving /\ Status[t] = "called"
      /\ res' = [res EXCEPT ![t] = r] /\ pc' = [pc EXCEPT ![t] = "give"]
      /\ UNCHANGED <<next, id, last, lock, call, hand>>
  BY InBody DEF PoolInv, Answer, Result, Goto
<1>2. ~Moving'
  BY <1>1 DEF Moving
<1>3. ListsAreChains' /\ Queue' = Queue
  BY <1>1, <1>2, QuietQueue DEF RefInv
<1>4. Abs!Done(t, r)
  <2>1. Status' = [Status EXCEPT ![t] = "done"]
    BY <1>1, StatusSteps
  <2> QED
    BY <1>1, <2>1 DEF Abs!Done
<1>5. StampsPositive'
  BY <1>1 DEF RefInv, StampsPositive
<1>6. CallsReal'
  <2>1. \A u \in Threads : pc'[u] # "idle" => pc[u] # "idle"
    BY <1>1 DEF PoolTypeOK
  <2> QED
    BY <1>1, <2>1 DEF RefInv, CallsReal
<1> QED
  BY <1>3, <1>4, <1>5, <1>6 DEF RefInv

\* A call that takes an element off its list has moved it, as far as anyone can
\* tell before the lock is given back.
LEMMA TakeOffImplements ==
    ASSUME PoolInv, RefInv, NEW t \in alive, pc[t] = "body",
           NEW e \in Nodes, NEW old \in Lists, NEW new \in Lists, NEW r, TakeOff(t, e, old, r),
           new = IF call[t].op = "touch" THEN old ELSE call[t].new
    PROVE  RefInv' /\ Abs!Move(e, old, new) /\ Abs!Done(t, r)
<1>1. /\ t \in Threads /\ PoolTypeOK /\ lock = t /\ hand[t] = NULL /\ Status[t] = "called"
      /\ Linked(e) /\ id[e] = old /\ sxe_list_remove(old, e) /\ id' = id
      /\ hand' = [hand EXCEPT ![t] = e]
      /\ res' = [res EXCEPT ![t] = r] /\ pc' = [pc EXCEPT ![t] = "push"]
      /\ UNCHANGED <<last, lock, call>>
  BY InBody DEF PoolInv, TakeOff, Result, Goto, RemoveAsserts, Linked, sxe_list_remove
<1>2. PICK q : q = Queue
  OBVIOUS
<1>3. Chains(q) /\ ListShape
  BY <1>2, InBody DEF PoolInv, ListInv, ListShape
<1>4. /\ q = [s \in Lists |-> q[s]] /\ \A s \in Lists : ChainOf(s, q[s])
      /\ q[old] \in Seq(Nodes) /\ \A i, j \in 1 .. Len(q[old]) : q[old][i] = q[old][j] => i = j
  BY <1>3 DEF Chains, ChainOf
<1>5. PICK k \in 1 .. Len(q[old]) : q[old][k] = e
  BY <1>1, <1>4 DEF ChainOf, Members, Linked
<1> DEFINE rest == SubSeq(q[old], 1, k - 1) \o SubSeq(q[old], k + 1, Len(q[old]))
<1>6. Shortened(q[old], k, rest)
  BY <1>4, <1>5, Shortenings
<1>7. Abs!Without(q[old], e) = rest
  <2>1. k \in DOMAIN q[old] /\ \A i \in DOMAIN q[old] : q[old][i] = e => i = k
    BY <1>4, <1>5
  <2>2. (CHOOSE i \in DOMAIN q[old] : q[old][i] = e) = k
    BY <1>5, <2>1
  <2> QED
    BY <2>2 DEF Abs!Without, Abs!RemoveAt
<1> HIDE DEF rest
<1> DEFINE p == [s \in Lists |-> IF s = old THEN rest ELSE q[s]]
<1>8. ChainOf(old, rest)' /\ \A s \in Lists \ {old} : ChainOf(s, q[s])'
  BY <1>1, <1>3, <1>4, <1>5, <1>6, RemoveChain
<1>9. \A s \in Lists : p[s] = IF s = old THEN rest ELSE q[s]
  OBVIOUS
<1>10. p = [s \in Lists |-> p[s]]
  OBVIOUS
<1> HIDE DEF p
<1>11. Chains(p)'
  <2>1. ASSUME NEW s \in Lists PROVE ChainOf(s, p[s])'
    <3>1. CASE s = old
      BY <1>8, <1>9, <3>1
    <3>2. CASE s # old
      BY <1>8, <1>9, <3>2
    <3> QED
      BY <3>1, <3>2
  <2> QED
    BY <1>10, <2>1 DEF Chains
<1>12. hand'[t] = e /\ e # NULL /\ Moving' /\ Destination(lock)' = new
  <2>1. hand'[t] = e /\ e # NULL
    BY <1>1, CellFacts DEF PoolTypeOK
  <2> QED
    BY <1>1, <2>1 DEF Moving, Destination
<1>13. Queue' = [s \in Lists |-> IF s = new THEN Append(p[s], e) ELSE p[s]]
  <2>1. Queue' = Settled(p)'
    BY <1>11, QueueIsSettledNext
  <2> QED
    BY <1>1, <1>12, <2>1 DEF Settled
<1>14. Abs!Move(e, old, new)
  <2>1. Abs!InState(e, old)
    BY <1>1, <1>2, <1>3, InQueue
  <2>2. Queue' = [s \in Lists |-> LET rst == IF s = old THEN Abs!Without(Queue[s], e) ELSE Queue[s]
                                  IN IF s = new THEN Append(rst, e) ELSE rst]
    BY <1>2, <1>7, <1>9, <1>13
  <2> QED
    BY <2>1, <2>2 DEF Abs!Move
<1>15. Abs!Done(t, r)
  <2>1. Status' = [Status EXCEPT ![t] = "done"]
    BY <1>1, StatusSteps
  <2> QED
    BY <1>1, <2>1 DEF Abs!Done
<1>16. StampsPositive'
  BY <1>1 DEF RefInv, StampsPositive
<1>17. CallsReal'
  <2>1. \A u \in Threads : pc'[u] # "idle" => pc[u] # "idle"
    BY <1>1 DEF PoolTypeOK
  <2> QED
    BY <1>1, <2>1 DEF RefInv, CallsReal
<1> QED
  BY <1>11, <1>14, <1>15, <1>16, <1>17, ChainsSuffice DEF RefInv

\* A death, or no step at all, changes nothing that a caller sees.
LEMMA DeathImplements ==
    ASSUME RefInv, UNCHANGED <<next, id, last, lock, pc, call, res, hand>>
    PROVE  RefInv' /\ UNCHANGED Abs!absvars
<1>1. ListsAreChains' /\ Queue' = Queue
  BY QuietQueue DEF RefInv, Moving, Destination
<1>2. StampsPositive' /\ CallsReal' /\ Status' = Status
  BY DEF RefInv, StampsPositive, CallsReal, Status
<1> QED
  BY <1>1, <1>2 DEF RefInv, Abs!absvars

\* The calls' bodies: the moment at which a call takes effect.
LEMMA BodyImplements ==
    ASSUME PoolInv, RefInv, NEW t \in alive, Body(t)
    PROVE  RefInv' /\ [Abs!AbsNext]_Abs!absvars
<1> DEFINE c == call[t]
<1> DEFINE node == sxe_list_peek_head(c.old)
<1>1. pc[t] = "body"
  BY DEF Body, sxe_pool_set_indexed_element_state, sxe_pool_try_to_set_indexed_element_state,
         sxe_pool_set_oldest_element_state, sxe_pool_touch_indexed_element, sxe_pool_get_oldest_element_index,
         sxe_pool_get_oldest_element_count
<1>2. t \in Threads /\ c.old \in Lists /\ c.new \in Lists /\ Chains(Queue)
  BY <1>1, InBody
<1>3. c.op \in {"set_indexed", "try_to_set", "touch"} => c.e \in Nodes /\ id[c.e] \in Lists
  BY <1>1, <1>2, CellFacts DEF PoolInv, CallsNameNodes, PoolTypeOK, LinkTypeOK
<1>4. /\ node = NULL <=> Queue[c.old] = <<>>
      /\ node # NULL => node = Head(Queue[c.old]) /\ node \in Nodes
  BY <1>2, HeadOfQueue
<1>5. ASSUME NEW e \in Nodes, NEW old \in Lists, NEW new \in Lists, NEW r, TakeOff(t, e, old, r),
             new = IF c.op = "touch" THEN old ELSE c.new
      PROVE  RefInv' /\ Abs!Move(e, old, new) /\ Abs!Done(t, r)
  BY <1>1, <1>5, TakeOffImplements
<1>6. ASSUME NEW r, Answer(t, r) PROVE RefInv' /\ Queue' = Queue /\ Abs!Done(t, r)
  BY <1>1, <1>6, AnswerImplements
<1>7. ASSUME Abort(t) PROVE RefInv' /\ UNCHANGED Abs!absvars
  BY <1>7, DeathImplements DEF Abort
<1>8. CASE sxe_pool_set_indexed_element_state(t)
  <2>1. c.op = "set_indexed" /\ c.e \in Nodes /\ (TakeOff(t, c.e, c.old, SXE_POOL_LOCK_TAKEN) \/ Abort(t))
    BY <1>3, <1>8 DEF sxe_pool_set_indexed_element_state
  <2>2. CASE TakeOff(t, c.e, c.old, SXE_POOL_LOCK_TAKEN)
    <3>1. RefInv' /\ Abs!Move(c.e, c.old, c.new) /\ Abs!Done(t, SXE_POOL_LOCK_TAKEN)
      <4> HIDE DEF c
      <4> QED
        BY <1>2, <1>5, <2>1, <2>2
    <3>2. Abs!DoSetIndexed(t)
      BY <2>1, <3>1 DEF Abs!DoSetIndexed, SXE_POOL_LOCK_TAKEN
    <3> QED
      BY <1>2, <3>1, <3>2 DEF Abs!AbsNext
  <2> QED
    BY <1>7, <2>1, <2>2
<1>9. CASE sxe_pool_try_to_set_indexed_element_state(t)
  <2>1. /\ c.op = "try_to_set" /\ c.e \in Nodes
        /\ \/ TakeOff(t, c.e, c.old, c.e)
           \/ id[c.e] # c.old /\ Answer(t, SXE_POOL_INCORRECT_STATE)
           \/ Abort(t)
    BY <1>3, <1>9 DEF sxe_pool_try_to_set_indexed_element_state
  <2>2. CASE TakeOff(t, c.e, c.old, c.e)
    <3>1. RefInv' /\ Abs!Move(c.e, c.old, c.new) /\ Abs!Done(t, c.e)
      <4> HIDE DEF c
      <4> QED
        BY <1>2, <1>5, <2>1, <2>2
    <3>2. Abs!DoTryToSet(t)
      BY <2>1, <3>1 DEF Abs!DoTryToSet
    <3> QED
      BY <1>2, <3>1, <3>2 DEF Abs!AbsNext
  <2>3. CASE id[c.e] # c.old /\ Answer(t, SXE_POOL_INCORRECT_STATE)
    <3>1. RefInv' /\ Queue' = Queue /\ Abs!Done(t, SXE_POOL_INCORRECT_STATE)
      BY <1>6, <2>3
    <3>2. ~Abs!InState(c.e, c.old)
      BY <1>2, <2>1, <2>3, InQueue
    <3>3. Abs!DoTryFails(t)
      BY <2>1, <3>1, <3>2 DEF Abs!DoTryFails, SXE_POOL_INCORRECT_STATE
    <3> QED
      BY <1>2, <3>1, <3>3 DEF Abs!AbsNext
  <2> QED
    BY <1>7, <2>1, <2>2, <2>3
<1>10. CASE sxe_pool_set_oldest_element_state(t)
  <2>1. /\ c.op = "set_oldest"
        /\ \/ node = NULL /\ Answer(t, SXE_POOL_NO_INDEX)
           \/ node # NULL /\ TakeOff(t, node, c.old, node)
    BY <1>10 DEF sxe_pool_set_oldest_element_state
  <2>2. CASE node = NULL /\ Answer(t, SXE_POOL_NO_INDEX)
    <3>1. RefInv' /\ Queue' = Queue /\ Abs!Done(t, SXE_POOL_NO_INDEX)
      BY <1>6, <2>2
    <3>2. Abs!DoNothingThere(t)
      BY <1>4, <2>1, <2>2, <3>1 DEF Abs!DoNothingThere, SXE_POOL_NO_INDEX
    <3> QED
      BY <1>2, <3>1, <3>2 DEF Abs!AbsNext
  <2>3. CASE node # NULL /\ TakeOff(t, node, c.old, node)
    <3>1. RefInv' /\ Abs!Move(node, c.old, c.new) /\ Abs!Done(t, node)
      <4>1. c.op # "touch"
        BY <2>1
      <4> HIDE DEF c, node
      <4> QED
        BY <1>2, <1>4, <1>5, <2>3, <4>1
    <3>2. Abs!DoSetOldest(t)
      BY <1>4, <2>1, <2>3, <3>1 DEF Abs!DoSetOldest
    <3> QED
      BY <1>2, <3>1, <3>2 DEF Abs!AbsNext
  <2> QED
    BY <2>1, <2>2, <2>3
<1>11. CASE sxe_pool_touch_indexed_element(t)
  <2>1. /\ c.op = "touch" /\ c.e \in Nodes /\ id[c.e] \in Lists
        /\ TakeOff(t, c.e, id[c.e], SXE_POOL_LOCK_TAKEN) \/ Abort(t)
    BY <1>3, <1>11 DEF sxe_pool_touch_indexed_element
  <2>2. CASE TakeOff(t, c.e, id[c.e], SXE_POOL_LOCK_TAKEN)
    <3>1. RefInv' /\ Abs!Move(c.e, id[c.e], id[c.e]) /\ Abs!Done(t, SXE_POOL_LOCK_TAKEN)
      <4> HIDE DEF c
      <4> QED
        BY <1>5, <2>1, <2>2
    <3>2. Abs!DoTouch(t)
      BY <2>1, <3>1 DEF Abs!DoTouch, SXE_POOL_LOCK_TAKEN
    <3> QED
      BY <1>2, <3>1, <3>2 DEF Abs!AbsNext
  <2> QED
    BY <1>7, <2>1, <2>2
<1>12. CASE sxe_pool_get_oldest_element_index(t)
  <2>1. c.op = "oldest_index" /\ Answer(t, IF node = NULL THEN SXE_POOL_NO_INDEX ELSE node)
    BY <1>12 DEF sxe_pool_get_oldest_element_index
  <2>2. RefInv' /\ Queue' = Queue /\ Abs!Done(t, IF node = NULL THEN SXE_POOL_NO_INDEX ELSE node)
    BY <1>6, <2>1
  <2>3. CASE node = NULL
    <3>1. Abs!DoNothingThere(t)
      BY <1>4, <2>1, <2>2, <2>3 DEF Abs!DoNothingThere, SXE_POOL_NO_INDEX
    <3> QED
      BY <1>2, <2>2, <3>1 DEF Abs!AbsNext
  <2>4. CASE node # NULL
    <3>1. Abs!DoOldestIndex(t)
      BY <1>4, <2>1, <2>2, <2>4 DEF Abs!DoOldestIndex
    <3> QED
      BY <1>2, <2>2, <3>1 DEF Abs!AbsNext
  <2> QED
    BY <2>3, <2>4
<1>13. CASE sxe_pool_get_oldest_element_count(t)
  <2> DEFINE r == IF node = NULL THEN 0 ELSE last[node]
  <2>1. c.op = "oldest_count" /\ Answer(t, r)
    BY <1>13 DEF sxe_pool_get_oldest_element_count
  <2>2. node # NULL => last[node] \in Nat /\ last[node] >= 1
    BY <1>4 DEF RefInv, StampsPositive, PoolInv, PoolTypeOK
  <2>3. r = 0 <=> Queue[c.old] = <<>>
    <3> HIDE DEF c, node
    <3> QED
      BY <1>4, <2>2
  <2> HIDE DEF r
  <2>4. RefInv' /\ Queue' = Queue /\ Abs!Done(t, r)
    BY <1>6, <2>1
  <2>5. res'[t] = r
    BY <1>2, <2>4 DEF Abs!Done, PoolInv, PoolTypeOK
  <2>6. Abs!DoOldestCount(t)
    BY <2>1, <2>3, <2>4, <2>5 DEF Abs!DoOldestCount
  <2> QED
    BY <1>2, <2>4, <2>6 DEF Abs!AbsNext
<1> QED
  BY <1>8, <1>9, <1>10, <1>11, <1>12, <1>13 DEF Body

\* The element is put where it already counted.
LEMMA PutOnImplements ==
    ASSUME PoolInv, RefInv, NEW t \in alive, PutOn(t)
    PROVE  RefInv' /\ UNCHANGED Abs!absvars
<1>1. /\ t \in Threads /\ PoolTypeOK /\ lock = t /\ pc[t] = "push" /\ hand[t] \in Nodes /\ ~Linked(hand[t])
      /\ hand[t] # NULL
  BY CellFacts DEF PoolInv, PoolTypeOK, LockHeld, ElementsConserved, PutOn
<1>2. PICK e, new : e = hand[t] /\ new = Destination(t)
  OBVIOUS
<1>3. new \in Lists
  BY <1>1, <1>2, DestinationIsState
<1>4. /\ sxe_list_push(new, e) /\ last' = [last EXCEPT ![e] = next_count + 1]
      /\ hand' = [hand EXCEPT ![t] = NULL] /\ pc' = [pc EXCEPT ![t] = "give"]
      /\ UNCHANGED <<lock, call, res>>
  BY <1>2 DEF PutOn, Goto
<1>5. PICK q : Chains(q)
  BY ChainsExist DEF RefInv
<1>6. Queue = [s \in Lists |-> IF s = new THEN Append(q[s], e) ELSE q[s]]
  BY <1>1, <1>2, <1>5, QueueIsSettled DEF Settled, Moving
<1> DEFINE p == [s \in Lists |-> IF s = new THEN Append(q[s], e) ELSE q[s]]
<1>7. p = [s \in Lists |-> p[s]] /\ p = Queue
  BY <1>6
<1>8. \A s \in Lists : p[s] = IF s = new THEN Append(q[s], e) ELSE q[s]
  OBVIOUS
<1> HIDE DEF p
<1>9. Chains(p)'
  <2>1. ListShape /\ \A s \in Lists : ChainOf(s, q[s])
    BY <1>5 DEF PoolInv, ListInv, ListShape, Chains
  <2>2. ChainOf(new, Append(q[new], e))' /\ \A s \in Lists \ {new} : ChainOf(s, q[s])'
    BY <1>1, <1>2, <1>3, <1>4, <2>1, PushChain
  <2>3. ASSUME NEW s \in Lists PROVE ChainOf(s, p[s])'
    <3>1. CASE s = new
      BY <1>8, <2>2, <3>1
    <3>2. CASE s # new
      BY <1>8, <2>2, <3>2
    <3> QED
      BY <3>1, <3>2
  <2> QED
    BY <1>7, <2>3 DEF Chains
<1>10. Queue' = p
  <2>1. ~Moving'
    BY <1>1, <1>4 DEF Moving, PoolTypeOK
  <2>2. Queue' = Settled(p)'
    BY <1>9, QueueIsSettledNext
  <2> QED
    BY <1>7, <2>1, <2>2 DEF Settled
<1>11. Status' = Status
  <2>1. Status' = [Status EXCEPT ![t] = "done"] /\ Status[t] = "done"
    BY <1>1, <1>4, StatusSteps DEF Status
  <2> QED
    BY <2>1 DEF Status
<1>12. StampsPositive'
  <2>1. next_count \in Nat /\ last \in [Nodes -> Nat]
    BY <1>1 DEF PoolTypeOK
  <2>2. \A n \in Nodes : last'[n] = IF n = e THEN next_count + 1 ELSE last[n]
    BY <1>4, <2>1
  <2> QED
    BY <2>1, <2>2 DEF RefInv, StampsPositive
<1>13. CallsReal'
  <2>1. \A u \in Threads : pc'[u] # "idle" => pc[u] # "idle"
    BY <1>1, <1>4 DEF PoolTypeOK
  <2> QED
    BY <1>4, <2>1 DEF RefInv, CallsReal
<1> QED
  BY <1>4, <1>7, <1>9, <1>10, <1>11, <1>12, <1>13, ChainsSuffice DEF RefInv, Abs!absvars

\* An element not yet in a sequence, appended and taken out again.
LEMMA AppendedOut ==
    ASSUME NEW q \in Seq(Nodes), NEW e \in Nodes, \A i \in 1 .. Len(q) : q[i] # e
    PROVE  Abs!Without(Append(q, e), e) = q
<1> DEFINE a == Append(q, e)
<1> DEFINE L == Len(q)
<1>1. a \in Seq(Nodes) /\ Len(a) = L + 1 /\ L \in Nat /\ a[L + 1] = e /\ \A i \in 1 .. L : a[i] = q[i]
  OBVIOUS
<1>2. DOMAIN a = 1 .. L + 1 /\ q = [i \in 1 .. L |-> q[i]]
  BY <1>1
<1> HIDE DEF a
<1>3. (CHOOSE i \in DOMAIN a : a[i] = e) = L + 1
  BY <1>1, <1>2
<1>4. SubSeq(a, 1, (L + 1) - 1) = q
  BY <1>1, <1>2
<1>5. SubSeq(a, (L + 1) + 1, Len(a)) = <<>>
  BY <1>1
<1>6. Abs!Without(a, e) = q \o <<>>
  BY <1>3, <1>4, <1>5 DEF Abs!Without, Abs!RemoveAt
<1>7. q \o <<>> = q
  OBVIOUS
<1> QED
  BY <1>6, <1>7 DEF a

\* The lock of a dead thread is overridden: an element in its hand is lost.
LEMMA OverrideImplements ==
    ASSUME PoolInv, RefInv, sxe_pool_override_locked
    PROVE  RefInv' /\ [Abs!AbsNext]_Abs!absvars
<1>1. /\ lock \in Threads /\ lock' = 0
      /\ UNCHANGED <<next, id, last, pc, call, res, hand>>
  BY DEF sxe_pool_override_locked, Lock!sxe_spinlock_force
<1>2. ~Moving'
  BY <1>1, PoolThreadsAssumption DEF Moving
<1>3. Status' = Status /\ StampsPositive' /\ CallsReal'
  BY <1>1 DEF Status, RefInv, StampsPositive, CallsReal
<1>4. CASE ~Moving
  <2>1. ListsAreChains' /\ Queue' = Queue
    BY <1>1, <1>2, <1>4, QuietQueue DEF RefInv
  <2> QED
    BY <1>1, <1>3, <2>1 DEF RefInv, Abs!absvars
<1>5. CASE Moving
  <2>1. PICK e, s : e = hand[lock] /\ s = Destination(lock)
    OBVIOUS
  <2>2. e \in Nodes /\ ~Linked(e)
    BY <1>1, <1>5, <2>1 DEF Moving, PoolInv, PoolTypeOK, ElementsConserved
  <2>3. s \in Lists
    BY <1>1, <2>1, <2>2, DestinationIsState
  <2>4. PICK q : Chains(q)
    BY ChainsExist DEF RefInv
  <2>5. /\ q = [z \in Lists |-> q[z]] /\ ChainOf(s, q[s]) /\ q[s] \in Seq(Nodes)
        /\ ListShape
    BY <2>3, <2>4 DEF Chains, ChainOf, PoolInv, ListInv, ListShape
  <2>6. Queue = [z \in Lists |-> IF z = s THEN Append(q[z], e) ELSE q[z]]
    BY <1>5, <2>1, <2>4, QueueIsSettled DEF Settled
  <2>7. Chains(q)'
    BY <1>1, <2>4 DEF Chains, ChainOf, CellAt, Members
  <2>8. Queue' = q
    BY <1>2, <2>5, <2>7, QueueIsSettledNext DEF Settled
  <2>9. Abs!Without(Append(q[s], e), e) = q[s]
    <3>1. \A i \in 1 .. Len(q[s]) : q[s][i] # e
      BY <2>2, <2>3, <2>5, ChainCells DEF Linked
    <3> QED
      BY <2>2, <2>5, <3>1, AppendedOut
  <2>10. Abs!InState(e, s)
    <3> DEFINE a == Append(q[s], e)
    <3>1. Queue[s] = a
      BY <2>3, <2>6
    <3>2. Len(q[s]) + 1 \in DOMAIN a /\ a[Len(q[s]) + 1] = e
      BY <2>2, <2>5
    <3> HIDE DEF a
    <3> QED
      BY <3>1, <3>2 DEF Abs!InState, Abs!ToSet
  <2>11. Queue' = [Queue EXCEPT ![s] = Abs!Without(@, e)]
    BY <2>3, <2>5, <2>6, <2>8, <2>9
  <2>12. Abs!Lose
    BY <1>1, <1>3, <2>2, <2>3, <2>10, <2>11 DEF Abs!Lose
  <2> QED
    BY <1>3, <2>7, <2>12, ChainsSuffice DEF RefInv, Abs!AbsNext
<1> QED
  BY <1>4, <1>5

-----------------------------------------------------------------------------
\* sxe_pool_construct queues all elements in state 0, the last one first.
LEMMA PoolStartsAsQueues == ASSUME PoolInit PROVE RefInv /\ Abs!AbsInit
<1> USE NumberAssumption, NListsAssumption
<1> DEFINE all == [i \in 1 .. Number |-> Number - i]
<1> DEFINE q == [s \in Lists |-> IF s = 0 THEN all ELSE <<>>]
<1>1. all \in Seq(Nodes) /\ Len(all) = Number /\ \A i \in 1 .. Number : all[i] = Number - i
  BY DEF Nodes
<1>2. {all[i] : i \in 1 .. Number} = Nodes
  <2>1. \A n \in Nodes : Number - n \in 1 .. Number /\ all[Number - n] = n
    BY DEF Nodes
  <2>2. \A i \in 1 .. Number : all[i] \in Nodes
    BY DEF Nodes
  <2> HIDE DEF all
  <2> QED
    BY <2>1, <2>2
<1>3. \A i, j \in 1 .. Number : all[i] = all[j] => i = j
  BY <1>1
<1> HIDE DEF all
<1>4. 0 \in Lists /\ Members(0) = Nodes /\ \A s \in Lists : s # 0 => Members(s) = {}
  BY DEF PoolInit, sxe_pool_construct, Members, Cells, Nodes, Sentinels, Lists, NULL
<1>5. ChainOf(0, all)
  <2>1. ASSUME NEW i \in 0 .. Number PROVE next[CellAt(0, all, i)] = CellAt(0, all, i + 1)
    <3>1. CellAt(0, all, i) = IF i = 0 THEN -1 ELSE Number - i
      BY <1>1 DEF CellAt, Sentinel
    <3>2. CellAt(0, all, i + 1) = IF i = Number THEN -1 ELSE Number - (i + 1)
      BY <1>1 DEF CellAt, Sentinel
    <3>3. CASE i = 0
      <4>1. next[-1] = Number - 1
        BY DEF PoolInit, sxe_pool_construct, Cells, Nodes, Sentinels, Sentinel
      <4> QED
        BY <3>1, <3>2, <3>3, <4>1
    <3>4. CASE i # 0
      <4>1. Number - i \in Nodes /\ Number - i \in Cells
        BY <3>4 DEF Nodes, Cells
      <4>2. next[Number - i] = (Number - i) - 1
        BY <4>1 DEF PoolInit, sxe_pool_construct
      <4> QED
        BY <3>1, <3>2, <3>4, <4>2
    <3> QED
      BY <3>3, <3>4
  <2> QED
    BY <1>1, <1>2, <1>3, <1>4, <2>1 DEF ChainOf
<1>6. ASSUME NEW s \in Lists, s # 0 PROVE ChainOf(s, <<>>)
  <2>1. <<>> \in Seq(Nodes) /\ Len(<<>>) = 0 /\ \A i : ~(i \in 1 .. 0)
    OBVIOUS
  <2>2. next[Sentinel(s)] = Sentinel(s)
    BY <1>6 DEF PoolInit, sxe_pool_construct, Cells, Nodes, Sentinels, Sentinel, Lists
  <2>3. \A i \in 0 .. 0 : next[CellAt(s, <<>>, i)] = CellAt(s, <<>>, i + 1)
    BY <2>1, <2>2 DEF CellAt
  <2>4. Members(s) = {<<>>[i] : i \in 1 .. 0}
    BY <1>4, <1>6, <2>1
  <2> QED
    BY <2>1, <2>3, <2>4 DEF ChainOf
<1>7. q = [s \in Lists |-> q[s]] /\ \A s \in Lists : q[s] = IF s = 0 THEN all ELSE <<>>
  OBVIOUS
<1> HIDE DEF q
<1>8. Chains(q)
  <2>1. ASSUME NEW s \in Lists PROVE ChainOf(s, q[s])
    <3>1. CASE s = 0
      BY <1>5, <1>7, <3>1
    <3>2. CASE s # 0
      BY <1>6, <1>7, <3>2
    <3> QED
      BY <3>1, <3>2
  <2> QED
    BY <1>7, <2>1 DEF Chains
<1>9. Queue = q
  <2>1. ~Moving
    BY PoolThreadsAssumption DEF Moving, PoolInit, sxe_pool_construct
  <2> QED
    BY <1>7, <1>8, <2>1, QueueIsSettled DEF Settled
<1>10. RefInv
  <2>1. ListsAreChains
    BY <1>8 DEF Chains, ListsAreChains
  <2>2. StampsPositive
    BY DEF PoolInit, sxe_pool_construct, StampsPositive, Nodes
  <2>3. CallsReal
    BY DEF PoolInit, CallsReal
  <2> QED
    BY <2>1, <2>2, <2>3 DEF RefInv
<1>11. Abs!AbsInit
  <2>1. DOMAIN all = 1 .. Number
    BY <1>1
  <2>2. Abs!IsInjective(Queue[0]) /\ Abs!ToSet(Queue[0]) = Nodes
    BY <1>2, <1>3, <1>4, <1>7, <1>9, <2>1 DEF Abs!IsInjective, Abs!ToSet
  <2>3. \A z \in Lists \ {0} : Queue[z] = <<>>
    BY <1>7, <1>9
  <2>4. /\ Status = [t \in Threads |-> "idle"]
        /\ call = [t \in Threads |-> Abs!NoCall] /\ res = [t \in Threads |-> 0]
    BY DEF PoolInit, Status, Abs!NoCall, Abs!CallOf, NoCall, CallOf, SXE_POOL_LOCK_TAKEN
  <2> QED
    BY <1>4, <2>2, <2>3, <2>4 DEF Abs!AbsInit
<1> QED
  BY <1>10, <1>11

\* Every step of every thread is a step of the abstract pool, or none.
LEMMA PoolStepImplements ==
    ASSUME PoolInv, RefInv, [PoolNext]_poolvars
    PROVE  RefInv' /\ [Abs!AbsNext]_Abs!absvars
<1>1. CASE sxe_pool_override_locked
  BY <1>1, OverrideImplements
<1>2. ASSUME NEW t \in Threads, Progress(t) PROVE RefInv' /\ [Abs!AbsNext]_Abs!absvars
  <2>1. t \in alive
    BY <1>2 DEF Progress
  <2> QED
    BY <1>2, <2>1, LockImplements, BodyImplements, PutOnImplements, ReturnImplements DEF Progress
<1>3. ASSUME NEW t \in Threads, StartCall(t) PROVE RefInv' /\ [Abs!AbsNext]_Abs!absvars
  <2>1. t \in alive
    BY <1>3 DEF StartCall
  <2> QED
    BY <1>3, <2>1, StartImplements
<1>4. ASSUME NEW t \in alive, Die(t) PROVE RefInv' /\ [Abs!AbsNext]_Abs!absvars
  BY <1>4, DeathImplements DEF Die
<1>5. CASE UNCHANGED poolvars
  BY <1>5, DeathImplements DEF poolvars
<1> QED
  BY <1>1, <1>2, <1>3, <1>4, <1>5 DEF PoolNext

\* The calls of a locked pool are linearizable, for any threads, elements and
\* states: each takes effect at one moment between its start and its return, on
\* first-in first-out queues, or fails and changes nothing, and only overriding
\* a dead thread's lock loses an element.
THEOREM PoolImplementsQueues == PoolSpec => AbsPoolSpec
<1>1. PoolInit => RefInv /\ Abs!AbsInit
  BY PoolStartsAsQueues
<1>2. PoolInv /\ RefInv /\ [PoolNext]_poolvars => RefInv' /\ [Abs!AbsNext]_Abs!absvars
  BY PoolStepImplements
<1> QED
  BY <1>1, <1>2, PoolInvHolds, PTL DEF PoolSpec, AbsPoolSpec, Abs!AbsSpec

-----------------------------------------------------------------------------
(* A walk of a state of a locked pool is complete for any number of        *)
(* elements, states and threads that move elements between its steps.      *)

\* An assertion that fails stops a thread before it has an element in hand, so
\* that the elements off the lists are in the hands of live threads.
PushersLive == Walker \in alive /\ \A t \in Threads : pc[t] = "push" => t \in alive

WalkerTypeOK ==
    /\ w \in [node : Nodes \cup {Sentinel(Walked)}, back : Nodes \cup {Sentinel(Walked)}]
    /\ wlast \in Nat
    /\ due \subseteq {n \in Nodes : id[n] = Walked}

\* What the walker has still to return is stamped later than what it last returned,
\* which is where it was or has left the state; and the one before it, if it is still
\* there, is stamped no later.
PlaceKept ==
    /\ walk # "on" => due = {}
    /\ w.node \in Nodes => \A n \in due : wlast < last[n]
    /\ w.node \in Nodes /\ id[w.node] = Walked => last[w.node] = wlast
    /\ w.back \in Nodes /\ id[w.back] = Walked => last[w.back] <= wlast

WalkInv == PushersLive /\ WalkerTypeOK /\ (~reentered => PlaceKept)

-----------------------------------------------------------------------------
(* The order of a state's list.                                            *)

\* The stamps of a state's elements increase along its whole list.
LEMMA StampsAlong ==
    ASSUME PoolInv, NEW s \in Lists, NEW q, ChainOf(s, q), NEW i \in 1 .. Len(q), NEW j \in 1 .. Len(q), i < j
    PROVE  last[q[i]] < last[q[j]]
<1>1. ListShape /\ last \in [Nodes -> Nat]
  BY DEF PoolInv, ListInv, ListShape, PoolTypeOK
<1>2. PICK n \in Nat : n = Len(q)
  BY <1>1, ChainCells
<1>3. \A k \in 1 .. n : q[k] \in Nodes /\ last[q[k]] \in Nat
  BY <1>1, <1>2, ChainCells
<1>4. ASSUME NEW k \in 1 .. n, k + 1 <= n PROVE last[q[k]] < last[q[k + 1]]
  <2>1. k \in 0 .. n /\ k + 1 \in 1 .. n
    BY <1>4
  <2>2. next[CellAt(s, q, k)] = CellAt(s, q, k + 1)
    BY <1>2, <2>1 DEF ChainOf
  <2>3. next[q[k]] = q[k + 1]
    BY <1>2, <2>1, <2>2 DEF CellAt
  <2> QED
    BY <1>3, <2>1, <2>3 DEF PoolInv, StampsOrdered
<1>5. SUFFICES ASSUME ~(last[q[i]] < last[q[j]]) PROVE FALSE
  OBVIOUS
<1> DEFINE T == {k \in Nat : k \in 1 .. n /\ i < k /\ ~(last[q[i]] < last[q[k]])}
<1>6. T \subseteq Nat /\ T # {}
  BY <1>2, <1>5
<1>7. PICK k \in T : \A l \in T : k <= l
  BY <1>6, LeastNumber
<1>8. k \in 1 .. n /\ k \in Nat /\ i < k /\ ~(last[q[i]] < last[q[k]])
  BY <1>7
<1>9. CASE k = i + 1
  BY <1>2, <1>4, <1>8, <1>9
<1>10. CASE k # i + 1
  <2>1. PICK p \in Nat : p = k - 1
    BY <1>8
  <2>2. p \in 1 .. n /\ i < p /\ p + 1 = k /\ p + 1 <= n /\ p < k
    BY <1>2, <1>8, <1>10, <2>1
  <2>3. last[q[i]] < last[q[p]]
    BY <1>7, <2>2
  <2>4. last[q[p]] < last[q[k]]
    BY <1>4, <2>2
  <2>5. last[q[i]] \in Nat /\ last[q[p]] \in Nat /\ last[q[k]] \in Nat
    BY <1>2, <1>3, <1>8, <2>2
  <2> QED
    BY <1>8, <2>3, <2>4, <2>5
<1> QED
  BY <1>9, <1>10

\* The cell that follows an element, or the sentinel, on the list: of the elements
\* stamped later, or of all of them, it is the first.
Following(c, to) == /\ to \in Nodes \cup {Sentinel(Walked)}
                    /\ to \in Nodes => /\ to \in Members(Walked)
                                       /\ c \in Nodes => last[c] < last[to]
                    /\ \A n \in Members(Walked) : c \in Nodes => (last[c] < last[n] => to \in Nodes /\ last[to] <= last[n])
                    /\ \A n \in Members(Walked) : c \notin Nodes => to \in Nodes /\ last[to] <= last[n]

LEMMA NextFollows ==
    ASSUME PoolInv, ListsAreChains, NEW c \in Members(Walked) \cup {Sentinel(Walked)}
    PROVE  Following(c, next[c])
<1>1. ListShape /\ last \in [Nodes -> Nat] /\ Walked \in Lists
  BY WalkerAssumption DEF PoolInv, ListInv, ListShape, PoolTypeOK
<1>2. PICK q : ChainOf(Walked, q)
  BY <1>1 DEF ListsAreChains
<1>3. PICK n \in Nat : n = Len(q)
  BY <1>1, <1>2, ChainCells
<1>4. Members(Walked) = {q[i] : i \in 1 .. n} /\ \A i \in 1 .. n : q[i] \in Nodes
  BY <1>1, <1>2, <1>3, ChainCells DEF ChainOf
<1>5. \A i \in 0 .. n : next[CellAt(Walked, q, i)] = CellAt(Walked, q, i + 1)
  BY <1>2, <1>3 DEF ChainOf
<1>6. Sentinel(Walked) \notin Nodes
  BY <1>1, CellFacts
<1>7. PICK i \in 0 .. n : c = CellAt(Walked, q, i) /\ (c \in Nodes <=> i \in 1 .. n)
  <2>1. CASE c \in Members(Walked)
    <3>1. PICK i \in 1 .. n : c = q[i]
      BY <1>4, <2>1
    <3>2. i \in 0 .. n /\ c \in Nodes
      BY <1>4, <3>1
    <3> QED
      BY <1>3, <3>1, <3>2 DEF CellAt
  <2>2. CASE c = Sentinel(Walked)
    <3>1. 0 \in 0 .. n /\ 0 \notin 1 .. n
      OBVIOUS
    <3> QED
      BY <1>3, <1>6, <2>2, <3>1 DEF CellAt
  <2> QED
    BY <2>1, <2>2
<1>8. PICK to : to = next[c]
  OBVIOUS
<1>9. to = CellAt(Walked, q, i + 1)
  BY <1>5, <1>7, <1>8
<1>10. c \in Nodes => c = q[i] /\ i \in 1 .. n
  BY <1>3, <1>7 DEF CellAt
<1>11. CASE i = n
  <2>1. to = Sentinel(Walked)
    BY <1>3, <1>9, <1>11 DEF CellAt
  <2>2. ASSUME NEW m \in Members(Walked), c \in Nodes, last[c] < last[m] PROVE FALSE
    <3>1. PICK j \in 1 .. n : m = q[j]
      BY <1>4
    <3>2. CASE j = n
      BY <1>1, <1>4, <1>10, <1>11, <2>2, <3>1, <3>2
    <3>3. CASE j # n
      <4>1. j < i /\ i \in 1 .. Len(q) /\ j \in 1 .. Len(q)
        BY <1>3, <1>10, <1>11, <2>2, <3>3
      <4>2. last[q[j]] < last[q[i]]
        BY <1>1, <1>2, <4>1, StampsAlong
      <4> QED
        BY <1>1, <1>3, <1>4, <1>10, <2>2, <3>1, <4>1, <4>2
    <3> QED
      BY <3>2, <3>3
  <2>3. c \notin Nodes => Members(Walked) = {}
    BY <1>4, <1>7, <1>11
  <2> QED
    BY <1>6, <1>8, <2>1, <2>2, <2>3 DEF Following
<1>12. CASE i # n
  <2>1. PICK k \in 1 .. n : k = i + 1
    BY <1>12
  <2>2. to = q[k] /\ to \in Nodes /\ to \in Members(Walked)
    BY <1>3, <1>4, <1>9, <2>1 DEF CellAt
  <2>3. ASSUME NEW m \in Members(Walked), last[m] < last[to] PROVE c \in Nodes /\ ~(last[c] < last[m])
    <3>1. PICK j \in 1 .. n : m = q[j]
      BY <1>4
    <3>2. ~(k < j) /\ j # k
      <4>1. ASSUME k < j PROVE FALSE
        <5>1. last[q[k]] < last[q[j]]
          BY <1>1, <1>2, <1>3, <4>1, StampsAlong
        <5> QED
          BY <1>1, <1>4, <2>2, <2>3, <3>1, <5>1
      <4>2. j # k
        BY <1>1, <1>4, <2>2, <2>3, <3>1
      <4> QED
        BY <4>1, <4>2
    <3>3. j <= i /\ i \in 1 .. n
      BY <2>1, <3>2
    <3>4. c = q[i] /\ c \in Nodes
      BY <1>7, <1>10, <3>3
    <3>5. CASE j = i
      BY <1>1, <3>1, <3>4, <3>5
    <3>6. CASE j # i
      <4>1. j < i
        BY <3>3, <3>6
      <4>2. last[q[j]] < last[q[i]]
        BY <1>1, <1>2, <1>3, <3>3, <4>1, StampsAlong
      <4> QED
        BY <1>1, <1>4, <3>1, <3>3, <3>4, <4>2
    <3> QED
      BY <3>5, <3>6
  <2>4. c \in Nodes => last[c] < last[to]
    <3> SUFFICES ASSUME c \in Nodes PROVE last[c] < last[to]
      OBVIOUS
    <3>1. i \in 1 .. n /\ i < k
      BY <1>10, <2>1
    <3> QED
      BY <1>1, <1>2, <1>3, <1>10, <2>2, <3>1, StampsAlong
  <2>5. \A m \in Members(Walked) : last[m] \in Nat /\ last[to] \in Nat
    BY <1>1, <2>2 DEF Members
  <2>6. \A m \in Members(Walked) : ~(last[m] < last[to]) => last[to] <= last[m]
    BY <2>5
  <2> QED
    BY <1>8, <2>2, <2>3, <2>4, <2>6 DEF Following
<1> QED
  BY <1>11, <1>12
LEMMA StampsDiffer ==
    ASSUME PoolInv, ListsAreChains, NEW m \in Members(Walked), NEW n \in Members(Walked), m # n
    PROVE  last[m] # last[n]
<1>1. ListShape /\ last \in [Nodes -> Nat] /\ Walked \in Lists
  BY WalkerAssumption DEF PoolInv, ListInv, ListShape, PoolTypeOK
<1>2. PICK q : ChainOf(Walked, q)
  BY <1>1 DEF ListsAreChains
<1>3. PICK l \in Nat : l = Len(q)
  BY <1>1, <1>2, ChainCells
<1>4. PICK i \in 1 .. l, j \in 1 .. l : m = q[i] /\ n = q[j] /\ i # j
  BY <1>2, <1>3 DEF ChainOf
<1>5. i < j \/ j < i
  BY <1>4
<1>6. last[m] < last[n] \/ last[n] < last[m]
  BY <1>1, <1>2, <1>3, <1>4, <1>5, StampsAlong
<1>7. last[m] \in Nat /\ last[n] \in Nat
  BY <1>1 DEF Members
<1> QED
  BY <1>6, <1>7

\* A rewalk finds the first element that is stamped no earlier than the one last
\* returned; the one before it is stamped earlier.
LEMMA RewalkFinds ==
    ASSUME PoolInv, ListsAreChains, wlast \in Nat
    PROVE  /\ Rewalk \in [node : Nodes \cup {Sentinel(Walked)}, back : Nodes \cup {Sentinel(Walked)}]
           /\ Rewalk.node \in Nodes => Rewalk.node \in Members(Walked) /\ wlast <= last[Rewalk.node]
           /\ Rewalk.back \in Nodes => last[Rewalk.back] < wlast
           /\ \A n \in Members(Walked) : wlast < last[n] => Rewalk.node \in Nodes /\ last[Rewalk.node] <= last[n]
<1>1. ListShape /\ last \in [Nodes -> Nat] /\ Walked \in Lists
  BY WalkerAssumption DEF PoolInv, ListInv, ListShape, PoolTypeOK
<1>2. PICK q : ChainOf(Walked, q)
  BY <1>1 DEF ListsAreChains
<1>3. Walk(Walked) = q
  BY <1>1, <1>2, WalkIsChain
<1>4. PICK l \in Nat : l = Len(q)
  BY <1>1, <1>2, ChainCells
<1>5. Members(Walked) = {q[k] : k \in 1 .. l} /\ \A k \in 1 .. l : q[k] \in Nodes /\ last[q[k]] \in Nat
  BY <1>1, <1>2, <1>4, ChainCells DEF ChainOf
<1> DEFINE Cell(i) == IF i \in 1 .. Len(q) THEN q[i] ELSE Sentinel(Walked)
<1> DEFINE Right(i) == /\ \A j \in 1 .. (i - 1) : last[q[j]] < wlast
                       /\ i \in 1 .. Len(q) => last[q[i]] >= wlast
<1>6. \E i \in 1 .. (l + 1) : Right(i)
  <2> DEFINE T == {i \in Nat : i \in 1 .. (l + 1) /\ (i \in 1 .. l => last[q[i]] >= wlast)}
  <2>1. l + 1 \in T
    OBVIOUS
  <2>2. PICK i \in T : \A k \in T : i <= k
    BY <2>1, LeastNumber
  <2>3. i \in 1 .. (l + 1) /\ (i \in 1 .. l => last[q[i]] >= wlast)
    BY <2>2
  <2>4. ASSUME NEW j \in 1 .. (i - 1) PROVE last[q[j]] < wlast
    <3>1. j \in Nat /\ j \in 1 .. l /\ ~(i <= j)
      BY <2>3
    <3>2. j \notin T
      BY <2>2, <3>1
    <3>3. ~(last[q[j]] >= wlast)
      BY <3>1, <3>2
    <3> QED
      BY <1>5, <3>1, <3>3
  <2> QED
    BY <1>4, <2>3, <2>4
<1>7. PICK i \in 1 .. (l + 1) : Right(i) /\ i = CHOOSE k \in 1 .. (l + 1) : Right(k)
  BY <1>6
<1>8. Rewalk = [node |-> Cell(i), back |-> Cell(i - 1)]
  BY <1>3, <1>4, <1>7 DEF Rewalk
<1>9. \A k \in Int : Cell(k) \in Nodes \cup {Sentinel(Walked)} /\ (Cell(k) \in Nodes => k \in 1 .. l /\ Cell(k) = q[k])
  BY <1>1, <1>4, <1>5, CellFacts
<1>10. PICK to : to = Rewalk
  OBVIOUS
<1>11. i \in Int /\ i - 1 \in Int
  OBVIOUS
<1>12. to.node = Cell(i) /\ to.back = Cell(i - 1)
  BY <1>8, <1>10
<1>13. to \in [node : Nodes \cup {Sentinel(Walked)}, back : Nodes \cup {Sentinel(Walked)}]
  BY <1>8, <1>9, <1>10, <1>11
<1>14. to.node \in Nodes => to.node \in Members(Walked) /\ wlast <= last[to.node]
  <2> SUFFICES ASSUME to.node \in Nodes PROVE to.node \in Members(Walked) /\ wlast <= last[to.node]
    OBVIOUS
  <2>1. i \in 1 .. l /\ to.node = q[i]
    BY <1>9, <1>11, <1>12
  <2>2. last[q[i]] >= wlast /\ last[q[i]] \in Nat
    BY <1>4, <1>5, <1>7, <2>1
  <2> QED
    BY <1>5, <2>1, <2>2
<1>15. to.back \in Nodes => last[to.back] < wlast
  <2> SUFFICES ASSUME to.back \in Nodes PROVE last[to.back] < wlast
    OBVIOUS
  <2>1. i - 1 \in 1 .. l /\ to.back = q[i - 1]
    BY <1>9, <1>11, <1>12
  <2>2. i - 1 \in 1 .. (i - 1)
    BY <2>1
  <2> QED
    BY <1>7, <2>1, <2>2
<1>16. ASSUME NEW n \in Members(Walked), wlast < last[n] PROVE to.node \in Nodes /\ last[to.node] <= last[n]
  <2>1. PICK j \in 1 .. l : n = q[j]
    BY <1>5
  <2>2. ~(j \in 1 .. (i - 1))
    <3> SUFFICES ASSUME j \in 1 .. (i - 1) PROVE FALSE
      OBVIOUS
    <3>1. last[q[j]] < wlast /\ last[q[j]] \in Nat
      BY <1>5, <1>7
    <3> QED
      BY <1>16, <2>1, <3>1
  <2>3. i <= j /\ i \in 1 .. l
    BY <2>2
  <2>4. to.node = q[i] /\ to.node \in Nodes
    BY <1>4, <1>5, <1>12, <2>3
  <2>5. CASE i = j
    BY <1>5, <2>1, <2>3, <2>4, <2>5
  <2>6. CASE i # j
    <3>1. i < j
      BY <2>3, <2>6
    <3>2. last[q[i]] < last[q[j]]
      BY <1>1, <1>2, <1>4, <2>3, <3>1, StampsAlong
    <3>3. last[q[i]] \in Nat /\ last[q[j]] \in Nat
      BY <1>5, <2>3
    <3> QED
      BY <2>1, <2>4, <3>2, <3>3
  <2> QED
    BY <2>5, <2>6
<1> QED
  BY <1>10, <1>13, <1>14, <1>15, <1>16

\* Nothing is in hand while the walker has the lock.
LEMMA AllLinked ==
    ASSUME PoolInv, PushersLive, pc[Walker] = "body"
    PROVE  \A n \in Nodes : id[n] = Walked <=> n \in Members(Walked)
<1>1. Walker \in Threads /\ lock = Walker
  BY WalkerAssumption DEF PoolInv, LockHeld, PushersLive
<1>2. ASSUME NEW t \in Threads PROVE hand[t] = NULL
  <2>1. ~(pc[t] = "push")
    <3> SUFFICES ASSUME pc[t] = "push" PROVE FALSE
      OBVIOUS
    <3>1. t \in alive
      BY DEF PushersLive
    <3>2. lock = t
      BY <3>1 DEF PoolInv, LockHeld
    <3> QED
      BY <1>1, <3>2
  <2> QED
    BY <2>1 DEF PoolInv, ElementsConserved
<1>3. \A n \in Nodes : Linked(n)
  BY <1>2, CellFacts DEF PoolInv, ElementsConserved
<1> QED
  BY <1>3 DEF Members, Linked

\* Where a step leads: to the first of the elements that the walker has still to return,
\* or to one before it.
StepRight(to) ==
    /\ to \in [node : Nodes \cup {Sentinel(Walked)}, back : Nodes \cup {Sentinel(Walked)}]
    /\ to.node \in Nodes => to.node \in Members(Walked)
    /\ ~reentered =>
          /\ \A n \in due : to.node \in Nodes /\ last[to.node] <= last[n]
          /\ to.back \in Nodes => last[to.back] <= (IF to.node \in Nodes THEN last[to.node] ELSE wlast)

LEMMA StepFinds ==
    ASSUME PoolInv, ListsAreChains, WalkInv, pc[Walker] = "body"
    PROVE  StepRight(WalkerAfterStep)
<1>1. /\ w \in [node : Nodes \cup {Sentinel(Walked)}, back : Nodes \cup {Sentinel(Walked)}]
      /\ wlast \in Nat /\ due \subseteq Members(Walked) /\ (~reentered => PlaceKept)
  BY AllLinked DEF WalkInv, WalkerTypeOK
<1>2. PICK S : S = Sentinel(Walked)
  OBVIOUS
<1>3. S \notin Nodes /\ last \in [Nodes -> Nat] /\ \A n \in Members(Walked) : n \in Nodes /\ last[n] \in Nat
  BY <1>2, WalkerAssumption, CellFacts DEF PoolInv, PoolTypeOK, Members
<1>4. w.node \in Nodes \cup {S} /\ w.back \in Nodes \cup {S}
  BY <1>1, <1>2
<1>5. CASE ~(w.node # S /\ id[w.node] # Walked)
  <2>1. WalkerAfterStep = [node |-> next[w.node], back |-> w.node]
    BY <1>2, <1>5 DEF WalkerAfterStep, sxe_list_walker_step
  <2>2. w.node \in Members(Walked) \cup {Sentinel(Walked)}
    BY <1>2, <1>4, <1>5, AllLinked DEF WalkInv
  <2>3. Following(w.node, next[w.node])
    BY <2>2, NextFollows
  <2>4. PICK to : to = WalkerAfterStep
    OBVIOUS
  <2>5. to.node = next[w.node] /\ to.back = w.node
    BY <2>1, <2>4
  <2>6. to \in [node : Nodes \cup {Sentinel(Walked)}, back : Nodes \cup {Sentinel(Walked)}]
    BY <1>2, <1>4, <2>1, <2>3, <2>4 DEF Following
  <2>7. to.node \in Nodes => to.node \in Members(Walked)
    BY <2>3, <2>5 DEF Following
  <2>8. ASSUME ~reentered
        PROVE  /\ \A n \in due : to.node \in Nodes /\ last[to.node] <= last[n]
               /\ to.back \in Nodes => last[to.back] <= (IF to.node \in Nodes THEN last[to.node] ELSE wlast)
    <3>1. CASE w.node \in Nodes
      <4>1. last[w.node] = wlast /\ \A n \in due : wlast < last[n]
        BY <1>1, <1>3, <1>5, <2>8, <3>1 DEF PlaceKept
      <4>2. \A n \in due : to.node \in Nodes /\ last[to.node] <= last[n]
        BY <1>1, <2>3, <2>5, <3>1, <4>1 DEF Following
      <4>3. to.node \in Nodes => last[to.back] < last[to.node] /\ last[to.back] \in Nat /\ last[to.node] \in Nat
        BY <1>3, <2>3, <2>5, <3>1 DEF Following
      <4> QED
        BY <1>1, <2>5, <4>1, <4>2, <4>3
    <3>2. CASE w.node \notin Nodes
      BY <1>1, <2>3, <2>5, <3>2 DEF Following
    <3> QED
      BY <3>1, <3>2
  <2> QED
    BY <2>4, <2>6, <2>7, <2>8 DEF StepRight
<1>6. CASE w.node # S /\ id[w.node] # Walked /\ w.back # S /\ id[w.back] = Walked
  <2>1. sxe_list_walker_back(w, Walked) = [node |-> w.back, back |-> S]
    BY <1>2, <1>6 DEF sxe_list_walker_back
  <2>2. WalkerAfterStep = [node |-> next[w.back], back |-> w.back]
    BY <1>2, <1>6, <2>1 DEF WalkerAfterStep, sxe_list_walker_step
  <2>3. w.back \in Members(Walked) /\ w.back \in Nodes /\ w.node \in Nodes
    BY <1>4, <1>6, AllLinked DEF WalkInv
  <2>4. Following(w.back, next[w.back])
    BY <2>3, NextFollows
  <2>5. PICK to : to = WalkerAfterStep
    OBVIOUS
  <2>6. to.node = next[w.back] /\ to.back = w.back
    BY <2>2, <2>5
  <2>7. to \in [node : Nodes \cup {Sentinel(Walked)}, back : Nodes \cup {Sentinel(Walked)}]
    BY <2>2, <2>3, <2>4, <2>5 DEF Following
  <2>8. to.node \in Nodes => to.node \in Members(Walked)
    BY <2>4, <2>6 DEF Following
  <2>9. ASSUME ~reentered
        PROVE  /\ \A n \in due : to.node \in Nodes /\ last[to.node] <= last[n]
               /\ to.back \in Nodes => last[to.back] <= (IF to.node \in Nodes THEN last[to.node] ELSE wlast)
    <3>1. last[w.back] <= wlast /\ (\A n \in due : wlast < last[n]) /\ last[w.back] \in Nat
      BY <1>1, <1>3, <1>6, <2>3, <2>9 DEF PlaceKept
    <3>2. \A n \in due : last[w.back] < last[n]
      <4> SUFFICES ASSUME NEW n \in due PROVE last[w.back] < last[n]
        OBVIOUS
      <4>1. last[n] \in Nat /\ wlast < last[n]
        BY <1>1, <1>3, <3>1
      <4> QED
        BY <1>1, <3>1, <4>1
    <3>3. \A n \in due : to.node \in Nodes /\ last[to.node] <= last[n]
      BY <1>1, <2>3, <2>4, <2>6, <3>2 DEF Following
    <3>4. to.node \in Nodes => last[to.back] < last[to.node] /\ last[to.back] \in Nat /\ last[to.node] \in Nat
      BY <1>3, <2>3, <2>4, <2>6 DEF Following
    <3> QED
      BY <1>1, <2>6, <3>1, <3>3, <3>4
  <2> QED
    BY <2>5, <2>7, <2>8, <2>9 DEF StepRight
<1>7. CASE w.node # S /\ id[w.node] # Walked /\ ~(w.back # S /\ id[w.back] = Walked)
  <2>1. WalkerAfterStep = Rewalk
    <3>1. w.back # S => sxe_list_walker_back(w, Walked) = [node |-> w.back, back |-> S]
      BY <1>2 DEF sxe_list_walker_back
    <3> QED
      BY <1>2, <1>7, <3>1 DEF WalkerAfterStep
  <2>2. PICK to : to = WalkerAfterStep
    OBVIOUS
  <2>3. /\ to \in [node : Nodes \cup {Sentinel(Walked)}, back : Nodes \cup {Sentinel(Walked)}]
        /\ to.node \in Nodes => to.node \in Members(Walked) /\ wlast <= last[to.node]
        /\ to.back \in Nodes => last[to.back] < wlast
        /\ \A n \in Members(Walked) : wlast < last[n] => to.node \in Nodes /\ last[to.node] <= last[n]
    BY <1>1, <2>1, <2>2, RewalkFinds
  <2>4. ASSUME ~reentered
        PROVE  /\ \A n \in due : to.node \in Nodes /\ last[to.node] <= last[n]
               /\ to.back \in Nodes => last[to.back] <= (IF to.node \in Nodes THEN last[to.node] ELSE wlast)
    <3>1. \A n \in due : wlast < last[n]
      BY <1>1, <1>4, <1>7, <2>4 DEF PlaceKept
    <3>2. (to.back \in Nodes => last[to.back] \in Nat) /\ (to.node \in Nodes => last[to.node] \in Nat)
      BY <1>3
    <3> QED
      BY <1>1, <2>3, <3>1, <3>2
  <2> QED
    BY <2>2, <2>3, <2>4 DEF StepRight
<1> QED
  BY <1>5, <1>6, <1>7
-----------------------------------------------------------------------------
(* Every step keeps the lists chains and the walker's place.               *)

\* The elements' states and stamps, as far as the walker cares.
Untouched == UNCHANGED <<next, id, last>>

LEMMA UntouchedChains == ASSUME ListsAreChains, Untouched PROVE ListsAreChains'
  BY DEF ListsAreChains, ChainOf, Members, CellAt, Untouched

LEMMA TakeOffChains ==
    ASSUME PoolInv, ListsAreChains, NEW t, NEW e \in Nodes, NEW old \in Lists, NEW r, TakeOff(t, e, old, r)
    PROVE  ListsAreChains'
<1>1. ListShape /\ Linked(e) /\ id[e] = old /\ sxe_list_remove(old, e)
  BY DEF PoolInv, ListInv, ListShape, TakeOff, RemoveAsserts, Linked
<1>2. ASSUME NEW s \in Lists PROVE \E q : ChainOf(s, q)'
  <2>1. PICK q : ChainOf(s, q)
    BY DEF ListsAreChains
  <2>2. CASE s = old
    <3>1. q \in Seq(Nodes) /\ \E k \in 1 .. Len(q) : q[k] = e
      BY <1>1, <2>1, <2>2 DEF ChainOf, Members, Linked
    <3>2. PICK k \in 1 .. Len(q) : q[k] = e
      BY <3>1
    <3>3. PICK p : Shortened(q, k, p)
      BY <3>1, <3>2, Shortenings
    <3>4. ChainOf(s, p)'
      BY <1>1, <2>1, <2>2, <3>2, <3>3, RemoveChain
    <3> QED
      BY <3>4
  <2>3. CASE s # old
    <3>1. ChainOf(s, q)'
      BY <1>1, <2>1, <2>3, RemoveChain
    <3> QED
      BY <3>1
  <2> QED
    BY <2>2, <2>3
<1> QED
  BY <1>2 DEF ListsAreChains

LEMMA PutOnChains ==
    ASSUME PoolInv, ListsAreChains, NEW t \in alive, PutOn(t)
    PROVE  ListsAreChains'
<1>1. t \in Threads /\ hand[t] \in Nodes /\ ~Linked(hand[t])
  BY CellFacts DEF PoolInv, PoolTypeOK, ElementsConserved, PutOn
<1>2. PICK e, new : e = hand[t] /\ new = Destination(t)
  OBVIOUS
<1>3. new \in Lists /\ e \in Nodes /\ ~Linked(e) /\ ListShape /\ sxe_list_push(new, e)
  BY <1>1, <1>2, DestinationIsState DEF PoolInv, ListInv, ListShape, PutOn
<1>4. ASSUME NEW s \in Lists PROVE \E q : ChainOf(s, q)'
  <2>1. PICK q : ChainOf(s, q)
    BY DEF ListsAreChains
  <2>2. CASE s = new
    <3>1. ChainOf(s, Append(q, e))'
      BY <1>3, <2>1, <2>2, PushChain
    <3> QED
      BY <3>1
  <2>3. CASE s # new
    <3>1. ChainOf(s, q)'
      BY <1>3, <2>1, <2>3, PushChain
    <3> QED
      BY <3>1
  <2> QED
    BY <2>2, <2>3
<1> QED
  BY <1>4 DEF ListsAreChains

WalkerSound == PoolInv /\ ListsAreChains /\ WalkInv

\* A step that changes the state and stamp of no element, or gives one of them a
\* state and a later stamp.
Restamped(e) == /\ \A n \in Nodes \ {e} : id'[n] = id[n] /\ last'[n] = last[n]
                /\ last'[e] = next_count + 1

LEMMA OthersKeepPlace ==
    ASSUME WalkerSound, PoolTypeOK', PushersLive',
           UNCHANGED <<id, last>> \/ \E e \in Nodes : Restamped(e),
           due' = {n \in due : id'[n] = Walked},
           reentered' = (reentered \/ \E n \in {w.node, w.back} \cap Nodes : id'[n] = Walked /\ last'[n] # last[n]),
           UNCHANGED <<w, wlast, walk>>
    PROVE  WalkInv'
<1>1. WalkerTypeOK'
  BY DEF WalkerSound, WalkInv, WalkerTypeOK
<1>2. ASSUME ~reentered' PROVE PlaceKept'
  <2>1. ~reentered /\ \A n \in {w.node, w.back} \cap Nodes : id'[n] = Walked => last'[n] = last[n]
    BY <1>2, Zenon
  <2>2. PlaceKept /\ wlast \in Nat /\ due \subseteq Nodes
    BY <2>1 DEF WalkerSound, WalkInv, WalkerTypeOK
  <2>3. last \in [Nodes -> Nat] /\ next_count \in Nat /\ \A n \in Nodes : last[n] <= next_count
    BY DEF WalkerSound, PoolInv, PoolTypeOK, StampsOrdered
  <2>4. \A n \in Nodes : last'[n] = last[n] => id'[n] = id[n]
    <3>1. CASE UNCHANGED <<id, last>>
      BY <3>1
    <3>2. ASSUME NEW e \in Nodes, Restamped(e) PROVE \A n \in Nodes : last'[n] = last[n] => id'[n] = id[n]
      <4>1. last'[e] # last[e]
        BY <2>3, <3>2 DEF Restamped
      <4> QED
        BY <3>2, <4>1 DEF Restamped
    <3> QED
      BY <3>1, <3>2
  <2>5. \A n \in Nodes : last[n] <= last'[n] /\ last'[n] \in Nat
    <3>1. CASE UNCHANGED <<id, last>>
      BY <2>3, <3>1
    <3>2. ASSUME NEW e \in Nodes, Restamped(e) PROVE \A n \in Nodes : last[n] <= last'[n] /\ last'[n] \in Nat
      BY <2>3, <3>2 DEF Restamped
    <3> QED
      BY <3>1, <3>2
  <2>6. walk' # "on" => due' = {}
    BY <2>2 DEF PlaceKept
  <2>7. w'.node \in Nodes => \A n \in due' : wlast' < last'[n]
    <3> SUFFICES ASSUME w.node \in Nodes, NEW n \in due PROVE wlast < last'[n]
      OBVIOUS
    <3>1. wlast < last[n] /\ n \in Nodes
      BY <2>2 DEF PlaceKept
    <3>2. last[n] <= last'[n] /\ last'[n] \in Nat /\ last[n] \in Nat
      BY <2>3, <2>5, <3>1
    <3> QED
      BY <2>2, <3>1, <3>2
  <2>8. w'.node \in Nodes /\ id'[w'.node] = Walked => last'[w'.node] = wlast'
    BY <2>1, <2>2, <2>4 DEF PlaceKept
  <2>9. w'.back \in Nodes /\ id'[w'.back] = Walked => last'[w'.back] <= wlast'
    BY <2>1, <2>2, <2>4 DEF PlaceKept
  <2> QED
    BY <2>6, <2>7, <2>8, <2>9 DEF PlaceKept
<1> QED
  BY <1>1, <1>2 DEF WalkInv
\* A step of another thread keeps the pool, and tells the walker's history what it did.
LEMMA ThreadStep ==
    ASSUME WalkerSound, NEW t \in Threads \ {Walker}, Progress(t) \/ StartCall(t)
    PROVE  /\ PoolInv' /\ ListsAreChains' /\ PushersLive'
           /\ UNCHANGED <<id, last>> \/ \E e \in Nodes : Restamped(e)
<1>0. PoolInv /\ ListsAreChains /\ PushersLive /\ t \in alive /\ t # Walker /\ t \in Threads
  BY DEF WalkerSound, WalkInv, Progress, StartCall
<1>1. PoolInv'
  BY <1>0, StartKeeps, LockStepsKeep, BodyKeeps, PutOnKeeps DEF Progress
<1>2. pc \in [Threads -> {"idle", "lock", "body", "push", "give", "fail"}]
  BY <1>0 DEF PoolInv, PoolTypeOK
<1> DEFINE Goal == ListsAreChains' /\ PushersLive' /\ (UNCHANGED <<id, last>> \/ \E e \in Nodes : Restamped(e))
<1>3. ASSUME Untouched, alive' = alive, NEW p, p # "push", pc' = [pc EXCEPT ![t] = p] PROVE Goal
  <2>1. PushersLive'
    BY <1>0, <1>2, <1>3 DEF PushersLive
  <2> QED
    BY <1>0, <1>3, <2>1, UntouchedChains DEF Untouched
<1>4. ASSUME StartCall(t) PROVE Goal
  <2>1. PICK c : Start(t, c)
    BY <1>0, <1>4, StartsCall
  <2>2. Untouched /\ alive' = alive /\ pc' = [pc EXCEPT ![t] = "lock"]
    BY <2>1 DEF Start, Goto, Untouched
  <2> HIDE DEF Goal
  <2> QED
    BY <1>3, <2>2
<1>5. ASSUME LockTaken(t) \/ LockSpin(t) \/ LockNotTaken(t) \/ Unlock(t) \/ ReturnFailed(t) PROVE Goal
  <2>1. Untouched /\ alive' = alive
    BY <1>5 DEF LockTaken, LockSpin, LockNotTaken, Unlock, ReturnFailed, Untouched
  <2>2. PICK p : p # "push" /\ pc' = [pc EXCEPT ![t] = p]
    <3>1. CASE LockSpin(t)
      <4>1. pc' = [pc EXCEPT ![t] = "lock"]
        BY <1>0, <1>2, <3>1 DEF LockSpin
      <4> QED
        BY <4>1
    <3>2. CASE ~LockSpin(t)
      BY <1>5, <3>2 DEF LockTaken, LockNotTaken, Unlock, ReturnFailed, Goto
    <3> QED
      BY <3>1, <3>2
  <2> HIDE DEF Goal
  <2> QED
    BY <1>3, <2>1, <2>2
<1>6. ASSUME Body(t) PROVE Goal
  <2>1. pc[t] = "body" /\ BodyStep(t)
    BY <1>0, <1>6, BodySteps
  <2>2. ASSUME NEW e \in Nodes, NEW old \in Lists, NEW r \in Int, TakeOff(t, e, old, r) PROVE Goal
    <3>1. ListsAreChains'
      BY <1>0, <2>2, TakeOffChains
    <3>2. alive' = alive /\ pc' = [pc EXCEPT ![t] = "push"] /\ UNCHANGED <<id, last>>
      BY <2>2 DEF TakeOff, Goto, sxe_list_remove
    <3>3. PushersLive'
      BY <1>0, <1>2, <3>2 DEF PushersLive
    <3> QED
      BY <3>1, <3>2, <3>3
  <2>3. ASSUME NEW r \in Int, Answer(t, r) PROVE Goal
    <3>1. Untouched /\ alive' = alive /\ pc' = [pc EXCEPT ![t] = "give"]
      BY <2>3 DEF Answer, Goto, Untouched
    <3> HIDE DEF Goal
    <3> QED
      BY <1>3, <3>1
  <2>4. ASSUME Abort(t) PROVE Goal
    <3>1. Untouched /\ alive' = alive \ {t} /\ pc' = pc
      BY <2>4 DEF Abort, Untouched
    <3>2. PushersLive'
      BY <1>0, <2>1, <3>1 DEF PushersLive
    <3> QED
      BY <1>0, <3>1, <3>2, UntouchedChains DEF Untouched
  <2> HIDE DEF Goal
  <2> QED
    BY <2>1, <2>2, <2>3, <2>4 DEF BodyStep
<1>7. ASSUME PutOn(t) PROVE Goal
  <2>1. ListsAreChains'
    BY <1>0, <1>7, PutOnChains
  <2>2. PICK e, new : e = hand[t] /\ new = Destination(t)
    OBVIOUS
  <2>3. e \in Nodes /\ Nodes \subseteq Cells
    BY <1>0, <1>7, <2>2, CellFacts DEF PoolInv, PoolTypeOK, ElementsConserved, PutOn
  <2>4. alive' = alive /\ pc' = [pc EXCEPT ![t] = "give"]
    BY <1>7 DEF PutOn, Goto
  <2>5. last' = [last EXCEPT ![e] = next_count + 1] /\ id' = [id EXCEPT ![e] = id[Sentinel(new)]]
    BY <1>7, <2>2 DEF PutOn, sxe_list_push
  <2>6. Restamped(e)
    BY <1>0, <2>3, <2>5 DEF PoolInv, PoolTypeOK, LinkTypeOK, Restamped
  <2>7. PushersLive'
    BY <1>0, <1>2, <2>4 DEF PushersLive
  <2> QED
    BY <2>1, <2>3, <2>6, <2>7
<1>8. Goal
  <2> HIDE DEF Goal
  <2> QED
    BY <1>4, <1>5, <1>6, <1>7 DEF Progress
<1> QED
  BY <1>1, <1>8

LEMMA OthersKeep == ASSUME WalkerSound, Others PROVE WalkerSound'
<1>1. PICK t \in Threads \ {Walker} : Progress(t) \/ StartCall(t)
  BY DEF Others
<1>2. /\ PoolInv' /\ ListsAreChains' /\ PushersLive'
      /\ UNCHANGED <<id, last>> \/ \E e \in Nodes : Restamped(e)
  BY <1>1, ThreadStep
<1>3. PoolTypeOK'
  BY <1>2 DEF PoolInv
<1>4. WalkInv'
  BY <1>2, <1>3, OthersKeepPlace DEF Others
<1> QED
  BY <1>2, <1>4 DEF WalkerSound

\* The walker calls, takes and gives the lock, or fails to.
LEMMA CallStepKeeps == ASSUME WalkerSound, CallStep PROVE WalkerSound'
<1> USE WalkerAssumption
<1>0. PoolInv /\ ListsAreChains
  BY DEF WalkerSound
<1>1. PICK c : c = CallOf("walker_step", NULL, Walked, Walked)
  OBVIOUS
<1>2. c \in Calls /\ c.op = "walker_step"
  BY <1>1 DEF Calls, CallOf
<1>3. /\ pc[Walker] = "idle" /\ call' = [call EXCEPT ![Walker] = c] /\ count' = [count EXCEPT ![Walker] = 0]
      /\ pc' = [pc EXCEPT ![Walker] = "lock"]
      /\ UNCHANGED <<next, prev, id, length, last, next_count, lock, alive, hand, res, owner, aborted>>
      /\ UNCHANGED <<w, wlast, walk, due, reentered>>
  BY <1>1 DEF CallStep, Goto, walkervars
<1>4. PoolTypeOK'
  BY <1>0, <1>2, <1>3, PoolThreadsAssumption DEF PoolInv, PoolTypeOK, LinkTypeOK
<1>5. LockHeld'
  BY <1>0, <1>3 DEF PoolInv, PoolTypeOK, LockHeld
<1>6. CallsNameNodes'
  BY <1>0, <1>2, <1>3 DEF PoolInv, PoolTypeOK, CallsNameNodes
<1>7. \A u \in Threads : pc'[u] = "push" <=> pc[u] = "push"
  BY <1>0, <1>3 DEF PoolInv, PoolTypeOK
<1>8. PoolInv'
  BY <1>0, <1>3, <1>4, <1>5, <1>6, <1>7, QuietKeeps
<1>9. ListsAreChains'
  BY <1>0, <1>3, UntouchedChains DEF Untouched
<1>10. WalkInv'
  BY <1>3, <1>7 DEF WalkerSound, WalkInv, PushersLive, WalkerTypeOK, PlaceKept
<1> QED
  BY <1>8, <1>9, <1>10 DEF WalkerSound

LEMMA WalkerLocksKeep == ASSUME WalkerSound, WalkerLocks, UNCHANGED walkervars PROVE WalkerSound'
<1>0. PoolInv /\ ListsAreChains /\ Walker \in alive /\ Walker \in Threads
  BY WalkerAssumption DEF WalkerSound, WalkInv, PushersLive
<1>1. PoolInv'
  BY <1>0, LockStepsKeep DEF WalkerLocks
<1>2. Untouched /\ alive' = alive
  BY DEF WalkerLocks, LockTaken, LockSpin, LockNotTaken, Unlock, ReturnFailed, Untouched
<1>3. \A u \in Threads : pc'[u] = "push" => pc[u] = "push"
  BY <1>0 DEF PoolInv, PoolTypeOK, WalkerLocks, LockTaken, LockSpin, LockNotTaken, Unlock, ReturnFailed, Goto
<1>4. ListsAreChains'
  BY <1>0, <1>2, UntouchedChains
<1>5. WalkInv'
  BY <1>2, <1>3 DEF WalkerSound, WalkInv, PushersLive, WalkerTypeOK, PlaceKept, walkervars, Untouched
<1> QED
  BY <1>1, <1>4, <1>5 DEF WalkerSound

LEMMA WalkBegins == ASSUME WalkerSound, sxe_pool_walker_construct PROVE WalkerSound'
<1>0. PoolInv /\ ListsAreChains
  BY DEF WalkerSound
<1>1. /\ w' = [node |-> Sentinel(Walked), back |-> Sentinel(Walked)] /\ wlast' = 0 /\ walk' = "on"
      /\ due' = Members(Walked) /\ reentered' = FALSE
      /\ UNCHANGED <<next, prev, id, length, last, next_count, lock, count, alive, pc, call, hand, res, owner, aborted>>
  BY DEF sxe_pool_walker_construct, sxe_list_walker_construct, poolvars
<1>2. PoolTypeOK' /\ LockHeld' /\ CallsNameNodes'
  BY <1>0, <1>1 DEF PoolInv, PoolTypeOK, LinkTypeOK, LockHeld, CallsNameNodes
<1>3. PoolInv'
  BY <1>0, <1>1, <1>2, QuietKeeps
<1>4. ListsAreChains'
  BY <1>0, <1>1, UntouchedChains DEF Untouched
<1>5. Sentinel(Walked) \notin Nodes
  BY WalkerAssumption, CellFacts
<1>6. PushersLive'
  BY <1>1 DEF WalkerSound, WalkInv, PushersLive
<1>7. WalkerTypeOK' /\ PlaceKept'
  BY <1>1, <1>5 DEF WalkerTypeOK, PlaceKept, Members
<1> QED
  BY <1>3, <1>4, <1>6, <1>7 DEF WalkerSound, WalkInv

LEMMA WalkSteps == ASSUME WalkerSound, sxe_pool_walker_step PROVE WalkerSound'
<1>0. PoolInv /\ ListsAreChains /\ WalkInv /\ pc[Walker] = "body" /\ Walker \in alive /\ Walker \in Threads
  BY WalkerAssumption DEF WalkerSound, WalkInv, PushersLive, sxe_pool_walker_step
<1>1. PICK to : to = WalkerAfterStep
  OBVIOUS
<1>2. StepRight(to)
  BY <1>0, <1>1, StepFinds
<1>3. /\ w' = to /\ UNCHANGED reentered
      /\ \/ to.node = Sentinel(Walked) /\ Answer(Walker, SXE_POOL_NO_INDEX) /\ walk' = "ended" /\ UNCHANGED <<wlast, due>>
         \/ /\ to.node # Sentinel(Walked) /\ Answer(Walker, to.node)
            /\ wlast' = last[to.node] /\ due' = due \ {to.node} /\ UNCHANGED walk
  BY <1>1 DEF sxe_pool_walker_step
<1>4. PICK r \in Int : Answer(Walker, r)
  <2>1. SXE_POOL_NO_INDEX \in Int /\ (to.node # Sentinel(Walked) => to.node \in Int)
    BY <1>2, NumberAssumption DEF StepRight, Nodes, SXE_POOL_NO_INDEX
  <2> QED
    BY <1>3, <2>1
<1>5. PoolInv'
  BY <1>0, <1>4, AnswerKeeps
<1>6. Untouched /\ alive' = alive /\ pc' = [pc EXCEPT ![Walker] = "give"]
  BY <1>4 DEF Answer, Goto, Untouched
<1>7. ListsAreChains'
  BY <1>0, <1>6, UntouchedChains
<1>8. PushersLive'
  BY <1>0, <1>6 DEF WalkInv, PushersLive, PoolInv, PoolTypeOK
<1>9. Sentinel(Walked) \notin Nodes /\ last \in [Nodes -> Nat] /\ due \subseteq Members(Walked) /\ wlast \in Nat
  BY <1>0, WalkerAssumption, CellFacts, AllLinked DEF WalkInv, WalkerTypeOK, PoolInv, PoolTypeOK
<1>10. to.node \in Nodes \/ to.node = Sentinel(Walked)
  BY <1>2 DEF StepRight
<1>11. WalkerTypeOK'
  BY <1>0, <1>2, <1>3, <1>6, <1>9, <1>10 DEF WalkInv, WalkerTypeOK, StepRight, Untouched
<1>12. ASSUME ~reentered' PROVE PlaceKept'
  <2>1. ~reentered /\ PlaceKept
    BY <1>0, <1>3, <1>12 DEF WalkInv
  <2>2. CASE to.node = Sentinel(Walked)
    <3>1. walk' = "ended" /\ UNCHANGED <<wlast, due>> /\ to.node \notin Nodes
      BY <1>3, <1>9, <2>2
    <3>2. due = {}
      BY <1>2, <2>1, <3>1 DEF StepRight, PlaceKept
    <3>3. to.back \in Nodes /\ id[to.back] = Walked => last[to.back] <= wlast
      BY <1>2, <2>1, <3>1 DEF StepRight
    <3> QED
      BY <1>3, <1>6, <3>1, <3>2, <3>3 DEF PlaceKept, Untouched
  <2>3. CASE to.node # Sentinel(Walked)
    <3>1. wlast' = last[to.node] /\ due' = due \ {to.node} /\ walk' = walk /\ to.node \in Nodes /\ to.node \in Members(Walked)
      BY <1>2, <1>3, <1>10, <2>3 DEF StepRight
    <3>2. \A n \in due : last[to.node] <= last[n]
      BY <1>2, <2>1 DEF StepRight
    <3>3. ASSUME NEW n \in due, n # to.node PROVE last[to.node] < last[n]
      <4>1. PICK m : m = to.node
        OBVIOUS
      <4>2. n \in Members(Walked) /\ m \in Members(Walked) /\ m # n /\ last[m] <= last[n]
        BY <1>9, <3>1, <3>2, <3>3, <4>1
      <4>3. last[m] # last[n]
        BY <1>0, <4>2, StampsDiffer
      <4>4. last[m] \in Nat /\ last[n] \in Nat
        BY <1>9, <4>2 DEF Members
      <4> QED
        BY <4>1, <4>2, <4>3, <4>4
    <3>4. to.back \in Nodes => last[to.back] <= last[to.node]
      BY <1>2, <2>1, <3>1 DEF StepRight
    <3> QED
      BY <1>3, <1>6, <2>1, <3>1, <3>3, <3>4 DEF PlaceKept, Untouched
  <2> QED
    BY <1>10, <2>2, <2>3
<1> QED
  BY <1>5, <1>7, <1>8, <1>11, <1>12 DEF WalkerSound, WalkInv
LEMMA WalkerStarts == ASSUME WalkerInit PROVE WalkerSound
<1> USE WalkerAssumption
<1>1. PoolInv /\ ListsAreChains
  BY PoolConstructs, PoolStartsAsQueues DEF WalkerInit, RefInv
<1>2. PushersLive
  BY DEF WalkerInit, PoolInit, PushersLive
<1>3. Sentinel(Walked) \notin Nodes
  BY CellFacts
<1>4. w = [node |-> Sentinel(Walked), back |-> Sentinel(Walked)] /\ wlast = 0 /\ due = {}
  BY DEF WalkerInit, sxe_list_walker_construct
<1>5. WalkerTypeOK /\ PlaceKept
  BY <1>3, <1>4 DEF WalkerTypeOK, PlaceKept
<1> QED
  BY <1>1, <1>2, <1>5 DEF WalkerSound, WalkInv

LEMMA WalkerStepsKeep == ASSUME WalkerSound, [WalkerNext]_vars PROVE WalkerSound'
<1>1. CASE WalkerNext
  BY <1>1, OthersKeep, WalkBegins, CallStepKeeps, WalkSteps, WalkerLocksKeep DEF WalkerNext
<1>2. CASE UNCHANGED vars
  <2>1. PoolInv /\ ListsAreChains
    BY DEF WalkerSound
  <2>2. UNCHANGED <<next, prev, id, length, last, next_count, lock, count, alive, pc, call, hand, res, owner, aborted>>
    BY <1>2 DEF vars, poolvars
  <2>3. PoolTypeOK' /\ LockHeld' /\ CallsNameNodes'
    BY <2>1, <2>2 DEF PoolInv, PoolTypeOK, LinkTypeOK, LockHeld, CallsNameNodes
  <2>4. PoolInv'
    BY <2>1, <2>2, <2>3, QuietKeeps
  <2>5. ListsAreChains'
    BY <2>1, <2>2, UntouchedChains DEF Untouched
  <2>6. WalkInv'
    BY <1>2, <2>2 DEF WalkerSound, WalkInv, PushersLive, WalkerTypeOK, PlaceKept, vars, walkervars
  <2> QED
    BY <2>4, <2>5, <2>6 DEF WalkerSound
<1> QED
  BY <1>1, <1>2

\* A walk that ends has returned every element that stayed in the state from its
\* beginning to its end, however many threads moved how many elements between the
\* steps of sxe_pool_walker_step, unless one of them put the walker's own element,
\* or the one before it, back at the tail.
THEOREM WalkAlwaysComplete == WalkerSpec => []WalkComplete
<1>1. WalkerInit => WalkerSound
  BY WalkerStarts
<1>2. WalkerSound /\ [WalkerNext]_vars => WalkerSound'
  BY WalkerStepsKeep
<1>3. WalkerSound => WalkComplete
  BY DEF WalkerSound, WalkInv, PlaceKept, WalkComplete
<1> QED
  BY <1>1, <1>2, <1>3, PTL DEF WalkerSpec
=============================================================================
