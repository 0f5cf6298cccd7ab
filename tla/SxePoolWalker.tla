--------------------------- MODULE SxePoolWalker ----------------------------
(***************************************************************************)
(* sxe-pool-walker.c: one thread walks the elements of one state of a      *)
(* locked pool, taking the lock for each step only, while other threads    *)
(* move elements between its steps.  The walker remembers the element it   *)
(* returned last (node), the one before it (back) and the stamp that node  *)
(* had (last).  No thread dies here: a walker that meets an element lost   *)
(* by a dead thread follows a null link.                                   *)
(***************************************************************************)
EXTENDS SxePool

CONSTANTS Walker,     \* the walking thread
          Walked      \* the state walked

ASSUME WalkerAssumption == Walker \in Threads /\ Walked \in Lists

VARIABLES w,          \* SXE_POOL_WALKER.list_walker
          wlast,      \* SXE_POOL_WALKER.last.count
          walk,       \* whether a walk is on, and whether it has reached the end
          due,        \* elements in the state since the walk began and not yet returned
          reentered   \* whether node or back was put at the tail of the state during the walk

walkervars == <<w, wlast, walk, due, reentered>>
vars == <<poolvars, walkervars>>

WalkerInit == /\ PoolInit
              /\ w = sxe_list_walker_construct(Walked)
              /\ wlast = 0
              /\ walk = "none"
              /\ due = {}
              /\ reentered = FALSE

\* Takes no lock.
sxe_pool_walker_construct ==
    /\ pc[Walker] = "idle" /\ walk # "on"
    /\ w' = sxe_list_walker_construct(Walked)
    /\ wlast' = 0
    /\ walk' = "on"
    /\ due' = Members(Walked)
    /\ reentered' = FALSE
    /\ UNCHANGED poolvars

CallStep == /\ pc[Walker] = "idle" /\ walk = "on"
            /\ call' = [call EXCEPT ![Walker] = CallOf("walker_step", NULL, Walked, Walked)]
            /\ count' = [count EXCEPT ![Walker] = 0]
            /\ Goto(Walker, "lock")
            /\ UNCHANGED <<next, prev, id, length, last, next_count, lock, alive, hand, res, owner, aborted, walkervars>>

\* From the head again, to the first element stamped no earlier than the one
\* that the walker last returned; back is the cell before it.
Rewalk == LET queue == Walk(Walked)
              Cell(i) == IF i \in 1 .. Len(queue) THEN queue[i] ELSE Sentinel(Walked)
              i == CHOOSE i \in 1 .. (Len(queue) + 1) :
                      /\ \A j \in 1 .. (i - 1) : last[queue[j]] < wlast
                      /\ i \in 1 .. Len(queue) => last[queue[i]] >= wlast
          IN [node |-> Cell(i), back |-> Cell(i - 1)]

\* A mutant of WalkerAfterStep that gives up when it has lost its place.
WalkerGivesUp ==
    LET moved == w.node # Sentinel(Walked) /\ id[w.node] # Walked
        back == sxe_list_walker_back(w, Walked)
    IN IF ~moved THEN sxe_list_walker_step(w)
       ELSE IF w.back # Sentinel(Walked) /\ id[back.node] = Walked THEN sxe_list_walker_step(back)
       ELSE sxe_list_walker_construct(Walked)

\* If the current element has left the state, step from the one before it,
\* or rewalk when that one has left too.
WalkerAfterStep ==
    LET moved == w.node # Sentinel(Walked) /\ id[w.node] # Walked
        back == sxe_list_walker_back(w, Walked)
    IN IF ~moved THEN sxe_list_walker_step(w)
       ELSE IF w.back # Sentinel(Walked) /\ id[back.node] = Walked THEN sxe_list_walker_step(back)
       ELSE Rewalk

sxe_pool_walker_step ==
    LET to == WalkerAfterStep IN
    /\ pc[Walker] = "body"
    /\ w' = to
    /\ \/ /\ to.node = Sentinel(Walked)
          /\ Answer(Walker, SXE_POOL_NO_INDEX)
          /\ walk' = "ended"
          /\ UNCHANGED <<wlast, due>>
       \/ /\ to.node # Sentinel(Walked)
          /\ Answer(Walker, to.node)
          /\ wlast' = last[to.node]
          /\ due' = due \ {to.node}
          /\ UNCHANGED walk
    /\ UNCHANGED reentered

\* The elements that leave the state are no longer due.
Others == /\ \E t \in Threads \ {Walker} : Progress(t) \/ StartCall(t)
          /\ due' = {n \in due : id'[n] = Walked}
          /\ reentered' = (reentered \/ \E n \in {w.node, w.back} \cap Nodes :
                                           id'[n] = Walked /\ last'[n] # last[n])
          /\ UNCHANGED <<w, wlast, walk>>

WalkerLocks == \/ LockTaken(Walker) \/ LockSpin(Walker) \/ LockNotTaken(Walker)
               \/ Unlock(Walker) \/ ReturnFailed(Walker)

WalkerNext == \/ Others
              \/ sxe_pool_walker_construct \/ CallStep \/ sxe_pool_walker_step
              \/ WalkerLocks /\ UNCHANGED walkervars

WalkerSpec == WalkerInit /\ [][WalkerNext]_vars

-----------------------------------------------------------------------------
\* A walk that reaches the end has returned every element that was in the
\* state from its beginning to its end, whatever the other threads moved
\* between its steps, except when the walker's own node or back was moved
\* to the tail of the state meanwhile.
WalkComplete == walk = "ended" /\ ~reentered => due = {}
=============================================================================
