----------------------------- MODULE SxeListAbs -----------------------------
(***************************************************************************)
(* What lib-sxe-list promises: every list is a sequence of distinct        *)
(* objects, an object is on at most one list, push and unshift add at the  *)
(* tail and at the head, pop and shift take from them, remove takes an     *)
(* object out of the middle and leaves the order of the others alone.      *)
(***************************************************************************)
EXTENDS Sequences, SequencesExt

CONSTANTS Nodes, States, NoNode

VARIABLES queue,    \* the objects on each list, head first
          ret       \* the last call and the object it was given or returned

absvars == <<queue, ret>>

OnList(n) == \E s \in States : n \in ToSet(queue[s])

\* A call's name and the object it was given or returned.
Call(op, n) == [op |-> op, object |-> n]

AbsInit == /\ queue = [s \in States |-> <<>>]
           /\ ret = Call("construct", NoNode)

AbsPush(s, n) == /\ ret' = Call("push", n)
                 /\ ~OnList(n)
                 /\ queue' = [queue EXCEPT ![s] = Append(@, n)]

AbsUnshift(s, n) == /\ ret' = Call("unshift", n)
                    /\ ~OnList(n)
                    /\ queue' = [queue EXCEPT ![s] = <<n>> \o @]

AbsRemove(s, n) == /\ ret' = Call("remove", n)
                   /\ \E i \in DOMAIN queue[s] : /\ queue[s][i] = n
                                                /\ queue' = [queue EXCEPT ![s] = RemoveAt(@, i)]

AbsShift(s) == /\ queue[s] # <<>>
               /\ queue' = [queue EXCEPT ![s] = Tail(@)]
               /\ ret' = Call("shift", Head(queue[s]))

AbsPop(s) == /\ queue[s] # <<>>
             /\ queue' = [queue EXCEPT ![s] = Front(@)]
             /\ ret' = Call("pop", Last(queue[s]))

\* Calls on an empty list return no object and change nothing.
AbsEmpty(s) == /\ queue[s] = <<>>
               /\ \E op \in {"shift", "pop", "peek_head", "peek_tail"} : ret' = Call(op, NoNode)
               /\ UNCHANGED queue

AbsPeek(s) == /\ queue[s] # <<>>
              /\ ret' \in {Call("peek_head", Head(queue[s])), Call("peek_tail", Last(queue[s]))}
              /\ UNCHANGED queue

AbsNext == \E s \in States :
             \/ AbsShift(s) \/ AbsPop(s) \/ AbsEmpty(s) \/ AbsPeek(s)
             \/ \E n \in Nodes : AbsPush(s, n) \/ AbsUnshift(s, n) \/ AbsRemove(s, n)

AbsSpec == AbsInit /\ [][AbsNext]_absvars
=============================================================================
