---------------------------- MODULE SxeListSpec -----------------------------
(***************************************************************************)
(* lib-sxe-list on its own: any caller, any order of calls.                *)
(***************************************************************************)
EXTENDS SxeList

VARIABLE ret    \* the last call and the object it was given or returned

vars == <<next, prev, id, length, ret>>

Call(op, n) == [op |-> op, object |-> n]

ListInit == sxe_list_construct /\ ret = Call("construct", NULL)

Push(s, n) == ~Linked(n) /\ sxe_list_push(s, n) /\ ret' = Call("push", n)

Unshift(s, n) == ~Linked(n) /\ sxe_list_unshift(s, n) /\ ret' = Call("unshift", n)

\* A caller removes an object from the list that it is on.
Remove(s, n) == /\ id[n] = s
                /\ RemoveAsserts(s, n)
                /\ sxe_list_remove(s, n)
                /\ ret' = Call("remove", n)

PopEmpty(s) == /\ TAIL(s) = Sentinel(s)
               /\ ret' = Call("pop", NULL)
               /\ UNCHANGED listvars

Pop(s) == /\ TAIL(s) # Sentinel(s)
          /\ RemoveAsserts(s, TAIL(s))
          /\ sxe_list_remove(s, TAIL(s))
          /\ ret' = Call("pop", TAIL(s))

ShiftEmpty(s) == /\ HEAD(s) = Sentinel(s)
                 /\ ret' = Call("shift", NULL)
                 /\ UNCHANGED listvars

\* A mutant of sxe_list_shift that takes the tail.
ShiftTail(s) == /\ HEAD(s) # Sentinel(s)
                /\ RemoveAsserts(s, TAIL(s))
                /\ sxe_list_remove(s, TAIL(s))
                /\ ret' = Call("shift", TAIL(s))

Shift(s) == /\ HEAD(s) # Sentinel(s)
            /\ RemoveAsserts(s, HEAD(s))
            /\ sxe_list_remove(s, HEAD(s))
            /\ ret' = Call("shift", HEAD(s))

Peek(s) == /\ ret' \in {Call("peek_head", sxe_list_peek_head(s)), Call("peek_tail", sxe_list_peek_tail(s))}
           /\ UNCHANGED listvars

ListNext == \E s \in Lists : \/ PopEmpty(s) \/ Pop(s) \/ ShiftEmpty(s) \/ Shift(s) \/ Peek(s)
                             \/ \E n \in Nodes : Push(s, n) \/ Unshift(s, n) \/ Remove(s, n)

ListSpec == ListInit /\ [][ListNext]_vars

-----------------------------------------------------------------------------
Abs == INSTANCE SxeListAbs WITH States <- Lists, NoNode <- NULL,
                                queue <- [s \in Lists |-> Walk(s)]

\* The pointer manipulation of sxe-list.c implements sequences of objects:
\* each call changes and returns what the abstract list does.
AbsListSpec == Abs!AbsSpec
=============================================================================
