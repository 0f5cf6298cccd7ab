----------------------------- MODULE SxePoolAbs -----------------------------
(***************************************************************************)
(* What a locked pool promises to the threads that call it: every state is *)
(* a first-in first-out queue of elements, and each call takes effect at   *)
(* one moment between its start and its return, or fails and changes       *)
(* nothing.  Nothing is said here of locks, links or stamps.               *)
(***************************************************************************)
EXTENDS Integers, Sequences, SequencesExt

CONSTANTS Nodes, Lists, Threads, NoElement

VARIABLES queue,     \* the elements in each state, oldest first
          status,    \* whether each thread is idle, or its call is pending or done
          call, res

absvars == <<queue, status, call, res>>

CallOf(op, e, old, new) == [op |-> op, e |-> e, old |-> old, new |-> new]
NoCall == CallOf("none", NoElement, 0, 0)
Movers == {"set_indexed", "try_to_set", "set_oldest", "touch"}
Getters == {"oldest_index", "oldest_count"}
Calls == [op : Movers \cup Getters, e : Nodes \cup {NoElement}, old : Lists, new : Lists]

InState(e, s) == e \in ToSet(queue[s])
Without(q, e) == RemoveAt(q, CHOOSE i \in DOMAIN q : q[i] = e)

AbsInit == /\ \E s \in Lists : /\ IsInjective(queue[s]) /\ ToSet(queue[s]) = Nodes
                               /\ \A z \in Lists \ {s} : queue[z] = <<>>
           /\ status = [t \in Threads |-> "idle"]
           /\ call = [t \in Threads |-> NoCall]
           /\ res = [t \in Threads |-> 0]

Begin(t) == /\ status[t] = "idle"
            /\ \E c \in Calls : call' = [call EXCEPT ![t] = c]
            /\ status' = [status EXCEPT ![t] = "called"]
            /\ UNCHANGED <<queue, res>>

Done(t, r) == /\ status[t] = "called"
              /\ status' = [status EXCEPT ![t] = "done"]
              /\ res' = [res EXCEPT ![t] = r]
              /\ UNCHANGED call

Move(e, old, new) ==
    /\ InState(e, old)
    /\ queue' = [s \in Lists |-> LET rest == IF s = old THEN Without(queue[s], e) ELSE queue[s]
                                 IN IF s = new THEN Append(rest, e) ELSE rest]

DoSetIndexed(t) == /\ call[t].op = "set_indexed"
                   /\ Move(call[t].e, call[t].old, call[t].new)
                   /\ Done(t, 0)

DoTryToSet(t) == /\ call[t].op = "try_to_set"
                 /\ Move(call[t].e, call[t].old, call[t].new)
                 /\ Done(t, call[t].e)

\* The element is in another state, or lost.
DoTryFails(t) == /\ call[t].op = "try_to_set"
                 /\ ~InState(call[t].e, call[t].old)
                 /\ Done(t, -2)
                 /\ UNCHANGED queue

DoSetOldest(t) == /\ call[t].op = "set_oldest"
                  /\ queue[call[t].old] # <<>>
                  /\ Move(Head(queue[call[t].old]), call[t].old, call[t].new)
                  /\ Done(t, Head(queue[call[t].old]))

DoTouch(t) == /\ call[t].op = "touch"
              /\ \E s \in Lists : Move(call[t].e, s, s)
              /\ Done(t, 0)

\* NO_INDEX is the answer for an empty state.
DoNothingThere(t) == /\ call[t].op \in {"set_oldest", "oldest_index"}
                     /\ queue[call[t].old] = <<>>
                     /\ Done(t, -1)
                     /\ UNCHANGED queue

DoOldestIndex(t) == /\ call[t].op = "oldest_index"
                    /\ queue[call[t].old] # <<>>
                    /\ Done(t, Head(queue[call[t].old]))
                    /\ UNCHANGED queue

\* The count itself is not part of the promise.
DoOldestCount(t) == /\ call[t].op = "oldest_count"
                    /\ Done(t, res'[t])
                    /\ res'[t] = 0 <=> queue[call[t].old] = <<>>
                    /\ UNCHANGED queue

\* The lock could not be taken.
DoFail(t) == /\ \/ call[t].op \in Movers /\ Done(t, -3)
                \/ call[t].op = "oldest_index" /\ Done(t, -1)
                \/ call[t].op = "oldest_count" /\ Done(t, 0)
             /\ UNCHANGED queue

Return(t) == /\ status[t] = "done"
             /\ status' = [status EXCEPT ![t] = "idle"]
             /\ call' = [call EXCEPT ![t] = NoCall]
             /\ res' = [res EXCEPT ![t] = 0]
             /\ UNCHANGED queue

\* The lock of a thread that died in a move is overridden.
Lose == /\ \E s \in Lists, e \in Nodes : /\ InState(e, s)
                                         /\ queue' = [queue EXCEPT ![s] = Without(@, e)]
        /\ UNCHANGED <<status, call, res>>

AbsNext == \/ Lose
           \/ \E t \in Threads :
                 \/ Begin(t) \/ Return(t) \/ DoFail(t)
                 \/ DoSetIndexed(t) \/ DoTryToSet(t) \/ DoTryFails(t) \/ DoSetOldest(t)
                 \/ DoTouch(t) \/ DoNothingThere(t) \/ DoOldestIndex(t) \/ DoOldestCount(t)

AbsSpec == AbsInit /\ [][AbsNext]_absvars
=============================================================================
