---------------------------- MODULE SxeSpinlock -----------------------------
(***************************************************************************)
(* sxe-spinlock.h: a word of memory that holds the id of the thread that   *)
(* took the lock, or 0.  A take spins a bounded number of times.  Threads  *)
(* may die at any time (the word may be in memory shared by processes),    *)
(* and a lock that a dead thread held is freed with sxe_spinlock_force.    *)
(***************************************************************************)
EXTENDS Integers

CONSTANTS Threads,     \* thread ids, none of them 0
          SpinMax      \* sxe_spinlock_count_max

ASSUME ThreadsAssumption == Threads \subseteq Nat \ {0}
ASSUME SpinMaxAssumption == SpinMax \in Nat \ {0}

VARIABLES lock,        \* SXE_SPINLOCK.lock
          count,       \* how often each thread's take has spun
          phase,       \* where each thread is: out of a take, in one, or holding the lock
          alive        \* the threads that have not died

spinvars == <<lock, count, phase, alive>>

Phases == {"out", "take", "hold"}

sxe_spinlock_construct == lock = 0

\* A mutant of take_swap: the lock is taken whoever holds it.
take_swap_blind(t) == /\ count[t] < SpinMax
                      /\ lock' = t
                      /\ UNCHANGED count

\* The compare and swap of sxe_spinlock_take finds the lock free.
take_swap(t) == /\ count[t] < SpinMax
                /\ lock = 0
                /\ lock' = t
                /\ UNCHANGED count

\* A mutant of take_spin that does not count.
take_spin_forever(t) == /\ count[t] < SpinMax
                        /\ lock \notin {0, t}
                        /\ UNCHANGED <<lock, count>>

\* The compare and swap finds another thread's id: count and yield.
take_spin(t) == /\ count[t] < SpinMax
                /\ lock \notin {0, t}
                /\ count' = [count EXCEPT ![t] = @ + 1]
                /\ UNCHANGED lock

\* SXE_SPINLOCK_STATUS_NOT_TAKEN: the maximum spin count is reached.
take_fail(t) == /\ count[t] >= SpinMax
                /\ UNCHANGED <<lock, count>>

\* SXE_SPINLOCK_STATUS_ALREADY_TAKEN: this thread holds the lock.
take_already(t) == /\ count[t] < SpinMax
                   /\ lock = t
                   /\ UNCHANGED <<lock, count>>

\* The assertion of sxe_spinlock_give: the lock holds our id.
GiveAssert(t) == lock = t

sxe_spinlock_give(t) == /\ lock' = 0
                        /\ UNCHANGED count

sxe_spinlock_force(tid) == /\ lock' = tid
                           /\ UNCHANGED count

-----------------------------------------------------------------------------
SpinInit == /\ sxe_spinlock_construct
            /\ count = [t \in Threads |-> 0]
            /\ phase = [t \in Threads |-> "out"]
            /\ alive = Threads

Goto(t, p) == phase' = [phase EXCEPT ![t] = p]

\* A thread calls sxe_spinlock_take, whether or not it holds the lock.
StartTake(t) == /\ phase[t] \in {"out", "hold"}
                /\ count' = [count EXCEPT ![t] = 0]
                /\ Goto(t, "take")
                /\ UNCHANGED <<lock, alive>>

Swap(t) == phase[t] = "take" /\ take_swap(t) /\ Goto(t, "hold") /\ UNCHANGED alive

Spin(t) == phase[t] = "take" /\ take_spin(t) /\ UNCHANGED <<phase, alive>>

Fail(t) == phase[t] = "take" /\ take_fail(t) /\ Goto(t, "out") /\ UNCHANGED alive

Already(t) == phase[t] = "take" /\ take_already(t) /\ Goto(t, "hold") /\ UNCHANGED alive

Give(t) == /\ phase[t] = "hold"
           /\ GiveAssert(t)
           /\ sxe_spinlock_give(t)
           /\ Goto(t, "out")
           /\ UNCHANGED alive

Die(t) == alive' = alive \ {t} /\ UNCHANGED <<lock, count, phase>>

\* sxe_pool_override_locked, called as its note asks: nobody alive holds the lock.
Override == /\ lock \in Threads \ alive
            /\ sxe_spinlock_force(0)
            /\ UNCHANGED <<phase, alive>>

SpinNext == \/ Override
            \/ \E t \in alive : \/ StartTake(t) \/ Swap(t) \/ Spin(t) \/ Fail(t)
                                \/ Already(t) \/ Give(t) \/ Die(t)

SpinSpec == SpinInit /\ [][SpinNext]_spinvars

-----------------------------------------------------------------------------
\* The lock word is a thread's id or 0, and sxe_spinlock_take never spins more
\* than the maximum.
SpinTypeOK == /\ lock \in Threads \cup {0}
              /\ count \in [Threads -> 0 .. SpinMax]
              /\ phase \in [Threads -> Phases]
              /\ alive \in SUBSET Threads

\* The lock word names every live thread that is in a critical section, so
\* two of them are never in one together and sxe_spinlock_give's assertion
\* holds.
MutualExclusion == \A t \in alive : phase[t] = "hold" => lock = t
=============================================================================
