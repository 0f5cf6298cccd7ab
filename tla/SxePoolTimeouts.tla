-------------------------- MODULE SxePoolTimeouts ---------------------------
(***************************************************************************)
(* sxe_pool_check_timeouts on one pool made by sxe_pool_new_with_timeouts: *)
(* unlocked, timed, used by one thread.  A state is a queue of elements,   *)
(* oldest first (SxeList is shown to implement it), and an element carries *)
(* the time of its last move.  The check reads the clock once, and calls   *)
(* the pool's owner back for each element that it finds overdue; time goes *)
(* on while it runs.                                                       *)
(***************************************************************************)
EXTENDS Integers, Sequences

Seqs == INSTANCE SequencesExt

CONSTANTS TimedNumber, NStates,
          Timeouts,     \* state_timeouts: how long an element may stay in a state, 0 for ever
          Targets,      \* the states that a timeout callback puts elements in
          TimeModulus,  \* SXE_TIME is an unsigned integer modulo this (2^64 in the code)
          MaxClock      \* bound on the clock

TimedNodes == 0 .. (TimedNumber - 1)
States == 0 .. (NStates - 1)
SXE_POOL_NO_INDEX == -1

ASSUME TimedNumberAssumption == TimedNumber \in Nat /\ NStates \in Nat \ {0}
ASSUME TimeoutsAssumption == Timeouts \in [States -> Nat] /\ Targets \subseteq States
ASSUME ClockAssumption == MaxClock \in Nat \ {0} /\ TimeModulus \in Nat
ASSUME TimeModulusAssumption == \A s \in States : TimeModulus > MaxClock + Timeouts[s]

VARIABLES queue, stamp,   \* the elements in each state, and when each was last moved
          clock,          \* what gettimeofday returns
          pc,             \* "idle", "scan" in the check's loop, "callback" in the owner's callback,
                          \* "aborted" when the check's assertion has failed
          took,           \* whether the callback has already moved another element
          time_now, state, index_last, time_last     \* locals of sxe_pool_check_timeouts

locals == <<time_now, state, index_last, time_last>>
timedvars == <<queue, stamp, clock, pc, took, time_now, state, index_last, time_last>>

\* All elements enter state 0, the last of the array first, at one time.
sxe_pool_new_with_timeouts ==
    /\ queue = [s \in States |-> IF s = 0 THEN [i \in 1 .. TimedNumber |-> TimedNumber - i] ELSE <<>>]
    /\ stamp = [n \in TimedNodes |-> clock]

TimedInit == /\ clock = 1
             /\ sxe_pool_new_with_timeouts
             /\ pc = "idle"
             /\ took = FALSE
             /\ time_now = 0 /\ state = 0
             /\ index_last = SXE_POOL_NO_INDEX /\ time_last = 0

\* sxe_pool_set_indexed_element_state_unlocked on a timed pool.
set_element_state(e, old, new) ==
    /\ stamp' = [stamp EXCEPT ![e] = clock]
    /\ \E i \in DOMAIN queue[old] :
          /\ queue[old][i] = e
          /\ queue' = [s \in States |-> LET rest == IF s = old THEN Seqs!RemoveAt(queue[s], i) ELSE queue[s]
                                        IN IF s = new THEN Append(rest, e) ELSE rest]

-----------------------------------------------------------------------------
\* The owner of the pool uses it between checks.
UsePool == /\ pc = "idle"
           /\ \E e \in TimedNodes, old, new \in States : set_element_state(e, old, new)
           /\ UNCHANGED <<clock, pc, took, locals>>

Tick == /\ clock < MaxClock
        /\ clock' = clock + 1
        /\ UNCHANGED <<queue, stamp, pc, took, locals>>

StartCheck == /\ pc = "idle"
              /\ pc' = "scan"
              /\ time_now' = clock
              /\ state' = 0
              /\ index_last' = SXE_POOL_NO_INDEX /\ time_last' = 0
              /\ UNCHANGED <<queue, stamp, clock, took>>

Oldest == Head(queue[state])

\* The state can time out and has an element.
Candidate == Timeouts[state] # 0 /\ queue[state] # <<>>

\* Unsigned subtraction.
Since(t) == (time_now - t) % TimeModulus

\* A mutant of Reached: an element due at this very moment waits.
ReachedLate == Since(stamp[Oldest]) > Timeouts[state]

Reached == Since(stamp[Oldest]) >= Timeouts[state]

Repeated == index_last = Oldest /\ time_last = stamp[Oldest]

\* The state has no timeout, no element, or none that is overdue: the next one.
NextState == /\ pc = "scan" /\ state < NStates
             /\ Candidate => ~Repeated /\ ~Reached
             /\ state' = state + 1
             /\ index_last' = SXE_POOL_NO_INDEX /\ time_last' = 0
             /\ UNCHANGED <<queue, stamp, clock, pc, took, time_now>>

EndCheck == /\ pc = "scan" /\ state = NStates
            /\ pc' = "idle"
            /\ UNCHANGED <<queue, stamp, clock, took, locals>>

\* "callback failed to update state on pool element with timed out"
AssertFails == /\ pc = "scan" /\ state < NStates
               /\ Candidate
               /\ Repeated
               /\ pc' = "aborted"
               /\ UNCHANGED <<queue, stamp, clock, took, locals>>

TimeOut == /\ pc = "scan" /\ state < NStates
           /\ Candidate
           /\ ~Repeated /\ Reached
           /\ pc' = "callback"
           /\ took' = FALSE
           /\ UNCHANGED <<queue, stamp, clock, locals>>

\* The callback uses another element, as a retry on another connection does.
CallbackTakesAnother ==
    /\ pc = "callback" /\ ~took
    /\ \E old \in States \ {state}, new \in Targets :
          queue[old] # <<>> /\ set_element_state(Head(queue[old]), old, new)
    /\ took' = TRUE
    /\ UNCHANGED <<clock, pc, locals>>

\* The callback moves the element that timed out, and returns.
Callback == /\ pc = "callback"
            /\ \E new \in Targets : set_element_state(Oldest, state, new)
            /\ pc' = "scan"
            /\ index_last' = Oldest /\ time_last' = stamp[Oldest]
            /\ UNCHANGED <<clock, took, time_now, state>>

\* The callback breaks its contract and leaves the element as it was.
CallbackKeeps == /\ pc = "callback"
                 /\ pc' = "scan"
                 /\ index_last' = Oldest /\ time_last' = stamp[Oldest]
                 /\ UNCHANGED <<queue, stamp, clock, took, time_now, state>>

CheckStep == NextState \/ EndCheck \/ AssertFails \/ TimeOut \/ CallbackTakesAnother \/ Callback \/ CallbackKeeps

TimedNext == UsePool \/ Tick \/ StartCheck \/ CheckStep

TimedSpec == TimedInit /\ [][TimedNext]_timedvars

-----------------------------------------------------------------------------
StateOf(e) == CHOOSE s \in States : e \in Seqs!ToSet(queue[s])

\* A timeout callback is made only for an element that has been in its state
\* for as long as the state's timeout.
NotEarly == pc = "callback" => /\ stamp[Oldest] <= clock
                               /\ clock - stamp[Oldest] >= Timeouts[state]

\* When a check ends, no element is left that was overdue when it began.
NoneForgotten ==
    pc = "scan" /\ state = NStates =>
        \A e \in TimedNodes : Timeouts[StateOf(e)] # 0 => time_now - stamp[e] < Timeouts[StateOf(e)]

\* A check times out what is due and nothing else, though its callbacks change the
\* queues that it looks at while time goes on.
TimeoutsRight == NotEarly /\ NoneForgotten
=============================================================================
