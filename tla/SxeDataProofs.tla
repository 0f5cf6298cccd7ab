--------------------------- MODULE SxeDataProofs ----------------------------
(***************************************************************************)
(* What threads and callbacks share: the spinlock, the timeouts of a pool, *)
(* the ensembles of databases, the operations on values and the log.       *)
(***************************************************************************)
EXTENDS SxeSpinlock, SxePoolTimeouts, SxeCdbEnsemble, SxeJitsonOper, SxeLog, FiniteSetTheorems,
        SequenceTheorems, TLAPS

-----------------------------------------------------------------------------
(* The spinlock excludes, for any threads and any spin limit, although     *)
(* threads die with the lock and others free it.                           *)

\* sxe_spinlock_take never counts past its limit, and the lock word holds a
\* thread's id or 0.
THEOREM SpinTypeCorrect == SpinSpec => []SpinTypeOK
<1> USE ThreadsAssumption, SpinMaxAssumption
<1>1. SpinInit => SpinTypeOK
  BY DEF SpinInit, SpinTypeOK, sxe_spinlock_construct, Phases
<1>2. SpinTypeOK /\ [SpinNext]_spinvars => SpinTypeOK'
  <2> SUFFICES ASSUME SpinTypeOK, [SpinNext]_spinvars PROVE SpinTypeOK'
    OBVIOUS
  <2> USE DEF SpinTypeOK, Phases, Goto
  <2>1. CASE Override
    BY <2>1 DEF Override, sxe_spinlock_force
  <2>2. ASSUME NEW t \in alive, StartTake(t) PROVE SpinTypeOK'
    BY <2>2 DEF StartTake
  <2>3. ASSUME NEW t \in alive, Swap(t) PROVE SpinTypeOK'
    BY <2>3 DEF Swap, take_swap
  <2>4. ASSUME NEW t \in alive, Spin(t) PROVE SpinTypeOK'
    BY <2>4 DEF Spin, take_spin
  <2>5. ASSUME NEW t \in alive, Fail(t) PROVE SpinTypeOK'
    BY <2>5 DEF Fail, take_fail
  <2>6. ASSUME NEW t \in alive, Already(t) PROVE SpinTypeOK'
    BY <2>6 DEF Already, take_already
  <2>7. ASSUME NEW t \in alive, Give(t) PROVE SpinTypeOK'
    BY <2>7 DEF Give, sxe_spinlock_give
  <2>8. ASSUME NEW t \in alive, Die(t) PROVE SpinTypeOK'
    BY <2>8 DEF Die
  <2>9. CASE UNCHANGED spinvars
    BY <2>9 DEF spinvars
  <2> QED
    BY <2>1, <2>2, <2>3, <2>4, <2>5, <2>6, <2>7, <2>8, <2>9 DEF SpinNext
<1> QED
  BY <1>1, <1>2, PTL DEF SpinSpec

\* No two live threads are in a critical section of the same lock, whoever
\* died holding it and whenever it was forced: MutualExclusion is inductive
\* once the type is known.
THEOREM SpinMutualExclusion == SpinSpec => []MutualExclusion
<1> USE ThreadsAssumption, SpinMaxAssumption
<1>1. SpinInit => MutualExclusion
  BY DEF SpinInit, MutualExclusion
<1>2. SpinTypeOK /\ MutualExclusion /\ [SpinNext]_spinvars => MutualExclusion'
  <2> SUFFICES ASSUME SpinTypeOK, MutualExclusion, [SpinNext]_spinvars PROVE MutualExclusion'
    OBVIOUS
  <2> USE DEF SpinTypeOK, Phases, Goto, MutualExclusion
  <2>1. CASE Override
    BY <2>1 DEF Override, sxe_spinlock_force
  <2>2. ASSUME NEW t \in alive, StartTake(t) PROVE MutualExclusion'
    BY <2>2 DEF StartTake
  <2>3. ASSUME NEW t \in alive, Swap(t) PROVE MutualExclusion'
    BY <2>3 DEF Swap, take_swap
  <2>4. ASSUME NEW t \in alive, Spin(t) PROVE MutualExclusion'
    BY <2>4 DEF Spin, take_spin
  <2>5. ASSUME NEW t \in alive, Fail(t) PROVE MutualExclusion'
    BY <2>5 DEF Fail, take_fail
  <2>6. ASSUME NEW t \in alive, Already(t) PROVE MutualExclusion'
    BY <2>6 DEF Already, take_already
  <2>7. ASSUME NEW t \in alive, Give(t) PROVE MutualExclusion'
    BY <2>7 DEF Give, GiveAssert, sxe_spinlock_give
  <2>8. ASSUME NEW t \in alive, Die(t) PROVE MutualExclusion'
    BY <2>8 DEF Die
  <2>9. CASE UNCHANGED spinvars
    BY <2>9 DEF spinvars
  <2> QED
    BY <2>1, <2>2, <2>3, <2>4, <2>5, <2>6, <2>7, <2>8, <2>9 DEF SpinNext
<1> QED
  BY <1>1, <1>2, SpinTypeCorrect, PTL DEF SpinSpec

-----------------------------------------------------------------------------
(* sxe_pool_check_timeouts times out what is due and nothing else, for any *)
(* elements, states, timeouts and course of the clock, when its callbacks  *)
(* put elements only in states that do not time out.  (The run             *)
(* timeouts_retry shows what happens when they do not.)                    *)

TimedTypeOK ==
    /\ queue \in [States -> Seq(TimedNodes)]
    /\ stamp \in [TimedNodes -> Nat]
    /\ clock \in Nat /\ clock <= MaxClock
    /\ pc \in {"idle", "scan", "callback", "aborted"}
    /\ time_now \in Nat /\ time_now <= clock
    /\ state \in 0 .. NStates

\* Every element is in one place.
PlacedOnce ==
    /\ \A e \in TimedNodes : \E s \in States : \E i \in 1 .. Len(queue[s]) : queue[s][i] = e
    /\ \A s, r \in States : \A i \in 1 .. Len(queue[s]), j \in 1 .. Len(queue[r]) : queue[s][i] = queue[r][j] => s = r /\ i = j

\* A state's elements are in the order of their last moves, none of them in the
\* future.
OldestFirst ==
    /\ \A e \in TimedNodes : stamp[e] <= clock
    /\ \A s \in States : \A i, j \in 1 .. Len(queue[s]) : i <= j => stamp[queue[s][i]] <= stamp[queue[s][j]]

\* What is in a state with a timeout during a check was there when it began, so
\* that the unsigned difference of the times is the difference.
NoneAhead ==
    pc # "idle" => \A s \in States : Timeouts[s] # 0 => \A i \in 1 .. Len(queue[s]) : stamp[queue[s][i]] <= time_now

\* The states that the check has passed have nothing that is overdue.
PassedAreDone ==
    pc # "idle" => \A s \in States : s < state /\ Timeouts[s] # 0 =>
                       \A i \in 1 .. Len(queue[s]) : time_now - stamp[queue[s][i]] < Timeouts[s]

\* The element that the callback is told of stays the oldest of its state, and
\* overdue, while the callback moves another.
CallbackDue ==
    pc = "callback" => /\ state \in States /\ Timeouts[state] # 0 /\ Len(queue[state]) >= 1
                       /\ time_now - stamp[queue[state][1]] >= Timeouts[state]

TimedInv == TimedTypeOK /\ PlacedOnce /\ OldestFirst /\ NoneAhead /\ PassedAreDone /\ CallbackDue

\* The callbacks put elements only in states that do not time out.
TargetsUntimed == \A s \in Targets : Timeouts[s] = 0

-----------------------------------------------------------------------------
(* A move of the element at place i of one state to the end of another.    *)

From(old, i, s, j) == IF s = old /\ j >= i THEN j + 1 ELSE j

\* How many of a state's elements stay.
Stay(old, s) == IF s = old THEN Len(queue[s]) - 1 ELSE Len(queue[s])

Moved(e, old, new, i) ==
    /\ queue[old][i] = e
    /\ \A s \in States :
          /\ Stay(old, s) \in Nat
          /\ Len(queue'[s]) = IF s = new THEN Stay(old, s) + 1 ELSE Stay(old, s)
          /\ \A j \in 1 .. Stay(old, s) : queue'[s][j] = queue[s][From(old, i, s, j)]
          /\ s = new => queue'[s][Stay(old, s) + 1] = e

LEMMA RemoveOne ==
    ASSUME NEW q \in Seq(TimedNodes), NEW i \in 1 .. Len(q)
    PROVE  /\ Seqs!RemoveAt(q, i) \in Seq(TimedNodes) /\ Len(Seqs!RemoveAt(q, i)) = Len(q) - 1
           /\ \A j \in 1 .. Len(q) - 1 : Seqs!RemoveAt(q, i)[j] = q[IF j >= i THEN j + 1 ELSE j]
<1> DEFINE a == SubSeq(q, 1, i - 1)
<1> DEFINE b == SubSeq(q, i + 1, Len(q))
<1>1. a \in Seq(TimedNodes) /\ Len(a) = i - 1 /\ \A j \in 1 .. i - 1 : a[j] = q[j]
  OBVIOUS
<1>2. b \in Seq(TimedNodes) /\ Len(b) = Len(q) - i /\ \A j \in 1 .. Len(q) - i : b[j] = q[i + j]
  OBVIOUS
<1>3. Seqs!RemoveAt(q, i) = a \o b
  BY DEF Seqs!RemoveAt
<1> HIDE DEF a, b
<1>4. Len(q) \in Nat /\ i \in Nat /\ i >= 1 /\ i <= Len(q)
  OBVIOUS
<1>5. a \o b \in Seq(TimedNodes) /\ Len(a \o b) = Len(q) - 1
  <2>1. a \o b \in Seq(TimedNodes) /\ Len(a \o b) = Len(a) + Len(b)
    BY <1>1, <1>2, ConcatProperties
  <2>2. (i - 1) + (Len(q) - i) = Len(q) - 1
    BY <1>4
  <2> QED
    BY <1>1, <1>2, <2>1, <2>2
<1>6. ASSUME NEW j \in 1 .. Len(q) - 1 PROVE (a \o b)[j] = q[IF j >= i THEN j + 1 ELSE j]
  <2>1. CASE j < i
    BY <1>1, <1>2, <1>4, <2>1
  <2>2. CASE j >= i
    <3>1. j - (i - 1) \in 1 .. Len(q) - i /\ i + (j - (i - 1)) = j + 1
      BY <1>4, <2>2
    <3>2. (a \o b)[j] = b[j - Len(a)]
      BY <1>1, <1>2, <1>4, <2>2
    <3> QED
      BY <1>1, <1>2, <2>2, <3>1, <3>2
  <2>3. j \in Int /\ i \in Int
    OBVIOUS
  <2>4. j < i \/ j >= i
    BY <2>3
  <2> QED
    BY <2>1, <2>2, <2>4
<1> QED
  BY <1>3, <1>5, <1>6

\* set_element_state keeps the order of those that stay, and e is the last of
\* its new state.
LEMMA MoveFacts ==
    ASSUME TimedInv, NEW e, NEW old \in States, NEW new \in States, set_element_state(e, old, new)
    PROVE  /\ e \in TimedNodes
           /\ queue' \in [States -> Seq(TimedNodes)]
           /\ \A n \in TimedNodes : stamp'[n] = IF n = e THEN clock ELSE stamp[n]
           /\ stamp' \in [TimedNodes -> Nat]
           /\ \E i \in 1 .. Len(queue[old]) : Moved(e, old, new, i)
<1>1. TimedTypeOK
  BY DEF TimedInv
<1>2. PICK i \in 1 .. Len(queue[old]) :
          /\ queue[old][i] = e
          /\ queue' = [s \in States |-> LET rest == IF s = old THEN Seqs!RemoveAt(queue[s], i) ELSE queue[s]
                                        IN IF s = new THEN Append(rest, e) ELSE rest]
  <2>1. DOMAIN queue[old] = 1 .. Len(queue[old])
    <3>1. queue[old] \in Seq(TimedNodes)
      BY <1>1 DEF TimedTypeOK
    <3> QED
      BY <3>1
  <2> QED
    BY <2>1 DEF set_element_state
<1>3. stamp' = [stamp EXCEPT ![e] = clock]
  BY DEF set_element_state
<1>4. e \in TimedNodes
  BY <1>1, <1>2 DEF TimedTypeOK
<1> DEFINE rest(s) == IF s = old THEN Seqs!RemoveAt(queue[s], i) ELSE queue[s]
<1>5. ASSUME NEW s \in States
      PROVE  /\ rest(s) \in Seq(TimedNodes) /\ Len(rest(s)) = Stay(old, s) /\ Stay(old, s) \in Nat
             /\ \A j \in 1 .. Stay(old, s) : rest(s)[j] = queue[s][From(old, i, s, j)]
  <2>1. queue[s] \in Seq(TimedNodes) /\ Len(queue[s]) \in Nat
    BY <1>1 DEF TimedTypeOK
  <2>2. CASE s = old
    <3>1. Len(queue[s]) >= 1
      BY <1>2, <2>1, <2>2
    <3>2. PICK q, l : q = queue[s] /\ l = Len(queue[s])
      OBVIOUS
    <3>3. /\ q \in Seq(TimedNodes) /\ l = Len(q) /\ l \in Nat /\ i \in 1 .. l
          /\ rest(s) = Seqs!RemoveAt(q, i) /\ Stay(old, s) = l - 1
      BY <1>2, <2>1, <2>2, <3>2 DEF Stay
    <3>4. /\ Seqs!RemoveAt(q, i) \in Seq(TimedNodes) /\ Len(Seqs!RemoveAt(q, i)) = l - 1
          /\ \A j \in 1 .. (l - 1) : Seqs!RemoveAt(q, i)[j] = q[IF j < i THEN j ELSE j + 1]
      BY <3>3, RemoveOne
    <3> QED
      BY <2>2, <3>2, <3>3, <3>4 DEF From
  <2>3. CASE s # old
    BY <2>1, <2>3 DEF Stay, From
  <2> QED
    BY <2>2, <2>3
<1>6. \A s \in States : queue'[s] = IF s = new THEN Append(rest(s), e) ELSE rest(s)
  BY <1>2
<1>7. DOMAIN queue' = States /\ queue' = [s \in States |-> queue'[s]]
  BY <1>2
<1> HIDE DEF rest
<1>8. ASSUME NEW s \in States
      PROVE  /\ queue'[s] \in Seq(TimedNodes)
             /\ Len(queue'[s]) = IF s = new THEN Stay(old, s) + 1 ELSE Stay(old, s)
             /\ \A j \in 1 .. Stay(old, s) : queue'[s][j] = queue[s][From(old, i, s, j)]
             /\ s = new => queue'[s][Stay(old, s) + 1] = e
  <2>1. PICK r : r = rest(s)
    OBVIOUS
  <2>2. /\ r \in Seq(TimedNodes) /\ Len(r) = Stay(old, s) /\ Stay(old, s) \in Nat
        /\ \A j \in 1 .. Stay(old, s) : r[j] = queue[s][From(old, i, s, j)]
    BY <1>5, <2>1
  <2>3. CASE s = new
    <3>1. queue'[s] = Append(r, e)
      BY <1>6, <2>1, <2>3
    <3>2. /\ Append(r, e) \in Seq(TimedNodes) /\ Len(Append(r, e)) = Len(r) + 1 /\ Append(r, e)[Len(r) + 1] = e
          /\ \A j \in 1 .. Len(r) : Append(r, e)[j] = r[j]
      BY <1>4, <2>2
    <3> QED
      BY <2>2, <2>3, <3>1, <3>2
  <2>4. CASE s # new
    BY <1>6, <2>1, <2>2, <2>4
  <2> QED
    BY <2>3, <2>4
<1>9. stamp' \in [TimedNodes -> Nat] /\ \A n \in TimedNodes : stamp'[n] = IF n = e THEN clock ELSE stamp[n]
  BY <1>1, <1>3, <1>4 DEF TimedTypeOK
<1>10. queue' \in [States -> Seq(TimedNodes)]
  BY <1>7, <1>8
<1>11. Moved(e, old, new, i)
  BY <1>2, <1>5, <1>8 DEF Moved
<1> QED
  BY <1>4, <1>9, <1>10, <1>11
\* Nothing comes to a state but e to its new one, and the stamps of those that
\* were there stay.
OnlyNew(e, new) ==
    \A s \in States : \A j \in 1 .. Len(queue'[s]) :
        \/ s = new /\ queue'[s][j] = e
        \/ \E k \in 1 .. Len(queue[s]) : queue'[s][j] = queue[s][k] /\ stamp'[queue'[s][j]] = stamp[queue[s][k]]

Untouched(old, new) ==
    \A s \in States \ {old, new} : queue'[s] = queue[s] /\ \A j \in 1 .. Len(queue[s]) : stamp'[queue[s][j]] = stamp[queue[s][j]]

\* The element's place before and after, and that the others keep theirs, in
\* terms of the places alone.
LEMMA MoveKeeps ==
    ASSUME TimedInv, NEW e, NEW old \in States, NEW new \in States, set_element_state(e, old, new), clock' = clock
    PROVE  /\ queue' \in [States -> Seq(TimedNodes)] /\ stamp' \in [TimedNodes -> Nat] /\ e \in TimedNodes
           /\ PlacedOnce' /\ OldestFirst'
           /\ OnlyNew(e, new) /\ Untouched(old, new)
<1>1. TimedTypeOK /\ PlacedOnce /\ OldestFirst
  BY DEF TimedInv
<1>2. /\ e \in TimedNodes
      /\ queue' \in [States -> Seq(TimedNodes)]
      /\ \A n \in TimedNodes : stamp'[n] = IF n = e THEN clock ELSE stamp[n]
      /\ stamp' \in [TimedNodes -> Nat]
  BY MoveFacts
<1>i. PICK i \in 1 .. Len(queue[old]) : Moved(e, old, new, i)
  BY MoveFacts
<1>3. /\ queue[old][i] = e
      /\ \A s \in States :
            /\ Stay(old, s) \in Nat
            /\ Len(queue'[s]) = IF s = new THEN Stay(old, s) + 1 ELSE Stay(old, s)
            /\ \A j \in 1 .. Stay(old, s) : queue'[s][j] = queue[s][From(old, i, s, j)]
            /\ s = new => queue'[s][Stay(old, s) + 1] = e
  BY <1>i DEF Moved
<1>4. /\ \A s \in States : Len(queue[s]) \in Nat /\ \A k \in 1 .. Len(queue[s]) : queue[s][k] \in TimedNodes
      /\ \A s \in States : Len(queue'[s]) \in Nat /\ queue[s] \in Seq(TimedNodes) /\ queue'[s] \in Seq(TimedNodes)
  BY <1>1, <1>2 DEF TimedTypeOK
<1>5. i \in Nat /\ i >= 1 /\ i <= Len(queue[old])
  BY <1>4
\* Those that stay.
<1>6. ASSUME NEW s \in States, NEW j \in 1 .. Stay(old, s)
      PROVE  /\ From(old, i, s, j) \in 1 .. Len(queue[s])
             /\ queue'[s][j] = queue[s][From(old, i, s, j)]
             /\ queue'[s][j] # e /\ queue'[s][j] \in TimedNodes
             /\ s = old => From(old, i, s, j) # i
             /\ stamp'[queue'[s][j]] = stamp[queue[s][From(old, i, s, j)]]
  <2>1. From(old, i, s, j) \in 1 .. Len(queue[s]) /\ (s = old => From(old, i, s, j) # i)
    BY <1>4, <1>5 DEF From, Stay
  <2>2. queue'[s][j] = queue[s][From(old, i, s, j)]
    BY <1>3
  <2>3. queue[s][From(old, i, s, j)] # e
    BY <1>1, <1>3, <2>1 DEF PlacedOnce
  <2>4. queue'[s][j] \in TimedNodes
    BY <1>4, <2>1, <2>2
  <2> QED
    BY <1>2, <2>1, <2>2, <2>3, <2>4
<1>7. ASSUME NEW s \in States, NEW j \in 1 .. Len(queue'[s]), j \notin 1 .. Stay(old, s)
      PROVE  s = new /\ j = Stay(old, s) + 1 /\ queue'[s][j] = e
  BY <1>3, <1>4, <1>7
<1>8. ASSUME NEW s \in States, NEW j \in 1 .. Stay(old, s), NEW l \in 1 .. Stay(old, s)
      PROVE  /\ j <= l => From(old, i, s, j) <= From(old, i, s, l)
             /\ From(old, i, s, j) = From(old, i, s, l) => j = l
  <2>1. j \in Nat /\ l \in Nat
    BY <1>3
  <2> QED
    BY <1>5, <2>1 DEF From
<1>9. PlacedOnce'
  <2>1. ASSUME NEW n \in TimedNodes PROVE \E s \in States : \E j \in 1 .. Len(queue'[s]) : queue'[s][j] = n
    <3>1. CASE n = e
      <4>1. Stay(old, new) + 1 \in 1 .. Len(queue'[new]) /\ queue'[new][Stay(old, new) + 1] = n
        BY <1>3, <3>1
      <4> QED
        BY <4>1
    <3>2. CASE n # e
      <4>0. PICK s \in States : \E k \in 1 .. Len(queue[s]) : queue[s][k] = n
        BY <1>1 DEF PlacedOnce
      <4>1. PICK k \in 1 .. Len(queue[s]) : queue[s][k] = n
        BY <4>0
      <4>2. k \in Nat /\ k >= 1 /\ k <= Len(queue[s]) /\ (s = old => k # i)
        BY <1>3, <1>4, <3>2, <4>1
      <4>3. PICK j : j = IF s = old /\ k > i THEN k - 1 ELSE k
        OBVIOUS
      <4>4. j \in 1 .. Stay(old, s) /\ From(old, i, s, j) = k
        BY <1>4, <1>5, <4>2, <4>3 DEF Stay, From
      <4>5. j \in 1 .. Len(queue'[s])
        BY <1>3, <1>4, <4>4
      <4> QED
        BY <1>6, <4>1, <4>4, <4>5
    <3> QED
      BY <3>1, <3>2
  <2>2. ASSUME NEW s \in States, NEW r \in States, NEW j \in 1 .. Len(queue'[s]), NEW l \in 1 .. Len(queue'[r]),
               queue'[s][j] = queue'[r][l]
        PROVE  s = r /\ j = l
    <3>1. CASE j \in 1 .. Stay(old, s) /\ l \in 1 .. Stay(old, r)
      <4>1. s = r /\ From(old, i, s, j) = From(old, i, r, l)
        BY <1>1, <1>6, <2>2, <3>1 DEF PlacedOnce
      <4> QED
        BY <1>8, <3>1, <4>1
    <3>2. CASE j \notin 1 .. Stay(old, s)
      <4>1. queue'[s][j] = e /\ s = new /\ j = Stay(old, s) + 1
        BY <1>7, <3>2
      <4>2. l \notin 1 .. Stay(old, r)
        BY <1>6, <2>2, <4>1
      <4> QED
        BY <1>7, <4>1, <4>2
    <3>3. CASE l \notin 1 .. Stay(old, r)
      <4>1. queue'[r][l] = e /\ r = new /\ l = Stay(old, r) + 1
        BY <1>7, <3>3
      <4>2. j \notin 1 .. Stay(old, s)
        BY <1>6, <2>2, <4>1
      <4> QED
        BY <1>7, <4>1, <4>2
    <3> QED
      BY <3>1, <3>2, <3>3
  <2> QED
    BY <2>1, <2>2 DEF PlacedOnce
<1>10. OldestFirst'
  <2>1. ASSUME NEW n \in TimedNodes PROVE stamp'[n] <= clock'
    <3>1. clock \in Nat /\ clock <= clock /\ clock' = clock /\ stamp[n] <= clock
      BY <1>1 DEF OldestFirst, TimedTypeOK
    <3> QED
      BY <1>2, <3>1
  <2>2. ASSUME NEW s \in States, NEW j \in 1 .. Len(queue'[s]), NEW l \in 1 .. Len(queue'[s]), j <= l
        PROVE  stamp'[queue'[s][j]] <= stamp'[queue'[s][l]]
    <3>1. CASE l \in 1 .. Stay(old, s)
      <4>1. j \in 1 .. Stay(old, s)
        BY <1>3, <1>4, <2>2, <3>1
      <4> QED
        BY <1>1, <1>6, <1>8, <2>2, <3>1, <4>1 DEF OldestFirst
    <3>2. CASE l \notin 1 .. Stay(old, s)
      <4>1. stamp'[queue'[s][l]] = clock
        BY <1>2, <1>7, <3>2
      <4>2. queue'[s][j] \in TimedNodes
        BY <1>4
      <4> QED
        BY <2>1, <4>1, <4>2
    <3> QED
      BY <3>1, <3>2
  <2> QED
    BY <2>1, <2>2 DEF OldestFirst
<1>11. ASSUME NEW s \in States, NEW j \in 1 .. Len(queue'[s])
       PROVE  \/ s = new /\ queue'[s][j] = e
              \/ \E k \in 1 .. Len(queue[s]) : queue'[s][j] = queue[s][k] /\ stamp'[queue'[s][j]] = stamp[queue[s][k]]
  BY <1>6, <1>7
<1>12. ASSUME NEW s \in States \ {old, new}
       PROVE  queue'[s] = queue[s] /\ \A j \in 1 .. Len(queue[s]) : stamp'[queue[s][j]] = stamp[queue[s][j]]
  <2>1. Stay(old, s) = Len(queue[s]) /\ Len(queue'[s]) = Len(queue[s])
    BY <1>3 DEF Stay
  <2>2. \A j \in 1 .. Len(queue[s]) : queue'[s][j] = queue[s][j] /\ stamp'[queue[s][j]] = stamp[queue[s][j]]
    BY <1>6, <2>1 DEF From
  <2>3. queue'[s] = queue[s]
    <3>1. PICK a, b : a = queue[s] /\ b = queue'[s]
      OBVIOUS
    <3>2. a \in Seq(TimedNodes) /\ b \in Seq(TimedNodes) /\ Len(a) = Len(b) /\ \A j \in 1 .. Len(a) : a[j] = b[j]
      BY <1>4, <2>1, <2>2, <3>1
    <3>3. a = b
      BY <3>2
    <3> QED
      BY <3>1, <3>3
  <2> QED
    BY <2>2, <2>3
<1>13. OnlyNew(e, new) /\ Untouched(old, new)
  BY <1>11, <1>12 DEF OnlyNew, Untouched
<1> QED
  BY <1>2, <1>9, <1>10, <1>13
-----------------------------------------------------------------------------
(* Each kind of step.                                                      *)

LEMMA OldestIsFirst ==
    ASSUME TimedInv, state \in States, queue[state] # <<>>
    PROVE  /\ Oldest = queue[state][1] /\ Len(queue[state]) \in Nat /\ Len(queue[state]) >= 1
           /\ Oldest \in TimedNodes
<1>1. PICK q : q = queue[state]
  OBVIOUS
<1>2. q \in Seq(TimedNodes) /\ q # <<>>
  BY <1>1 DEF TimedInv, TimedTypeOK
<1>3. Head(q) = q[1] /\ Len(q) \in Nat /\ Len(q) >= 1 /\ q[1] \in TimedNodes
  BY <1>2
<1> QED
  BY <1>1, <1>3 DEF Oldest

\* During a check, the unsigned subtraction does not wrap.
LEMMA SinceIsDifference ==
    ASSUME TimedInv, pc = "scan", state \in States, Candidate
    PROVE  /\ Since(stamp[Oldest]) = time_now - stamp[Oldest] /\ stamp[Oldest] \in Nat /\ time_now \in Nat
           /\ Timeouts[state] \in Nat
<1>1. Oldest = queue[state][1] /\ 1 \in 1 .. Len(queue[state]) /\ Oldest \in TimedNodes
  BY OldestIsFirst DEF Candidate
<1>2. stamp[Oldest] <= time_now /\ stamp[Oldest] \in Nat
  BY <1>1 DEF TimedInv, NoneAhead, Candidate, TimedTypeOK
<1>3. Timeouts[state] \in Nat /\ MaxClock \in Nat /\ TimeModulus \in Nat /\ TimeModulus > MaxClock + Timeouts[state]
  BY TimeoutsAssumption, ClockAssumption, TimeModulusAssumption
<1>4. time_now \in Nat /\ clock \in Nat /\ time_now <= clock /\ clock <= MaxClock
  BY DEF TimedInv, TimedTypeOK
<1>5. PICK d, m : d = time_now - stamp[Oldest] /\ m = TimeModulus
  OBVIOUS
<1>6. d \in Nat /\ m \in Nat /\ d < m
  BY <1>2, <1>3, <1>4, <1>5
<1>7. d % m = d
  BY <1>6
<1> QED
  BY <1>2, <1>3, <1>4, <1>5, <1>7 DEF Since

LEMMA UseKeeps == ASSUME TimedInv, UsePool PROVE TimedInv'
<1>1. PICK e \in TimedNodes, old \in States, new \in States : set_element_state(e, old, new)
  BY DEF UsePool
<1>2. pc = "idle" /\ UNCHANGED <<clock, pc, time_now, state>>
  BY DEF UsePool, locals
<1>3. queue' \in [States -> Seq(TimedNodes)] /\ stamp' \in [TimedNodes -> Nat] /\ PlacedOnce' /\ OldestFirst'
  BY <1>1, <1>2, MoveKeeps
<1>4. TimedTypeOK'
  BY <1>2, <1>3 DEF TimedInv, TimedTypeOK
<1>5. NoneAhead' /\ PassedAreDone' /\ CallbackDue'
  BY <1>2 DEF NoneAhead, PassedAreDone, CallbackDue
<1> QED
  BY <1>3, <1>4, <1>5 DEF TimedInv

LEMMA TickKeeps == ASSUME TimedInv, Tick PROVE TimedInv'
<1>1. clock < MaxClock /\ clock' = clock + 1 /\ UNCHANGED <<queue, stamp, pc, time_now, state>>
  BY DEF Tick, locals
<1>2. TimedTypeOK'
  BY <1>1, ClockAssumption DEF TimedInv, TimedTypeOK
<1>3. OldestFirst'
  <2>1. \A e \in TimedNodes : stamp[e] \in Nat /\ stamp[e] <= clock /\ clock \in Nat
    BY DEF TimedInv, TimedTypeOK, OldestFirst
  <2>2. \A e \in TimedNodes : stamp[e] <= clock + 1
    BY <2>1
  <2> QED
    BY <1>1, <2>2 DEF TimedInv, OldestFirst
<1>4. PlacedOnce' /\ NoneAhead' /\ PassedAreDone' /\ CallbackDue'
  BY <1>1 DEF TimedInv, PlacedOnce, NoneAhead, PassedAreDone, CallbackDue
<1> QED
  BY <1>2, <1>3, <1>4 DEF TimedInv

LEMMA StartCheckKeeps == ASSUME TimedInv, StartCheck PROVE TimedInv'
<1>1. pc' = "scan" /\ time_now' = clock /\ state' = 0 /\ UNCHANGED <<queue, stamp, clock>>
  BY DEF StartCheck
<1>2. TimedTypeOK'
  BY <1>1, TimedNumberAssumption DEF TimedInv, TimedTypeOK
<1>3. PlacedOnce' /\ OldestFirst'
  BY <1>1 DEF TimedInv, PlacedOnce, OldestFirst
<1>4. NoneAhead'
  <2>1. \A s \in States : \A i \in 1 .. Len(queue[s]) : queue[s][i] \in TimedNodes
    BY DEF TimedInv, TimedTypeOK
  <2> QED
    BY <1>1, <2>1 DEF TimedInv, OldestFirst, NoneAhead
<1>5. PassedAreDone' /\ CallbackDue'
  BY <1>1 DEF PassedAreDone, CallbackDue, States
<1> QED
  BY <1>2, <1>3, <1>4, <1>5 DEF TimedInv

\* The oldest of the state is not due, so none is.
LEMMA NextStateKeeps == ASSUME TimedInv, NextState PROVE TimedInv'
<1>1. /\ pc = "scan" /\ state < NStates /\ state' = state + 1
      /\ UNCHANGED <<queue, stamp, clock, pc, time_now>>
      /\ Candidate => ~Reached
  BY DEF NextState
<1>2. state \in States /\ state \in Nat /\ state + 1 \in 0 .. NStates
  BY <1>1, TimedNumberAssumption DEF TimedInv, TimedTypeOK, States
<1>3. TimedTypeOK'
  BY <1>1, <1>2 DEF TimedInv, TimedTypeOK
<1>4. PlacedOnce' /\ OldestFirst' /\ NoneAhead' /\ CallbackDue'
  BY <1>1 DEF TimedInv, PlacedOnce, OldestFirst, NoneAhead, CallbackDue
<1>5. ASSUME Timeouts[state] # 0, NEW i \in 1 .. Len(queue[state])
      PROVE  time_now - stamp[queue[state][i]] < Timeouts[state]
  <2>1. queue[state] # <<>>
    <3>1. PICK q : q = queue[state]
      OBVIOUS
    <3>2. q # <<>>
      BY <1>5, <3>1
    <3> QED
      BY <3>1, <3>2
  <2>2. Candidate
    BY <1>5, <2>1 DEF Candidate
  <2>3. /\ Since(stamp[Oldest]) = time_now - stamp[Oldest] /\ stamp[Oldest] \in Nat /\ time_now \in Nat
        /\ Timeouts[state] \in Nat
    BY <1>1, <1>2, <2>2, SinceIsDifference
  <2>4. time_now - stamp[Oldest] < Timeouts[state]
    BY <1>1, <2>2, <2>3 DEF Reached
  <2>5. Oldest = queue[state][1] /\ Len(queue[state]) \in Nat /\ Len(queue[state]) >= 1
    BY <1>2, <2>1, OldestIsFirst
  <2>6. stamp[Oldest] <= stamp[queue[state][i]]
    BY <1>2, <2>5 DEF TimedInv, OldestFirst
  <2>7. stamp[queue[state][i]] \in Nat
    BY <1>2 DEF TimedInv, TimedTypeOK
  <2> QED
    BY <2>3, <2>4, <2>6, <2>7
<1>6. PassedAreDone'
  <2>1. \A s \in States : s < state + 1 => s < state \/ s = state
    BY <1>2 DEF States
  <2> QED
    BY <1>1, <1>2, <1>5, <2>1 DEF TimedInv, PassedAreDone
<1> QED
  BY <1>3, <1>4, <1>6 DEF TimedInv

LEMMA TimeOutKeeps == ASSUME TimedInv, TimeOut PROVE TimedInv'
<1>1. /\ pc = "scan" /\ state < NStates /\ Candidate /\ Reached /\ pc' = "callback"
      /\ UNCHANGED <<queue, stamp, clock, time_now, state>>
  BY DEF TimeOut, locals
<1>2. state \in States
  BY <1>1, TimedNumberAssumption DEF TimedInv, TimedTypeOK, States
<1>3. CallbackDue'
  <2>1. Since(stamp[Oldest]) = time_now - stamp[Oldest]
    BY <1>1, <1>2, SinceIsDifference
  <2>2. Oldest = queue[state][1] /\ Len(queue[state]) >= 1
    BY <1>1, <1>2, OldestIsFirst DEF Candidate
  <2> QED
    BY <1>1, <1>2, <2>1, <2>2 DEF CallbackDue, Candidate, Reached
<1>4. TimedTypeOK' /\ PlacedOnce' /\ OldestFirst' /\ NoneAhead' /\ PassedAreDone'
  BY <1>1 DEF TimedInv, TimedTypeOK, PlacedOnce, OldestFirst, NoneAhead, PassedAreDone
<1> QED
  BY <1>3, <1>4 DEF TimedInv

\* A callback moves an element to a state without a timeout.
LEMMA CallbackMoveKeeps ==
    ASSUME TimedInv, TargetsUntimed, pc = "callback", NEW e, NEW old \in States, NEW new \in Targets,
           set_element_state(e, old, new), UNCHANGED <<clock, time_now, state>>,
           \/ pc' = "scan"
           \/ pc' = "callback" /\ old # state
    PROVE  TimedInv'
<1>1. new \in States /\ Timeouts[new] = 0
  BY TimeoutsAssumption DEF TargetsUntimed
<1>2. /\ queue' \in [States -> Seq(TimedNodes)] /\ stamp' \in [TimedNodes -> Nat] /\ PlacedOnce' /\ OldestFirst'
      /\ OnlyNew(e, new) /\ Untouched(old, new)
  BY <1>1, MoveKeeps
<1>3. TimedTypeOK'
  BY <1>2 DEF TimedInv, TimedTypeOK
<1>4. NoneAhead'
  <2> SUFFICES ASSUME NEW s \in States, Timeouts[s] # 0, NEW j \in 1 .. Len(queue'[s]) PROVE stamp'[queue'[s][j]] <= time_now
    BY DEF NoneAhead
  <2>1. PICK k \in 1 .. Len(queue[s]) : stamp'[queue'[s][j]] = stamp[queue[s][k]]
    BY <1>1, <1>2 DEF OnlyNew
  <2>2. stamp[queue[s][k]] <= time_now
    BY DEF TimedInv, NoneAhead
  <2> QED
    BY <2>1, <2>2
<1>5. PassedAreDone'
  <2> SUFFICES ASSUME NEW s \in States, s < state, Timeouts[s] # 0, NEW j \in 1 .. Len(queue'[s])
               PROVE  time_now - stamp'[queue'[s][j]] < Timeouts[s]
    BY DEF PassedAreDone
  <2>1. PICK k \in 1 .. Len(queue[s]) : stamp'[queue'[s][j]] = stamp[queue[s][k]]
    BY <1>1, <1>2 DEF OnlyNew
  <2>2. time_now - stamp[queue[s][k]] < Timeouts[s]
    BY DEF TimedInv, PassedAreDone
  <2> QED
    BY <2>1, <2>2
<1>6. CallbackDue'
  <2> SUFFICES ASSUME pc' = "callback", old # state PROVE CallbackDue'
    BY DEF CallbackDue
  <2>1. /\ state \in States /\ Timeouts[state] # 0 /\ Len(queue[state]) >= 1
        /\ time_now - stamp[queue[state][1]] >= Timeouts[state]
    BY DEF TimedInv, CallbackDue
  <2>2. Len(queue[state]) \in Nat
    BY <2>1 DEF TimedInv, TimedTypeOK
  <2>3. queue'[state] = queue[state] /\ stamp'[queue[state][1]] = stamp[queue[state][1]]
    <3>1. state \in States \ {old, new} /\ 1 \in 1 .. Len(queue[state])
      BY <1>1, <2>1, <2>2
    <3> QED
      BY <1>2, <3>1 DEF Untouched
  <2> QED
    BY <2>1, <2>3 DEF CallbackDue
<1> QED
  BY <1>2, <1>3, <1>4, <1>5, <1>6 DEF TimedInv

LEMMA QuietKeeps ==
    ASSUME TimedInv, UNCHANGED <<queue, stamp, clock, time_now, state>>,
           pc' \in {"idle", "scan", "callback", "aborted"}, pc' # "idle" => pc # "idle", pc' = "callback" => pc = "callback"
    PROVE  TimedInv'
<1>1. TimedTypeOK' /\ PlacedOnce' /\ OldestFirst'
  BY DEF TimedInv, TimedTypeOK, PlacedOnce, OldestFirst
<1>2. NoneAhead' /\ PassedAreDone' /\ CallbackDue'
  BY DEF TimedInv, NoneAhead, PassedAreDone, CallbackDue
<1> QED
  BY <1>1, <1>2 DEF TimedInv

LEMMA TimedStarts == ASSUME TimedInit PROVE TimedInv
<1> USE TimedNumberAssumption, ClockAssumption
<1> DEFINE all == [i \in 1 .. TimedNumber |-> TimedNumber - i]
<1>1. /\ clock = 1 /\ pc = "idle" /\ time_now = 0 /\ state = 0
      /\ queue = [s \in States |-> IF s = 0 THEN all ELSE <<>>] /\ stamp = [n \in TimedNodes |-> 1]
  BY DEF TimedInit, sxe_pool_new_with_timeouts
<1>2. all \in Seq(TimedNodes) /\ Len(all) = TimedNumber /\ \A i \in 1 .. TimedNumber : all[i] = TimedNumber - i
  <2>1. \A i \in 1 .. TimedNumber : TimedNumber - i \in TimedNodes
    BY DEF TimedNodes
  <2> QED
    BY <2>1
<1> HIDE DEF all
<1>3. /\ 0 \in States
      /\ \A s \in States : queue[s] = IF s = 0 THEN all ELSE <<>>
      /\ \A s \in States : queue[s] \in Seq(TimedNodes) /\ Len(queue[s]) = IF s = 0 THEN TimedNumber ELSE 0
  BY <1>1, <1>2 DEF States
<1>4. TimedTypeOK
  <2>1. queue \in [States -> Seq(TimedNodes)]
    BY <1>1, <1>2
  <2> QED
    BY <1>1, <2>1 DEF TimedTypeOK
<1>5. PlacedOnce
  <2>1. ASSUME NEW e \in TimedNodes PROVE \E s \in States : \E i \in 1 .. Len(queue[s]) : queue[s][i] = e
    <3>1. TimedNumber - e \in 1 .. TimedNumber /\ TimedNumber - (TimedNumber - e) = e
      BY DEF TimedNodes
    <3>2. TimedNumber - e \in 1 .. Len(queue[0]) /\ queue[0][TimedNumber - e] = e
      BY <1>2, <1>3, <3>1
    <3> QED
      BY <1>3, <3>2
  <2>2. ASSUME NEW s \in States, NEW r \in States, NEW i \in 1 .. Len(queue[s]), NEW j \in 1 .. Len(queue[r]),
               queue[s][i] = queue[r][j]
        PROVE  s = r /\ i = j
    <3>1. s = 0 /\ r = 0
      BY <1>3
    <3>2. i \in 1 .. TimedNumber /\ j \in 1 .. TimedNumber /\ all[i] = all[j]
      BY <1>3, <2>2, <3>1
    <3>3. TimedNumber - i = TimedNumber - j
      BY <1>2, <3>2
    <3> QED
      BY <3>1, <3>2, <3>3
  <2> QED
    BY <2>1, <2>2 DEF PlacedOnce
<1>6. OldestFirst
  <2>1. \A s \in States : \A i \in 1 .. Len(queue[s]) : queue[s][i] \in TimedNodes
    BY <1>3
  <2> QED
    BY <1>1, <2>1 DEF OldestFirst
<1>7. NoneAhead /\ PassedAreDone /\ CallbackDue
  BY <1>1 DEF NoneAhead, PassedAreDone, CallbackDue
<1> QED
  BY <1>4, <1>5, <1>6, <1>7 DEF TimedInv

-----------------------------------------------------------------------------
(* The theorems.                                                           *)

\* Whatever the callbacks of sxe_pool_check_timeouts move while it runs, to states
\* without a timeout, the inductive invariant holds.
THEOREM TimedInvHolds == TargetsUntimed /\ TimedSpec => []TimedInv
<1> SUFFICES ASSUME TargetsUntimed PROVE TimedSpec => []TimedInv
  OBVIOUS
<1>1. ASSUME TimedInv, [TimedNext]_timedvars PROVE TimedInv'
  <2>1. CASE UsePool \/ Tick \/ StartCheck
    BY <1>1, <2>1, UseKeeps, TickKeeps, StartCheckKeeps
  <2>2. CASE NextState \/ TimeOut
    BY <1>1, <2>2, NextStateKeeps, TimeOutKeeps
  <2>3. CASE EndCheck \/ AssertFails \/ CallbackKeeps
    BY <1>1, <2>3, QuietKeeps DEF EndCheck, AssertFails, CallbackKeeps, locals
  <2>4. CASE CallbackTakesAnother
    <3>1. PICK old \in States \ {state}, new \in Targets : set_element_state(Head(queue[old]), old, new)
      BY <2>4 DEF CallbackTakesAnother
    <3>2. pc = "callback" /\ pc' = "callback" /\ UNCHANGED <<clock, time_now, state>>
      BY <2>4 DEF CallbackTakesAnother, locals
    <3>3. PICK e : e = Head(queue[old])
      OBVIOUS
    <3> QED
      BY <1>1, <3>1, <3>2, <3>3, CallbackMoveKeeps
  <2>5. CASE Callback
    <3>1. PICK new \in Targets : set_element_state(Oldest, state, new)
      BY <2>5 DEF Callback
    <3>2. pc = "callback" /\ pc' = "scan" /\ UNCHANGED <<clock, time_now, state>>
      BY <2>5 DEF Callback
    <3>3. state \in States
      BY <1>1, <3>2 DEF TimedInv, CallbackDue
    <3>4. PICK e, s : e = Oldest /\ s = state
      OBVIOUS
    <3>5. s \in States /\ set_element_state(e, s, new)
      BY <3>1, <3>3, <3>4
    <3> QED
      BY <1>1, <3>2, <3>5, CallbackMoveKeeps
  <2>6. CASE UNCHANGED timedvars
    <3>1. UNCHANGED <<queue, stamp, clock, time_now, state, pc>>
      BY <2>6 DEF timedvars
    <3>2. pc \in {"idle", "scan", "callback", "aborted"}
      BY <1>1 DEF TimedInv, TimedTypeOK
    <3> QED
      BY <1>1, <3>1, <3>2, QuietKeeps
  <2> QED
    BY <1>1, <2>1, <2>2, <2>3, <2>4, <2>5, <2>6 DEF TimedNext, CheckStep
<1> QED
  BY <1>1, TimedStarts, PTL DEF TimedSpec

\* If callbacks put elements only in states without a timeout, sxe_pool_check_timeouts
\* calls back for no element before its time, and leaves none that was overdue when the
\* check began.
THEOREM TimeoutsAreRight == TargetsUntimed /\ TimedSpec => []TimeoutsRight
<1> SUFFICES ASSUME TargetsUntimed PROVE TimedSpec => []TimeoutsRight
  OBVIOUS
<1>1. ASSUME TimedInv PROVE TimeoutsRight
  <2>1. NotEarly
    <3> SUFFICES ASSUME pc = "callback" PROVE stamp[Oldest] <= clock /\ clock - stamp[Oldest] >= Timeouts[state]
      BY DEF NotEarly
    <3>1. /\ state \in States /\ Len(queue[state]) >= 1
          /\ time_now - stamp[queue[state][1]] >= Timeouts[state]
      BY <1>1 DEF TimedInv, CallbackDue
    <3>2. queue[state] # <<>>
      BY <3>1
    <3>3. Oldest = queue[state][1] /\ Oldest \in TimedNodes
      BY <1>1, <3>1, <3>2, OldestIsFirst
    <3>4. stamp[Oldest] \in Nat /\ stamp[Oldest] <= clock /\ time_now \in Nat /\ clock \in Nat /\ time_now <= clock
      BY <1>1, <3>3 DEF TimedInv, TimedTypeOK, OldestFirst
    <3>5. Timeouts[state] \in Nat
      BY <3>1, TimeoutsAssumption
    <3> QED
      BY <3>1, <3>3, <3>4, <3>5
  <2>2. NoneForgotten
    <3> SUFFICES ASSUME pc = "scan", state = NStates, NEW e \in TimedNodes, Timeouts[StateOf(e)] # 0
                 PROVE  time_now - stamp[e] < Timeouts[StateOf(e)]
      BY DEF NoneForgotten
    <3>1. PICK s : s = StateOf(e)
      OBVIOUS
    <3>2. \E r \in States : e \in Seqs!ToSet(queue[r])
      <4>1. PICK r \in States : \E i \in 1 .. Len(queue[r]) : queue[r][i] = e
        BY <1>1 DEF TimedInv, PlacedOnce
      <4>2. DOMAIN queue[r] = 1 .. Len(queue[r])
        <5>1. queue[r] \in Seq(TimedNodes)
          BY <1>1, <4>1 DEF TimedInv, TimedTypeOK
        <5> QED
          BY <5>1
      <4> QED
        BY <4>1, <4>2 DEF Seqs!ToSet
    <3>3. s \in States /\ e \in Seqs!ToSet(queue[s])
      BY <3>1, <3>2 DEF StateOf
    <3>4. PICK i \in 1 .. Len(queue[s]) : queue[s][i] = e
      <4>1. queue[s] \in Seq(TimedNodes)
        BY <1>1, <3>3 DEF TimedInv, TimedTypeOK
      <4> QED
        BY <3>3, <4>1 DEF Seqs!ToSet
    <3>5. s < NStates
      BY <3>3, TimedNumberAssumption DEF States
    <3> QED
      BY <1>1, <3>1, <3>3, <3>4, <3>5 DEF TimedInv, PassedAreDone
  <2> QED
    BY <2>1, <2>2 DEF TimeoutsRight
<1> QED
  BY <1>1, TimedInvHolds, PTL

-----------------------------------------------------------------------------
(* Threads that use, reboot and swap the instances of ensembles exclude    *)
(* each other, for any threads, any number of places and any swaps.        *)

Contexts == [pc : {"idle", "lock", "in", "unlock", "second", "swap"}, op : {"none", "use", "raw", "reboot", "swap"},
             e : Ensembles, other : Ensembles, i : Places, instance : Ensembles \X Places, left : Int]

EnsembleTypeOK ==
    ensemble \in [instances : [Ensembles -> [Places -> Ensembles \X Places]],
                  locks : [Ensembles -> [Places -> CdbThreads \cup {Nobody}]],
                  lock : CdbThreads \cup {Nobody},
                  threads : [CdbThreads -> Contexts]]

\* The steps that each call goes through.
StepsOf(op) == CASE op = "none" -> {"idle"}
                 [] op \in {"use", "raw"} -> {"lock", "in"}
                 [] op = "reboot" -> {"lock", "in", "unlock"}
                 [] op = "swap" -> {"lock", "second", "swap"}

StepsRight == \A t \in CdbThreads : Thread(t).pc \in StepsOf(Thread(t).op)

\* The place whose lock a thread has by what it is doing.  A reboot that is still
\* taking locks has those of the places before its own.
Has(c, e, i) ==
    \/ c.op \in {"use", "raw"} /\ c.pc = "in" /\ e = c.e /\ i = c.i
    \/ c.op = "reboot" /\ e = c.e /\ (c.pc = "lock" => i < c.i)
    \/ c.op = "swap" /\ c.pc \in {"second", "swap"} /\ e = c.e /\ i = c.i
    \/ c.op = "swap" /\ c.pc = "swap" /\ e = c.other /\ i = c.i

LocksRight == \A t \in CdbThreads, e \in Ensembles, i \in Places : ensemble.locks[e][i] = t <=> Has(Thread(t), e, i)

\* No instance is at two places.
InstancesApart ==
    \A d, e \in Ensembles, i, j \in Places : ensemble.instances[d][i] = ensemble.instances[e][j] => d = e /\ i = j

\* A reboot is in the instance of its place, which nobody can have swapped.
RebootsCurrent ==
    \A t \in CdbThreads : Thread(t).op = "reboot" /\ Doing(t, "in") => Thread(t).instance = ensemble.instances[Thread(t).e][Thread(t).i]

EnsembleInv == EnsembleTypeOK /\ StepsRight /\ LocksRight /\ InstancesApart /\ RebootsCurrent

-----------------------------------------------------------------------------
\* The first place is 1, and the last is the one with none after it.
LEMMA PlaceFacts ==
    /\ Places \subseteq Nat /\ 1 \in Places
    /\ \A i \in Places : i + 1 \notin Places => \A j \in Places : j <= i
    /\ \A i \in Places : i >= 1
<1>1. Cardinality(Places) \in Nat
  BY PlacesAssumption, FS_CardinalityType
<1>2. PICK i \in Places : TRUE
  BY PlacesAssumption
<1>3. Places = 1 .. Cardinality(Places)
  BY PlacesAssumption
<1> QED
  BY <1>1, <1>2, <1>3

\* What a step of the thread t has to show: it gives up and takes the locks that
\* its new context says, the ones that it takes were free, and it moves only
\* instances whose places it has locked.
LEMMA StepKeeps ==
    ASSUME EnsembleInv, NEW t \in CdbThreads, NEW c \in Contexts, EnsembleTypeOK',
           ensemble'.threads = [ensemble.threads EXCEPT ![t] = c],
           c.pc \in StepsOf(c.op),
           \A e \in Ensembles, i \in Places :
               ensemble'.locks[e][i] = IF Has(c, e, i) THEN t ELSE IF ensemble.locks[e][i] = t THEN Nobody ELSE ensemble.locks[e][i],
           \A e \in Ensembles, i \in Places : Has(c, e, i) => ensemble.locks[e][i] \in {t, Nobody},
           \A e \in Ensembles, i \in Places : ensemble'.instances[e][i] # ensemble.instances[e][i] => ensemble.locks[e][i] = t,
           InstancesApart',
           c.op = "reboot" /\ c.pc = "in" => c.instance = ensemble'.instances[c.e][c.i]
    PROVE  EnsembleInv'
<1>1. ensemble.threads \in [CdbThreads -> Contexts]
  BY DEF EnsembleInv, EnsembleTypeOK
<1>2. \A u \in CdbThreads : Thread(u)' = IF u = t THEN c ELSE Thread(u)
  BY <1>1 DEF Thread
<1>3. StepsRight'
  BY <1>2 DEF EnsembleInv, StepsRight
<1>4. LocksRight'
  <2> SUFFICES ASSUME NEW u \in CdbThreads, NEW e \in Ensembles, NEW i \in Places
               PROVE  ensemble'.locks[e][i] = u <=> Has(Thread(u)', e, i)
    BY DEF LocksRight, Has
  <2>1. ensemble.locks[e][i] = u <=> Has(Thread(u), e, i)
    BY DEF EnsembleInv, LocksRight
  <2> QED
    BY <1>2, <2>1, CdbThreadsAssumption
<1>5. RebootsCurrent'
  <2> SUFFICES ASSUME NEW u \in CdbThreads, u # t, Thread(u).op = "reboot", Thread(u).pc = "in"
               PROVE  Thread(u).instance = ensemble'.instances[Thread(u).e][Thread(u).i]
    BY <1>2 DEF RebootsCurrent, Doing
  <2>1. Thread(u).e \in Ensembles /\ Thread(u).i \in Places
    BY <1>1 DEF Thread, Contexts
  <2>2. Has(Thread(u), Thread(u).e, Thread(u).i)
    BY DEF Has
  <2>3. ensemble.locks[Thread(u).e][Thread(u).i] = u
    BY <2>1, <2>2 DEF EnsembleInv, LocksRight
  <2> QED
    BY <2>1, <2>3 DEF EnsembleInv, RebootsCurrent, Doing
<1> QED
  BY <1>3, <1>4, <1>5 DEF EnsembleInv

\* What is known of a thread's context and of the locks it has.
LEMMA ContextFacts ==
    ASSUME EnsembleInv, NEW t \in CdbThreads
    PROVE  /\ Thread(t) \in Contexts
           /\ Thread(t).pc \in StepsOf(Thread(t).op)
           /\ t # Nobody
           /\ \A e \in Ensembles, i \in Places : ensemble.locks[e][i] = t <=> Has(Thread(t), e, i)
BY CdbThreadsAssumption DEF EnsembleInv, EnsembleTypeOK, StepsRight, LocksRight, Thread

\* A step that takes and gives no lock and moves no instance.
LEMMA QuietStepKeeps ==
    ASSUME EnsembleInv, NEW t \in CdbThreads, NEW c \in Contexts, NEW l \in CdbThreads \cup {Nobody},
           ensemble' = [ensemble EXCEPT !.lock = l, !.threads[t] = c],
           c.pc \in StepsOf(c.op),
           \A e \in Ensembles, i \in Places : Has(c, e, i) <=> Has(Thread(t), e, i),
           c.op = "reboot" /\ c.pc = "in" => c.instance = ensemble.instances[c.e][c.i]
    PROVE  EnsembleInv'
<1>1. EnsembleTypeOK
  BY DEF EnsembleInv
<1>2. /\ ensemble'.threads = [ensemble.threads EXCEPT ![t] = c]
      /\ ensemble'.locks = ensemble.locks /\ ensemble'.instances = ensemble.instances
  BY <1>1 DEF EnsembleTypeOK
<1>3. EnsembleTypeOK'
  BY <1>1 DEF EnsembleTypeOK
<1>4. InstancesApart'
  BY <1>2 DEF EnsembleInv, InstancesApart
<1> QED
  BY <1>2, <1>3, <1>4, ContextFacts, StepKeeps

\* A call begins at an idle thread's first place.
LEMMA BegunFacts ==
    ASSUME EnsembleInv, NEW t \in CdbThreads, Begins(t), NEW op \in {"use", "raw", "reboot", "swap"}
    PROVE  /\ Thread(t).pc = "idle" /\ Thread(t).op = "none"
           /\ Begun(t, op) \in Contexts /\ Begun(t, op).op = op /\ Begun(t, op).i = 1
<1>1. Thread(t) \in Contexts /\ Thread(t).pc = "idle" /\ Thread(t).op = "none"
  BY ContextFacts DEF Begins, Doing, StepsOf, Contexts
<1> DEFINE b == Thread(t)
<1>2. b.left - 1 \in Int /\ 1 \in Places
  BY <1>1, PlaceFacts DEF Contexts
<1>3. Begun(t, op) = [b EXCEPT !.op = op, !.i = 1, !.left = b.left - 1]
  BY <1>1 DEF Contexts, Begun
<1>4. ASSUME NEW l \in Int PROVE [b EXCEPT !.op = op, !.i = 1, !.left = l] \in Contexts
  BY <1>1, <1>2 DEF Contexts
<1> QED
  BY <1>1, <1>2, <1>3, <1>4 DEF Contexts

LEMMA FindInstanceKeeps ==
    ASSUME EnsembleInv, NEW t \in CdbThreads, NEW op \in {"use", "raw"}, FindInstance(t, op)
    PROVE  EnsembleInv'
<1>1. PICK e \in Ensembles, i \in Places :
         Becomes(t, [Begun(t, op) EXCEPT !.pc = "lock", !.e = e, !.i = i, !.instance = ensemble.instances[e][i]])
  BY DEF FindInstance
<1> DEFINE c == [Begun(t, op) EXCEPT !.pc = "lock", !.e = e, !.i = i, !.instance = ensemble.instances[e][i]]
<1>2. ensemble.instances[e][i] \in Ensembles \X Places /\ ensemble.lock \in CdbThreads \cup {Nobody}
  BY DEF EnsembleInv, EnsembleTypeOK
<1>3. /\ Thread(t).pc = "idle" /\ Thread(t).op = "none"
      /\ Begun(t, op) \in Contexts /\ Begun(t, op).op = op /\ Begun(t, op).i = 1
  BY BegunFacts DEF FindInstance
<1>4. c \in Contexts /\ c.op = op /\ c.pc = "lock"
  BY <1>2, <1>3, PlaceFacts DEF Contexts
<1>5. c.pc \in StepsOf(c.op)
  BY <1>4 DEF StepsOf
<1>6. \A d \in Ensembles, j \in Places : ~Has(c, d, j) /\ ~Has(Thread(t), d, j)
  BY <1>3, <1>4 DEF Has
<1>7. ensemble' = [ensemble EXCEPT !.lock = ensemble.lock, !.threads[t] = c]
  BY <1>1 DEF Becomes, EnsembleInv, EnsembleTypeOK
<1> HIDE DEF c
<1> QED
  BY <1>2, <1>4, <1>5, <1>6, <1>7, QuietStepKeeps

LEMMA StartRebootKeeps ==
    ASSUME EnsembleInv, NEW t \in CdbThreads, StartReboot(t)
    PROVE  EnsembleInv'
<1>1. PICK e \in Ensembles : ensemble' = [ensemble EXCEPT !.lock = t, !.threads[t] = [Begun(t, "reboot") EXCEPT !.pc = "lock", !.e = e]]
  BY DEF StartReboot
<1> DEFINE c == [Begun(t, "reboot") EXCEPT !.pc = "lock", !.e = e]
<1>2. /\ Thread(t).pc = "idle" /\ Thread(t).op = "none"
      /\ Begun(t, "reboot") \in Contexts /\ Begun(t, "reboot").op = "reboot" /\ Begun(t, "reboot").i = 1
  BY BegunFacts DEF StartReboot
<1>3. c \in Contexts /\ c.op = "reboot" /\ c.pc = "lock" /\ c.i = 1
  BY <1>2, PlaceFacts DEF Contexts
<1>4. c.pc \in StepsOf(c.op)
  BY <1>3 DEF StepsOf
<1>5. \A d \in Ensembles, j \in Places : ~Has(c, d, j) /\ ~Has(Thread(t), d, j)
  BY <1>2, <1>3, PlaceFacts DEF Has
<1> HIDE DEF c
<1> QED
  BY <1>1, <1>3, <1>4, <1>5, QuietStepKeeps DEF c

LEMMA StartSwapKeeps ==
    ASSUME EnsembleInv, NEW t \in CdbThreads, StartSwap(t)
    PROVE  EnsembleInv'
<1>1. PICK s \in Swaps : Becomes(t, [Begun(t, "swap") EXCEPT !.pc = "lock", !.e = s[1], !.other = s[2]])
  BY DEF StartSwap
<1> DEFINE c == [Begun(t, "swap") EXCEPT !.pc = "lock", !.e = s[1], !.other = s[2]]
<1>2. s[1] \in Ensembles /\ s[2] \in Ensembles /\ ensemble.lock \in CdbThreads \cup {Nobody}
  BY SwapsAssumption DEF EnsembleInv, EnsembleTypeOK
<1>3. /\ Thread(t).pc = "idle" /\ Thread(t).op = "none"
      /\ Begun(t, "swap") \in Contexts /\ Begun(t, "swap").op = "swap" /\ Begun(t, "swap").i = 1
  BY BegunFacts DEF StartSwap
<1>4. c \in Contexts /\ c.op = "swap" /\ c.pc = "lock"
  BY <1>2, <1>3, PlaceFacts DEF Contexts
<1>5. c.pc \in StepsOf(c.op)
  BY <1>4 DEF StepsOf
<1>6. \A d \in Ensembles, j \in Places : ~Has(c, d, j) /\ ~Has(Thread(t), d, j)
  BY <1>3, <1>4 DEF Has
<1>7. ensemble' = [ensemble EXCEPT !.lock = ensemble.lock, !.threads[t] = c]
  BY <1>1 DEF Becomes, EnsembleInv, EnsembleTypeOK
<1> HIDE DEF c
<1> QED
  BY <1>2, <1>4, <1>5, <1>6, <1>7, QuietStepKeeps

LEMMA RebootInstanceKeeps ==
    ASSUME EnsembleInv, NEW t \in CdbThreads, RebootInstance(t)
    PROVE  EnsembleInv'
<1> DEFINE b == Thread(t)
<1> DEFINE c == IF b.i + 1 \in Places THEN [b EXCEPT !.i = @ + 1, !.instance = ensemble.instances[b.e][b.i + 1]] ELSE [b EXCEPT !.pc = "unlock"]
<1>1. b \in Contexts /\ b.pc = "in" /\ b.op = "reboot"
  BY ContextFacts DEF RebootInstance, Doing
<1>2. b.i + 1 \in Places => ensemble.instances[b.e][b.i + 1] \in Ensembles \X Places
  BY <1>1 DEF EnsembleInv, EnsembleTypeOK, Contexts
<1>3. /\ c \in Contexts /\ c.op = "reboot" /\ c.e = b.e /\ c.pc \in {"in", "unlock"}
      /\ c.pc = "in" => c.instance = ensemble.instances[c.e][c.i]
  BY <1>1, <1>2 DEF Contexts
<1>4. c.pc \in StepsOf(c.op)
  BY <1>3 DEF StepsOf
<1>5. \A d \in Ensembles, j \in Places : Has(c, d, j) <=> Has(b, d, j)
  BY <1>1, <1>3 DEF Has
<1>6. ensemble' = [ensemble EXCEPT !.lock = ensemble.lock, !.threads[t] = c] /\ ensemble.lock \in CdbThreads \cup {Nobody}
  BY DEF RebootInstance, Becomes, EnsembleInv, EnsembleTypeOK
<1> HIDE DEF c
<1> QED
  BY <1>3, <1>4, <1>5, <1>6, QuietStepKeeps

\* A thread that is done has no lock.
LEMMA StopsFacts ==
    ASSUME EnsembleInv, NEW t \in CdbThreads
    PROVE  /\ Stops(t) \in Contexts /\ Stops(t).pc = "idle" /\ Stops(t).op = "none"
           /\ Stops(t).pc \in StepsOf(Stops(t).op)
           /\ \A e \in Ensembles, i \in Places : ~Has(Stops(t), e, i)
<1>1. Thread(t).left \in Int
  BY ContextFacts DEF Contexts
<1>2. Idle \in Contexts
  BY PlaceFacts, MaxCallsAssumption DEF Idle, Contexts, Ensembles
<1>3. Stops(t) \in Contexts /\ Stops(t).pc = "idle" /\ Stops(t).op = "none"
  <2>1. Idle.pc = "idle" /\ Idle.op = "none"
    BY DEF Idle
  <2> QED
    BY <1>1, <1>2, <2>1 DEF Stops, Contexts
<1> QED
  BY <1>3 DEF StepsOf, Has

\* The thread t goes on as c says, and takes the lock of one place.
Takes(t, c, d, j) == ensemble' = [ensemble EXCEPT !.locks[d][j] = t, !.threads[t] = c]

\* A step that takes the free lock of one place and moves no instance.
LEMMA TakeKeeps ==
    ASSUME EnsembleInv, NEW t \in CdbThreads, NEW c \in Contexts, NEW d \in Ensembles, NEW j \in Places,
           ensemble.locks[d][j] = Nobody,
           Takes(t, c, d, j),
           c.pc \in StepsOf(c.op),
           \A e \in Ensembles, i \in Places : Has(c, e, i) <=> Has(Thread(t), e, i) \/ (e = d /\ i = j),
           c.op = "reboot" /\ c.pc = "in" => c.instance = ensemble.instances[c.e][c.i]
    PROVE  EnsembleInv'
<1>1. EnsembleTypeOK
  BY DEF EnsembleInv
<1>2. /\ ensemble'.threads = [ensemble.threads EXCEPT ![t] = c]
      /\ ensemble'.locks = [ensemble.locks EXCEPT ![d][j] = t] /\ ensemble'.instances = ensemble.instances
  BY <1>1 DEF EnsembleTypeOK, Takes
<1>3. EnsembleTypeOK'
  BY <1>1 DEF EnsembleTypeOK, Takes
<1>4. InstancesApart'
  BY <1>2 DEF EnsembleInv, InstancesApart
<1>5. \A e \in Ensembles, i \in Places : ensemble'.locks[e][i] = IF e = d /\ i = j THEN t ELSE ensemble.locks[e][i]
  BY <1>1, <1>2 DEF EnsembleTypeOK
<1>6. \A e \in Ensembles, i \in Places :
          ensemble'.locks[e][i] = IF Has(c, e, i) THEN t ELSE IF ensemble.locks[e][i] = t THEN Nobody ELSE ensemble.locks[e][i]
  BY <1>5, ContextFacts
<1>7. \A e \in Ensembles, i \in Places : Has(c, e, i) => ensemble.locks[e][i] \in {t, Nobody}
  BY ContextFacts
<1> QED
  BY <1>2, <1>3, <1>4, <1>6, <1>7, StepKeeps

LEMMA TakeInstanceLockKeeps ==
    ASSUME EnsembleInv, NEW t \in CdbThreads, TakeInstanceLock(t)
    PROVE  EnsembleInv'
<1> DEFINE b == Thread(t)
<1> DEFINE c == [b EXCEPT !.pc = "in"]
<1>1. b \in Contexts /\ b.pc = "lock" /\ b.op \in {"use", "raw"} /\ ensemble.locks[b.e][b.i] = Nobody
  BY ContextFacts DEF TakeInstanceLock, Doing, LockFree
<1>2. c \in Contexts /\ c.op = b.op /\ c.pc = "in" /\ c.e = b.e /\ c.i = b.i /\ b.e \in Ensembles /\ b.i \in Places
  BY <1>1 DEF Contexts
<1>3. Takes(t, c, b.e, b.i)
  BY DEF Takes, TakeInstanceLock, Thread, EnsembleInv, EnsembleTypeOK
<1>4. c.pc \in StepsOf(c.op)
  BY <1>1, <1>2 DEF StepsOf
<1>5. \A e \in Ensembles, i \in Places : Has(c, e, i) <=> Has(b, e, i) \/ (e = b.e /\ i = b.i)
  BY <1>1, <1>2 DEF Has
<1> HIDE DEF c
<1> QED
  BY <1>1, <1>2, <1>3, <1>4, <1>5, TakeKeeps

LEMMA RebootLockKeeps ==
    ASSUME EnsembleInv, NEW t \in CdbThreads, RebootLock(t)
    PROVE  EnsembleInv'
<1> DEFINE b == Thread(t)
<1> DEFINE c == IF b.i + 1 \in Places THEN [b EXCEPT !.i = @ + 1] ELSE [b EXCEPT !.i = 1, !.pc = "in", !.instance = ensemble.instances[b.e][1]]
<1>1. b \in Contexts /\ b.pc = "lock" /\ b.op = "reboot" /\ ensemble.locks[b.e][b.i] = Nobody
  BY ContextFacts DEF RebootLock, Doing, LockFree
<1>2. b.e \in Ensembles /\ b.i \in Places
  BY <1>1 DEF Contexts
<1>3. ensemble.instances[b.e][1] \in Ensembles \X Places
  BY <1>2, PlaceFacts DEF EnsembleInv, EnsembleTypeOK
<1>4. /\ c \in Contexts /\ c.op = "reboot" /\ c.e = b.e
      /\ b.i + 1 \in Places => c.pc = "lock" /\ c.i = b.i + 1
      /\ b.i + 1 \notin Places => c.pc = "in" /\ c.i = 1 /\ c.instance = ensemble.instances[b.e][1]
  BY <1>1, <1>2, <1>3, PlaceFacts DEF Contexts
<1>5. Takes(t, c, b.e, b.i)
  <2> DEFINE locks == [ensemble.locks EXCEPT ![b.e][b.i] = t]
  <2>1. ensemble' = [ensemble EXCEPT !.locks = [locks EXCEPT ![b.e] = locks[b.e]], !.threads[t] = c]
    BY DEF RebootLock, RebootLocks
  <2>2. locks = [locks EXCEPT ![b.e] = locks[b.e]]
    BY <1>2 DEF EnsembleInv, EnsembleTypeOK
  <2>3. ensemble' = [ensemble EXCEPT !.locks = locks, !.threads[t] = c]
    BY <2>1, <2>2
  <2> QED
    BY <2>3 DEF Takes, EnsembleInv, EnsembleTypeOK
<1>6. c.pc \in StepsOf(c.op)
  BY <1>4 DEF StepsOf
<1> HIDE DEF c
<1>7. ASSUME NEW e \in Ensembles, NEW i \in Places
      PROVE  Has(c, e, i) <=> Has(b, e, i) \/ (e = b.e /\ i = b.i)
  <2>1. i \in Nat /\ b.i \in Nat /\ (b.i + 1 \notin Places => i <= b.i)
    BY <1>2, PlaceFacts
  <2>2. Has(b, e, i) <=> e = b.e /\ i < b.i
    BY <1>1 DEF Has
  <2>3. Has(c, e, i) <=> e = b.e /\ (c.pc = "lock" => i < c.i)
    BY <1>4 DEF Has
  <2> QED
    BY <1>4, <2>1, <2>2, <2>3
<1> QED
  BY <1>1, <1>2, <1>4, <1>5, <1>6, <1>7, TakeKeeps

LEMMA SwapLockKeeps ==
    ASSUME EnsembleInv, NEW t \in CdbThreads, SwapLockThis(t) \/ SwapLockThat(t)
    PROVE  EnsembleInv'
<1> DEFINE b == Thread(t)
<1>1. b \in Contexts /\ b.pc \in StepsOf(b.op)
  BY ContextFacts
<1>2. CASE SwapLockThis(t)
  <2> DEFINE c == [b EXCEPT !.pc = "second"]
  <2>1. b.pc = "lock" /\ b.op = "swap" /\ ensemble.locks[b.e][b.i] = Nobody
    BY <1>2 DEF SwapLockThis, Doing, LockFree
  <2>2. c \in Contexts /\ c.op = "swap" /\ c.pc = "second" /\ c.e = b.e /\ c.i = b.i /\ b.e \in Ensembles /\ b.i \in Places
    BY <1>1, <2>1 DEF Contexts
  <2>3. Takes(t, c, b.e, b.i)
    BY <1>2 DEF Takes, SwapLockThis, Thread, EnsembleInv, EnsembleTypeOK
  <2>4. c.pc \in StepsOf(c.op)
    BY <2>2 DEF StepsOf
  <2>5. \A e \in Ensembles, i \in Places : Has(c, e, i) <=> Has(b, e, i) \/ (e = b.e /\ i = b.i)
    BY <2>1, <2>2 DEF Has
  <2> HIDE DEF c
  <2> QED
    BY <2>1, <2>2, <2>3, <2>4, <2>5, TakeKeeps
<1>3. CASE SwapLockThat(t)
  <2> DEFINE c == [b EXCEPT !.pc = "swap"]
  <2>1. b.pc = "second" /\ b.op = "swap" /\ ensemble.locks[b.other][b.i] = Nobody
    BY <1>1, <1>3 DEF SwapLockThat, Doing, LockFree, StepsOf, Contexts
  <2>2. /\ c \in Contexts /\ c.op = "swap" /\ c.pc = "swap" /\ c.e = b.e /\ c.other = b.other /\ c.i = b.i
        /\ b.other \in Ensembles /\ b.i \in Places
    BY <1>1, <2>1 DEF Contexts
  <2>3. Takes(t, c, b.other, b.i)
    BY <1>3 DEF Takes, SwapLockThat, Thread, EnsembleInv, EnsembleTypeOK
  <2>4. c.pc \in StepsOf(c.op)
    BY <2>2 DEF StepsOf
  <2>5. \A e \in Ensembles, i \in Places : Has(c, e, i) <=> Has(b, e, i) \/ (e = b.other /\ i = b.i)
    BY <2>1, <2>2 DEF Has
  <2> HIDE DEF c
  <2> QED
    BY <2>1, <2>2, <2>3, <2>4, <2>5, TakeKeeps
<1> QED
  BY <1>2, <1>3

LEMMA UnlockKeeps ==
    ASSUME EnsembleInv, NEW t \in CdbThreads, InstanceUnlock(t) \/ RawUnlock(t)
    PROVE  EnsembleInv'
<1> DEFINE b == Thread(t)
<1> DEFINE c == Stops(t)
<1>1. b \in Contexts /\ b.pc = "in" /\ b.op \in {"use", "raw"}
  BY ContextFacts DEF InstanceUnlock, RawUnlock, Doing
<1>2. EnsembleTypeOK /\ b.e \in Ensembles /\ b.i \in Places
  BY <1>1 DEF EnsembleInv, Contexts
<1>3. ensemble' = [ensemble EXCEPT !.locks[b.e][b.i] = Nobody, !.threads[t] = c]
  BY DEF InstanceUnlock, RawUnlock, Unlock1
<1>4. /\ c \in Contexts /\ c.op = "none" /\ c.pc \in StepsOf(c.op)
      /\ \A e \in Ensembles, i \in Places : ~Has(c, e, i)
  BY StopsFacts
<1> HIDE DEF c
<1>5. /\ ensemble'.threads = [ensemble.threads EXCEPT ![t] = c]
      /\ ensemble'.locks = [ensemble.locks EXCEPT ![b.e][b.i] = Nobody] /\ ensemble'.instances = ensemble.instances
  BY <1>2, <1>3 DEF EnsembleTypeOK
<1>6. EnsembleTypeOK'
  BY <1>2, <1>3, <1>4 DEF EnsembleTypeOK
<1>7. InstancesApart'
  BY <1>5 DEF EnsembleInv, InstancesApart
<1>8. ASSUME NEW e \in Ensembles, NEW i \in Places
      PROVE  ensemble'.locks[e][i] = IF ensemble.locks[e][i] = t THEN Nobody ELSE ensemble.locks[e][i]
  <2>1. ensemble'.locks[e][i] = IF e = b.e /\ i = b.i THEN Nobody ELSE ensemble.locks[e][i]
    BY <1>2, <1>5 DEF EnsembleTypeOK
  <2>2. ensemble.locks[e][i] = t <=> e = b.e /\ i = b.i
    BY <1>1, ContextFacts DEF Has
  <2> QED
    BY <2>1, <2>2
<1> QED
  BY <1>4, <1>5, <1>6, <1>7, <1>8, StepKeeps

LEMMA RebootUnlockKeeps ==
    ASSUME EnsembleInv, NEW t \in CdbThreads, RebootUnlock(t)
    PROVE  EnsembleInv'
<1> DEFINE b == Thread(t)
<1> DEFINE c == Stops(t)
<1>1. b \in Contexts /\ b.pc = "unlock" /\ b.op = "reboot"
  BY ContextFacts DEF RebootUnlock, Doing
<1>2. EnsembleTypeOK /\ b.e \in Ensembles
  BY <1>1 DEF EnsembleInv, Contexts
<1>3. ensemble' = [ensemble EXCEPT !.locks[b.e] = [i \in Places |-> Nobody], !.lock = Nobody, !.threads[t] = c]
  BY DEF RebootUnlock
<1>4. /\ c \in Contexts /\ c.op = "none" /\ c.pc \in StepsOf(c.op)
      /\ \A e \in Ensembles, i \in Places : ~Has(c, e, i)
  BY StopsFacts
<1> HIDE DEF c
<1>5. /\ ensemble'.threads = [ensemble.threads EXCEPT ![t] = c]
      /\ ensemble'.locks = [ensemble.locks EXCEPT ![b.e] = [i \in Places |-> Nobody]] /\ ensemble'.instances = ensemble.instances
  BY <1>2, <1>3 DEF EnsembleTypeOK
<1>6. EnsembleTypeOK'
  BY <1>2, <1>3, <1>4 DEF EnsembleTypeOK
<1>7. InstancesApart'
  BY <1>5 DEF EnsembleInv, InstancesApart
<1>8. ASSUME NEW e \in Ensembles, NEW i \in Places
      PROVE  ensemble'.locks[e][i] = IF ensemble.locks[e][i] = t THEN Nobody ELSE ensemble.locks[e][i]
  <2>1. ensemble'.locks[e][i] = IF e = b.e THEN Nobody ELSE ensemble.locks[e][i]
    BY <1>2, <1>5 DEF EnsembleTypeOK
  <2>2. ensemble.locks[e][i] = t <=> e = b.e
    BY <1>1, ContextFacts DEF Has
  <2> QED
    BY <2>1, <2>2
<1> QED
  BY <1>4, <1>5, <1>6, <1>7, <1>8, StepKeeps

\* The two instances change places under the locks of both.
LEMMA SwapInstancesKeeps ==
    ASSUME EnsembleInv, NEW t \in CdbThreads, SwapInstances(t)
    PROVE  EnsembleInv'
<1> DEFINE b == Thread(t)
<1> DEFINE c == IF b.i + 1 \in Places THEN [b EXCEPT !.pc = "lock", !.i = @ + 1] ELSE Stops(t)
<1> DEFINE here == ensemble.instances[b.e][b.i]
<1> DEFINE there == ensemble.instances[b.other][b.i]
<1>1. b \in Contexts /\ b.pc = "swap" /\ b.op = "swap"
  BY ContextFacts DEF SwapInstances, Doing, StepsOf, Contexts
<1>2. EnsembleTypeOK /\ b.e \in Ensembles /\ b.other \in Ensembles /\ b.i \in Places
  BY <1>1 DEF EnsembleInv, Contexts
<1>3. here \in Ensembles \X Places /\ there \in Ensembles \X Places
  BY <1>2 DEF EnsembleTypeOK
<1>4. ensemble' = [ensemble EXCEPT !.instances = [ensemble.instances EXCEPT ![b.e][b.i] = there, ![b.other][b.i] = here],
                                   !.locks = [ensemble.locks EXCEPT ![b.other][b.i] = Nobody, ![b.e][b.i] = Nobody],
                                   !.threads[t] = c]
  BY DEF SwapInstances, SwapUnlocks
<1>5. /\ c \in Contexts /\ c.pc \in StepsOf(c.op) /\ c.op \in {"none", "swap"}
      /\ \A e \in Ensembles, i \in Places : ~Has(c, e, i)
  <2>1. CASE b.i + 1 \in Places
    <3>1. c \in Contexts /\ c.pc = "lock" /\ c.op = "swap"
      BY <1>1, <2>1 DEF Contexts
    <3> QED
      BY <3>1 DEF StepsOf, Has
  <2>2. CASE b.i + 1 \notin Places
    BY <2>2, StopsFacts
  <2> QED
    BY <2>1, <2>2
<1> HIDE DEF c, here, there
<1>6. /\ ensemble'.threads = [ensemble.threads EXCEPT ![t] = c]
      /\ ensemble'.locks = [ensemble.locks EXCEPT ![b.other][b.i] = Nobody, ![b.e][b.i] = Nobody]
      /\ ensemble'.instances = [ensemble.instances EXCEPT ![b.e][b.i] = there, ![b.other][b.i] = here]
  BY <1>2, <1>4 DEF EnsembleTypeOK
<1>7. EnsembleTypeOK'
  <2>1. ensemble'.threads \in [CdbThreads -> Contexts]
    BY <1>2, <1>5, <1>6 DEF EnsembleTypeOK
  <2>2. ensemble'.locks \in [Ensembles -> [Places -> CdbThreads \cup {Nobody}]]
    <3> DEFINE one == [ensemble.locks EXCEPT ![b.other][b.i] = Nobody]
    <3>1. one \in [Ensembles -> [Places -> CdbThreads \cup {Nobody}]]
      BY <1>2 DEF EnsembleTypeOK
    <3>2. ensemble'.locks = [one EXCEPT ![b.e][b.i] = Nobody]
      BY <1>6
    <3> HIDE DEF one
    <3> QED
      BY <1>2, <3>1, <3>2
  <2>3. ensemble'.instances \in [Ensembles -> [Places -> Ensembles \X Places]]
    <3> DEFINE one == [ensemble.instances EXCEPT ![b.e][b.i] = there]
    <3>1. one \in [Ensembles -> [Places -> Ensembles \X Places]]
      BY <1>2, <1>3 DEF EnsembleTypeOK
    <3>2. ensemble'.instances = [one EXCEPT ![b.other][b.i] = here]
      BY <1>6
    <3> HIDE DEF one
    <3> QED
      BY <1>2, <1>3, <3>1, <3>2
  <2>4. ensemble' = [ensemble EXCEPT !.instances = ensemble'.instances, !.locks = ensemble'.locks, !.threads = ensemble'.threads]
    BY <1>2, <1>4, <1>6 DEF EnsembleTypeOK
  <2> QED
    BY <1>2, <2>1, <2>2, <2>3, <2>4 DEF EnsembleTypeOK
<1>8. \A e \in Ensembles, i \in Places :
          ensemble'.instances[e][i] = IF e = b.other /\ i = b.i THEN here
                                      ELSE IF e = b.e /\ i = b.i THEN there ELSE ensemble.instances[e][i]
  BY <1>2, <1>6 DEF EnsembleTypeOK
<1>9. InstancesApart'
  <2> SUFFICES ASSUME NEW d \in Ensembles, NEW e \in Ensembles, NEW i \in Places, NEW j \in Places,
                      ensemble'.instances[d][i] = ensemble'.instances[e][j]
               PROVE  d = e /\ i = j
    BY DEF InstancesApart
  <2>1. \A x, y \in Ensembles, m, n \in Places : ensemble.instances[x][m] = ensemble.instances[y][n] => x = y /\ m = n
    BY DEF EnsembleInv, InstancesApart
  <2> QED
    BY <1>2, <1>8, <2>1 DEF here, there
<1>10. ASSUME NEW e \in Ensembles, NEW i \in Places
       PROVE  /\ ensemble'.locks[e][i] = IF ensemble.locks[e][i] = t THEN Nobody ELSE ensemble.locks[e][i]
              /\ ensemble'.instances[e][i] # ensemble.instances[e][i] => ensemble.locks[e][i] = t
  <2>1. ensemble'.locks[e][i] = IF (e = b.e \/ e = b.other) /\ i = b.i THEN Nobody ELSE ensemble.locks[e][i]
    BY <1>2, <1>6 DEF EnsembleTypeOK
  <2>2. ensemble.locks[e][i] = t <=> (e = b.e \/ e = b.other) /\ i = b.i
    BY <1>1, ContextFacts DEF Has
  <2> QED
    BY <1>8, <2>1, <2>2
<1>11. ensemble'.threads = [ensemble.threads EXCEPT ![t] = c]
  BY <1>6
<1> QED
  BY <1>5, <1>7, <1>9, <1>10, <1>11, StepKeeps

-----------------------------------------------------------------------------
\* EnsembleInv is inductive: at first nobody has a lock and every instance is at the
\* place it was made for, and every step of sxe_cdb_ensemble_* keeps it.
THEOREM EnsembleIsSound == EnsembleSpec => []EnsembleInv
<1>1. EnsembleInit => EnsembleInv
  <2> SUFFICES ASSUME EnsembleInit PROVE EnsembleInv
    OBVIOUS
  <2>1. Idle \in Contexts /\ Idle.pc = "idle" /\ Idle.op = "none"
    BY PlaceFacts, MaxCallsAssumption DEF Idle, Contexts, Ensembles
  <2>2. EnsembleTypeOK
    BY <2>1 DEF EnsembleInit, EnsembleTypeOK
  <2>3. \A t \in CdbThreads : Thread(t) = Idle
    BY DEF EnsembleInit, Thread
  <2>4. StepsRight
    BY <2>1, <2>3 DEF StepsRight, StepsOf
  <2>5. LocksRight
    BY <2>1, <2>3, CdbThreadsAssumption DEF EnsembleInit, LocksRight, Has
  <2>6. InstancesApart
    BY DEF EnsembleInit, InstancesApart
  <2>7. RebootsCurrent
    BY <2>1, <2>3 DEF RebootsCurrent, Doing
  <2> QED
    BY <2>2, <2>4, <2>5, <2>6, <2>7 DEF EnsembleInv
<1>2. EnsembleInv /\ [EnsembleNext]_ensemble => EnsembleInv'
  <2> SUFFICES ASSUME EnsembleInv, [EnsembleNext]_ensemble PROVE EnsembleInv'
    OBVIOUS
  <2>1. CASE UNCHANGED ensemble
    BY <2>1 DEF EnsembleInv, EnsembleTypeOK, StepsRight, LocksRight, InstancesApart, RebootsCurrent, Thread, Doing
  <2>2. ASSUME NEW t \in CdbThreads, UseInstance(t) \/ RawLocked(t) \/ StartReboot(t) \/ StartSwap(t)
        PROVE  EnsembleInv'
    BY <2>2, FindInstanceKeeps, StartRebootKeeps, StartSwapKeeps DEF UseInstance, RawLocked
  <2>3. ASSUME NEW t \in CdbThreads, CallStep(t)
        PROVE  EnsembleInv'
    BY <2>3, TakeInstanceLockKeeps, UnlockKeeps, RebootLockKeeps, RebootInstanceKeeps, RebootUnlockKeeps,
       SwapLockKeeps, SwapInstancesKeeps DEF CallStep
  <2> QED
    BY <2>1, <2>2, <2>3 DEF EnsembleNext
<1> QED
  BY <1>1, <1>2, PTL DEF EnsembleSpec

\* No two threads are in one instance of an ensemble, to use it or to reboot it, for
\* any threads, places and swaps, unless one of them found the instance before
\* sxe_cdb_ensemble_swap_instances moved it: each is at the place of its instance, has
\* that place's lock, and an instance is at one place.
THEOREM EnsembleExclusive == EnsembleSpec => []InstancesExclusive
<1>1. EnsembleInv => InstancesExclusive
  <2> SUFFICES ASSUME EnsembleInv, NEW t \in CdbThreads, NEW u \in CdbThreads, t # u,
                      Doing(t, "in"), Doing(u, "in"), Thread(t).instance = Thread(u).instance,
                      ~Stale(t), ~Stale(u)
               PROVE  FALSE
    BY DEF InstancesExclusive
  <2>1. ASSUME NEW v \in CdbThreads, Doing(v, "in"), ~Stale(v)
        PROVE  /\ Thread(v).e \in Ensembles /\ Thread(v).i \in Places
               /\ Thread(v).instance = ensemble.instances[Thread(v).e][Thread(v).i]
               /\ ensemble.locks[Thread(v).e][Thread(v).i] = v
    <3>1. Thread(v) \in Contexts /\ Thread(v).pc = "in" /\ Thread(v).op \in {"use", "raw", "reboot"}
      BY <2>1, ContextFacts DEF Doing, StepsOf, Contexts
    <3>2. Thread(v).e \in Ensembles /\ Thread(v).i \in Places
      BY <3>1 DEF Contexts
    <3>3. Has(Thread(v), Thread(v).e, Thread(v).i)
      BY <3>1 DEF Has
    <3>4. Thread(v).instance = ensemble.instances[Thread(v).e][Thread(v).i]
      BY <2>1, <3>1 DEF Stale, EnsembleInv, RebootsCurrent
    <3> QED
      BY <3>2, <3>3, <3>4, ContextFacts
  <2> QED
    BY <2>1 DEF EnsembleInv, InstancesApart
<1> QED
  BY <1>1, EnsembleIsSound, PTL

-----------------------------------------------------------------------------
(* An operation on values of any types calls the function that was given   *)
(* for it, in whatever order types and operations were registered.         *)

OperRec == [kind : OperKinds, def_func : BOOLEAN]
OperFunctions == {None, Garbage} \cup {<<op, type>> : op \in Nat, type \in Nat} \cup {<<op>> : op \in Nat}

\* An entry of the tables is the function that was given for its operation and
\* type, or None, and what was given is in the tables.
EntriesRight(tables, given) ==
    /\ \A t \in 1 .. Len(tables) : \A op \in 1 .. Len(tables[t]) :
          tables[t][op] = IF <<op, t - 1>> \in given THEN <<op, t - 1>> ELSE None
    /\ \A op, type \in Nat : <<op, type>> \in given =>
          op \in Nat \ {0} /\ type + 1 \in 1 .. Len(tables) /\ op \in 1 .. Len(tables[type + 1])

CallRec == [op : Nat, left : Nat, right : Nat, result : OperFunctions]

\* The type of the operand that selects the function of a call.
Selector(o, c) == IF o[c.op].kind = "binary_right" THEN c.right ELSE c.left

CallRight(o, g, c) ==
    c.op # 0 => \/ c.result = <<c.op, Selector(o, c)>> /\ <<c.op, Selector(o, c)>> \in g
                \/ <<c.op, Selector(o, c)>> \notin g /\ c.result = (IF o[c.op].def_func THEN <<c.op>> ELSE None)

\* Of the operations o, the tables t that dangle if d, what was given g and the last call c.
RegistryOK(o, t, d, g, c) ==
    /\ o \in Seq(OperRec) /\ t \in Seq(Seq(OperFunctions)) /\ c \in CallRec
    /\ c.op # 0 => c.op \in 1 .. Len(o)
    /\ ~d => EntriesRight(t, g)
    /\ d => c.op = 0
    /\ CallRight(o, g, c)

Held(r) == \E o, t, d, g, c : /\ r = [opers |-> o, tables |-> t, dangling |-> d, given |-> g, call |-> c]
                              /\ RegistryOK(o, t, d, g, c)

OperInv == Held(registry)

\* A sequence with one element replaced.
Put(q, i, e) == [q EXCEPT ![i] = e]

IsPut(S, new, q, i, e) == /\ new \in Seq(S) /\ Len(new) = Len(q)
                          /\ \A j \in 1 .. Len(q) : new[j] = IF j = i THEN e ELSE q[j]

LEMMA Replaced ==
    ASSUME NEW S, NEW q \in Seq(S), NEW i \in 1 .. Len(q), NEW e \in S
    PROVE  IsPut(S, Put(q, i, e), q, i, e)
  BY ExceptSeq DEF Put, IsPut

\* What Grown makes of a sequence.
IsGrown(S, new, table, n, fill) == /\ new \in Seq(S) /\ Len(new) = n
                                   /\ \A i \in 1 .. n : new[i] = IF i <= Len(table) THEN table[i] ELSE fill

LEMMA GrownIs ==
    ASSUME NEW S, NEW table \in Seq(S), NEW n \in Nat, n > Len(table), NEW fill \in S
    PROVE  IsGrown(S, Grown(table, n, fill), table, n, fill)
<1> DEFINE more == [i \in 1 .. n - Len(table) |-> fill]
<1>1. PICK m \in Nat : m = Len(table)
  OBVIOUS
<1>2. more \in Seq(S) /\ Len(more) = n - m /\ \A i \in 1 .. n - m : more[i] = fill
  BY <1>1
<1> HIDE DEF more
<1>3. Grown(table, n, fill) = table \o more
  BY DEF Grown, more
<1>4. table \o more \in Seq(S) /\ Len(table \o more) = n
  BY <1>1, <1>2
<1>5. ASSUME NEW i \in 1 .. n PROVE (table \o more)[i] = IF i <= m THEN table[i] ELSE fill
  <2>1. CASE i <= m
    BY <1>1, <1>2, <2>1
  <2>2. CASE ~(i <= m)
    <3>1. i - m \in 1 .. n - m
      BY <1>1, <2>2
    <3>2. (table \o more)[i] = more[i - m]
      BY <1>1, <1>2, <2>2
    <3> QED
      BY <1>2, <2>2, <3>1, <3>2
  <2> QED
    BY <2>1, <2>2
<1> QED
  BY <1>1, <1>3, <1>4, <1>5 DEF IsGrown

\* The table of a type once a function was put in it.
IsRow(new, table, op, f) ==
    /\ new \in Seq(OperFunctions)
    /\ Len(new) = IF op > Len(table) THEN op ELSE Len(table)
    /\ \A i \in 1 .. Len(new) : new[i] = IF i = op THEN f ELSE IF i <= Len(table) THEN table[i] ELSE None

LEMMA TableGrown ==
    ASSUME NEW table \in Seq(OperFunctions), NEW op \in Nat \ {0}, NEW f \in OperFunctions, NEW new,
           new = Put(InterveningOpers(table, op), op, f)
    PROVE  IsRow(new, table, op, f)
<1> DEFINE grown == InterveningOpers(table, op)
<1>0. None \in OperFunctions
  BY DEF OperFunctions
<1> HIDE DEF OperFunctions, None
<1>1. PICK m \in Nat : m = Len(table)
  OBVIOUS
<1>2. PICK n \in Nat : n = IF op > m THEN op ELSE m
  BY <1>1
<1>3. /\ grown \in Seq(OperFunctions) /\ Len(grown) = n
      /\ \A i \in 1 .. n : grown[i] = IF i <= m THEN table[i] ELSE None
  <2>1. CASE op > m
    <3>1. op \in Nat /\ op > Len(table)
      BY <1>1, <2>1
    <3>2. IsGrown(OperFunctions, Grown(table, op, None), table, op, None)
      BY <1>0, <3>1, GrownIs
    <3> QED
      BY <1>1, <1>2, <2>1, <3>2 DEF InterveningOpers, IsGrown
  <2>2. CASE ~(op > m)
    BY <1>1, <1>2, <2>2 DEF InterveningOpers
  <2> QED
    BY <2>1, <2>2
<1> HIDE DEF grown
<1>4. op \in 1 .. n /\ new = Put(grown, op, f)
  BY <1>1, <1>2 DEF grown
<1>5. new \in Seq(OperFunctions) /\ Len(new) = n /\ \A i \in 1 .. n : new[i] = IF i = op THEN f ELSE grown[i]
  <2>1. PICK F : F = OperFunctions
    OBVIOUS
  <2>2. grown \in Seq(F) /\ op \in 1 .. Len(grown) /\ f \in F /\ n = Len(grown)
    BY <1>3, <1>4, <2>1
  <2>3. IsPut(F, Put(grown, op, f), grown, op, f)
    BY <2>2, Replaced
  <2> QED
    BY <1>4, <2>1, <2>2, <2>3 DEF IsPut
<1> QED
  BY <1>1, <1>2, <1>3, <1>5 DEF IsRow

LEMMA EntriesAfterAdd ==
    ASSUME NEW tables \in Seq(Seq(OperFunctions)), NEW given, EntriesRight(tables, given),
           NEW op \in Nat \ {0}, NEW type \in Nat, NEW grown, NEW new,
           grown = IF type >= Len(tables) THEN Grown(tables, type + 1, <<>>) ELSE tables,
           new = Put(grown, type + 1, Put(InterveningOpers(grown[type + 1], op), op, <<op, type>>))
    PROVE  new \in Seq(Seq(OperFunctions)) /\ EntriesRight(new, given \cup {<<op, type>>})
<1> DEFINE f == <<op, type>>
<1> DEFINE gave == given \cup {f}
<1> DEFINE row == Put(InterveningOpers(grown[type + 1], op), op, f)
<1>0. f \in OperFunctions /\ <<>> \in Seq(OperFunctions)
  BY DEF OperFunctions
<1> HIDE DEF OperFunctions
<1>1. PICK m \in Nat : m = Len(tables)
  OBVIOUS
<1>2. PICK n \in Nat : n = IF type >= m THEN type + 1 ELSE m
  <2>1. type + 1 \in Nat
    OBVIOUS
  <2> QED
    BY <1>1, <2>1
<1>3. /\ grown \in Seq(Seq(OperFunctions)) /\ Len(grown) = n
      /\ \A t \in 1 .. n : grown[t] = IF t <= m THEN tables[t] ELSE <<>>
  <2>1. CASE type >= m
    <3>1. type + 1 \in Nat /\ type + 1 > Len(tables) /\ n = type + 1 /\ grown = Grown(tables, type + 1, <<>>)
      BY <1>1, <1>2, <2>1
    <3>2. PICK F : F = Seq(OperFunctions)
      OBVIOUS
    <3>3. PICK k \in Nat : k = type + 1
      BY <3>1
    <3>4. PICK e : e = <<>>
      OBVIOUS
    <3>5. tables \in Seq(F) /\ k > Len(tables) /\ e \in F
      BY <1>0, <3>1, <3>2, <3>3, <3>4
    <3>6. IsGrown(F, Grown(tables, k, e), tables, k, e)
      BY <3>5, GrownIs
    <3>7. grown = Grown(tables, k, e) /\ k = n
      BY <3>1, <3>3, <3>4
    <3> QED
      BY <1>1, <3>2, <3>4, <3>6, <3>7 DEF IsGrown
  <2>2. CASE ~(type >= m)
    BY <1>1, <1>2, <2>2
  <2> QED
    BY <2>1, <2>2
<1>4. type + 1 \in 1 .. n
  BY <1>1, <1>2
<1>5. PICK old : old = grown[type + 1]
  OBVIOUS
<1>6. old \in Seq(OperFunctions)
  BY <1>3, <1>4, <1>5
<1>7. PICK k \in Nat : k = Len(old)
  BY <1>6
<1>8. PICK l \in Nat : l = IF op > k THEN op ELSE k
  BY <1>7
<1>9. /\ row \in Seq(OperFunctions) /\ Len(row) = l
      /\ \A i \in 1 .. l : row[i] = IF i = op THEN f ELSE IF i <= k THEN old[i] ELSE None
  <2> HIDE DEF f
  <2>1. PICK r : r = row
    OBVIOUS
  <2>2. r = Put(InterveningOpers(old, op), op, f)
    BY <1>5, <2>1
  <2>3. IsRow(r, old, op, f)
    <3>1. PICK g \in OperFunctions : g = f
      BY <1>0
    <3>2. r = Put(InterveningOpers(old, op), op, g)
      BY <2>2, <3>1
    <3>3. IsRow(r, old, op, g)
      BY <1>6, <3>2, TableGrown
    <3> QED
      BY <3>1, <3>3
  <2>4. Len(r) = l
    BY <1>7, <1>8, <2>3 DEF IsRow
  <2> QED
    BY <1>7, <2>1, <2>3, <2>4 DEF IsRow
<1> HIDE DEF row
<1>10. new = Put(grown, type + 1, row)
  BY DEF row
<1>11. new \in Seq(Seq(OperFunctions)) /\ Len(new) = n /\ \A t \in 1 .. n : new[t] = IF t = type + 1 THEN row ELSE grown[t]
  <2>1. PICK F : F = Seq(OperFunctions)
    OBVIOUS
  <2>2. PICK p : p = type + 1
    OBVIOUS
  <2>3. grown \in Seq(F) /\ p \in 1 .. Len(grown) /\ row \in F /\ n = Len(grown) /\ new = Put(grown, p, row)
    BY <1>3, <1>4, <1>9, <1>10, <2>1, <2>2
  <2>4. IsPut(F, Put(grown, p, row), grown, p, row)
    BY <2>3, Replaced
  <2> QED
    BY <2>1, <2>2, <2>3, <2>4 DEF IsPut
<1>12. type + 1 <= m => old = tables[type + 1]
  BY <1>1, <1>3, <1>4, <1>5
<1>13. ~(type + 1 <= m) => k = 0
  BY <1>3, <1>4, <1>5, <1>7
<1>14. ASSUME NEW t \in 1 .. n, NEW i \in 1 .. Len(new[t])
       PROVE  new[t][i] = IF <<i, t - 1>> \in gave THEN <<i, t - 1>> ELSE None
  <2>1. CASE t = type + 1
    <3>a. new[t] = row
      BY <1>11, <2>1
    <3>b. Len(new[t]) = l
      BY <1>9, <3>a
    <3>c. i \in 1 .. l
      BY <3>b
    <3>1. new[t] = row /\ i \in 1 .. l /\ t - 1 = type
      BY <2>1, <3>a, <3>c
    <3>2. CASE i = op
      BY <1>9, <3>1, <3>2
    <3>3. CASE i # op /\ i <= k
      <4>1. type + 1 <= m /\ i \in 1 .. Len(tables[type + 1]) /\ type + 1 \in 1 .. Len(tables)
        BY <1>1, <1>7, <1>12, <1>13, <3>1, <3>3
      <4>2. old[i] = IF <<i, (type + 1) - 1>> \in given THEN <<i, (type + 1) - 1>> ELSE None
        BY <1>12, <4>1 DEF EntriesRight
      <4>3. (type + 1) - 1 = type
        OBVIOUS
      <4>4. <<i, type>> # f
        BY <3>3
      <4> QED
        BY <1>9, <3>1, <3>3, <4>2, <4>3, <4>4
    <3>4. CASE i # op /\ ~(i <= k)
      <4>1. <<i, type>> \notin given
        <5>1. i \in Nat
          BY <3>1
        <5> SUFFICES ASSUME <<i, type>> \in given PROVE FALSE
          OBVIOUS
        <5>2. type + 1 \in 1 .. Len(tables) /\ i \in 1 .. Len(tables[type + 1])
          BY <5>1 DEF EntriesRight
        <5> QED
          BY <1>1, <1>7, <1>12, <3>4, <5>2
      <4>2. <<i, type>> # f
        BY <3>4
      <4> QED
        BY <1>9, <3>1, <3>4, <4>1, <4>2
    <3> QED
      BY <3>2, <3>3, <3>4
  <2>2. CASE t # type + 1 /\ t <= m
    <3>a. new[t] = grown[t]
      BY <1>11, <2>2
    <3>b. grown[t] = tables[t]
      BY <1>3, <2>2
    <3>1. new[t] = tables[t] /\ t \in 1 .. Len(tables)
      BY <1>1, <2>2, <3>a, <3>b
    <3>2. new[t][i] = IF <<i, t - 1>> \in given THEN <<i, t - 1>> ELSE None
      BY <1>14, <3>1 DEF EntriesRight
    <3>3. t - 1 # type
      BY <2>2
    <3>4. <<i, t - 1>> # f
      BY <3>3
    <3> QED
      BY <3>2, <3>4
  <2>3. CASE t # type + 1 /\ ~(t <= m)
    <3>1. new[t] = <<>>
      BY <1>3, <1>11, <2>3
    <3> QED
      BY <1>14, <3>1
  <2> QED
    BY <2>1, <2>2, <2>3
<1>15. ASSUME NEW o \in Nat, NEW y \in Nat, <<o, y>> \in gave
       PROVE  o \in Nat \ {0} /\ y + 1 \in 1 .. n /\ o \in 1 .. Len(new[y + 1])
  <2>1. CASE <<o, y>> = f
    <3>1. o = op /\ y = type
      BY <2>1
    <3>2. new[y + 1] = row
      BY <1>4, <1>11, <3>1
    <3> QED
      BY <1>4, <1>7, <1>8, <1>9, <3>1, <3>2
  <2>2. CASE <<o, y>> # f
    <3>1. o \in Nat \ {0} /\ y + 1 \in 1 .. m /\ o \in 1 .. Len(tables[y + 1])
      BY <1>1, <1>15, <2>2 DEF EntriesRight
    <3>2. y + 1 \in 1 .. n /\ y + 1 <= m
      BY <1>1, <1>2, <3>1
    <3>3. CASE y = type
      <4>1. new[y + 1] = row /\ old = tables[y + 1]
        BY <1>11, <1>12, <3>2, <3>3
      <4> QED
        BY <1>7, <1>8, <1>9, <3>1, <3>2, <4>1
    <3>4. CASE y # type
      <4>1. y + 1 # type + 1
        BY <3>4
      <4>2. new[y + 1] = tables[y + 1]
        BY <1>3, <1>11, <3>2, <4>1
      <4> QED
        BY <3>1, <3>2, <4>2
    <3> QED
      BY <3>3, <3>4
  <2> QED
    BY <2>1, <2>2
<1> HIDE DEF gave
<1>16. EntriesRight(new, gave)
  BY <1>11, <1>14, <1>15 DEF EntriesRight
<1> QED
  BY <1>11, <1>16 DEF gave

LEMMA NoCallRight ==
    ASSUME NEW o, NEW g
    PROVE  NoCall \in CallRec /\ NoCall.op = 0 /\ CallRight(o, g, NoCall)
<1>1. NoCall \in CallRec /\ NoCall.op = 0
  BY DEF NoCall, CallRec, OperFunctions
<1> QED
  BY <1>1 DEF CallRight

LEMMA RegisterKeeps ==
    ASSUME NEW o, NEW t, NEW d, NEW g, NEW c, RegistryOK(o, t, d, g, c), NEW e \in OperRec
    PROVE  RegistryOK(Append(o, e), t, d, g, c)
<1> DEFINE new == Append(o, e)
<1>1. o \in Seq(OperRec)
  BY DEF RegistryOK
<1>2. new \in Seq(OperRec) /\ Len(new) = Len(o) + 1 /\ \A i \in 1 .. Len(o) : new[i] = o[i]
  BY <1>1
<1> HIDE DEF new
<1>3. c.op # 0 => c.op \in 1 .. Len(o) /\ c.op \in 1 .. Len(new) /\ new[c.op] = o[c.op]
  BY <1>1, <1>2 DEF RegistryOK
<1>4. CallRight(new, g, c)
  BY <1>3 DEF RegistryOK, CallRight, Selector
<1> QED
  BY <1>2, <1>3, <1>4 DEF RegistryOK, new

LEMMA AddKeeps ==
    ASSUME NEW o, NEW t, NEW g, NEW c, RegistryOK(o, t, FALSE, g, c),
           NEW op \in Nat \ {0}, NEW type \in Nat, NEW grown, NEW new,
           grown = IF type >= Len(t) THEN Grown(t, type + 1, <<>>) ELSE t,
           new = Put(grown, type + 1, Put(InterveningOpers(grown[type + 1], op), op, <<op, type>>))
    PROVE  RegistryOK(o, new, FALSE, g \cup {<<op, type>>}, NoCall)
<1>1. t \in Seq(Seq(OperFunctions)) /\ EntriesRight(t, g)
  BY DEF RegistryOK
<1>2. new \in Seq(Seq(OperFunctions)) /\ EntriesRight(new, g \cup {<<op, type>>})
  BY <1>1, EntriesAfterAdd
<1> QED
  BY <1>2, NoCallRight DEF RegistryOK

\* What is called for an operation and an operand that selects its function.
LEMMA CallKeeps ==
    ASSUME NEW o, NEW t, NEW g, NEW c, RegistryOK(o, t, FALSE, g, c), NEW new \in CallRec,
           new.op \in 1 .. Len(o), NEW type \in Nat, type = Selector(o, new),
           new.result = IF type < Len(t) /\ new.op <= Len(t[type + 1]) /\ t[type + 1][new.op] # None
                        THEN t[type + 1][new.op] ELSE IF o[new.op].def_func THEN <<new.op>> ELSE None
    PROVE  RegistryOK(o, t, FALSE, g, new)
<1> PICK op \in Nat \ {0} : op = new.op
  BY DEF RegistryOK
<1> DEFINE f == <<op, type>>
<1>1. t \in Seq(Seq(OperFunctions)) /\ EntriesRight(t, g)
  BY DEF RegistryOK
<1>2. f # None
  BY DEF None
<1>3. CASE type < Len(t) /\ op <= Len(t[type + 1])
  <2>1. type + 1 \in 1 .. Len(t) /\ op \in 1 .. Len(t[type + 1]) /\ (type + 1) - 1 = type
    BY <1>1, <1>3
  <2>2. t[type + 1][op] = IF <<op, (type + 1) - 1>> \in g THEN <<op, (type + 1) - 1>> ELSE None
    BY <1>1, <2>1 DEF EntriesRight
  <2>3. t[type + 1][op] = IF f \in g THEN f ELSE None
    BY <2>1, <2>2
  <2> HIDE DEF f
  <2>4. \/ new.result = f /\ f \in g
        \/ f \notin g /\ new.result = (IF o[op].def_func THEN <<op>> ELSE None)
    BY <1>2, <1>3, <2>3
  <2> QED
    BY <2>4 DEF RegistryOK, CallRight, f
<1>4. CASE ~(type < Len(t) /\ op <= Len(t[type + 1]))
  <2>1. f \notin g
    <3> SUFFICES ASSUME f \in g PROVE FALSE
      OBVIOUS
    <3>1. type + 1 \in 1 .. Len(t) /\ op \in 1 .. Len(t[type + 1])
      BY <1>1 DEF EntriesRight
    <3>2. type + 1 <= Len(t) /\ Len(t) \in Nat
      BY <1>1, <3>1
    <3>3. type < Len(t)
      BY <3>2
    <3> QED
      BY <1>4, <3>1, <3>3
  <2>2. new.result = IF o[op].def_func THEN <<op>> ELSE None
    BY <1>4
  <2> QED
    BY <2>1, <2>2 DEF RegistryOK, CallRight
<1> QED
  BY <1>3, <1>4

LEMMA FiniKeeps ==
    ASSUME NEW o, NEW t, NEW g, NEW c, RegistryOK(o, t, FALSE, g, c)
    PROVE  RegistryOK(<<>>, t, Len(t) > 0, {}, NoCall)
<1>1. t \in Seq(Seq(OperFunctions)) /\ <<>> \in Seq(OperRec)
  BY DEF RegistryOK
<1>2. ASSUME ~(Len(t) > 0) PROVE EntriesRight(t, {})
  BY <1>1, <1>2 DEF EntriesRight
<1> QED
  BY <1>1, <1>2, NoCallRight DEF RegistryOK

LEMMA OperInitOK == OperInit => OperInv
<1> SUFFICES ASSUME OperInit PROVE OperInv
  OBVIOUS
<1>1. EntriesRight(<<>>, {})
  BY DEF EntriesRight
<1>2. RegistryOK(<<>>, <<>>, FALSE, {}, NoCall)
  BY <1>1, NoCallRight DEF RegistryOK
<1> QED
  BY <1>2 DEF OperInit, OperInv, Held

LEMMA OperStep == OperInv /\ [OperNext]_registry => OperInv'
<1> SUFFICES ASSUME OperInv, [OperNext]_registry PROVE Held(registry')
  BY DEF OperInv, Held
<1> PICK o, t, d, g, c : /\ registry = [opers |-> o, tables |-> t, dangling |-> d, given |-> g, call |-> c]
                         /\ RegistryOK(o, t, d, g, c)
  BY DEF OperInv, Held
<1>0. /\ registry.opers = o /\ registry.tables = t /\ registry.dangling = d /\ registry.given = g /\ registry.call = c
      /\ num_opers = Len(o) /\ num_types = Len(t) /\ Len(o) \in Nat
  BY DEF num_opers, num_types, RegistryOK
<1>1. ASSUME NEW kind \in OperKinds, NEW default \in BOOLEAN, sxe_jitson_oper_register(kind, default)
      PROVE  Held(registry')
  <2>1. PICK e \in OperRec : e = [kind |-> kind, def_func |-> default]
    BY DEF OperRec
  <2>2. registry' = [opers |-> Append(o, e), tables |-> t, dangling |-> d, given |-> g, call |-> c]
    BY <1>1, <2>1 DEF sxe_jitson_oper_register
  <2>3. RegistryOK(Append(o, e), t, d, g, c)
    BY RegisterKeeps
  <2> QED
    BY <2>2, <2>3 DEF Held
<1>2. ASSUME NEW op \in 1 .. MaxOpers, NEW type \in OperTypes, sxe_jitson_oper_add_to_type(op, type)
      PROVE  Held(registry')
  <2>1. op \in Nat \ {0} /\ type \in Nat /\ RegistryOK(o, t, FALSE, g, c) /\ d = FALSE
    BY <1>0, <1>2, OperTypesAssumption DEF sxe_jitson_oper_add_to_type, RegistryOK
  <2>2. PICK grown : grown = IF type >= Len(t) THEN Grown(t, type + 1, <<>>) ELSE t
    OBVIOUS
  <2>3. PICK new : new = Put(grown, type + 1, Put(InterveningOpers(grown[type + 1], op), op, <<op, type>>))
    OBVIOUS
  <2>4. RegistryOK(o, new, FALSE, g \cup {<<op, type>>}, NoCall)
    BY <2>1, <2>2, <2>3, AddKeeps
  <2>5. new = [grown EXCEPT ![type + 1] = [InterveningOpers(@, op) EXCEPT ![op] = <<op, type>>]]
    BY <2>3 DEF Put
  <2>6. registry' = [registry EXCEPT !.tables = new, !.given = g \cup {<<op, type>>}, !.call = NoCall]
    BY <1>0, <1>2, <2>2, <2>5 DEF sxe_jitson_oper_add_to_type
  <2>7. registry' = [opers |-> o, tables |-> new, dangling |-> FALSE, given |-> g \cup {<<op, type>>}, call |-> NoCall]
    BY <2>1, <2>6
  <2> QED
    BY <2>4, <2>7 DEF Held
<1>3. ASSUME NEW op \in 1 .. MaxOpers, op <= num_opers, ~registry.dangling, NEW left \in OperTypes, NEW right \in OperTypes,
             NEW type \in OperTypes, type = IF registry.opers[op].kind = "binary_right" THEN right ELSE left,
             Called(op, left, right, Dispatch(op, type))
      PROVE  Held(registry')
  <2>1. op \in 1 .. Len(o) /\ op \in Nat /\ left \in Nat /\ right \in Nat /\ type \in Nat /\ d = FALSE /\ RegistryOK(o, t, FALSE, g, c)
    BY <1>0, <1>3, OperTypesAssumption DEF RegistryOK
  <2>2. PICK result : result = Dispatch(op, type)
    OBVIOUS
  <2>3. result = IF type < Len(t) /\ op <= Len(t[type + 1]) /\ t[type + 1][op] # None
                 THEN t[type + 1][op] ELSE IF o[op].def_func THEN <<op>> ELSE None
    BY <1>0, <2>2 DEF Dispatch
  <2>4. result \in OperFunctions
    <3>1. CASE type < Len(t) /\ op <= Len(t[type + 1])
      <4>1. t \in Seq(Seq(OperFunctions)) /\ type + 1 \in 1 .. Len(t)
        BY <2>1, <3>1 DEF RegistryOK
      <4>2. t[type + 1] \in Seq(OperFunctions)
        BY <4>1
      <4>3. t[type + 1][op] \in OperFunctions
        BY <2>1, <3>1, <4>2
      <4> QED
        BY <2>1, <2>3, <4>3 DEF OperFunctions
    <3>2. CASE ~(type < Len(t) /\ op <= Len(t[type + 1]))
      BY <2>1, <2>3, <3>2 DEF OperFunctions
    <3> QED
      BY <3>1, <3>2
  <2>5. PICK new : new = [op |-> op, left |-> left, right |-> right, result |-> result]
    OBVIOUS
  <2>6. new \in CallRec /\ new.op = op /\ new.left = left /\ new.right = right /\ new.result = result
    BY <2>1, <2>4, <2>5 DEF CallRec
  <2>7. type = Selector(o, new)
    BY <1>0, <1>3, <2>6 DEF Selector
  <2>8. RegistryOK(o, t, FALSE, g, new)
    BY <2>1, <2>3, <2>6, <2>7, CallKeeps
  <2>9. registry' = [opers |-> o, tables |-> t, dangling |-> FALSE, given |-> g, call |-> new]
    BY <1>0, <1>3, <2>1, <2>2, <2>5 DEF Called
  <2> QED
    BY <2>8, <2>9 DEF Held
<1>4. ASSUME NEW op \in 1 .. MaxOpers, NEW arg \in OperTypes, sxe_jitson_oper_apply_unary(op, arg)
      PROVE  Held(registry')
  <2>1. arg = IF registry.opers[op].kind = "binary_right" THEN arg ELSE arg
    OBVIOUS
  <2> QED
    BY <1>3, <1>4, <2>1 DEF sxe_jitson_oper_apply_unary
<1>5. ASSUME NEW op \in 1 .. MaxOpers, NEW left \in OperTypes, NEW right \in OperTypes, sxe_jitson_oper_apply_binary(left, op, right)
      PROVE  Held(registry')
  <2>1. PICK type \in OperTypes : type = IF registry.opers[op].kind = "binary_right" THEN right ELSE left
    OBVIOUS
  <2> QED
    BY <1>3, <1>5, <2>1 DEF sxe_jitson_oper_apply_binary
<1>6. CASE sxe_jitson_oper_fini
  <2>1. d = FALSE /\ RegistryOK(o, t, FALSE, g, c)
    BY <1>0, <1>6 DEF sxe_jitson_oper_fini, RegistryOK
  <2>2. registry' = [opers |-> <<>>, tables |-> t, dangling |-> Len(t) > 0, given |-> {}, call |-> NoCall]
    BY <1>0, <1>6 DEF sxe_jitson_oper_fini
  <2>3. RegistryOK(<<>>, t, Len(t) > 0, {}, NoCall)
    BY <2>1, FiniKeeps
  <2> QED
    BY <2>2, <2>3 DEF Held
<1>7. CASE UNCHANGED registry
  BY <1>7 DEF Held
<1> QED
  BY <1>1, <1>2, <1>4, <1>5, <1>6, <1>7 DEF OperNext

LEMMA OperInvImplies == OperInv => DispatchRight
<1> SUFFICES ASSUME OperInv PROVE DispatchRight
  OBVIOUS
<1> PICK o, t, d, g, c : /\ registry = [opers |-> o, tables |-> t, dangling |-> d, given |-> g, call |-> c]
                         /\ RegistryOK(o, t, d, g, c)
  BY DEF OperInv, Held
<1>1. registry.opers = o /\ registry.given = g /\ registry.call = c /\ CallRight(o, g, c)
  BY DEF RegistryOK
<1> QED
  BY <1>1 DEF DispatchRight, CallRight, Selector

\* For any types and any number of operations: an operation calls the function given
\* for it and for the type of the operand that selects it, else its default, else
\* nothing, whatever the order in which sxe_jitson_oper_register and
\* sxe_jitson_oper_add_to_type were called.
THEOREM DispatchAlwaysRight == OperSpec => []DispatchRight
  BY OperInitOK, OperStep, OperInvImplies, PTL DEF OperSpec

-----------------------------------------------------------------------------
(***************************************************************************)
(* The log.  What a thread has to do is described by what may follow each  *)
(* of its steps; the list of controls by the links that are made or are    *)
(* being made, and by the sets that are closed under them.                 *)
(***************************************************************************)
Changes == {"era", "forget", "wipe"}
Learns == {"learn", "swap", "link", "find", "global", "store"}
Uses == {"enter", "line", "count", "assign"}
LogSteps == Changes \cup Learns \cup Uses \cup {"indent", "pop", "push"}

Frame == [file : Files, level : Levels, indent : Int]
LogThread == [todo : Seq(LogSteps), file : Files \cup {NoControl}, level : Levels, found : Levels,
              old : Files \cup {NoControl},
              at : Files \cup {NoControl}, frames : Seq(Frame), era : Nat, depth : Int, most : Int]
Log == [level : [Files -> Levels \cup {Unknown}], next : [Files -> Files \cup {NoControl}], head : Files \cup {NoControl},
        global : Levels \cup {Unknown}, era : Nat, calls : [LogThreads -> Nat], thread : [LogThreads -> LogThread],
        aborted : BOOLEAN, raced : BOOLEAN]

\* What may follow a step in what a thread has to do, and the steps that may be last.
Follows(a, b) == \/ a \in {"learn", "find", "store"} /\ b \in Uses
                 \/ a = "swap" /\ b = "link"
                 \/ a \in {"link", "count", "pop"} /\ b = "learn"
                 \/ a = "global" /\ b = "store"
                 \/ a = "assign" /\ b = "indent"
                 \/ a = "indent" /\ b \in {"indent", "pop"}
                 \/ a = "line" /\ b = "pop"
                 \/ a = "era" /\ b = "forget"
Second(a) == IF a = "count" THEN "assign" ELSE "line"
Ends == {"line", "enter", "indent", "push", "forget", "wipe"}
Shape(todo) == /\ \A i \in 1 .. (Len(todo) - 1) : Follows(todo[i], todo[i + 1])
               /\ todo # <<>> => todo[Len(todo)] \in Ends
               /\ \A i \in 1 .. Len(todo) : todo[i] \in {"count", "pop"} => i + 2 <= Len(todo) /\ todo[i + 2] = Second(todo[i])

\* What a thread does with the level that it learns.
Upcoming(todo) == CASE todo[1] \in {"learn", "find", "store"} -> todo[2]
                    [] todo[1] \in {"link", "global"} -> todo[3]
                    [] todo[1] = "swap" -> todo[4]
                    [] OTHER -> todo[1]
At(th, steps) == th.todo # <<>> /\ th.todo[1] \in steps

\* Current, for the state h.
Setting(h, f) == IF Environment[f] # Unset THEN Environment[f]
                 ELSE IF h.global <= MaxLevel THEN h.global
                 ELSE IF GlobalSetting # Unset THEN GlobalSetting
                 ELSE MaxLevel

ShownAt(frames, level, from) == Cardinality({i \in from .. Len(frames) : frames[i].level <= level})

FramesRight(th) ==
    \A i \in 1 .. Len(th.frames) :
        /\ th.frames[i].indent - (IF i = 1 THEN 0 ELSE th.frames[i - 1].indent) \in {0, 1}
        /\ 0 <= th.frames[i].indent /\ th.frames[i].indent <= th.most

\* A level that was found is the one that is set now, for nothing has changed it.
Own(h, th) ==
    /\ Shape(th.todo) /\ FramesRight(th) /\ th.most >= 0
    /\ th.todo # <<>> /\ ~At(th, Changes) => th.file \in Files
    /\ At(th, {"global"}) => th.found = GlobalSetting /\ GlobalSetting # Unset /\ Environment[th.file] = Unset
    /\ At(th, Uses \cup {"store", "global"}) => th.found = Setting(h, th.file)
    /\ th.todo # <<>> /\ Upcoming(th.todo) # "assign" => th.depth = 0
    /\ th.todo # <<>> /\ Upcoming(th.todo) = "assign" =>
          th.depth = ShownAt(th.frames, Setting(h, th.file), 1) /\ th.depth <= th.most
    /\ At(th, {"swap", "link"}) => h.next[th.file] = NoControl
    /\ At(th, {"find", "store", "global"}) => h.next[th.file] # NoControl
    /\ At(th, {"wipe"}) => th.at \in Files /\ h.next[th.at] # NoControl
    /\ th.todo = <<>> => th.depth = 0

\* The link from f to g is made, or is being made by a thread.
Links(h, f, g) == \/ h.next[f] = g
                  \/ \E t \in LogThreads : /\ At(h.thread[t], {"link"}) /\ h.thread[t].file = f
                                           /\ g = IF h.thread[t].old = NoControl THEN f ELSE h.thread[t].old
ClosedSet(h, S) == \A f \in S, g \in Files : Links(h, f, g) => g \in S
Reaches(h, f, g) == \A S \in SUBSET Files : f \in S /\ ClosedSet(h, S) => g \in S
Linked(h, f) == \E g \in Files : Links(h, f, g)

ListRight(h) == /\ \A f \in Files : Linked(h, f) => h.head \in Files /\ Reaches(h, h.head, f)
                /\ h.head \in Files => Linked(h, h.head)
                /\ \A f, g \in Files : Links(h, f, g) => Linked(h, g)

\* A level is the one that is set, or a thread is about to wipe it.
LevelsRight(h) ==
    /\ \A f \in Files : h.level[f] # Unknown => h.next[f] # NoControl
    /\ (\A t \in LogThreads : ~At(h.thread[t], {"era", "forget"})) =>
          \A f \in Files : \/ h.level[f] \in {Unknown, Setting(h, f)}
                           \/ \E t \in LogThreads : At(h.thread[t], {"wipe"}) /\ Reaches(h, h.thread[t].at, f)

\* No two threads link one control, and nobody logs while the level changes.
LinkersApart(h) == \A t, u \in LogThreads : t # u =>
                /\ At(h.thread[t], {"swap", "link"}) /\ At(h.thread[u], {"swap", "link"}) => h.thread[t].file # h.thread[u].file
                /\ At(h.thread[t], Changes) => h.thread[u].todo = <<>>

LogRight(h) == /\ h \in Log /\ ~h.aborted /\ \A t \in LogThreads : Own(h, h.thread[t])
               /\ ListRight(h) /\ LevelsRight(h) /\ LinkersApart(h)

LogRecord(h) == /\ h = [level |-> h.level, next |-> h.next, head |-> h.head, global |-> h.global, era |-> h.era,
                        calls |-> h.calls, thread |-> h.thread, aborted |-> h.aborted, raced |-> h.raced]
                /\ h.raced \in BOOLEAN
LogInv == LogRecord(log) /\ (~log.raced => LogRight(log))

\* What LogAssumption says of levels and controls.
LEMMA StepsDistinct ==
    /\ NoControl \notin Files /\ Levels \subseteq Int /\ MaxLevel \in Levels
    /\ Unknown \notin Levels /\ Unset \notin Levels
  BY LogAssumption DEF Levels, Unknown, Unset

\* What is left to do, and the thread, after a step.
DoesNext(r, th, todo) ==
    /\ r \in LogThread /\ r.todo = todo /\ r.frames = th.frames /\ r.most = th.most /\ r.era = th.era
    /\ r.todo # <<>> => /\ r.file = th.file /\ r.level = th.level /\ r.found = th.found
                        /\ r.old = th.old /\ r.at = th.at /\ r.depth = th.depth
    /\ r.todo = <<>> => r.depth = 0

\* Then leaves the thread its frames, and puts new steps before what is left to do.
LEMMA ThenIs ==
    ASSUME NEW th \in LogThread, th.todo # <<>>, NEW steps \in Seq(LogSteps), NEW r, r = Then(th, steps)
    PROVE  DoesNext(r, th, steps \o Tail(th.todo))
<1> DEFINE todo == steps \o Tail(th.todo)
<1>1. todo \in Seq(LogSteps)
  BY DEF LogThread
<1>2. CASE todo = <<>>
  <2>1. r = [Quiet EXCEPT !.frames = th.frames, !.era = th.era, !.most = th.most]
    BY <1>2 DEF Then
  <2> QED
    <3>1. r = [todo |-> <<>>, file |-> NoControl, level |-> 1, found |-> 1, old |-> NoControl, at |-> NoControl,
               frames |-> th.frames, era |-> th.era, depth |-> 0, most |-> th.most]
      BY <2>1 DEF Quiet
    <3>2. 1 \in Levels /\ <<>> \in Seq(LogSteps)
      BY LogAssumption DEF Levels
    <3>3. th.frames \in Seq(Frame) /\ th.era \in Nat /\ th.most \in Int /\ 0 \in Int
      BY DEF LogThread
    <3>4. r \in LogThread
      BY <3>1, <3>2, <3>3 DEF LogThread
    <3>5. r.todo = <<>> /\ r.frames = th.frames /\ r.most = th.most /\ r.era = th.era /\ r.depth = 0
      BY <3>1
    <3> QED
      BY <1>2, <3>4, <3>5 DEF DoesNext
<1>3. CASE todo # <<>>
  <2>1. r = [th EXCEPT !.todo = todo]
    BY <1>3 DEF Then
  <2> QED
    BY <1>1, <1>3, <2>1 DEF LogThread, DoesNext
<1> QED
  BY <1>2, <1>3

\* The steps one by one.
Replaces(r, s, steps) == /\ r \in Seq(LogSteps) /\ Len(r) = Len(steps) + Len(s) - 1
                         /\ \A i \in 1 .. Len(steps) : r[i] = steps[i]
                         /\ \A i \in 1 .. (Len(s) - 1) : r[Len(steps) + i] = s[i + 1]
                         /\ r = <<>> <=> steps = <<>> /\ Len(s) = 1

\* What is left after a step, place by place.
LEMMA TodoIs ==
    ASSUME NEW s \in Seq(LogSteps), s # <<>>, NEW steps \in Seq(LogSteps), NEW r, r = steps \o Tail(s)
    PROVE  Replaces(r, s, steps)
<1>1. Tail(s) \in Seq(LogSteps) /\ Len(Tail(s)) = Len(s) - 1 /\ \A i \in 1 .. (Len(s) - 1) : Tail(s)[i] = s[i + 1]
  OBVIOUS
<1>2. Len(s) \in Nat /\ Len(s) > 0 /\ Len(steps) \in Nat
  OBVIOUS
<1>3. r \in Seq(LogSteps) /\ Len(r) = Len(steps) + Len(Tail(s))
  BY <1>1
<1>4. \A i \in 1 .. Len(r) : r[i] = IF i <= Len(steps) THEN steps[i] ELSE Tail(s)[i - Len(steps)]
  BY <1>1
<1>5. \A i \in 1 .. (Len(s) - 1) : r[Len(steps) + i] = s[i + 1]
  BY <1>1, <1>2, <1>3, <1>4
<1>6. r = <<>> <=> steps = <<>> /\ Len(s) = 1
  BY <1>1, <1>2, <1>3
<1> QED
  BY <1>1, <1>2, <1>3, <1>4, <1>5, <1>6 DEF Replaces

\* New steps that may come before what is left keep the shape of what is to be done.
LEMMA ShapeThen ==
    ASSUME NEW s \in Seq(LogSteps), s # <<>>, Shape(s), NEW steps \in Seq(LogSteps), NEW r, r = steps \o Tail(s),
           \A i \in 1 .. (Len(steps) - 1) : Follows(steps[i], steps[i + 1]),
           steps # <<>> /\ Len(s) > 1 => Follows(steps[Len(steps)], s[2]),
           steps # <<>> /\ Len(s) = 1 => steps[Len(steps)] \in Ends,
           \A i \in 1 .. Len(steps) : steps[i] \in {"count", "pop"} => i + 2 <= Len(steps) /\ steps[i + 2] = Second(steps[i])
    PROVE  Shape(r)
<1>1. /\ r \in Seq(LogSteps) /\ Len(r) = Len(steps) + Len(s) - 1
      /\ \A i \in 1 .. Len(steps) : r[i] = steps[i]
      /\ \A i \in 1 .. (Len(s) - 1) : r[Len(steps) + i] = s[i + 1]
  BY TodoIs DEF Replaces
<1> DEFINE k == Len(steps)
           n == Len(s)
<1>2. k \in Nat /\ n \in Nat /\ n > 0 /\ (steps = <<>> <=> k = 0)
  OBVIOUS
<1> HIDE DEF k, n
<1>3. ASSUME NEW i \in 1 .. (Len(r) - 1) PROVE Follows(r[i], r[i + 1])
  <2>1. CASE i < k
    <3>1. r[i] = steps[i] /\ r[i + 1] = steps[i + 1] /\ i \in 1 .. (k - 1)
      BY <1>1, <1>2, <2>1 DEF k
    <3> QED
      BY <3>1 DEF k
  <2>2. CASE i = k
    <3>1. r[i] = steps[k] /\ r[i + 1] = s[2] /\ n > 1 /\ steps # <<>>
      <4>1. n > 1 /\ k \in 1 .. k /\ 1 \in 1 .. (n - 1)
        BY <1>1, <1>2, <2>2 DEF k, n
      <4>2. r[k + 1] = s[1 + 1]
        BY <1>1, <4>1 DEF k, n
      <4> QED
        BY <1>1, <1>2, <2>2, <4>1, <4>2 DEF k
    <3> QED
      BY <3>1 DEF k, n
  <2>3. CASE i > k
    <3>1. i - k \in 1 .. (n - 1) /\ i - k + 1 \in 1 .. (n - 1) /\ k + (i - k) = i /\ k + (i - k + 1) = i + 1
      BY <1>1, <1>2, <2>3 DEF k, n
    <3>2. r[i] = s[i - k + 1] /\ r[i + 1] = s[i - k + 1 + 1]
      BY <1>1, <3>1 DEF k, n
    <3> QED
      BY <3>1, <3>2 DEF Shape, n
  <2> QED
    BY <1>1, <1>2, <2>1, <2>2, <2>3
<1>4. ASSUME r # <<>> PROVE r[Len(r)] \in Ends
  <2>1. CASE n = 1
    BY <1>1, <1>2, <1>4, <2>1 DEF k, n
  <2>2. CASE n > 1
    <3>1. n - 1 \in 1 .. (n - 1) /\ Len(r) = k + (n - 1)
      BY <1>1, <1>2, <2>2 DEF k, n
    <3>2. r[Len(r)] = s[n - 1 + 1]
      BY <1>1, <3>1 DEF k, n
    <3> QED
      <4>1. n - 1 + 1 = n
        BY <1>2
      <4>2. r[Len(r)] = s[n]
        BY <3>2, <4>1
      <4>3. s[n] \in Ends
        BY DEF Shape, n
      <4> QED
        BY <4>2, <4>3
  <2>3. n = 1 \/ n > 1
    BY <1>2
  <2> QED
    BY <2>1, <2>2, <2>3
<1>5. ASSUME NEW i \in 1 .. Len(r), r[i] \in {"count", "pop"} PROVE i + 2 <= Len(r) /\ r[i + 2] = Second(r[i])
  <2>1. CASE i <= k
    <3>1. i \in 1 .. k /\ steps[i] \in {"count", "pop"} /\ r[i] = steps[i]
      BY <1>1, <1>2, <1>5, <2>1 DEF k
    <3>2. i + 2 <= k /\ steps[i + 2] = Second(steps[i])
      BY <3>1 DEF k
    <3> QED
      BY <1>1, <1>2, <3>1, <3>2 DEF k, n
  <2>2. CASE i > k
    <3>1. i - k \in 1 .. (n - 1) /\ k + (i - k) = i /\ i - k + 1 \in 1 .. n
      BY <1>1, <1>2, <2>2 DEF k, n
    <3>2. r[i] = s[i - k + 1]
      BY <1>1, <3>1 DEF k, n
    <3>3. i - k + 1 + 2 <= n /\ s[i - k + 1 + 2] = Second(r[i])
      BY <1>5, <3>1, <3>2 DEF Shape, n
    <3>4. i - k + 2 \in 1 .. (n - 1) /\ k + (i - k + 2) = i + 2 /\ i - k + 2 + 1 = i - k + 1 + 2
      BY <1>2, <3>1, <3>3
    <3>5. r[i + 2] = s[i - k + 2 + 1]
      BY <1>1, <3>4 DEF k, n
    <3> QED
      BY <1>1, <1>2, <3>3, <3>4, <3>5 DEF k, n
  <2> QED
    BY <1>1, <1>2, <2>1, <2>2
<1> QED
  BY <1>3, <1>4, <1>5 DEF Shape

\* The level of a thread that learns is used by the next of its steps.
LEMMA ShapeIs ==
    ASSUME NEW s \in Seq(LogSteps), s # <<>>, Shape(s)
    PROVE  /\ Len(s) \in Nat /\ Len(s) > 0 /\ \A i \in 1 .. Len(s) : s[i] \in LogSteps
           /\ s[1] \in {"learn", "find", "store"} => Len(s) > 1 /\ s[2] \in Uses
           /\ s[1] = "link" => Len(s) > 2 /\ s[2] = "learn" /\ s[3] \in Uses
           /\ s[1] = "swap" => Len(s) > 3 /\ s[2] = "link" /\ s[3] = "learn" /\ s[4] \in Uses
           /\ s[1] = "global" => Len(s) > 2 /\ s[2] = "store" /\ s[3] \in Uses
           /\ s[1] = "count" => Len(s) > 2 /\ s[2] = "learn" /\ s[3] = "assign"
           /\ s[1] = "assign" => Len(s) > 1 /\ s[2] = "indent"
           /\ s[1] = "indent" => Len(s) = 1 \/ s[2] \in {"indent", "pop"}
           /\ s[1] = "line" => Len(s) = 1 \/ s[2] = "pop"
           /\ s[1] = "pop" => Len(s) > 2 /\ s[2] = "learn" /\ s[3] = "line"
           /\ s[1] \in {"enter", "forget", "wipe"} => Len(s) = 1
           /\ s[1] = "era" => Len(s) > 1 /\ s[2] = "forget"
<1>1. Len(s) \in Nat /\ Len(s) > 0 /\ \A i \in 1 .. Len(s) : s[i] \in LogSteps
  OBVIOUS
<1>2. Len(s) = 1 => s[1] \in Ends
  BY <1>1 DEF Shape
<1>3. Len(s) > 1 => Follows(s[1], s[2])
  BY <1>1 DEF Shape
<1>4. Len(s) > 2 => Follows(s[2], s[3])
  BY <1>1 DEF Shape
<1>5. Len(s) = 2 => s[2] \in Ends
  BY <1>1 DEF Shape
<1>6. s[1] \in {"count", "pop"} => 1 + 2 <= Len(s) /\ s[1 + 2] = Second(s[1])
  BY <1>1 DEF Shape
<1>11. Len(s) = 3 => s[3] \in Ends
  BY <1>1 DEF Shape
<1>12. Len(s) > 3 => Follows(s[3], s[4])
  BY <1>1 DEF Shape
<1> DEFINE n == Len(s)
           a == s[1]
           b == s[2]
           c == s[3]
           d == s[4]
<1>7. n \in Nat /\ n > 0 /\ (n = 1 => a \in Ends) /\ (n > 1 => Follows(a, b)) /\ (n > 2 => Follows(b, c))
      /\ (n = 2 => b \in Ends) /\ (a \in {"count", "pop"} => 3 <= n /\ c = Second(a))
      /\ (n > 3 => Follows(c, d)) /\ (n = 3 => c \in Ends)
  BY <1>1, <1>2, <1>3, <1>4, <1>5, <1>6, <1>11, <1>12
<1> HIDE DEF n, a, b, c, d
<1>13. a = "swap" => n > 3 /\ b = "link" /\ c = "learn" /\ d \in Uses
  BY <1>7 DEF Follows, Ends, Uses, Second
<1>8. /\ a \in {"learn", "find", "store"} => n > 1 /\ b \in Uses
      /\ a = "link" => n > 2 /\ b = "learn" /\ c \in Uses
      /\ a = "global" => n > 2 /\ b = "store" /\ c \in Uses
  BY <1>7 DEF Follows, Ends, Uses, Second
<1>9. /\ a = "count" => n > 2 /\ b = "learn" /\ c = "assign"
      /\ a = "assign" => n > 1 /\ b = "indent"
      /\ a = "indent" => n = 1 \/ b \in {"indent", "pop"}
      /\ a = "line" => n = 1 \/ b = "pop"
  BY <1>7 DEF Follows, Ends, Uses, Second
<1>10. /\ a = "pop" => n > 2 /\ b = "learn" /\ c = "line"
       /\ a \in {"enter", "forget", "wipe"} => n = 1
       /\ a = "era" => n > 1 /\ b = "forget"
  BY <1>7 DEF Follows, Ends, Uses, Second
<1> QED
  BY <1>1, <1>8, <1>9, <1>10, <1>13 DEF n, a, b, c, d

\* A thread with nothing to do is at no step.
LEMMA AtIs == ASSUME NEW th, NEW X PROVE /\ th.todo = <<>> => ~At(th, X)
                                         /\ th.todo # <<>> => (At(th, X) <=> th.todo[1] \in X)
  BY DEF At

\* What a thread relies on is kept by steps of others that leave the settings and its link.
LEMMA OwnKept ==
    ASSUME NEW h, NEW g, NEW th \in LogThread, Own(h, th),
           \A f \in Files : Setting(g, f) = Setting(h, f),
           \A f \in Files : \/ g.next[f] = h.next[f]
                            \/ h.next[f] = NoControl /\ g.next[f] # NoControl /\ ~(At(th, {"swap", "link"}) /\ th.file = f)
    PROVE  Own(g, th)
<1>1. At(th, Uses \cup {"store", "global"}) => ~At(th, Changes) /\ th.todo # <<>>
  BY DEF At, Uses, Changes
<1>2. At(th, {"swap", "link"}) \/ At(th, {"find", "store", "global"}) => ~At(th, Changes) /\ th.todo # <<>>
  BY DEF At, Changes
<1>3. th.todo # <<>> /\ Upcoming(th.todo) = "assign" => ~At(th, Changes)
  BY DEF At, Changes, Upcoming
<1>4. th.todo # <<>> /\ ~At(th, Changes) => th.file \in Files
  BY DEF Own
<1>5. At(th, Uses \cup {"store", "global"}) => th.found = Setting(g, th.file)
  BY <1>1, <1>4 DEF Own
<1>6. th.todo # <<>> /\ Upcoming(th.todo) = "assign" =>
          th.depth = ShownAt(th.frames, Setting(g, th.file), 1) /\ th.depth <= th.most
  BY <1>3, <1>4 DEF Own
<1>7. At(th, {"swap", "link"}) => g.next[th.file] = NoControl
  BY <1>2, <1>4 DEF Own
<1>8. At(th, {"find", "store", "global"}) => g.next[th.file] # NoControl
  BY <1>2, <1>4 DEF Own
<1>9. At(th, {"wipe"}) => th.at \in Files /\ g.next[th.at] # NoControl
  BY DEF Own
<1> QED
  BY <1>5, <1>6, <1>7, <1>8, <1>9 DEF Own

\* An idle thread relies on nothing but its frames.
LEMMA IdleOwns ==
    ASSUME NEW h, NEW g, NEW th \in LogThread, Own(h, th), th.todo = <<>>
    PROVE  Own(g, th)
  BY AtIs DEF Own

\* The setting of a file depends on the global level only.
LEMMA SettingKept == ASSUME NEW h, NEW g, g.global = h.global PROVE \A f \in Files : Setting(g, f) = Setting(h, f)
  BY DEF Setting

\* A file is always set to a level.
LEMMA SettingIs == ASSUME NEW h \in Log, NEW f \in Files PROVE Setting(h, f) \in Levels
<1>1. h.global \in Levels \cup {Unknown} /\ Environment[f] \in Levels \cup {Unset} /\ GlobalSetting \in Levels \cup {Unset}
  BY LogAssumption DEF Log
<1>2. MaxLevel \in Levels /\ Unknown > MaxLevel /\ MaxLevel \in Nat
  BY LogAssumption DEF Levels, Unknown
<1> QED
  BY <1>1, <1>2 DEF Setting, Levels, Unknown

\* The links stay when no link is being made, before or after.
LEMMA LinksKept ==
    ASSUME NEW h, NEW g, NEW t \in LogThreads, g.next = h.next,
           \A u \in LogThreads \ {t} : g.thread[u] = h.thread[u],
           ~At(h.thread[t], {"swap", "link"}), ~At(g.thread[t], {"swap", "link"})
    PROVE  /\ \A a, b \in Files : Links(g, a, b) <=> Links(h, a, b)
           /\ \A a \in Files : Linked(g, a) <=> Linked(h, a)
           /\ \A a, b \in Files : Reaches(g, a, b) <=> Reaches(h, a, b)
<1> ~At(h.thread[t], {"link"}) /\ ~At(g.thread[t], {"link"})
  BY DEF At
<1>1. \A a, b \in Files : Links(g, a, b) <=> Links(h, a, b)
  BY DEF Links
<1>2. \A S \in SUBSET Files : ClosedSet(g, S) <=> ClosedSet(h, S)
  BY <1>1 DEF ClosedSet
<1> QED
  BY <1>1, <1>2 DEF Linked, Reaches

\* Whoever changes neither a link nor a linking thread leaves the list as it is.
LEMMA ListKept ==
    ASSUME NEW h, NEW g, ListRight(h), g.head = h.head,
           \A a, b \in Files : Links(g, a, b) <=> Links(h, a, b),
           \A a \in Files : Linked(g, a) <=> Linked(h, a),
           \A a, b \in Files : Reaches(g, a, b) <=> Reaches(h, a, b)
    PROVE  ListRight(g)
  BY DEF ListRight

\* A step of a thread that logs, which changes no setting and no link.
LEMMA OnlyThread ==
    ASSUME NEW h, LogRight(h), NEW t \in LogThreads, NEW g \in Log, NEW r,
           \A f \in Files : g.level[f] = h.level[f] \/ (g.level[f] = Setting(h, f) /\ h.next[f] # NoControl),
           g.next = h.next, g.head = h.head, ~g.aborted, \A f \in Files : Setting(g, f) = Setting(h, f),
           g.thread = [h.thread EXCEPT ![t] = r], Own(g, r),
           ~At(h.thread[t], {"swap", "link"} \cup Changes), ~At(r, {"swap", "link"} \cup Changes),
           \A u \in LogThreads \ {t} : At(h.thread[u], Changes) => r.todo = <<>>
    PROVE  LogRight(g)
<1>1. h \in Log /\ h.thread \in [LogThreads -> LogThread]
  BY DEF LogRight, Log
<1>2. g.thread[t] = r /\ \A u \in LogThreads \ {t} : g.thread[u] = h.thread[u]
  BY <1>1
<1>3. /\ ~At(h.thread[t], {"swap", "link"}) /\ ~At(r, {"swap", "link"}) /\ ~At(h.thread[t], {"wipe"}) /\ ~At(r, {"wipe"})
      /\ ~At(h.thread[t], {"era", "forget"}) /\ ~At(r, {"era", "forget"}) /\ ~At(r, Changes)
  BY DEF At, Changes
<1>4. /\ \A a, b \in Files : Links(g, a, b) <=> Links(h, a, b)
      /\ \A a \in Files : Linked(g, a) <=> Linked(h, a)
      /\ \A a, b \in Files : Reaches(g, a, b) <=> Reaches(h, a, b)
  BY <1>2, <1>3, LinksKept
<1>5. \A u \in LogThreads : Own(g, g.thread[u])
  <2>1. ASSUME NEW u \in LogThreads \ {t} PROVE Own(g, h.thread[u])
    BY <1>1, OwnKept DEF LogRight
  <2> QED
    BY <1>2, <2>1
<1>6. ListRight(g)
  BY <1>4, ListKept DEF LogRight
<1>7. LinkersApart(g)
  <2>1. ASSUME NEW u \in LogThreads, NEW v \in LogThreads, u # v
        PROVE  /\ At(g.thread[u], {"swap", "link"}) /\ At(g.thread[v], {"swap", "link"}) => g.thread[u].file # g.thread[v].file
               /\ At(g.thread[u], Changes) => g.thread[v].todo = <<>>
    <3>1. CASE u = t
      BY <1>2, <1>3, <3>1
    <3>2. CASE v = t
      BY <1>2, <1>3, <2>1, <3>2
    <3>3. CASE u # t /\ v # t
      BY <1>2, <2>1, <3>3 DEF LogRight, LinkersApart
    <3> QED
      BY <3>1, <3>2, <3>3
  <2> QED
    BY <2>1 DEF LinkersApart
<1>8. LevelsRight(g)
  <2>1. LevelsRight(h)
    BY DEF LogRight
  <2>2. \A u \in LogThreads : /\ At(g.thread[u], {"era", "forget"}) <=> At(h.thread[u], {"era", "forget"})
                              /\ At(g.thread[u], {"wipe"}) <=> At(h.thread[u], {"wipe"})
                              /\ At(g.thread[u], {"wipe"}) => g.thread[u].at = h.thread[u].at /\ h.thread[u].at \in Files
    <3>1. \A u \in LogThreads : At(h.thread[u], {"wipe"}) => h.thread[u].at \in Files
      BY DEF LogRight, Own
    <3> QED
      BY <1>2, <1>3, <3>1
  <2> QED
    BY <1>4, <2>1, <2>2 DEF LevelsRight
<1> QED
  BY <1>5, <1>6, <1>7, <1>8 DEF LogRight

\* A step of a thread that changes the level, while all others are idle.
LEMMA OnlyChanger ==
    ASSUME NEW h, LogRight(h), NEW t \in LogThreads, NEW g \in Log, NEW r,
           g.next = h.next, g.head = h.head, ~g.aborted,
           g.thread = [h.thread EXCEPT ![t] = r], Own(g, r),
           ~At(h.thread[t], {"swap", "link"}), ~At(r, {"swap", "link"}),
           \A u \in LogThreads \ {t} : h.thread[u].todo = <<>>,
           LevelsRight(g)
    PROVE  LogRight(g)
<1>1. h \in Log /\ h.thread \in [LogThreads -> LogThread]
  BY DEF LogRight, Log
<1>2. g.thread[t] = r /\ \A u \in LogThreads \ {t} : g.thread[u] = h.thread[u]
  BY <1>1
<1>3. ListRight(g)
  BY <1>2, LinksKept, ListKept DEF LogRight
<1>4. \A u \in LogThreads : Own(g, g.thread[u])
  <2>1. ASSUME NEW u \in LogThreads \ {t} PROVE Own(g, h.thread[u])
    BY <1>1, IdleOwns DEF LogRight
  <2> QED
    BY <1>2, <2>1
<1>5. LinkersApart(g)
  <2>1. \A u \in LogThreads \ {t} : g.thread[u].todo = <<>> /\ ~At(g.thread[u], Changes) /\ ~At(g.thread[u], {"swap", "link"})
    BY <1>2, AtIs
  <2> QED
    BY <1>2, <2>1 DEF LinkersApart
<1> QED
  BY <1>3, <1>4, <1>5 DEF LogRight

\* What a thread relies on that goes on with a step of its own.
LEMMA OwnNext ==
    ASSUME NEW h, NEW th, Own(h, th), th.todo # <<>>, ~At(th, Changes), NEW r, Shape(r.todo), r.todo # <<>>, ~At(r, Changes),
           r.frames = th.frames, r.most = th.most, r.file = th.file, r.depth = th.depth,
           Upcoming(r.todo) = "assign" <=> Upcoming(th.todo) = "assign",
           At(r, {"global"}) => r.found = GlobalSetting /\ GlobalSetting # Unset /\ Environment[r.file] = Unset,
           At(r, Uses \cup {"store", "global"}) => r.found = Setting(h, r.file),
           At(r, {"swap", "link"}) => h.next[r.file] = NoControl,
           At(r, {"find", "store", "global"}) => h.next[r.file] # NoControl
    PROVE  Own(h, r)
<1>1. FramesRight(r) /\ r.most >= 0 /\ r.file \in Files
  BY DEF Own, FramesRight
<1>2. ~At(r, {"wipe"})
  BY DEF At, Changes
<1>3. /\ Upcoming(r.todo) # "assign" => r.depth = 0
      /\ Upcoming(r.todo) = "assign" => r.depth = ShownAt(r.frames, Setting(h, r.file), 1) /\ r.depth <= r.most
  BY DEF Own
<1> QED
  BY <1>1, <1>2, <1>3 DEF Own

\* A thread that is between uses of a level, or idle, relies on little.
LEMMA OwnPlain ==
    ASSUME NEW h, NEW r, Shape(r.todo), FramesRight(r), r.most >= 0, r.depth = 0,
           r.todo # <<>> => /\ r.todo[1] \in {"indent", "pop", "learn"} /\ r.file \in Files
                            /\ r.todo[1] = "learn" => r.todo[2] # "assign"
    PROVE  Own(h, r)
<1>1. \A X : At(r, X) => r.todo # <<>> /\ r.todo[1] \in X /\ r.todo[1] \in {"indent", "pop", "learn"}
  BY DEF At
<1>2. /\ ~At(r, {"global"}) /\ ~At(r, Uses \cup {"store", "global"}) /\ ~At(r, {"swap", "link"})
      /\ ~At(r, {"find", "store", "global"}) /\ ~At(r, {"wipe"})
  BY <1>1 DEF Uses
<1>3. r.todo # <<>> => Upcoming(r.todo) # "assign"
  BY DEF Upcoming
<1> QED
  BY <1>2, <1>3 DEF Own

\* What the invariant says of one thread.
LEMMA ThreadIs ==
    ASSUME LogRight(log), NEW t \in LogThreads
    PROVE  /\ log \in Log /\ log.thread \in [LogThreads -> LogThread] /\ log.thread[t] \in LogThread
           /\ Own(log, log.thread[t])
           /\ log.thread[t].todo \in Seq(LogSteps) /\ Shape(log.thread[t].todo)
  BY DEF LogRight, Log, LogThread, Own

\* What a guard on the step at hand says of what is to be done.
LEMMA StepAtHand ==
    ASSUME LogRight(log), NEW t \in LogThreads, NEW step, LogDoes(t, step)
    PROVE  /\ log.thread[t].todo # <<>> /\ log.thread[t].todo[1] = step /\ Busy(t)
           /\ \A X : At(log.thread[t], X) <=> step \in X
<1>1. log.thread[t].todo \in Seq(LogSteps)
  BY ThreadIs
<1> QED
  BY <1>1 DEF LogDoes, Busy, At

\* While a thread logs, nobody changes the level.
LEMMA NobodyChanges ==
    ASSUME LogRight(log), NEW t \in LogThreads, Busy(t)
    PROVE  \A u \in LogThreads \ {t} : ~At(log.thread[u], Changes)
  BY DEF LogRight, LinkersApart, Busy

\* While nobody changes the level, a file that has one has the one that is set.
LEMMA LevelKnown ==
    ASSUME LogRight(log), NEW t \in LogThreads, Busy(t), ~At(log.thread[t], Changes)
    PROVE  \A f \in Files : log.level[f] \in {Unknown, Setting(log, f)}
<1>1. \A u \in LogThreads : ~At(log.thread[u], Changes)
  BY NobodyChanges
<1>2. \A u \in LogThreads : ~At(log.thread[u], {"era", "forget"}) /\ ~At(log.thread[u], {"wipe"})
  BY <1>1 DEF At, Changes
<1> QED
  BY <1>2 DEF LogRight, LevelsRight

\* A step of a thread that logs.
LEMMA StepOf ==
    ASSUME LogRight(log), NEW t \in LogThreads, Busy(t), ~At(log.thread[t], {"swap", "link"} \cup Changes),
           NEW r \in LogThread, Own(log, r), ~At(r, {"swap", "link"} \cup Changes), NEW g \in Log,
           \A f \in Files : g.level[f] = log.level[f] \/ (g.level[f] = Setting(log, f) /\ log.next[f] # NoControl),
           g.next = log.next, g.head = log.head, ~g.aborted, \A f \in Files : Setting(g, f) = Setting(log, f),
           g.thread = [log.thread EXCEPT ![t] = r]
    PROVE  LogRight(g)
<1>1. Own(g, r)
  BY OwnKept
<1>2. \A u \in LogThreads \ {t} : ~At(log.thread[u], Changes)
  BY NobodyChanges, AtIs DEF At
<1> QED
  BY <1>1, <1>2, OnlyThread

\* A step that changes the thread alone.
LEMMA StepThread ==
    ASSUME LogRight(log), NEW t \in LogThreads, Busy(t), ~At(log.thread[t], {"swap", "link"} \cup Changes),
           NEW r \in LogThread, Own(log, r), ~At(r, {"swap", "link"} \cup Changes), log' = [log EXCEPT !.thread[t] = r]
    PROVE  LogRight(log')
<1>1. log \in Log /\ log.thread \in [LogThreads -> LogThread] /\ ~log.aborted
  BY ThreadIs DEF LogRight
<1>2. PICK g : g = [log EXCEPT !.thread[t] = r]
  OBVIOUS
<1>3. g = [log EXCEPT !.thread = [log.thread EXCEPT ![t] = r]]
  BY <1>1, <1>2 DEF Log
<1>4. [log.thread EXCEPT ![t] = r] \in [LogThreads -> LogThread]
  BY <1>1
<1>5. /\ g \in Log /\ g.level = log.level /\ g.next = log.next /\ g.head = log.head /\ g.global = log.global
      /\ g.aborted = log.aborted /\ g.thread = [log.thread EXCEPT ![t] = r]
  BY <1>1, <1>3, <1>4 DEF Log
<1>6. \A f \in Files : Setting(g, f) = Setting(log, f)
  BY <1>5, SettingKept
<1>7. LogRight(g)
  BY <1>1, <1>5, <1>6, StepOf
<1> QED
  BY <1>2, <1>7

\* What is left to do when a step is done, or makes others.
LEMMA ThenDoes ==
    ASSUME NEW th \in LogThread, th.todo # <<>>, Shape(th.todo), NEW steps \in Seq(LogSteps),
           \A i \in 1 .. (Len(steps) - 1) : Follows(steps[i], steps[i + 1]),
           steps # <<>> /\ Len(th.todo) > 1 => Follows(steps[Len(steps)], th.todo[2]),
           steps # <<>> /\ Len(th.todo) = 1 => steps[Len(steps)] \in Ends,
           \A i \in 1 .. Len(steps) : steps[i] \in {"count", "pop"} => i + 2 <= Len(steps) /\ steps[i + 2] = Second(steps[i])
    PROVE  LET r == Then(th, steps) IN
           /\ r \in LogThread /\ Shape(r.todo) /\ r.frames = th.frames /\ r.most = th.most /\ r.era = th.era
           /\ r.todo = <<>> <=> steps = <<>> /\ Len(th.todo) = 1
           /\ r.todo = <<>> => r.depth = 0
           /\ r.todo # <<>> => /\ r.file = th.file /\ r.level = th.level /\ r.found = th.found
                               /\ r.old = th.old /\ r.at = th.at /\ r.depth = th.depth
           /\ Len(r.todo) = Len(steps) + Len(th.todo) - 1
           /\ \A i \in 1 .. Len(steps) : r.todo[i] = steps[i]
           /\ \A i \in 1 .. (Len(th.todo) - 1) : r.todo[Len(steps) + i] = th.todo[i + 1]
<1>1. PICK r : r = Then(th, steps)
  OBVIOUS
<1>2. PICK s : s = th.todo
  OBVIOUS
<1>3. PICK q : q = steps \o Tail(s)
  OBVIOUS
<1>4. s \in Seq(LogSteps) /\ s # <<>> /\ Shape(s)
  BY <1>2 DEF LogThread
<1>5. Replaces(q, s, steps)
  BY <1>4, <1>3, TodoIs
<1>6. Shape(q)
  BY <1>4, <1>2, <1>3, ShapeThen
<1>7. DoesNext(r, th, q)
  BY <1>1, <1>2, <1>3, ThenIs
<1> QED
  BY <1>1, <1>2, <1>5, <1>6, <1>7 DEF Replaces, DoesNext

\* The step is done and nothing takes its place.
LEMMA ThenNone ==
    ASSUME NEW th \in LogThread, th.todo # <<>>, Shape(th.todo)
    PROVE  LET r == Then(th, <<>>) IN
           /\ r \in LogThread /\ Shape(r.todo) /\ r.frames = th.frames /\ r.most = th.most /\ r.era = th.era
           /\ Len(th.todo) = 1 => r.todo = <<>> /\ r.depth = 0
           /\ Len(th.todo) > 1 => /\ r.todo # <<>> /\ r.todo[1] = th.todo[2]
                                  /\ Len(th.todo) > 2 => r.todo[2] = th.todo[3]
                                  /\ Len(th.todo) > 3 => r.todo[3] = th.todo[4]
                                  /\ r.file = th.file /\ r.level = th.level /\ r.found = th.found
                                  /\ r.old = th.old /\ r.at = th.at /\ r.depth = th.depth
<1>1. PICK e : e = <<>>
  OBVIOUS
<1>2. PICK r : r = Then(th, e)
  OBVIOUS
<1>3. e \in Seq(LogSteps) /\ Len(e) = 0 /\ Len(th.todo) \in Nat
  <2>1. <<>> \in Seq(LogSteps) /\ Len(<<>>) = 0
    OBVIOUS
  <2>2. th.todo \in Seq(LogSteps)
    BY DEF LogThread
  <2> QED
    BY <1>1, <2>1, <2>2
<1>4. /\ \A i \in 1 .. (Len(e) - 1) : Follows(e[i], e[i + 1])
      /\ \A i \in 1 .. Len(e) : e[i] \in {"count", "pop"} => i + 2 <= Len(e) /\ e[i + 2] = Second(e[i])
      /\ e # <<>> /\ Len(th.todo) > 1 => Follows(e[Len(e)], th.todo[2])
      /\ e # <<>> /\ Len(th.todo) = 1 => e[Len(e)] \in Ends
  BY <1>3
<1>5. /\ r \in LogThread /\ Shape(r.todo) /\ r.frames = th.frames /\ r.most = th.most /\ r.era = th.era
      /\ r.todo = <<>> <=> e = <<>> /\ Len(th.todo) = 1
      /\ r.todo = <<>> => r.depth = 0
      /\ r.todo # <<>> => /\ r.file = th.file /\ r.level = th.level /\ r.found = th.found
                          /\ r.old = th.old /\ r.at = th.at /\ r.depth = th.depth
      /\ \A i \in 1 .. (Len(th.todo) - 1) : r.todo[Len(e) + i] = th.todo[i + 1]
  BY <1>3, <1>4, <1>2, ThenDoes
<1>6. \A i \in 1 .. (Len(th.todo) - 1) : r.todo[i] = th.todo[i + 1]
  BY <1>3, <1>5
<1>7. /\ Len(th.todo) > 1 => r.todo[1] = th.todo[2]
      /\ Len(th.todo) > 2 => r.todo[2] = th.todo[3]
      /\ Len(th.todo) > 3 => r.todo[3] = th.todo[4]
  BY <1>3, <1>6
<1> QED
  BY <1>1, <1>2, <1>3, <1>5, <1>7

\* One step takes its place.
LEMMA ThenOne ==
    ASSUME NEW th \in LogThread, th.todo # <<>>, Shape(th.todo), NEW a \in LogSteps \ {"count", "pop"},
           Len(th.todo) > 1 => Follows(a, th.todo[2]), Len(th.todo) = 1 => a \in Ends
    PROVE  LET r == Then(th, <<a>>) IN
           /\ r \in LogThread /\ Shape(r.todo) /\ r.frames = th.frames /\ r.most = th.most /\ r.era = th.era
           /\ r.todo # <<>> /\ r.todo[1] = a /\ (Len(th.todo) > 1 => r.todo[2] = th.todo[2])
           /\ r.file = th.file /\ r.level = th.level /\ r.found = th.found
           /\ r.old = th.old /\ r.at = th.at /\ r.depth = th.depth
<1>1. PICK e : e = <<a>>
  OBVIOUS
<1>2. PICK r : r = Then(th, e)
  OBVIOUS
<1>3. e \in Seq(LogSteps) /\ Len(e) = 1 /\ e[1] = a /\ e # <<>> /\ Len(th.todo) \in Nat
  BY <1>1 DEF LogThread
<1>4. /\ \A i \in 1 .. (Len(e) - 1) : Follows(e[i], e[i + 1])
      /\ \A i \in 1 .. Len(e) : e[i] \in {"count", "pop"} => i + 2 <= Len(e) /\ e[i + 2] = Second(e[i])
      /\ e # <<>> /\ Len(th.todo) > 1 => Follows(e[Len(e)], th.todo[2])
      /\ e # <<>> /\ Len(th.todo) = 1 => e[Len(e)] \in Ends
  BY <1>3
<1>5. /\ r \in LogThread /\ Shape(r.todo) /\ r.frames = th.frames /\ r.most = th.most /\ r.era = th.era
      /\ r.todo # <<>> /\ r.file = th.file /\ r.level = th.level /\ r.found = th.found
      /\ r.old = th.old /\ r.at = th.at /\ r.depth = th.depth
      /\ \A i \in 1 .. Len(e) : r.todo[i] = e[i]
      /\ \A i \in 1 .. (Len(th.todo) - 1) : r.todo[Len(e) + i] = th.todo[i + 1]
  BY <1>3, <1>4, <1>2, ThenDoes
<1>6. r.todo[1] = a
  BY <1>3, <1>5
<1>7. Len(th.todo) > 1 => r.todo[Len(e) + 1] = th.todo[1 + 1]
  <2> SUFFICES ASSUME Len(th.todo) > 1 PROVE r.todo[Len(e) + 1] = th.todo[1 + 1]
    OBVIOUS
  <2>1. 1 \in 1 .. (Len(th.todo) - 1)
    BY <1>3
  <2> QED
    BY <1>5, <2>1
<1> QED
  BY <1>1, <1>2, <1>3, <1>5, <1>6, <1>7

\* Two steps take its place.
LEMMA ThenTwo ==
    ASSUME NEW th \in LogThread, th.todo # <<>>, Shape(th.todo), NEW a \in LogSteps \ {"count", "pop"},
           NEW b \in LogSteps \ {"count", "pop"}, Follows(a, b),
           Len(th.todo) > 1 => Follows(b, th.todo[2]), Len(th.todo) = 1 => b \in Ends
    PROVE  LET r == Then(th, <<a, b>>) IN
           /\ r \in LogThread /\ Shape(r.todo) /\ r.frames = th.frames /\ r.most = th.most /\ r.era = th.era
           /\ r.todo # <<>> /\ r.todo[1] = a /\ r.todo[2] = b /\ (Len(th.todo) > 1 => r.todo[3] = th.todo[2])
           /\ r.file = th.file /\ r.level = th.level /\ r.found = th.found
           /\ r.old = th.old /\ r.at = th.at /\ r.depth = th.depth
<1>1. PICK e : e = <<a, b>>
  OBVIOUS
<1>2. PICK r : r = Then(th, e)
  OBVIOUS
<1>3. e \in Seq(LogSteps) /\ Len(e) = 2 /\ e[1] = a /\ e[2] = b /\ e # <<>> /\ Len(th.todo) \in Nat
  BY <1>1 DEF LogThread
<1>4. /\ \A i \in 1 .. (Len(e) - 1) : Follows(e[i], e[i + 1])
      /\ \A i \in 1 .. Len(e) : e[i] \in {"count", "pop"} => i + 2 <= Len(e) /\ e[i + 2] = Second(e[i])
      /\ e # <<>> /\ Len(th.todo) > 1 => Follows(e[Len(e)], th.todo[2])
      /\ e # <<>> /\ Len(th.todo) = 1 => e[Len(e)] \in Ends
  BY <1>3
<1>5. /\ r \in LogThread /\ Shape(r.todo) /\ r.frames = th.frames /\ r.most = th.most /\ r.era = th.era
      /\ r.todo # <<>> /\ r.file = th.file /\ r.level = th.level /\ r.found = th.found
      /\ r.old = th.old /\ r.at = th.at /\ r.depth = th.depth
      /\ \A i \in 1 .. Len(e) : r.todo[i] = e[i]
      /\ \A i \in 1 .. (Len(th.todo) - 1) : r.todo[Len(e) + i] = th.todo[i + 1]
  BY <1>3, <1>4, <1>2, ThenDoes
<1>6. r.todo[1] = a /\ r.todo[2] = b
  BY <1>3, <1>5
<1>7. Len(th.todo) > 1 => r.todo[Len(e) + 1] = th.todo[1 + 1]
  <2> SUFFICES ASSUME Len(th.todo) > 1 PROVE r.todo[Len(e) + 1] = th.todo[1 + 1]
    OBVIOUS
  <2>1. 1 \in 1 .. (Len(th.todo) - 1)
    BY <1>3
  <2> QED
    BY <1>5, <2>1
<1> QED
  BY <1>1, <1>2, <1>3, <1>5, <1>6, <1>7

\* sxe_log_control_learn_level puts its control on the list, and then starts again.
LEMMA ThenLinks ==
    ASSUME NEW th \in LogThread, th.todo # <<>>, Shape(th.todo), Len(th.todo) > 1, Follows("learn", th.todo[2])
    PROVE  LET r == Then(th, <<"swap", "link", "learn">>) IN
           /\ r \in LogThread /\ Shape(r.todo) /\ r.frames = th.frames /\ r.most = th.most /\ r.era = th.era
           /\ r.todo # <<>> /\ r.todo[1] = "swap" /\ r.todo[2] = "link" /\ r.todo[3] = "learn" /\ r.todo[4] = th.todo[2]
           /\ r.file = th.file /\ r.level = th.level /\ r.found = th.found
           /\ r.old = th.old /\ r.at = th.at /\ r.depth = th.depth
<1>1. PICK e : e = <<"swap", "link", "learn">>
  OBVIOUS
<1>2. PICK r : r = Then(th, e)
  OBVIOUS
<1>3. /\ e \in Seq(LogSteps) /\ Len(e) = 3 /\ e[1] = "swap" /\ e[2] = "link" /\ e[3] = "learn"
      /\ e # <<>> /\ Len(th.todo) \in Nat
  BY <1>1 DEF LogThread, LogSteps, Learns
<1>4. /\ \A i \in 1 .. (Len(e) - 1) : Follows(e[i], e[i + 1])
      /\ \A i \in 1 .. Len(e) : e[i] \in {"count", "pop"} => i + 2 <= Len(e) /\ e[i + 2] = Second(e[i])
      /\ e # <<>> /\ Len(th.todo) > 1 => Follows(e[Len(e)], th.todo[2])
      /\ ~(Len(th.todo) = 1)
  BY <1>3 DEF Follows
<1>5. /\ r \in LogThread /\ Shape(r.todo) /\ r.frames = th.frames /\ r.most = th.most /\ r.era = th.era
      /\ r.todo # <<>> /\ r.file = th.file /\ r.level = th.level /\ r.found = th.found
      /\ r.old = th.old /\ r.at = th.at /\ r.depth = th.depth
      /\ \A i \in 1 .. Len(e) : r.todo[i] = e[i]
      /\ \A i \in 1 .. (Len(th.todo) - 1) : r.todo[Len(e) + i] = th.todo[i + 1]
  BY <1>3, <1>4, <1>2, ThenDoes
<1>6. r.todo[1] = "swap" /\ r.todo[2] = "link" /\ r.todo[3] = "learn"
  BY <1>3, <1>5
<1>7. r.todo[Len(e) + 1] = th.todo[1 + 1]
  <2>1. 1 \in 1 .. (Len(th.todo) - 1)
    BY <1>3
  <2> QED
    BY <1>5, <2>1
<1> QED
  BY <1>1, <1>2, <1>3, <1>5, <1>6, <1>7

\* sxe_log_get_indent counts and assigns before the line that needs the indent.
LEMMA ThenFive ==
    ASSUME NEW th \in LogThread, th.todo # <<>>, Shape(th.todo),
           Len(th.todo) > 1 => Follows("indent", th.todo[2]), Len(th.todo) = 1 => "indent" \in Ends
    PROVE  LET r == Then(th, <<"learn", "count", "learn", "assign", "indent">>) IN
           /\ r \in LogThread /\ Shape(r.todo) /\ r.frames = th.frames /\ r.most = th.most /\ r.era = th.era
           /\ r.todo # <<>> /\ r.todo[1] = "learn" /\ r.todo[2] = "count" /\ r.todo[3] = "learn"
           /\ r.todo[4] = "assign" /\ r.todo[5] = "indent" /\ (Len(th.todo) > 1 => r.todo[6] = th.todo[2])
           /\ r.file = th.file /\ r.level = th.level /\ r.found = th.found
           /\ r.old = th.old /\ r.at = th.at /\ r.depth = th.depth
<1>1. PICK e : e = <<"learn", "count", "learn", "assign", "indent">>
  OBVIOUS
<1>2. PICK r : r = Then(th, e)
  OBVIOUS
<1>3. /\ e \in Seq(LogSteps) /\ Len(e) = 5 /\ e[1] = "learn" /\ e[2] = "count" /\ e[3] = "learn"
      /\ e[4] = "assign" /\ e[5] = "indent" /\ e # <<>> /\ Len(th.todo) \in Nat
  BY <1>1 DEF LogThread, LogSteps, Learns, Uses
<1>4. /\ \A i \in 1 .. (Len(e) - 1) : Follows(e[i], e[i + 1])
      /\ \A i \in 1 .. Len(e) : e[i] \in {"count", "pop"} => i + 2 <= Len(e) /\ e[i + 2] = Second(e[i])
      /\ e # <<>> /\ Len(th.todo) > 1 => Follows(e[Len(e)], th.todo[2])
      /\ e # <<>> /\ Len(th.todo) = 1 => e[Len(e)] \in Ends
  BY <1>3 DEF Follows, Uses, Second
<1>5. /\ r \in LogThread /\ Shape(r.todo) /\ r.frames = th.frames /\ r.most = th.most /\ r.era = th.era
      /\ r.todo # <<>> /\ r.file = th.file /\ r.level = th.level /\ r.found = th.found
      /\ r.old = th.old /\ r.at = th.at /\ r.depth = th.depth
      /\ \A i \in 1 .. Len(e) : r.todo[i] = e[i]
      /\ \A i \in 1 .. (Len(th.todo) - 1) : r.todo[Len(e) + i] = th.todo[i + 1]
  BY <1>3, <1>4, <1>2, ThenDoes
<1>6. r.todo[1] = "learn" /\ r.todo[2] = "count" /\ r.todo[3] = "learn" /\ r.todo[4] = "assign" /\ r.todo[5] = "indent"
  BY <1>3, <1>5
<1>7. Len(th.todo) > 1 => r.todo[Len(e) + 1] = th.todo[1 + 1]
  <2> SUFFICES ASSUME Len(th.todo) > 1 PROVE r.todo[Len(e) + 1] = th.todo[1 + 1]
    OBVIOUS
  <2>1. 1 \in 1 .. (Len(th.todo) - 1)
    BY <1>3
  <2> QED
    BY <1>5, <2>1
<1> QED
  BY <1>1, <1>2, <1>3, <1>5, <1>6, <1>7

-----------------------------------------------------------------------------
\* sxe_log_control_learn_level with a control that is linked already.
LEMMA LevelKeeps ==
    ASSUME LogRight(log), NEW t \in LogThreads, LogDoes(t, "learn"), log.next[log.thread[t].file] # NoControl,
           log' = [log EXCEPT !.thread[t] = Level(t)]
    PROVE  LogRight(log')
<1> DEFINE th == log.thread[t]
           s == th.todo
           l == log.level[th.file]
<1>1. /\ th \in LogThread /\ s \in Seq(LogSteps) /\ Shape(s) /\ Own(log, th) /\ s # <<>> /\ s[1] = "learn"
      /\ Busy(t) /\ log \in Log
  BY ThreadIs, StepAtHand
<1>2. ~At(th, {"swap", "link"} \cup Changes) /\ ~At(th, Changes)
  <2>1. "learn" \notin {"swap", "link"} \cup Changes
    BY DEF Changes
  <2> QED
    BY <2>1, StepAtHand
<1>3. Len(s) > 1 /\ s[2] \in Uses /\ Len(s) \in Nat
  BY <1>1, ShapeIs
<1>4. th.file \in Files
  BY <1>1, <1>2 DEF Own
<1>5. l \in Levels \cup {Unknown} /\ l \in {Unknown, Setting(log, th.file)}
  BY <1>1, <1>2, <1>4, LevelKnown DEF Log
<1>6. CASE l <= MaxLevel
  <2>1. l \in Levels /\ l = Setting(log, th.file)
    <3>1. Unknown > MaxLevel
      BY LogAssumption DEF Unknown
    <3> QED
      BY <1>5, <1>6, <3>1, LogAssumption DEF Levels, Unknown
  <2> DEFINE known == [th EXCEPT !.found = l]
             r == Then(known, <<>>)
  <2>2. log' = [log EXCEPT !.thread[t] = r]
    BY <1>6 DEF Level, NowKnows
  <2>3. /\ known \in LogThread /\ known.todo = s /\ known.found = l /\ known.file = th.file /\ known.frames = th.frames
        /\ known.most = th.most /\ known.depth = th.depth
    BY <1>1, <2>1 DEF LogThread
  <2> HIDE DEF known
  <2>4. /\ r \in LogThread /\ Shape(r.todo) /\ r.todo # <<>> /\ r.todo[1] = s[2] /\ r.frames = th.frames /\ r.most = th.most
        /\ r.file = th.file /\ r.depth = th.depth /\ r.found = l
    BY <1>1, <1>3, <2>3, ThenNone
  <2> HIDE DEF r
  <2>5. Upcoming(r.todo) = s[2] /\ Upcoming(s) = s[2]
    BY <1>1, <1>3, <2>4 DEF Upcoming, Uses
  <2>6. \A X : At(r, X) <=> s[2] \in X
    BY <2>4 DEF At
  <2>7. /\ ~At(r, Changes) /\ ~At(r, {"swap", "link"} \cup Changes) /\ ~At(r, {"global"}) /\ ~At(r, {"swap", "link"})
        /\ ~At(r, {"find", "store", "global"})
    BY <1>3, <2>6 DEF Changes, Uses
  <2>8. Own(log, r)
    BY <1>1, <1>2, <2>1, <2>4, <2>5, <2>7, OwnNext
  <2> QED
    BY <1>1, <1>2, <2>2, <2>4, <2>7, <2>8, StepThread
<1>7. CASE ~(l <= MaxLevel)
  <2> DEFINE r == Then(th, <<"find">>)
  <2>1. log' = [log EXCEPT !.thread[t] = r]
    BY <1>7 DEF Level
  <2>2. "find" \in LogSteps \ {"count", "pop"} /\ Follows("find", s[2])
    BY <1>3 DEF LogSteps, Learns, Follows
  <2>3. /\ r \in LogThread /\ Shape(r.todo) /\ r.todo # <<>> /\ r.todo[1] = "find" /\ r.todo[2] = s[2]
        /\ r.frames = th.frames /\ r.most = th.most /\ r.file = th.file /\ r.depth = th.depth
    BY <1>1, <1>3, <2>2, ThenOne
  <2> HIDE DEF r
  <2>4. Upcoming(r.todo) = s[2] /\ Upcoming(s) = s[2]
    BY <1>1, <1>3, <2>3 DEF Upcoming, Uses
  <2>5. \A X : At(r, X) <=> "find" \in X
    BY <2>3 DEF At
  <2>6. /\ ~At(r, Changes) /\ ~At(r, {"swap", "link"} \cup Changes) /\ ~At(r, {"global"}) /\ ~At(r, {"swap", "link"})
        /\ ~At(r, Uses \cup {"store", "global"})
    BY <2>5 DEF Changes, Uses
  <2>7. Own(log, r)
    BY <1>1, <1>2, <2>3, <2>4, <2>6, OwnNext
  <2> QED
    BY <1>1, <1>2, <2>1, <2>3, <2>6, <2>7, StepThread
<1> QED
  BY <1>6, <1>7

\* The level was found, in the environment or as the last resort, and is about to be stored.
LEMMA FoundKeeps ==
    ASSUME LogRight(log), NEW t \in LogThreads, LogDoes(t, "find"), NEW x, x = Setting(log, log.thread[t].file),
           log' = [log EXCEPT !.thread[t] = NowKnows(t, x, <<"store">>)]
    PROVE  LogRight(log')
<1> DEFINE th == log.thread[t]
           s == th.todo
<1>1. /\ th \in LogThread /\ s \in Seq(LogSteps) /\ Shape(s) /\ Own(log, th) /\ s # <<>> /\ s[1] = "find"
      /\ Busy(t) /\ log \in Log
  BY ThreadIs, StepAtHand
<1>2. ~At(th, {"swap", "link"} \cup Changes) /\ ~At(th, Changes) /\ At(th, {"find", "store", "global"})
  <2>1. "find" \notin {"swap", "link"} \cup Changes /\ "find" \notin Changes /\ "find" \in {"find", "store", "global"}
    BY DEF Changes
  <2> QED
    BY <2>1, StepAtHand
<1>3. Len(s) > 1 /\ s[2] \in Uses /\ Len(s) \in Nat
  BY <1>1, ShapeIs
<1>4. th.file \in Files /\ log.next[th.file] # NoControl
  BY <1>1, <1>2 DEF Own
<1>5. x \in Levels
  BY <1>1, <1>4, SettingIs
<1> DEFINE known == [th EXCEPT !.found = x]
           r == Then(known, <<"store">>)
<1>6. log' = [log EXCEPT !.thread[t] = r]
  BY DEF NowKnows
<1>7. /\ known \in LogThread /\ known.todo = s /\ known.found = x /\ known.file = th.file /\ known.frames = th.frames
      /\ known.most = th.most /\ known.depth = th.depth
  BY <1>1, <1>5 DEF LogThread
<1> HIDE DEF known
<1>8. "store" \in LogSteps \ {"count", "pop"} /\ Follows("store", s[2])
  BY <1>3 DEF LogSteps, Learns, Follows
<1>9. /\ r \in LogThread /\ Shape(r.todo) /\ r.todo # <<>> /\ r.todo[1] = "store" /\ r.todo[2] = s[2]
      /\ r.frames = th.frames /\ r.most = th.most /\ r.file = th.file /\ r.depth = th.depth /\ r.found = x
  BY <1>1, <1>3, <1>7, <1>8, ThenOne
<1> HIDE DEF r
<1>10. Upcoming(r.todo) = s[2] /\ Upcoming(s) = s[2]
  BY <1>1, <1>3, <1>9 DEF Upcoming, Uses
<1>11. \A X : At(r, X) <=> "store" \in X
  BY <1>9 DEF At
<1>12. ~At(r, Changes) /\ ~At(r, {"swap", "link"} \cup Changes) /\ ~At(r, {"global"}) /\ ~At(r, {"swap", "link"})
  BY <1>11 DEF Changes
<1>13. Own(log, r)
  BY <1>1, <1>2, <1>4, <1>9, <1>10, <1>12, OwnNext
<1> QED
  BY <1>1, <1>2, <1>6, <1>9, <1>12, <1>13, StepThread

\* sxe_log_control_learn_level looks for the level that is set.
LEMMA FindKeeps == ASSUME LogRight(log), NEW t \in LogThreads, Find(t) PROVE LogRight(log')
<1> DEFINE th == log.thread[t]
           s == th.todo
           f == th.file
<1>1. LogDoes(t, "find")
  BY DEF Find
<1>2. /\ th \in LogThread /\ s \in Seq(LogSteps) /\ Shape(s) /\ Own(log, th) /\ s # <<>> /\ s[1] = "find"
      /\ Busy(t) /\ log \in Log
  BY <1>1, ThreadIs, StepAtHand
<1>3. ~At(th, {"swap", "link"} \cup Changes) /\ ~At(th, Changes) /\ At(th, {"find", "store", "global"})
  <2>1. "find" \notin {"swap", "link"} \cup Changes /\ "find" \notin Changes /\ "find" \in {"find", "store", "global"}
    BY DEF Changes
  <2> QED
    BY <1>1, <2>1, StepAtHand
<1>4. Len(s) > 1 /\ s[2] \in Uses /\ Len(s) \in Nat
  BY <1>2, ShapeIs
<1>5. f \in Files /\ log.next[f] # NoControl
  BY <1>2, <1>3 DEF Own
<1>6. log.global \in Int /\ MaxLevel \in Int
  BY <1>2, LogAssumption DEF Log, Levels, Unknown
<1>7. CASE Environment[f] # Unset
  BY <1>1, <1>7, FoundKeeps DEF Find, Setting
<1>8. CASE Environment[f] = Unset /\ log.global <= MaxLevel
  <2>1. log.global = Setting(log, f)
    BY <1>8 DEF Setting
  <2>2. ~(log.global > MaxLevel)
    BY <1>6, <1>8
  <2>3. log' = [log EXCEPT !.thread[t] = NowKnows(t, log.global, <<"store">>)]
    BY <1>8, <2>2 DEF Find
  <2> QED
    BY <1>1, <2>1, <2>3, FoundKeeps
<1>9. CASE Environment[f] = Unset /\ log.global > MaxLevel /\ GlobalSetting = Unset
  BY <1>1, <1>6, <1>9, FoundKeeps DEF Find, Setting
<1>10. CASE Environment[f] = Unset /\ log.global > MaxLevel /\ GlobalSetting # Unset
  <2> DEFINE known == [th EXCEPT !.found = GlobalSetting]
             r == Then(known, <<"global", "store">>)
  <2>1. log' = [log EXCEPT !.thread[t] = r]
    BY <1>6, <1>10 DEF Find, NowKnows
  <2>2. GlobalSetting \in Levels /\ GlobalSetting = Setting(log, f)
    BY <1>6, <1>10, LogAssumption DEF Setting
  <2>3. /\ known \in LogThread /\ known.todo = s /\ known.found = GlobalSetting /\ known.file = f /\ known.frames = th.frames
        /\ known.most = th.most /\ known.depth = th.depth
    BY <1>2, <2>2 DEF LogThread
  <2> HIDE DEF known
  <2>4. "global" \in LogSteps \ {"count", "pop"} /\ "store" \in LogSteps \ {"count", "pop"} /\ Follows("store", s[2])
        /\ Follows("global", "store")
    BY <1>4 DEF LogSteps, Learns, Follows
  <2>5. /\ r \in LogThread /\ Shape(r.todo) /\ r.todo # <<>> /\ r.todo[1] = "global" /\ r.todo[2] = "store"
        /\ r.todo[3] = s[2]
        /\ r.frames = th.frames /\ r.most = th.most /\ r.file = f /\ r.depth = th.depth /\ r.found = GlobalSetting
    BY <1>2, <1>4, <2>3, <2>4, ThenTwo
  <2> HIDE DEF r
  <2>6. Upcoming(r.todo) = s[2] /\ Upcoming(s) = s[2]
    BY <1>2, <1>4, <2>5 DEF Upcoming, Uses
  <2>7. \A X : At(r, X) <=> "global" \in X
    BY <2>5 DEF At
  <2>8. ~At(r, Changes) /\ ~At(r, {"swap", "link"} \cup Changes) /\ ~At(r, {"swap", "link"})
    BY <2>7 DEF Changes
  <2>9. Own(log, r)
    BY <1>2, <1>3, <1>5, <1>10, <2>2, <2>5, <2>6, <2>8, OwnNext
  <2> QED
    BY <1>2, <1>3, <2>1, <2>5, <2>8, <2>9, StepThread
<1> QED
  BY <1>6, <1>7, <1>8, <1>9, <1>10

\* The level found in the environment becomes the global level.
LEMMA StoreGlobalKeeps == ASSUME LogRight(log), NEW t \in LogThreads, StoreGlobal(t) PROVE LogRight(log')
<1> DEFINE th == log.thread[t]
           s == th.todo
           f == th.file
           r == Then(th, <<>>)
<1>1. LogDoes(t, "global")
  BY DEF StoreGlobal
<1>2. /\ th \in LogThread /\ s \in Seq(LogSteps) /\ Shape(s) /\ Own(log, th) /\ s # <<>> /\ s[1] = "global" /\ Busy(t)
      /\ log \in Log /\ log.thread \in [LogThreads -> LogThread] /\ ~log.aborted
  BY <1>1, ThreadIs, StepAtHand DEF LogRight
<1>3. /\ ~At(th, {"swap", "link"} \cup Changes) /\ ~At(th, Changes) /\ At(th, {"find", "store", "global"}) /\ At(th, {"global"})
      /\ At(th, Uses \cup {"store", "global"})
  <2>1. /\ "global" \notin {"swap", "link"} \cup Changes /\ "global" \notin Changes /\ "global" \in {"find", "store", "global"}
        /\ "global" \in {"global"} /\ "global" \in Uses \cup {"store", "global"}
    BY DEF Changes
  <2>2. \A X : At(log.thread[t], X) <=> "global" \in X
    BY <1>1, StepAtHand
  <2> HIDE DEF th
  <2>3. \A X : At(th, X) <=> "global" \in X
    BY <2>2 DEF th
  <2> QED
    BY <2>1, <2>3
<1>4. Len(s) > 2 /\ s[2] = "store" /\ s[3] \in Uses /\ Len(s) \in Nat
  BY <1>2, ShapeIs
<1>5. f \in Files /\ log.next[f] # NoControl /\ th.found = GlobalSetting /\ GlobalSetting # Unset /\ Environment[f] = Unset
      /\ th.found = Setting(log, f)
  BY <1>2, <1>3 DEF Own
<1>6. /\ r \in LogThread /\ Shape(r.todo) /\ r.todo # <<>> /\ r.todo[1] = "store" /\ r.todo[2] = s[3]
      /\ r.frames = th.frames /\ r.most = th.most /\ r.file = f /\ r.depth = th.depth /\ r.found = th.found
  BY <1>2, <1>4, ThenNone
<1> HIDE DEF r
<1>7. Upcoming(r.todo) = s[3] /\ Upcoming(s) = s[3]
  BY <1>2, <1>4, <1>6 DEF Upcoming, Uses
<1>8. \A X : At(r, X) <=> "store" \in X
  BY <1>6 DEF At
<1>9. ~At(r, Changes) /\ ~At(r, {"swap", "link"} \cup Changes) /\ ~At(r, {"global"}) /\ ~At(r, {"swap", "link"})
  BY <1>8 DEF Changes
<1>10. Own(log, r)
  BY <1>2, <1>3, <1>5, <1>6, <1>7, <1>9, OwnNext
<1>11. PICK g : g = [log EXCEPT !.global = th.found, !.thread[t] = r]
  OBVIOUS
<1>12. log' = g
  BY <1>11 DEF StoreGlobal, r
<1>13. g = [log EXCEPT !.global = th.found, !.thread = [log.thread EXCEPT ![t] = r]]
  BY <1>2, <1>11 DEF Log
<1>14. [log.thread EXCEPT ![t] = r] \in [LogThreads -> LogThread] /\ th.found \in Levels
  BY <1>2, <1>6 DEF LogThread
<1>15. /\ g \in Log /\ g.level = log.level /\ g.next = log.next /\ g.head = log.head /\ g.global = th.found
       /\ g.aborted = log.aborted /\ g.thread = [log.thread EXCEPT ![t] = r]
  BY <1>2, <1>13, <1>14 DEF Log
<1>16. \A a \in Files : Setting(g, a) = Setting(log, a)
  <2>1. th.found <= MaxLevel
    BY <1>14, LogAssumption DEF Levels
  <2>2. log.global <= MaxLevel => log.global = th.found
    BY <1>5 DEF Setting
  <2> QED
    BY <1>5, <1>15, <2>1, <2>2 DEF Setting
<1>17. LogRight(g)
  BY <1>2, <1>3, <1>6, <1>9, <1>10, <1>15, <1>16, StepOf
<1> QED
  BY <1>12, <1>17

\* The level that was found is stored in the control, and is used next.
LEMMA StoreKeeps == ASSUME LogRight(log), NEW t \in LogThreads, Store(t) PROVE LogRight(log')
<1> DEFINE th == log.thread[t]
           s == th.todo
           f == th.file
           r == Then(th, <<>>)
<1>1. LogDoes(t, "store")
  BY DEF Store
<1>2. /\ th \in LogThread /\ s \in Seq(LogSteps) /\ Shape(s) /\ Own(log, th) /\ s # <<>> /\ s[1] = "store" /\ Busy(t)
      /\ log \in Log /\ log.thread \in [LogThreads -> LogThread] /\ ~log.aborted
  BY <1>1, ThreadIs, StepAtHand DEF LogRight
<1>3. /\ ~At(th, {"swap", "link"} \cup Changes) /\ ~At(th, Changes) /\ At(th, {"find", "store", "global"})
      /\ At(th, Uses \cup {"store", "global"})
  <2>1. /\ "store" \notin {"swap", "link"} \cup Changes /\ "store" \notin Changes /\ "store" \in {"find", "store", "global"}
        /\ "store" \in Uses \cup {"store", "global"}
    BY DEF Changes
  <2> QED
    BY <1>1, <2>1, StepAtHand
<1>4. Len(s) > 1 /\ s[2] \in Uses /\ Len(s) \in Nat
  BY <1>2, ShapeIs
<1>5. f \in Files /\ log.next[f] # NoControl /\ th.found = Setting(log, f)
  BY <1>2, <1>3 DEF Own
<1>6. /\ r \in LogThread /\ Shape(r.todo) /\ r.todo # <<>> /\ r.todo[1] = s[2]
      /\ r.frames = th.frames /\ r.most = th.most /\ r.file = f /\ r.depth = th.depth /\ r.found = th.found
  BY <1>2, <1>4, ThenNone
<1> HIDE DEF r
<1>7. Upcoming(r.todo) = s[2] /\ Upcoming(s) = s[2]
  BY <1>2, <1>4, <1>6 DEF Upcoming, Uses
<1>8. \A X : At(r, X) <=> s[2] \in X
  BY <1>6 DEF At
<1>9. /\ ~At(r, Changes) /\ ~At(r, {"swap", "link"} \cup Changes) /\ ~At(r, {"global"}) /\ ~At(r, {"swap", "link"})
      /\ ~At(r, {"find", "store", "global"})
  BY <1>4, <1>8 DEF Changes, Uses
<1>10. Own(log, r)
  BY <1>2, <1>3, <1>5, <1>6, <1>7, <1>9, OwnNext
<1>11. PICK g : g = [log EXCEPT !.level[f] = th.found, !.thread[t] = r]
  OBVIOUS
<1>12. log' = g
  BY <1>11 DEF Store, r
<1>13. g = [log EXCEPT !.level = [log.level EXCEPT ![f] = th.found], !.thread = [log.thread EXCEPT ![t] = r]]
  BY <1>2, <1>11 DEF Log
<1>14. [log.thread EXCEPT ![t] = r] \in [LogThreads -> LogThread] /\ th.found \in Levels
       /\ [log.level EXCEPT ![f] = th.found] \in [Files -> Levels \cup {Unknown}]
  BY <1>2, <1>6 DEF LogThread, Log
<1>15. /\ g \in Log /\ g.level = [log.level EXCEPT ![f] = th.found] /\ g.next = log.next /\ g.head = log.head
       /\ g.global = log.global /\ g.aborted = log.aborted /\ g.thread = [log.thread EXCEPT ![t] = r]
  BY <1>2, <1>13, <1>14 DEF Log
<1>16. \A a \in Files : Setting(g, a) = Setting(log, a)
  BY <1>15, SettingKept
<1>17. \A a \in Files : g.level[a] = log.level[a] \/ (g.level[a] = Setting(log, a) /\ log.next[a] # NoControl)
  BY <1>2, <1>5, <1>15 DEF Log
<1>18. LogRight(g)
  BY <1>2, <1>3, <1>6, <1>9, <1>10, <1>15, <1>16, <1>17, StepOf
<1> QED
  BY <1>12, <1>18

-----------------------------------------------------------------------------
\* How many of the frames from one on are shown at a level.
LEMMA ShownIs ==
    ASSUME NEW frames \in Seq(Frame), NEW l
    PROVE  /\ \A i \in Nat : ShownAt(frames, l, i) \in Nat
           /\ \A i \in 1 .. Len(frames) : ShownAt(frames, l, i) - ShownAt(frames, l, i + 1) \in {0, 1}
           /\ ShownAt(frames, l, Len(frames) + 1) = 0
           /\ \A i \in Nat \ {0} : ShownAt(frames, l, i) <= ShownAt(frames, l, 1)
<1> DEFINE ShownFrom(i) == {j \in i .. Len(frames) : frames[j].level <= l}
<1>1. Len(frames) \in Nat
  OBVIOUS
<1>2. \A i \in Nat : IsFiniteSet(ShownFrom(i))
  <2> TAKE i \in Nat
  <2>1. IsFiniteSet(i .. Len(frames))
    BY <1>1, FS_Interval
  <2>2. ShownFrom(i) \subseteq i .. Len(frames)
    OBVIOUS
  <2> QED
    BY <2>1, <2>2, FS_Subset
<1>3. \A i \in Nat : ShownAt(frames, l, i) = Cardinality(ShownFrom(i)) /\ Cardinality(ShownFrom(i)) \in Nat
  BY <1>2, FS_CardinalityType DEF ShownAt
<1>4. ASSUME NEW i \in 1 .. Len(frames) PROVE Cardinality(ShownFrom(i)) - Cardinality(ShownFrom(i + 1)) \in {0, 1}
  <2>1. i \in Nat /\ i + 1 \in Nat
    BY <1>1
  <2>2. CASE frames[i].level <= l
    <3>1. ShownFrom(i) = ShownFrom(i + 1) \cup {i} /\ i \notin ShownFrom(i + 1)
      BY <1>1, <2>2
    <3> HIDE DEF ShownFrom
    <3>2. Cardinality(ShownFrom(i + 1) \cup {i}) = Cardinality(ShownFrom(i + 1)) + 1
      BY <1>2, <2>1, <3>1, FS_AddElement
    <3> QED
      BY <1>3, <2>1, <3>1, <3>2
  <2>3. CASE ~(frames[i].level <= l)
    <3>1. ShownFrom(i) = ShownFrom(i + 1)
      <4>1. ShownFrom(i) \subseteq ShownFrom(i + 1)
        BY <1>1, <2>1, <2>3
      <4>2. ShownFrom(i + 1) \subseteq ShownFrom(i)
        BY <1>1, <2>1
      <4> QED
        BY <4>1, <4>2
    <3> HIDE DEF ShownFrom
    <3> QED
      BY <1>3, <2>1, <3>1
  <2> QED
    BY <2>2, <2>3
<1>5. Cardinality(ShownFrom(Len(frames) + 1)) = 0
  <2>1. ShownFrom(Len(frames) + 1) = {}
    BY <1>1
  <2> QED
    BY <2>1, FS_EmptySet
<1>6. ASSUME NEW i \in Nat \ {0} PROVE Cardinality(ShownFrom(i)) <= Cardinality(ShownFrom(1))
  <2>1. ShownFrom(i) \subseteq ShownFrom(1)
    BY <1>1
  <2> HIDE DEF ShownFrom
  <2> QED
    BY <1>2, <2>1, FS_Subset
<1> HIDE DEF ShownFrom
<1> QED
  BY <1>1, <1>3, <1>4, <1>5, <1>6

\* The indents of the frames are in range, so no thread aborts.
LEMMA TopIs ==
    ASSUME NEW th \in LogThread, FramesRight(th), th.most >= 0
    PROVE  Top(th) \in Int /\ 0 <= Top(th) /\ Top(th) <= th.most /\ ~Exceeds(th) /\ th.most \in Nat
<1>1. th.frames \in Seq(Frame) /\ th.most \in Nat
  BY DEF LogThread
<1>2. CASE th.frames = <<>>
  BY <1>1, <1>2 DEF Top, Exceeds
<1>3. CASE th.frames # <<>>
  <2>1. Len(th.frames) \in 1 .. Len(th.frames) /\ th.frames[Len(th.frames)] \in Frame
    BY <1>1, <1>3
  <2>2. th.frames[Len(th.frames)].indent \in Int
    BY <2>1 DEF Frame
  <2> QED
    BY <1>1, <1>3, <2>1, <2>2 DEF Top, Exceeds, FramesRight
<1> QED
  BY <1>2, <1>3


\* What the records of a thread become, apart from the steps it has to do.
LEMMA UnindentedIs ==
    ASSUME NEW th \in LogThread
    PROVE  LET u == [th EXCEPT !.depth = 0] IN
           /\ u \in LogThread /\ u.todo = th.todo /\ u.frames = th.frames /\ u.most = th.most /\ u.file = th.file
           /\ u.depth = 0
  BY DEF LogThread

Framed(th, fr, d, m) == [th EXCEPT !.frames = fr, !.depth = d, !.most = m]

\* A thread is the record of its fields.
LEMMA RecordIs ==
    ASSUME NEW th \in LogThread, NEW fr \in Seq(Frame), NEW d \in Int, NEW m \in Int,
           NEW u, u = Framed(th, fr, d, m)
    PROVE  /\ u \in LogThread /\ u.todo = th.todo /\ u.frames = fr /\ u.most = m /\ u.file = th.file /\ u.level = th.level
           /\ u.depth = d
<1>1. u = [todo |-> th.todo, file |-> th.file, level |-> th.level, found |-> th.found, old |-> th.old, at |-> th.at,
           frames |-> fr, era |-> th.era, depth |-> d, most |-> m]
  BY DEF LogThread, Framed
<1> QED
  BY <1>1 DEF LogThread

\* A frame is the record of its fields.
LEMMA FrameIs ==
    ASSUME NEW f \in Frame, NEW i \in Int
    PROVE  f.indent \in Int /\ [f EXCEPT !.indent = i] \in Frame /\ [f EXCEPT !.indent = i].indent = i
  BY DEF Frame

\* Appending to the frames.
LEMMA SeqOf ==
    ASSUME NEW n \in Nat, NEW S, NEW g, \A i \in 1 .. n : g[i] \in S
    PROVE  [i \in 1 .. n |-> g[i]] \in Seq(S) /\ Len([i \in 1 .. n |-> g[i]]) = n
  OBVIOUS

Counted(th) == LET d == th.depth + Shown(th, 1)
               IN [th EXCEPT !.depth = d, !.most = IF d > th.most THEN d ELSE th.most]
Assigned(th) == [th EXCEPT !.frames = Indents(th), !.depth = th.depth - Shown(th, 1)]

\* sxe_log_get_indent counts the frames that are shown.
LEMMA CountedIs ==
    ASSUME NEW th \in LogThread, FramesRight(th), th.most >= 0, th.depth = 0
    PROVE  LET u == Counted(th) IN
           /\ u \in LogThread /\ u.todo = th.todo /\ u.frames = th.frames /\ u.file = th.file
           /\ u.depth = ShownAt(th.frames, th.found, 1) /\ u.depth <= u.most /\ u.most >= 0 /\ FramesRight(u)
<1>1. th.frames \in Seq(Frame) /\ th.most \in Int
  BY DEF LogThread
<1>2. PICK d : d = ShownAt(th.frames, th.found, 1)
  OBVIOUS
<1>3. d \in Nat /\ d \in Int
  BY <1>1, <1>2, ShownIs
<1>4. Shown(th, 1) = d
  BY <1>2 DEF Shown, ShownAt
<1>5. th.depth + Shown(th, 1) = d
  BY <1>3, <1>4
<1>6. PICK most : most = IF d > th.most THEN d ELSE th.most
  OBVIOUS
<1>7. most \in Int /\ d <= most /\ th.most <= most /\ most >= 0
  BY <1>1, <1>3, <1>6
<1>8. PICK u : u = Framed(th, th.frames, d, most)
  OBVIOUS
<1>9. u \in LogThread /\ u.todo = th.todo /\ u.frames = th.frames /\ u.file = th.file /\ u.depth = d /\ u.most = most
  BY <1>1, <1>3, <1>7, <1>8, RecordIs
<1>10. FramesRight(u)
  <2>1. ASSUME NEW i \in 1 .. Len(th.frames)
        PROVE /\ th.frames[i].indent - (IF i = 1 THEN 0 ELSE th.frames[i - 1].indent) \in {0, 1}
              /\ 0 <= th.frames[i].indent /\ th.frames[i].indent <= most
    <3>1. th.frames[i] \in Frame
      BY <1>1
    <3>2. th.frames[i].indent \in Int
      <4>1. 0 \in Int
        OBVIOUS
      <4> QED
        BY <3>1, <4>1, FrameIs, Zenon
    <3>3. /\ th.frames[i].indent - (IF i = 1 THEN 0 ELSE th.frames[i - 1].indent) \in {0, 1}
          /\ 0 <= th.frames[i].indent /\ th.frames[i].indent <= th.most
      BY DEF FramesRight
    <3> QED
      BY <1>1, <1>7, <3>2, <3>3
  <2> QED
    BY <1>9, <2>1 DEF FramesRight
<1>11. u = Counted(th)
  BY <1>5, <1>6, <1>8 DEF LogThread, Framed, Counted
<1> QED
  BY <1>2, <1>7, <1>9, <1>10, <1>11

\* The indents that are assigned from the number that is shown go up by 0 or 1.
LEMMA IndentsIs ==
    ASSUME NEW th \in LogThread, NEW fr, fr = Indents(th), th.depth = ShownAt(th.frames, th.found, 1), th.depth <= th.most
    PROVE  /\ fr \in Seq(Frame) /\ Len(fr) = Len(th.frames) /\ th.depth - Shown(th, 1) = 0
           /\ \A i \in 1 .. Len(fr) : /\ fr[i].indent - (IF i = 1 THEN 0 ELSE fr[i - 1].indent) \in {0, 1}
                                      /\ 0 <= fr[i].indent /\ fr[i].indent <= th.most
<1>1. th.frames \in Seq(Frame) /\ th.most \in Int /\ Len(th.frames) \in Nat
  BY DEF LogThread
<1> DEFINE n(i) == ShownAt(th.frames, th.found, i)
<1>2. \A i \in Nat : Shown(th, i) = n(i)
  BY DEF Shown, ShownAt
<1>3. \A i \in Nat : n(i) \in Nat
  BY <1>1, ShownIs
<1>4. \A i \in 1 .. Len(th.frames) : n(i) - n(i + 1) \in {0, 1}
  BY <1>1, ShownIs
<1>5. \A i \in Nat \ {0} : n(i) <= n(1)
  BY <1>1, ShownIs
<1>6. th.depth = n(1)
  OBVIOUS
<1> HIDE DEF n
<1>7. DOMAIN fr = 1 .. Len(th.frames) /\ fr = [i \in 1 .. Len(th.frames) |-> fr[i]]
  BY <1>1 DEF Indents
<1>8. ASSUME NEW i \in 1 .. Len(th.frames)
      PROVE  fr[i] \in Frame /\ fr[i].indent = n(1) - n(i + 1) /\ 0 <= n(1) - n(i + 1) /\ n(1) - n(i + 1) \in Int
  <2>1. i + 1 \in Nat /\ i + 1 \in Nat \ {0} /\ 1 \in Nat /\ i \in DOMAIN th.frames
    BY <1>1
  <2>2. fr[i] = [th.frames[i] EXCEPT !.indent = th.depth - Shown(th, i + 1)]
    BY <2>1 DEF Indents
  <2>3. fr[i] = [th.frames[i] EXCEPT !.indent = n(1) - n(i + 1)]
    BY <1>2, <1>6, <2>1, <2>2
  <2>4. n(1) \in Nat /\ n(i + 1) \in Nat /\ n(i + 1) <= n(1)
    BY <1>3, <1>5, <2>1
  <2>5. n(1) - n(i + 1) \in Int /\ 0 <= n(1) - n(i + 1)
    BY <2>4
  <2>6. th.frames[i] \in Frame
    BY <1>1
  <2> QED
    BY <2>3, <2>5, <2>6, FrameIs
<1>9. fr \in Seq(Frame) /\ Len(fr) = Len(th.frames)
  <2>1. \A i \in 1 .. Len(th.frames) : fr[i] \in Frame
    BY <1>8
  <2>2. [i \in 1 .. Len(th.frames) |-> fr[i]] \in Seq(Frame) /\ Len([i \in 1 .. Len(th.frames) |-> fr[i]]) = Len(th.frames)
    BY <1>1, <2>1, SeqOf
  <2> QED
    BY <1>7, <2>2
<1>10. ASSUME NEW i \in 1 .. Len(fr) PROVE /\ fr[i].indent - (IF i = 1 THEN 0 ELSE fr[i - 1].indent) \in {0, 1}
                                           /\ 0 <= fr[i].indent /\ fr[i].indent <= th.most
  <2>1. i \in 1 .. Len(th.frames) /\ i \in Nat /\ i + 1 \in Nat /\ 1 \in Nat
    BY <1>1, <1>9
  <2>2. fr[i].indent = n(1) - n(i + 1) /\ 0 <= n(1) - n(i + 1)
    BY <1>8, <2>1
  <2>3. n(1) \in Nat /\ n(i + 1) \in Nat /\ n(i) \in Nat /\ n(i) - n(i + 1) \in {0, 1}
    BY <1>3, <1>4, <2>1
  <2>4. n(1) - n(i + 1) <= th.most
    BY <1>1, <1>6, <2>3
  <2>5. CASE i = 1
    <3>1. n(1) - n(i + 1) - 0 \in {0, 1}
      BY <2>3, <2>5
    <3> QED
      BY <2>2, <2>4, <2>5, <3>1
  <2>6. CASE i # 1
    <3>1. i - 1 \in 1 .. Len(th.frames) /\ i - 1 + 1 = i
      BY <1>1, <2>1, <2>6
    <3>2. fr[i - 1].indent = n(1) - n(i - 1 + 1)
      BY <1>8, <3>1
    <3>3. fr[i - 1].indent = n(1) - n(i)
      BY <3>1, <3>2
    <3>4. n(1) - n(i + 1) - (n(1) - n(i)) \in {0, 1}
      BY <2>3
    <3> QED
      BY <2>2, <2>4, <2>6, <3>3, <3>4
  <2> QED
    BY <2>5, <2>6
<1>11. th.depth - Shown(th, 1) = 0
  BY <1>2, <1>3, <1>6
<1> QED
  BY <1>9, <1>10, <1>11

\* sxe_log_get_indent assigns each frame its indent.
LEMMA AssignedIs ==
    ASSUME NEW th \in LogThread, th.depth = ShownAt(th.frames, th.found, 1), th.depth <= th.most
    PROVE  LET u == Assigned(th) IN
           /\ u \in LogThread /\ u.todo = th.todo /\ u.most = th.most /\ u.file = th.file /\ u.depth = 0 /\ FramesRight(u)
<1>1. PICK fr : fr = Indents(th)
  OBVIOUS
<1>2. /\ fr \in Seq(Frame) /\ th.depth - Shown(th, 1) = 0
      /\ \A i \in 1 .. Len(fr) : /\ fr[i].indent - (IF i = 1 THEN 0 ELSE fr[i - 1].indent) \in {0, 1}
                                 /\ 0 <= fr[i].indent /\ fr[i].indent <= th.most
  BY <1>1, IndentsIs
<1>3. fr \in Seq(Frame)
  BY <1>2
<1>4. 0 \in Int /\ th.most \in Int
  BY DEF LogThread
<1>5. PICK u : u = Framed(th, fr, 0, th.most)
  OBVIOUS
<1>6. u \in LogThread /\ u.todo = th.todo /\ u.frames = fr /\ u.most = th.most /\ u.file = th.file /\ u.depth = 0
  BY <1>5, <1>4, <1>3, RecordIs
<1>7. FramesRight(u)
  BY <1>2, <1>6 DEF FramesRight
<1>8. u = Assigned(th)
  BY <1>1, <1>2, <1>5 DEF LogThread, Framed, Assigned
<1> QED
  BY <1>6, <1>7, <1>8

\* A step of a thread that logs, after which it uses no level that it has found.
LEMMA PlainStep ==
    ASSUME LogRight(log), NEW t \in LogThreads, Busy(t), ~At(log.thread[t], {"swap", "link"} \cup Changes),
           NEW r \in LogThread, Shape(r.todo), FramesRight(r), r.most >= 0, r.depth = 0,
           r.todo # <<>> => /\ r.todo[1] \in {"indent", "pop", "learn"} /\ r.file \in Files
                            /\ r.todo[1] = "learn" => r.todo[2] # "assign",
           log' = [log EXCEPT !.thread[t] = r]
    PROVE  LogRight(log')
<1>1. Own(log, r)
  BY OwnPlain
<1>2. ~At(r, {"swap", "link"} \cup Changes)
  BY DEF At, Changes
<1> QED
  BY <1>1, <1>2, StepThread

\* The thread of a step, and the step.
Acts(t, th, step) ==
    /\ th \in LogThread /\ Shape(th.todo) /\ FramesRight(th) /\ th.most >= 0 /\ th.file \in Files
    /\ th.todo # <<>> /\ th.todo[1] = step /\ Len(th.todo) \in Nat /\ Len(th.todo) > 0 /\ th.todo \in Seq(LogSteps)
    /\ Busy(t) /\ ~At(log.thread[t], {"swap", "link"} \cup Changes)
    /\ Upcoming(th.todo) # "assign" => th.depth = 0
    /\ Upcoming(th.todo) = "assign" => th.depth = ShownAt(th.frames, Setting(log, th.file), 1) /\ th.depth <= th.most
    /\ step \in Uses => th.found = Setting(log, th.file)

\* What a logging thread may rely on at a step that changes no list.
LEMMA Acting ==
    ASSUME LogRight(log), NEW t \in LogThreads, NEW step, LogDoes(t, step), step \notin {"swap", "link"} \cup Changes,
           NEW th, th = log.thread[t]
    PROVE  Acts(t, th, step)
<1>1. th \in LogThread /\ Own(log, th) /\ th.todo \in Seq(LogSteps) /\ th.todo # <<>> /\ th.todo[1] = step /\ Busy(t)
      /\ \A X : At(th, X) <=> step \in X
  BY ThreadIs, StepAtHand
<1>2. ~At(th, Changes) /\ ~At(th, {"swap", "link"} \cup Changes) /\ (step \in Uses => At(th, Uses \cup {"store", "global"}))
  BY <1>1
<1>3. Len(th.todo) \in Nat /\ Len(th.todo) > 0
  BY <1>1
<1> QED
  BY <1>1, <1>2, <1>3 DEF Own, Acts

\* sxe_log_entry pushes a frame that is indented as its caller or one more.
LEMMA PushedIs ==
    ASSUME NEW th \in LogThread, FramesRight(th), th.most >= 0, th.file \in Files, NEW visible \in BOOLEAN
    PROVE  LET u == Pushed(th, visible) IN
           /\ u \in LogThread /\ u.todo = th.todo /\ u.file = th.file /\ u.depth = th.depth
           /\ u.most >= 0 /\ FramesRight(u)
<1>1. th.frames \in Seq(Frame) /\ th.most \in Int /\ th.depth \in Int /\ th.level \in Levels /\ Len(th.frames) \in Nat
  BY DEF LogThread
<1>2. Top(th) \in Int /\ 0 <= Top(th) /\ Top(th) <= th.most
  BY TopIs
<1>3. PICK indent : indent = Top(th) + (IF visible THEN 1 ELSE 0)
  OBVIOUS
<1>4. indent \in Int /\ 0 <= indent /\ indent - Top(th) \in {0, 1}
  BY <1>2, <1>3
<1>5. PICK most : most = IF indent > th.most THEN indent ELSE th.most
  OBVIOUS
<1>6. most \in Int /\ indent <= most /\ th.most <= most /\ most >= 0
  BY <1>1, <1>4, <1>5
<1>7. PICK f : f = [file |-> th.file, level |-> th.level, indent |-> indent]
  OBVIOUS
<1>8. f \in Frame /\ f.indent = indent
  BY <1>1, <1>4, <1>7 DEF Frame
<1>9. PICK fr : fr = Append(th.frames, f)
  OBVIOUS
<1>10. fr \in Seq(Frame) /\ Len(fr) = Len(th.frames) + 1 /\ fr[Len(th.frames) + 1] = f
       /\ \A i \in 1 .. Len(th.frames) : fr[i] = th.frames[i]
  BY <1>1, <1>8, <1>9
<1>11. PICK u : u = Framed(th, fr, th.depth, most)
  OBVIOUS
<1>12. u \in LogThread /\ u.todo = th.todo /\ u.frames = fr /\ u.most = most /\ u.file = th.file /\ u.depth = th.depth
  <2>1. fr \in Seq(Frame) /\ th.depth \in Int /\ most \in Int
    BY <1>1, <1>6, <1>10
  <2> QED
    BY <1>11, <2>1, RecordIs
<1>13. ASSUME NEW i \in 1 .. Len(fr) PROVE /\ fr[i].indent - (IF i = 1 THEN 0 ELSE fr[i - 1].indent) \in {0, 1}
                                           /\ 0 <= fr[i].indent /\ fr[i].indent <= most
  <2>1. CASE i \in 1 .. Len(th.frames)
    <3>1. /\ th.frames[i].indent - (IF i = 1 THEN 0 ELSE th.frames[i - 1].indent) \in {0, 1}
          /\ 0 <= th.frames[i].indent /\ th.frames[i].indent <= th.most
      BY <2>1 DEF FramesRight
    <3>2. fr[i] = th.frames[i] /\ (i # 1 => fr[i - 1] = th.frames[i - 1])
      BY <1>1, <1>10, <2>1
    <3>3. th.frames[i] \in Frame
      BY <1>1, <2>1
    <3>4. th.frames[i].indent \in Int
      BY <3>3, <1>4, FrameIs
    <3>5. th.frames[i].indent <= most
      BY <1>1, <1>6, <3>1, <3>4
    <3> QED
      BY <3>1, <3>2, <3>5
  <2>2. CASE i = Len(th.frames) + 1
    <3>1. fr[i].indent = indent
      BY <1>8, <1>10, <2>2
    <3>2. (IF i = 1 THEN 0 ELSE fr[i - 1].indent) = Top(th)
      <4>1. CASE th.frames = <<>>
        BY <1>1, <2>2, <4>1 DEF Top
      <4>2. CASE th.frames # <<>>
        <5>1. i # 1 /\ i - 1 = Len(th.frames) /\ Len(th.frames) \in 1 .. Len(th.frames)
          BY <1>1, <2>2, <4>2
        <5>2. fr[i - 1] = th.frames[Len(th.frames)]
          BY <1>10, <5>1
        <5> QED
          BY <4>2, <5>1, <5>2 DEF Top
      <4> QED
        BY <4>1, <4>2
    <3> QED
      BY <1>4, <1>6, <3>1, <3>2
  <2> QED
    BY <1>1, <1>10, <2>1, <2>2
<1>14. FramesRight(u)
  BY <1>12, <1>13 DEF FramesRight
<1>15. u = Pushed(th, visible)
  BY <1>1, <1>3, <1>5, <1>7, <1>9, <1>11 DEF Pushed, Framed, LogThread
<1> QED
  BY <1>6, <1>12, <1>14, <1>15

\* sxe_log_return pops the last frame.
LEMMA PoppedIs ==
    ASSUME NEW th \in LogThread, FramesRight(th)
    PROVE  LET u == Popped(th) IN
           /\ u \in LogThread /\ u.todo = th.todo /\ u.file = th.file /\ u.depth = th.depth
           /\ u.most = th.most /\ FramesRight(u)
<1>1. th.frames \in Seq(Frame) /\ th.most \in Int /\ th.depth \in Int /\ Len(th.frames) \in Nat
  BY DEF LogThread
<1>2. PICK fr : fr = SubSeq(th.frames, 1, Len(th.frames) - 1)
  OBVIOUS
<1>3. fr \in Seq(Frame) /\ Len(fr) <= Len(th.frames) /\ Len(fr) \in Nat /\ \A i \in 1 .. Len(fr) : fr[i] = th.frames[i]
  BY <1>1, <1>2
<1>4. PICK u : u = Framed(th, fr, th.depth, th.most)
  OBVIOUS
<1>5. u \in LogThread /\ u.todo = th.todo /\ u.frames = fr /\ u.most = th.most /\ u.file = th.file /\ u.depth = th.depth
  <2>1. fr \in Seq(Frame) /\ th.depth \in Int /\ th.most \in Int
    BY <1>1, <1>3
  <2> QED
    BY <1>4, <2>1, RecordIs
<1>6. ASSUME NEW i \in 1 .. Len(fr) PROVE /\ fr[i].indent - (IF i = 1 THEN 0 ELSE fr[i - 1].indent) \in {0, 1}
                                          /\ 0 <= fr[i].indent /\ fr[i].indent <= th.most
  <2>1. i \in 1 .. Len(th.frames) /\ fr[i] = th.frames[i] /\ (i # 1 => fr[i - 1] = th.frames[i - 1])
    <3>1. i \in 1 .. Len(th.frames) /\ fr[i] = th.frames[i] /\ (i # 1 => i - 1 \in 1 .. Len(fr))
      BY <1>1, <1>3
    <3> QED
      BY <1>3, <3>1
  <2>2. /\ th.frames[i].indent - (IF i = 1 THEN 0 ELSE th.frames[i - 1].indent) \in {0, 1}
        /\ 0 <= th.frames[i].indent /\ th.frames[i].indent <= th.most
    BY <2>1 DEF FramesRight
  <2> QED
    BY <2>1, <2>2
<1>7. FramesRight(u)
  BY <1>5, <1>6 DEF FramesRight
<1>8. u = Popped(th)
  BY <1>2, <1>4 DEF Popped, Framed, LogThread
<1> QED
  BY <1>5, <1>7, <1>8
\* A positive number is 1 or more.
LEMMA OneOrMore == ASSUME NEW n \in Nat, n > 0 PROVE n = 1 \/ n > 1
  OBVIOUS

\* 1 is not more than 1.
LEMMA OneIsNotMore == ASSUME NEW n, n = 1 PROVE ~(n > 1)
  OBVIOUS

\* sxe_log_get_indent keeps the invariant, whether or not the era has moved on.
LEMMA GetIndentKeeps == ASSUME LogRight(log), NEW t \in LogThreads, GetIndent(t) PROVE LogRight(log')
<1> DEFINE th == log.thread[t]
           s == th.todo
<1>1. LogDoes(t, "indent")
  BY DEF GetIndent
<1>2. /\ th \in LogThread /\ s \in Seq(LogSteps) /\ Shape(s) /\ Own(log, th) /\ s # <<>> /\ s[1] = "indent"
      /\ Busy(t) /\ log \in Log
  BY <1>1, ThreadIs, StepAtHand
<1>3. ~At(th, {"swap", "link"} \cup Changes) /\ ~At(th, Changes)
  <2>1. "indent" \notin {"swap", "link"} \cup Changes /\ "indent" \notin Changes
    BY DEF Changes
  <2> QED
    BY <1>1, <2>1, StepAtHand
<1>4. /\ Len(s) \in Nat /\ Len(s) > 0 /\ (Len(s) > 1 => s[2] \in {"indent", "pop"})
      /\ Len(s) > 1 => Follows("indent", s[2])
      /\ "indent" \in Ends
  BY <1>2, ShapeIs DEF Follows, Ends
<1>5. Len(s) \in Nat /\ Len(s) > 0
  BY <1>2, ShapeIs
<1>6. Len(s) = 1 \/ Len(s) > 1
  BY <1>5, OneOrMore
<1>7. Upcoming(s) # "assign"
  BY <1>2 DEF Upcoming
<1>8. th.file \in Files /\ th.depth = 0 /\ FramesRight(th) /\ th.most >= 0 /\ th.frames \in Seq(Frame)
  BY <1>2, <1>3, <1>7 DEF Own, LogThread
<1>9. \A r : r.todo # <<>> /\ r.todo[1] \in {"indent", "pop", "learn"} => ~At(r, {"swap", "link"} \cup Changes)
  BY DEF At, Changes
<1>10. \A r : r.todo = <<>> => ~At(r, {"swap", "link"} \cup Changes)
  BY DEF At
<1>11. th \in LogThread
  BY ThreadIs
<1>12. CASE th.era < log.era
  <2> PICK u : u = [th EXCEPT !.era = log.era]
    OBVIOUS
  <2>1. u \in LogThread /\ u.todo = s /\ u.frames = th.frames /\ u.most = th.most /\ u.file = th.file /\ u.depth = th.depth
    BY <1>2 DEF LogThread, Log
  <2>2. log' = [log EXCEPT !.thread[t] = Then(u, IF th.frames = <<>> THEN <<"indent">>
                                                 ELSE <<"learn", "count", "learn", "assign", "indent">>)]
    <3>1. th.era \in Nat /\ log.era \in Nat
      BY <1>2 DEF Log, LogThread
    <3>2. ~(th.era >= log.era)
      BY <1>12, <3>1
    <3> QED
      BY <3>2 DEF GetIndent
  <2>3. CASE th.frames = <<>>
    <3> DEFINE r == Then(u, <<"indent">>)
    <3>1. log' = [log EXCEPT !.thread[t] = r]
      BY <2>3, <2>2
    <3>2. "indent" \in LogSteps \ {"count", "pop"}
      BY DEF LogSteps
    <3>3. u.todo # <<>> /\ Shape(u.todo) /\ (Len(u.todo) > 1 => Follows("indent", u.todo[2])) /\ "indent" \in Ends
      BY <1>2, <1>4, <2>1, Zenon
    <3>4. /\ r \in LogThread /\ Shape(r.todo) /\ r.todo # <<>> /\ r.todo[1] = "indent"
          /\ r.frames = th.frames /\ r.most = th.most /\ r.file = th.file /\ r.depth = th.depth
      BY <2>1, <3>2, <3>3, ThenOne, Zenon
    <3> HIDE DEF r
    <3>5. Own(log, r)
      BY <1>8, <3>4, OwnPlain DEF FramesRight
    <3> QED
      BY <1>2, <1>3, <1>9, <3>1, <3>4, <3>5, StepThread
  <2>4. CASE th.frames # <<>>
    <3>1. u.todo # <<>> /\ Shape(u.todo) /\ (Len(u.todo) > 1 => Follows("indent", u.todo[2])) /\ "indent" \in Ends
      BY <1>2, <1>4, <2>1, Zenon
    <3> DEFINE r == Then(u, <<"learn", "count", "learn", "assign", "indent">>)
    <3>2. log' = [log EXCEPT !.thread[t] = r]
      BY <2>4, <2>2
    <3>3. /\ r \in LogThread /\ Shape(r.todo) /\ r.todo # <<>> /\ r.todo[1] = "learn" /\ r.todo[2] = "count"
          /\ r.frames = th.frames /\ r.most = th.most /\ r.file = th.file /\ r.depth = th.depth
      BY <2>1, <3>1, ThenFive, Zenon
    <3> HIDE DEF r
    <3>4. Own(log, r)
      BY <1>8, <3>3, OwnPlain DEF FramesRight
    <3> QED
      BY <1>2, <1>3, <1>9, <3>2, <3>3, <3>4, StepThread
  <2> QED
    BY <2>3, <2>4
<1>13. CASE ~(th.era < log.era)
  <2>1. ~Exceeds(th)
    BY <1>8, <1>11, TopIs
  <2>2. PICK u : u = [th EXCEPT !.depth = 0]
    OBVIOUS
  <2>3. u \in LogThread /\ u.todo = s /\ u.frames = th.frames /\ u.most = th.most /\ u.file = th.file /\ u.depth = 0
    BY <1>11, <2>2, UnindentedIs
  <2>4. PICK r : r = Then(u, <<>>)
    OBVIOUS
  <2>5. log' = [log EXCEPT !.thread[t] = r]
    <3>1. th.era \in Nat /\ log.era \in Nat
      BY <1>2 DEF Log, LogThread
    <3> QED
      BY <1>13, <2>1, <2>2, <2>4, <3>1 DEF GetIndent
  <2>6. /\ r \in LogThread /\ Shape(r.todo) /\ r.frames = th.frames /\ r.most = th.most /\ r.depth = 0
        /\ r.todo # <<>> => r.todo[1] \in {"indent", "pop"} /\ r.file = th.file
    <3>1. /\ r \in LogThread /\ Shape(r.todo) /\ r.frames = u.frames /\ r.most = u.most
          /\ Len(u.todo) = 1 => r.todo = <<>> /\ r.depth = 0
          /\ Len(u.todo) > 1 => r.todo # <<>> /\ r.todo[1] = u.todo[2] /\ r.file = u.file /\ r.depth = u.depth
      BY <1>2, <2>3, <2>4, ThenNone
    <3>2. CASE Len(s) = 1
      BY <2>3, <3>1, <3>2
    <3>3. CASE Len(s) > 1
      BY <1>4, <2>3, <3>1, <3>3
    <3> QED
      BY <1>6, <3>2, <3>3
  <2>7. FramesRight(r)
    BY <1>8, <2>6 DEF FramesRight
  <2> QED
    BY <1>2, <1>3, <1>8, <2>5, <2>6, <2>7, PlainStep
<1> QED
  BY <1>12, <1>13

\* Counting the frames that are shown keeps the invariant.
LEMMA CountKeeps == ASSUME LogRight(log), NEW t \in LogThreads, CountShown(t) PROVE LogRight(log')
<1>1. PICK th : th = log.thread[t]
  OBVIOUS
<1>2. LogDoes(t, "count") /\ "count" \notin {"swap", "link"} \cup Changes /\ "count" \in Uses
  BY DEF CountShown, Changes, Uses
<1>3. Acts(t, th, "count")
  BY <1>1, <1>2, Acting
<1>4. /\ th \in LogThread /\ Shape(th.todo) /\ FramesRight(th) /\ th.most >= 0 /\ th.file \in Files
      /\ th.todo # <<>> /\ th.todo[1] = "count" /\ th.todo \in Seq(LogSteps)
      /\ Busy(t) /\ ~At(log.thread[t], {"swap", "link"} \cup Changes)
      /\ Upcoming(th.todo) # "assign" => th.depth = 0
      /\ th.found = Setting(log, th.file)
  BY <1>3, <1>2 DEF Acts
<1>5. Len(th.todo) > 2 /\ th.todo[2] = "learn" /\ th.todo[3] = "assign" /\ Len(th.todo) > 1
  BY <1>4, ShapeIs
<1>6. th.depth = 0
  BY <1>4 DEF Upcoming
<1>7. PICK u : u = Counted(th)
  OBVIOUS
<1>8. /\ u \in LogThread /\ u.todo = th.todo /\ u.frames = th.frames /\ u.file = th.file
      /\ u.depth = ShownAt(th.frames, th.found, 1) /\ u.depth <= u.most /\ u.most >= 0 /\ FramesRight(u)
  BY <1>4, <1>6, <1>7, CountedIs
<1>9. PICK r : r = Then(u, <<>>)
  OBVIOUS
<1>10. log' = [log EXCEPT !.thread[t] = r]
  <2>1. log' = [log EXCEPT !.thread[t] = Then(Counted(log.thread[t]), <<>>)]
    BY DEF CountShown, Counted
  <2> QED
    BY <1>1, <1>7, <1>9, <2>1
<1>11. /\ r \in LogThread /\ Shape(r.todo) /\ r.todo # <<>> /\ r.todo[1] = "learn" /\ r.todo[2] = "assign"
       /\ r.frames = u.frames /\ r.most = u.most /\ r.file = u.file /\ r.depth = u.depth
  BY <1>4, <1>5, <1>8, <1>9, ThenNone
<1>12. Upcoming(r.todo) = "assign"
  BY <1>11 DEF Upcoming
<1>13. \A X : At(r, X) <=> "learn" \in X
  BY <1>11 DEF At
<1>14. /\ ~At(r, {"swap", "link"} \cup Changes) /\ ~At(r, {"swap", "link"}) /\ ~At(r, {"global"}) /\ ~At(r, {"find", "store", "global"})
       /\ ~At(r, {"wipe"}) /\ ~At(r, Uses \cup {"store", "global"})
  BY <1>13 DEF Changes, Uses
<1>15. FramesRight(r) /\ r.most >= 0 /\ r.file \in Files
  BY <1>4, <1>8, <1>11 DEF FramesRight
<1>16. r.depth = ShownAt(r.frames, Setting(log, r.file), 1) /\ r.depth <= r.most
  BY <1>4, <1>8, <1>11
<1>17. Own(log, r)
  BY <1>11, <1>12, <1>14, <1>15, <1>16 DEF Own
<1> QED
  BY <1>4, <1>10, <1>11, <1>14, <1>17, StepThread

\* Assigning the indents keeps the invariant.
LEMMA AssignKeeps == ASSUME LogRight(log), NEW t \in LogThreads, Assign(t) PROVE LogRight(log')
<1>1. PICK th : th = log.thread[t]
  OBVIOUS
<1>2. LogDoes(t, "assign") /\ "assign" \notin {"swap", "link"} \cup Changes /\ "assign" \in Uses
  BY DEF Assign, Changes, Uses
<1>3. Acts(t, th, "assign")
  BY <1>1, <1>2, Acting
<1>4. /\ th \in LogThread /\ Shape(th.todo) /\ th.most >= 0 /\ th.file \in Files
      /\ th.todo # <<>> /\ th.todo[1] = "assign" /\ th.todo \in Seq(LogSteps)
      /\ Busy(t) /\ ~At(log.thread[t], {"swap", "link"} \cup Changes)
      /\ Upcoming(th.todo) = "assign" => th.depth = ShownAt(th.frames, Setting(log, th.file), 1) /\ th.depth <= th.most
      /\ th.found = Setting(log, th.file)
  BY <1>3, <1>2 DEF Acts
<1>5. Len(th.todo) > 1 /\ th.todo[2] = "indent"
  BY <1>4, ShapeIs
<1>6. th.depth = ShownAt(th.frames, th.found, 1) /\ th.depth <= th.most
  BY <1>4 DEF Upcoming
<1>7. PICK u : u = Assigned(th)
  OBVIOUS
<1>8. u \in LogThread /\ u.todo = th.todo /\ u.most = th.most /\ u.file = th.file /\ u.depth = 0 /\ FramesRight(u)
  BY <1>4, <1>6, <1>7, AssignedIs
<1>9. PICK r : r = Then(u, <<>>)
  OBVIOUS
<1>10. log' = [log EXCEPT !.thread[t] = r]
  <2>1. log' = [log EXCEPT !.thread[t] = Then(Assigned(log.thread[t]), <<>>)]
    BY DEF Assign, Assigned
  <2> QED
    BY <1>1, <1>7, <1>9, <2>1
<1>11. /\ r \in LogThread /\ Shape(r.todo) /\ r.todo # <<>> /\ r.todo[1] = "indent"
       /\ r.frames = u.frames /\ r.most = u.most /\ r.file = u.file /\ r.depth = u.depth
  BY <1>4, <1>5, <1>8, <1>9, ThenNone
<1>12. FramesRight(r) /\ r.most >= 0 /\ r.file \in Files /\ r.depth = 0
  BY <1>4, <1>8, <1>11 DEF FramesRight
<1> QED
  BY <1>4, <1>10, <1>11, <1>12, PlainStep

\* The end of sxe_log_entry keeps the invariant.
LEMMA EnterKeeps == ASSUME LogRight(log), NEW t \in LogThreads, Enter(t) PROVE LogRight(log')
<1>1. PICK th : th = log.thread[t]
  OBVIOUS
<1>2. LogDoes(t, "enter") /\ "enter" \notin {"swap", "link"} \cup Changes
  BY DEF Enter, Changes
<1>3. Acts(t, th, "enter")
  BY <1>1, <1>2, Acting
<1>4. /\ th \in LogThread /\ Shape(th.todo) /\ FramesRight(th) /\ th.most >= 0 /\ th.file \in Files
      /\ th.todo # <<>> /\ th.todo[1] = "enter" /\ th.todo \in Seq(LogSteps)
      /\ Busy(t) /\ ~At(log.thread[t], {"swap", "link"} \cup Changes)
      /\ Upcoming(th.todo) # "assign" => th.depth = 0
  BY <1>3 DEF Acts
<1>5. Len(th.todo) = 1
  BY <1>4, ShapeIs
<1>6. th.depth = 0
  BY <1>4 DEF Upcoming
<1>7. PICK shown \in BOOLEAN : shown <=> th.level <= th.found
  OBVIOUS
<1>8. PICK u : u = Pushed(th, shown)
  OBVIOUS
<1>9. u \in LogThread /\ u.todo = th.todo /\ u.file = th.file /\ u.depth = 0 /\ u.most >= 0 /\ FramesRight(u)
  BY <1>4, <1>6, <1>7, <1>8, PushedIs
<1>10. PICK r : r = Then(u, IF shown THEN <<"indent", "indent">> ELSE <<>>)
  OBVIOUS
<1>11. log' = [log EXCEPT !.thread[t] = r]
  BY <1>1, <1>7, <1>8, <1>10 DEF Enter
<1>12. /\ r \in LogThread /\ Shape(r.todo) /\ r.frames = u.frames /\ r.most = u.most /\ r.depth = 0
       /\ r.todo # <<>> => r.todo[1] = "indent" /\ r.file = u.file
  <2>1. CASE shown
    <3>1. r = Then(u, <<"indent", "indent">>)
      BY <1>10, <2>1
    <3>2. "indent" \in LogSteps \ {"count", "pop"} /\ Follows("indent", "indent") /\ "indent" \in Ends
      BY DEF LogSteps, Follows, Ends
    <3>3. ~(Len(u.todo) > 1)
      BY <1>5, <1>9, OneIsNotMore, Zenon
    <3> QED
      BY <1>4, <1>9, <3>1, <3>2, <3>3, ThenTwo
  <2>2. CASE ~shown
    <3>1. r = Then(u, <<>>)
      BY <1>10, <2>2
    <3> QED
      BY <1>4, <1>5, <1>9, <3>1, ThenNone
  <2> QED
    BY <2>1, <2>2
<1>13. FramesRight(r) /\ r.most >= 0 /\ (r.todo # <<>> => r.file \in Files)
  BY <1>4, <1>9, <1>12 DEF FramesRight
<1> QED
  BY <1>4, <1>11, <1>12, <1>13, PlainStep

\* Deciding whether a line is shown keeps the invariant.
LEMMA LineKeeps == ASSUME LogRight(log), NEW t \in LogThreads, Line(t) PROVE LogRight(log')
<1>1. PICK th : th = log.thread[t]
  OBVIOUS
<1>2. LogDoes(t, "line") /\ "line" \notin {"swap", "link"} \cup Changes
  BY DEF Line, Changes
<1>3. Acts(t, th, "line")
  BY <1>1, <1>2, Acting
<1>4. /\ th \in LogThread /\ Shape(th.todo) /\ FramesRight(th) /\ th.most >= 0 /\ th.file \in Files
      /\ th.todo # <<>> /\ th.todo[1] = "line" /\ th.todo \in Seq(LogSteps)
      /\ Busy(t) /\ ~At(log.thread[t], {"swap", "link"} \cup Changes)
      /\ Upcoming(th.todo) # "assign" => th.depth = 0
  BY <1>3 DEF Acts
<1>5. Len(th.todo) = 1 \/ (Len(th.todo) > 1 /\ th.todo[2] = "pop")
  <2>1. Len(th.todo) \in Nat /\ Len(th.todo) > 0
    BY <1>4, ShapeIs
  <2>2. Len(th.todo) = 1 \/ th.todo[2] = "pop"
    BY <1>4, ShapeIs
  <2> QED
    BY <2>1, <2>2, OneOrMore
<1>6. th.depth = 0
  BY <1>4 DEF Upcoming
<1>7. PICK shown \in BOOLEAN : shown <=> th.level <= th.found
  OBVIOUS
<1>8. PICK r : r = Then(th, IF shown THEN <<"indent">> ELSE <<>>)
  OBVIOUS
<1>9. log' = [log EXCEPT !.thread[t] = r]
  BY <1>1, <1>7, <1>8 DEF Line
<1>10. /\ r \in LogThread /\ Shape(r.todo) /\ r.frames = th.frames /\ r.most = th.most /\ r.depth = 0
       /\ r.todo # <<>> => r.todo[1] \in {"indent", "pop"} /\ r.file = th.file
  <2>1. CASE shown
    <3>1. r = Then(th, <<"indent">>)
      BY <1>8, <2>1
    <3>2. "indent" \in LogSteps \ {"count", "pop"} /\ Follows("indent", "pop") /\ "indent" \in Ends
      BY DEF LogSteps, Follows, Ends
    <3>3. Len(th.todo) > 1 => Follows("indent", th.todo[2])
      BY <1>5, <3>2
    <3> QED
      BY <1>4, <1>6, <3>1, <3>2, <3>3, ThenOne
  <2>2. CASE ~shown
    <3>1. r = Then(th, <<>>)
      BY <1>8, <2>2
    <3> QED
      BY <1>4, <1>5, <1>6, <3>1, ThenNone
  <2> QED
    BY <2>1, <2>2
<1>11. FramesRight(r) /\ r.most >= 0 /\ (r.todo # <<>> => r.file \in Files)
  BY <1>4, <1>10 DEF FramesRight
<1> QED
  BY <1>4, <1>9, <1>10, <1>11, PlainStep

\* The end of sxe_log_return keeps the invariant.
LEMMA PopKeeps == ASSUME LogRight(log), NEW t \in LogThreads, Pop(t) PROVE LogRight(log')
<1>1. PICK th : th = log.thread[t]
  OBVIOUS
<1>2. LogDoes(t, "pop") /\ "pop" \notin {"swap", "link"} \cup Changes
  BY DEF Pop, Changes
<1>3. Acts(t, th, "pop")
  BY <1>1, <1>2, Acting
<1>4. /\ th \in LogThread /\ Shape(th.todo) /\ FramesRight(th) /\ th.most >= 0 /\ th.file \in Files
      /\ th.todo # <<>> /\ th.todo[1] = "pop" /\ th.todo \in Seq(LogSteps)
      /\ Busy(t) /\ ~At(log.thread[t], {"swap", "link"} \cup Changes)
      /\ Upcoming(th.todo) # "assign" => th.depth = 0
  BY <1>3 DEF Acts
<1>5. Len(th.todo) > 2 /\ th.todo[2] = "learn" /\ th.todo[3] = "line" /\ Len(th.todo) > 1
  BY <1>4, ShapeIs
<1>6. th.depth = 0
  BY <1>4 DEF Upcoming
<1>7. PICK u : u = Popped(th)
  OBVIOUS
<1>8. u \in LogThread /\ u.todo = th.todo /\ u.file = th.file /\ u.depth = 0 /\ u.most = th.most /\ FramesRight(u)
  BY <1>4, <1>6, <1>7, PoppedIs
<1>9. PICK r : r = Then(u, <<>>)
  OBVIOUS
<1>10. log' = [log EXCEPT !.thread[t] = r]
  BY <1>1, <1>7, <1>9 DEF Pop
<1>11. /\ r \in LogThread /\ Shape(r.todo) /\ r.frames = u.frames /\ r.most = u.most /\ r.depth = 0
       /\ r.todo # <<>> /\ r.todo[1] = "learn" /\ r.todo[2] = "line" /\ r.file = u.file
  BY <1>4, <1>5, <1>8, <1>9, ThenNone
<1>12. FramesRight(r) /\ r.most >= 0 /\ r.file \in Files /\ r.todo[2] # "assign"
  BY <1>4, <1>8, <1>11 DEF FramesRight
<1> QED
  BY <1>4, <1>10, <1>11, <1>12, PlainStep

-----------------------------------------------------------------------------
\* Links that are the same make the same list.
LEMMA LinksSame ==
    ASSUME NEW h, NEW g, ListRight(h), g.head = h.head, \A a, b \in Files : Links(g, a, b) <=> Links(h, a, b)
    PROVE  ListRight(g)
<1>1. \A a \in Files : Linked(g, a) <=> Linked(h, a)
  BY DEF Linked
<1>2. \A S \in SUBSET Files : ClosedSet(g, S) <=> ClosedSet(h, S)
  BY DEF ClosedSet
<1>3. \A a, b \in Files : Reaches(g, a, b) <=> Reaches(h, a, b)
  BY <1>2 DEF Reaches
<1> QED
  BY <1>1, <1>3, ListKept

\* A control that is pushed on the list is linked to the old head.
LEMMA ListPushed ==
    ASSUME NEW h, NEW g, ListRight(h), NEW f \in Files, g.head = f, h.head \in Files \cup {NoControl},
           NoControl \notin Files,
           NEW next, next = IF h.head = NoControl THEN f ELSE h.head,
           \A a, b \in Files : Links(g, a, b) <=> Links(h, a, b) \/ (a = f /\ b = next)
    PROVE  ListRight(g)
<1>1. next \in Files
  OBVIOUS
<1>2. Links(g, f, next)
  BY <1>1
<1>3. Linked(g, f)
  BY <1>1, <1>2 DEF Linked
<1>4. \A a \in Files : Linked(h, a) => Linked(g, a)
  BY DEF Linked
<1>5. \A a \in Files : Linked(g, a) => a = f \/ Linked(h, a)
  BY DEF Linked
<1>6. ASSUME NEW a \in Files, Linked(g, a) PROVE Reaches(g, f, a)
  <2>1. SUFFICES ASSUME NEW S \in SUBSET Files, f \in S, ClosedSet(g, S) PROVE a \in S
    BY DEF Reaches
  <2>2. CASE a = f
    BY <2>1, <2>2
  <2>3. CASE Linked(h, a)
    <3>1. h.head \in Files /\ Reaches(h, h.head, a)
      BY <2>3 DEF ListRight
    <3>2. next = h.head
      BY <3>1
    <3>3. next \in S
      BY <1>1, <1>2, <2>1 DEF ClosedSet
    <3>4. ClosedSet(h, S)
      BY <2>1 DEF ClosedSet
    <3> QED
      BY <3>1, <3>2, <3>3, <3>4 DEF Reaches
  <2> QED
    BY <1>5, <1>6, <2>2, <2>3
<1>7. ASSUME NEW a \in Files, NEW b \in Files, Links(g, a, b) PROVE Linked(g, b)
  <2>1. CASE Links(h, a, b)
    BY <1>4, <2>1 DEF ListRight
  <2>2. CASE b = next
    <3>1. CASE h.head = NoControl
      BY <1>3, <2>2, <3>1
    <3>2. CASE h.head # NoControl
      BY <1>4, <2>2, <3>2 DEF ListRight
    <3> QED
      BY <3>1, <3>2
  <2> QED
    BY <1>7, <2>1, <2>2
<1> QED
  BY <1>3, <1>6, <1>7 DEF ListRight

\* A step of a thread that makes a link, or is about to.
LEMMA StepLinks ==
    ASSUME LogRight(log), NEW t \in LogThreads, Busy(t), ~At(log.thread[t], Changes), NEW r \in LogThread, ~At(r, Changes),
           NEW g \in Log, g.level = log.level, g.global = log.global, ~g.aborted, g.thread = [log.thread EXCEPT ![t] = r],
           Own(g, r), \A u \in LogThreads \ {t} : Own(g, log.thread[u]),
           \A f \in Files : log.next[f] # NoControl => g.next[f] # NoControl,
           At(r, {"swap", "link"}) => \A u \in LogThreads \ {t} : At(log.thread[u], {"swap", "link"}) => log.thread[u].file # r.file,
           ListRight(g)
    PROVE  LogRight(g)
<1>1. log.thread \in [LogThreads -> LogThread]
  BY ThreadIs
<1>2. g.thread[t] = r /\ \A u \in LogThreads \ {t} : g.thread[u] = log.thread[u]
  BY <1>1
<1>3. \A u \in LogThreads \ {t} : ~At(log.thread[u], Changes)
  BY NobodyChanges
<1>4. \A u \in LogThreads : Own(g, g.thread[u])
  BY <1>2
<1>5. LinkersApart(g)
  <2>1. ASSUME NEW u \in LogThreads, NEW v \in LogThreads, u # v
        PROVE  /\ At(g.thread[u], {"swap", "link"}) /\ At(g.thread[v], {"swap", "link"}) => g.thread[u].file # g.thread[v].file
               /\ At(g.thread[u], Changes) => g.thread[v].todo = <<>>
    <3>1. ~At(g.thread[u], Changes)
      BY <1>2, <1>3
    <3>2. CASE u = t
      BY <1>2, <2>1, <3>1, <3>2
    <3>3. CASE v = t
      BY <1>2, <2>1, <3>1, <3>3
    <3>4. CASE u # t /\ v # t
      BY <1>2, <2>1, <3>1, <3>4 DEF LogRight, LinkersApart
    <3> QED
      BY <3>2, <3>3, <3>4
  <2> QED
    BY <2>1 DEF LinkersApart
<1>6. LevelsRight(g)
  <2>1. \A f \in Files : log.level[f] \in {Unknown, Setting(log, f)}
    BY LevelKnown
  <2>2. \A f \in Files : Setting(g, f) = Setting(log, f)
    BY SettingKept
  <2>3. \A f \in Files : log.level[f] # Unknown => log.next[f] # NoControl
    BY DEF LogRight, LevelsRight
  <2> QED
    BY <2>1, <2>2, <2>3 DEF LevelsRight
<1> QED
  BY <1>4, <1>5, <1>6 DEF LogRight

\* A thread with a new head to link to.
LEMMA WithOld ==
    ASSUME NEW th \in LogThread, NEW f \in Files \cup {NoControl}
    PROVE  LET u == [th EXCEPT !.old = f] IN
           /\ u \in LogThread /\ u.todo = th.todo /\ u.frames = th.frames /\ u.most = th.most /\ u.file = th.file
           /\ u.depth = th.depth /\ u.old = f /\ u.found = th.found
  BY DEF LogThread

\* sxe_log_control_learn_level sets out to put its control on the list, or has done so.
LEMMA LearnKeeps ==
    ASSUME LogRight(log), NEW t \in LogThreads, Learn(t), ~log'.raced
    PROVE  LogRight(log')
<1>1. PICK th : th = log.thread[t]
  OBVIOUS
<1>2. LogDoes(t, "learn") /\ "learn" \notin {"swap", "link"} \cup Changes /\ "learn" \notin Changes
  BY DEF Learn, Changes
<1>3. Acts(t, th, "learn")
  BY <1>1, <1>2, Acting
<1>4. /\ th \in LogThread /\ Shape(th.todo) /\ th.file \in Files
      /\ th.todo # <<>> /\ th.todo[1] = "learn" /\ th.todo \in Seq(LogSteps) /\ Busy(t)
  BY <1>3 DEF Acts
<1>5. Len(th.todo) > 1 /\ th.todo[2] \in Uses
  BY <1>4, ShapeIs
<1>6. ~At(th, Changes) /\ ~At(th, {"swap", "link"}) /\ Own(log, th)
  <2>1. "learn" \notin {"swap", "link"}
    OBVIOUS
  <2> QED
    BY <1>1, <1>2, <2>1, StepAtHand, ThreadIs
<1>7. log \in Log /\ log.thread \in [LogThreads -> LogThread] /\ ~log.aborted /\ log.raced \in BOOLEAN
  BY ThreadIs DEF LogRight, Log
<1>8. CASE log.next[th.file] # NoControl
  <2>1. log' = [log EXCEPT !.thread[t] = Level(t)]
    BY <1>1, <1>8 DEF Learn
  <2> QED
    BY <1>1, <1>2, <1>8, <2>1, LevelKeeps
<1>9. CASE log.next[th.file] = NoControl
  <2>1. PICK raced : raced = (log.raced \/ \E u \in LogThreads \ {t} : log.thread[u].file = th.file /\ Linking(u))
    OBVIOUS
  <2>2. PICK r : r = Then(th, <<"swap", "link", "learn">>)
    OBVIOUS
  <2>3. log' = [log EXCEPT !.raced = raced, !.thread = [log.thread EXCEPT ![t] = r]]
    BY <1>1, <1>9, <2>1, <2>2 DEF Learn
  <2>4. Follows("learn", th.todo[2])
    BY <1>5 DEF Follows
  <2>5. /\ r \in LogThread /\ Shape(r.todo) /\ r.todo # <<>> /\ r.todo[1] = "swap" /\ r.todo[2] = "link"
        /\ r.todo[4] = th.todo[2]
        /\ r.frames = th.frames /\ r.most = th.most /\ r.file = th.file /\ r.depth = th.depth
    BY <1>4, <1>5, <2>2, <2>4, ThenLinks
  <2>6. PICK g : g = log'
    OBVIOUS
  <2>7. raced \in BOOLEAN /\ [log.thread EXCEPT ![t] = r] \in [LogThreads -> LogThread]
    BY <1>7, <2>1, <2>5
  <2>8. /\ g \in Log /\ g.level = log.level /\ g.next = log.next /\ g.global = log.global /\ g.aborted = log.aborted
        /\ g.head = log.head /\ g.thread = [log.thread EXCEPT ![t] = r] /\ g.raced = raced
    BY <1>7, <2>3, <2>6, <2>7 DEF Log
  <2>9. ~raced
    BY <2>6, <2>8
  <2>10. \A v \in LogThreads \ {t} : At(log.thread[v], {"swap", "link"}) => log.thread[v].file # r.file
    <3> TAKE v \in LogThreads \ {t}
    <3>1. log.thread[v].todo \in Seq(LogSteps)
      BY ThreadIs
    <3>2. At(log.thread[v], {"swap", "link"}) => Linking(v)
      BY <1>7, <3>1 DEF At, Linking, LogDoes
    <3> QED
      BY <2>1, <2>5, <2>9, <3>2
  <2>11. \A X : At(r, X) <=> "swap" \in X
    BY <2>5 DEF At
  <2>12. ~At(r, Changes) /\ At(r, {"swap", "link"}) /\ ~At(r, {"link"}) /\ ~At(r, {"global"})
         /\ ~At(r, {"find", "store", "global"}) /\ ~At(r, Uses \cup {"store", "global"})
    BY <2>11 DEF Changes, Uses
  <2>13. Upcoming(r.todo) = th.todo[2] /\ Upcoming(th.todo) = th.todo[2]
    BY <1>4, <2>5 DEF Upcoming
  <2>14. Own(log, r)
    BY <1>4, <1>6, <1>9, <2>5, <2>12, <2>13, OwnNext
  <2>15. \A f \in Files : Setting(g, f) = Setting(log, f)
    BY <2>8, SettingKept
  <2>16. Own(g, r) /\ \A v \in LogThreads \ {t} : Own(g, log.thread[v])
    <3>1. Own(g, r)
      BY <2>5, <2>8, <2>14, <2>15, OwnKept
    <3>2. ASSUME NEW v \in LogThreads \ {t} PROVE Own(g, log.thread[v])
      <4>1. log.thread[v] \in LogThread /\ Own(log, log.thread[v])
        BY ThreadIs
      <4> QED
        BY <2>8, <2>15, <4>1, OwnKept
    <3> QED
      BY <3>1, <3>2
  <2>17. ListRight(g)
    <3>1. g.thread[t] = r /\ \A v \in LogThreads \ {t} : g.thread[v] = log.thread[v]
      BY <1>7, <2>8
    <3>2. \A a, b \in Files : Links(g, a, b) <=> Links(log, a, b)
      <4>1. ~At(th, {"link"})
        BY <1>4 DEF At
      <4> QED
        BY <1>1, <2>8, <2>12, <3>1, <4>1 DEF Links
    <3> QED
      BY <2>8, <3>2, LinksSame DEF LogRight
  <2>18. LogRight(g)
    BY <1>1, <1>4, <1>6, <1>7, <2>5, <2>8, <2>10, <2>12, <2>16, <2>17, StepLinks
  <2> QED
    BY <2>6, <2>18
<1> QED
  BY <1>8, <1>9

\* The head of the list is read, and swapped for the control.
LEMMA SwapKeeps ==
    ASSUME LogRight(log), NEW t \in LogThreads, SwapHead(t)
    PROVE  LogRight(log')
<1>1. PICK th : th = log.thread[t]
  OBVIOUS
<1>2. LogDoes(t, "swap") /\ "swap" \in {"swap", "link"} /\ "swap" \notin {"link"} /\ "swap" \notin Changes
  BY DEF SwapHead, Changes
<1>3. /\ th \in LogThread /\ Shape(th.todo) /\ th.todo # <<>> /\ th.todo[1] = "swap" /\ th.todo \in Seq(LogSteps) /\ Busy(t)
      /\ ~At(th, Changes) /\ At(th, {"swap", "link"}) /\ ~At(th, {"link"}) /\ Own(log, th)
  BY <1>1, <1>2, ThreadIs, StepAtHand
<1>4. Len(th.todo) > 3 /\ Len(th.todo) > 2 /\ Len(th.todo) > 1
      /\ th.todo[2] = "link" /\ th.todo[3] = "learn" /\ th.todo[4] \in Uses
  <2>1. Len(th.todo) > 3 /\ th.todo[2] = "link" /\ th.todo[3] = "learn" /\ th.todo[4] \in Uses /\ Len(th.todo) \in Nat
    BY <1>3, ShapeIs
  <2>2. \A n \in Nat : n > 3 => n > 2 /\ n > 1
    OBVIOUS
  <2> QED
    BY <2>1, <2>2, Zenon
<1>5. th.file \in Files /\ log.next[th.file] = NoControl
  BY <1>3 DEF Own
<1>7. log \in Log /\ log.thread \in [LogThreads -> LogThread] /\ ~log.aborted
  BY ThreadIs DEF LogRight, Log
<1>22. PICK u : u = [th EXCEPT !.old = log.head]
  OBVIOUS
<1>23. PICK r : r = Then(u, <<>>)
  OBVIOUS
<1>24. log' = [log EXCEPT !.head = th.file, !.thread = [log.thread EXCEPT ![t] = r]]
  BY <1>1, <1>22, <1>23 DEF SwapHead
<1>25. log.head \in Files \cup {NoControl}
  BY <1>7 DEF Log
<1>26. /\ u \in LogThread /\ u.todo = th.todo /\ u.frames = th.frames /\ u.most = th.most /\ u.file = th.file
      /\ u.depth = th.depth /\ u.old = log.head
  BY <1>3, <1>22, <1>25, WithOld
<1>28. /\ r \in LogThread /\ Shape(r.todo) /\ r.todo # <<>> /\ r.todo[1] = "link" /\ r.todo[2] = "learn"
       /\ r.todo[3] = th.todo[4]
       /\ r.frames = u.frames /\ r.most = u.most /\ r.file = u.file /\ r.depth = u.depth /\ r.old = u.old
  BY <1>3, <1>4, <1>23, <1>26, ThenNone
<1>29. PICK g : g = log'
  OBVIOUS
<1>30. [log.thread EXCEPT ![t] = r] \in [LogThreads -> LogThread]
  BY <1>7, <1>28
<1>31. /\ g \in Log /\ g.level = log.level /\ g.next = log.next /\ g.global = log.global /\ g.aborted = log.aborted
       /\ g.head = th.file /\ g.thread = [log.thread EXCEPT ![t] = r]
  BY <1>5, <1>7, <1>24, <1>29, <1>30 DEF Log
<1>33. \A v \in LogThreads \ {t} : At(log.thread[v], {"swap", "link"}) => log.thread[v].file # th.file
  BY <1>1, <1>3 DEF LogRight, LinkersApart
<1>34. \A X : At(r, X) <=> "link" \in X
  BY <1>28 DEF At
<1>35. ~At(r, Changes) /\ At(r, {"link"}) /\ At(r, {"swap", "link"}) /\ ~At(r, {"global"}) /\ ~At(r, {"find", "store", "global"})
       /\ ~At(r, Uses \cup {"store", "global"})
  BY <1>34 DEF Changes, Uses
<1>36. Upcoming(r.todo) = th.todo[4] /\ Upcoming(th.todo) = th.todo[4]
  BY <1>3, <1>28 DEF Upcoming
<1>37. Own(log, r)
  BY <1>3, <1>5, <1>26, <1>28, <1>35, <1>36, OwnNext
<1>38. \A f \in Files : Setting(g, f) = Setting(log, f)
  BY <1>31, SettingKept
<1>39. Own(g, r) /\ \A v \in LogThreads \ {t} : Own(g, log.thread[v])
  <2>1. Own(g, r)
    BY <1>28, <1>31, <1>37, <1>38, OwnKept
  <2>2. ASSUME NEW v \in LogThreads \ {t} PROVE Own(g, log.thread[v])
    <3>1. log.thread[v] \in LogThread /\ Own(log, log.thread[v])
      BY ThreadIs
    <3> QED
      BY <1>31, <1>38, <3>1, OwnKept
  <2> QED
    BY <2>1, <2>2
<1>40. ListRight(g)
  <2>1. g.thread[t] = r /\ \A v \in LogThreads \ {t} : g.thread[v] = log.thread[v]
    BY <1>7, <1>31
  <2>2. PICK next : next = IF log.head = NoControl THEN th.file ELSE log.head
    OBVIOUS
  <2>3. \A a, b \in Files : Links(g, a, b) <=> Links(log, a, b) \/ (a = th.file /\ b = next)
    <3> TAKE a, b \in Files
    <3>1. Links(g, a, b) <=> \/ log.next[a] = b
                             \/ \E v \in LogThreads \ {t} : /\ At(log.thread[v], {"link"}) /\ log.thread[v].file = a
                                                            /\ b = IF log.thread[v].old = NoControl THEN a ELSE log.thread[v].old
                             \/ r.file = a /\ b = IF r.old = NoControl THEN a ELSE r.old
      BY <1>31, <1>35, <2>1 DEF Links
    <3>2. Links(log, a, b) <=> \/ log.next[a] = b
                               \/ \E v \in LogThreads \ {t} : /\ At(log.thread[v], {"link"}) /\ log.thread[v].file = a
                                                              /\ b = IF log.thread[v].old = NoControl THEN a ELSE log.thread[v].old
      BY <1>1, <1>3 DEF Links
    <3>3. (r.file = a /\ b = IF r.old = NoControl THEN a ELSE r.old) <=> a = th.file /\ b = next
      BY <1>26, <1>28, <2>2
    <3> QED
      BY <3>1, <3>2, <3>3
  <2>4. ListRight(log)
    BY DEF LogRight
  <2> QED
    BY <1>5, <1>25, <1>31, <2>2, <2>3, <2>4, StepsDistinct, ListPushed
<1>41. \A v \in LogThreads \ {t} : At(log.thread[v], {"swap", "link"}) => log.thread[v].file # r.file
  BY <1>26, <1>28, <1>33
<1>42. LogRight(g)
  BY <1>1, <1>3, <1>7, <1>28, <1>31, <1>35, <1>39, <1>40, <1>41, StepLinks
<1> QED
  BY <1>29, <1>42

\* The link to the old head, which was about to be made, is made.
LEMMA LinkKeeps == ASSUME LogRight(log), NEW t \in LogThreads, Link(t) PROVE LogRight(log')
<1>1. PICK th : th = log.thread[t]
  OBVIOUS
<1>2. LogDoes(t, "link") /\ "link" \notin Changes /\ "link" \in {"link"} /\ "link" \in {"swap", "link"}
  BY DEF Link, Changes
<1>3. /\ th \in LogThread /\ Shape(th.todo) /\ th.todo # <<>> /\ th.todo[1] = "link" /\ th.todo \in Seq(LogSteps) /\ Busy(t)
      /\ ~At(th, Changes) /\ At(th, {"link"}) /\ At(th, {"swap", "link"}) /\ Own(log, th)
  BY <1>1, <1>2, ThreadIs, StepAtHand
<1>4. Len(th.todo) > 2 /\ th.todo[2] = "learn" /\ th.todo[3] \in Uses /\ Len(th.todo) > 1
  <2>1. Len(th.todo) > 2 /\ th.todo[2] = "learn" /\ th.todo[3] \in Uses /\ Len(th.todo) \in Nat
    BY <1>3, ShapeIs
  <2>2. \A n \in Nat : n > 2 => n > 1
    OBVIOUS
  <2> QED
    BY <2>1, <2>2, Zenon
<1>5. th.file \in Files /\ log.next[th.file] = NoControl
  BY <1>3 DEF Own
<1>6. log \in Log /\ log.thread \in [LogThreads -> LogThread] /\ ~log.aborted
  BY ThreadIs DEF LogRight
<1>7. PICK next : next = IF th.old = NoControl THEN th.file ELSE th.old
  OBVIOUS
<1>8. next \in Files /\ next # NoControl
  <2>1. th.old \in Files \cup {NoControl}
    BY <1>3 DEF LogThread
  <2> QED
    BY <1>5, <1>7, <2>1, StepsDistinct
<1>9. PICK u : u = [th EXCEPT !.old = NoControl]
  OBVIOUS
<1>10. /\ u \in LogThread /\ u.todo = th.todo /\ u.frames = th.frames /\ u.most = th.most /\ u.file = th.file
       /\ u.depth = th.depth
  BY <1>3, <1>9, WithOld
<1>11. PICK r : r = Then(u, <<>>)
  OBVIOUS
<1>12. log' = [log EXCEPT !.next = [log.next EXCEPT ![th.file] = next], !.thread = [log.thread EXCEPT ![t] = r]]
  BY <1>1, <1>7, <1>9, <1>11 DEF Link
<1>13. /\ r \in LogThread /\ Shape(r.todo) /\ r.todo # <<>> /\ r.todo[1] = "learn" /\ r.todo[2] = th.todo[3]
       /\ r.frames = u.frames /\ r.most = u.most /\ r.file = u.file /\ r.depth = u.depth
  BY <1>3, <1>4, <1>10, <1>11, ThenNone
<1>14. PICK g : g = log'
  OBVIOUS
<1>15. /\ [log.next EXCEPT ![th.file] = next] \in [Files -> Files \cup {NoControl}]
       /\ [log.thread EXCEPT ![t] = r] \in [LogThreads -> LogThread]
  BY <1>6, <1>8, <1>13 DEF Log
<1>16. /\ g \in Log /\ g.level = log.level /\ g.head = log.head /\ g.global = log.global /\ g.aborted = log.aborted
       /\ g.next = [log.next EXCEPT ![th.file] = next] /\ g.thread = [log.thread EXCEPT ![t] = r]
  BY <1>6, <1>12, <1>14, <1>15 DEF Log
<1>17. g.next[th.file] = next /\ \A f \in Files : f # th.file => g.next[f] = log.next[f]
  BY <1>5, <1>6, <1>16 DEF Log
<1>18. \A X : At(r, X) <=> "learn" \in X
  BY <1>13 DEF At
<1>19. ~At(r, Changes) /\ ~At(r, {"link"}) /\ ~At(r, {"swap", "link"}) /\ ~At(r, {"global"}) /\ ~At(r, {"find", "store", "global"})
       /\ ~At(r, Uses \cup {"store", "global"})
  BY <1>18 DEF Changes, Uses
<1>20. Upcoming(r.todo) = th.todo[3] /\ Upcoming(th.todo) = th.todo[3]
  BY <1>3, <1>13 DEF Upcoming
<1>21. Own(log, r)
  BY <1>3, <1>10, <1>13, <1>19, <1>20, OwnNext
<1>22. \A f \in Files : Setting(g, f) = Setting(log, f)
  BY <1>16, SettingKept
<1>23. Own(g, r)
  BY <1>5, <1>8, <1>13, <1>17, <1>19, <1>21, <1>22, OwnKept
<1>24. ASSUME NEW v \in LogThreads \ {t} PROVE Own(g, log.thread[v])
  <2>1. log.thread[v] \in LogThread /\ Own(log, log.thread[v])
    BY ThreadIs
  <2>2. ~(At(log.thread[v], {"swap", "link"}) /\ log.thread[v].file = th.file)
    BY <1>1, <1>3 DEF LogRight, LinkersApart
  <2> QED
    BY <1>5, <1>8, <1>17, <1>22, <2>1, <2>2, OwnKept
<1>25. ListRight(g)
  <2>1. g.thread[t] = r /\ \A v \in LogThreads \ {t} : g.thread[v] = log.thread[v]
    BY <1>6, <1>16
  <2>2. \A a, b \in Files : Links(g, a, b) <=> Links(log, a, b)
    <3> TAKE a, b \in Files
    <3>1. Links(g, a, b) <=> \/ g.next[a] = b
                             \/ \E v \in LogThreads \ {t} : /\ At(log.thread[v], {"link"}) /\ log.thread[v].file = a
                                                            /\ b = IF log.thread[v].old = NoControl THEN a ELSE log.thread[v].old
      BY <1>19, <2>1 DEF Links
    <3>2. Links(log, a, b) <=> \/ log.next[a] = b
                               \/ \E v \in LogThreads \ {t} : /\ At(log.thread[v], {"link"}) /\ log.thread[v].file = a
                                                              /\ b = IF log.thread[v].old = NoControl THEN a ELSE log.thread[v].old
                               \/ th.file = a /\ b = IF th.old = NoControl THEN a ELSE th.old
      BY <1>1, <1>3 DEF Links
    <3>3. g.next[a] = b <=> log.next[a] = b \/ (th.file = a /\ b = IF th.old = NoControl THEN a ELSE th.old)
      BY <1>5, <1>7, <1>17, StepsDistinct
    <3> QED
      BY <3>1, <3>2, <3>3
  <2> QED
    BY <1>16, <2>2, LinksSame DEF LogRight
<1>26. \A f \in Files : log.next[f] # NoControl => g.next[f] # NoControl
  BY <1>8, <1>17
<1>27. LogRight(g)
  BY <1>1, <1>3, <1>6, <1>13, <1>16, <1>19, <1>23, <1>24, <1>25, <1>26, StepLinks
<1> QED
  BY <1>14, <1>27

-----------------------------------------------------------------------------
\* What the invariant says of a thread that changes the level.
LEMMA OwnChanging ==
    ASSUME NEW h, NEW r, Shape(r.todo), FramesRight(r), r.most >= 0, r.depth = 0, r.todo # <<>> => r.todo[1] \in Changes,
           r.todo # <<>> /\ r.todo[1] = "wipe" => r.at \in Files /\ h.next[r.at] # NoControl
    PROVE  Own(h, r)
<1>1. \A X : At(r, X) => r.todo # <<>> /\ r.todo[1] \in X /\ r.todo[1] \in Changes
  BY DEF At
<1>2. /\ ~At(r, {"global"}) /\ ~At(r, Uses \cup {"store", "global"}) /\ ~At(r, {"swap", "link"})
      /\ ~At(r, {"find", "store", "global"}) /\ (At(r, {"wipe"}) => r.todo # <<>> /\ r.todo[1] = "wipe")
  BY <1>1 DEF Uses, Changes
<1>3. r.todo # <<>> => Upcoming(r.todo) # "assign" /\ At(r, Changes)
  BY DEF Upcoming, Changes, At
<1> QED
  BY <1>2, <1>3 DEF Own

\* The thread that changes the level: all others are idle.
LEMMA Changer ==
    ASSUME LogRight(log), NEW t \in LogThreads, NEW step \in Changes, LogDoes(t, step), NEW th, th = log.thread[t]
    PROVE  /\ th \in LogThread /\ Shape(th.todo) /\ FramesRight(th) /\ th.most >= 0 /\ th.depth = 0
           /\ th.todo # <<>> /\ th.todo[1] = step /\ th.todo \in Seq(LogSteps)
           /\ At(th, Changes) /\ ~At(th, {"swap", "link"}) /\ (step = "wipe" => th.at \in Files /\ log.next[th.at] # NoControl)
           /\ \A u \in LogThreads \ {t} : log.thread[u].todo = <<>>
<1>1. /\ th \in LogThread /\ Own(log, th) /\ th.todo \in Seq(LogSteps) /\ th.todo # <<>> /\ th.todo[1] = step
      /\ \A X : At(th, X) <=> step \in X
  BY ThreadIs, StepAtHand
<1>2. At(th, Changes) /\ ~At(th, {"swap", "link"}) /\ (step = "wipe" => At(th, {"wipe"}))
  BY <1>1 DEF Changes
<1>3. Upcoming(th.todo) # "assign"
  BY <1>1 DEF Upcoming, Changes
<1>4. \A u \in LogThreads \ {t} : log.thread[u].todo = <<>>
  BY <1>2 DEF LogRight, LinkersApart
<1> QED
  BY <1>1, <1>2, <1>3, <1>4 DEF Own

\* The links while no thread makes one.
LEMMA Unlinking ==
    ASSUME LogRight(log), NEW t \in LogThreads, ~At(log.thread[t], {"swap", "link"}),
           \A u \in LogThreads \ {t} : log.thread[u].todo = <<>>
    PROVE  /\ \A a, b \in Files : Links(log, a, b) <=> log.next[a] = b
           /\ \A a \in Files : Linked(log, a) <=> log.next[a] # NoControl
<1>1. \A u \in LogThreads : ~At(log.thread[u], {"link"})
  BY AtIs DEF At
<1>2. \A a, b \in Files : Links(log, a, b) <=> log.next[a] = b
  BY <1>1 DEF Links
<1>3. \A a \in Files : log.next[a] \in Files \cup {NoControl}
  BY DEF LogRight, Log
<1> QED
  BY <1>2, <1>3, StepsDistinct DEF Linked

\* The era moves on before files forget.
LEMMA NextEraKeeps == ASSUME LogRight(log), NEW t \in LogThreads, NextEra(t) PROVE LogRight(log')
<1>1. PICK th : th = log.thread[t]
  OBVIOUS
<1>2. LogDoes(t, "era") /\ "era" \in Changes
  BY DEF NextEra, Changes
<1>3. /\ th \in LogThread /\ Shape(th.todo) /\ FramesRight(th) /\ th.most >= 0 /\ th.depth = 0
      /\ th.todo # <<>> /\ th.todo[1] = "era" /\ th.todo \in Seq(LogSteps)
      /\ ~At(th, {"swap", "link"}) /\ \A u \in LogThreads \ {t} : log.thread[u].todo = <<>>
  BY <1>1, <1>2, Changer
<1>4. Len(th.todo) > 1 /\ th.todo[2] = "forget"
  BY <1>3, ShapeIs
<1>5. PICK r : r = Then(th, <<>>)
  OBVIOUS
<1>6. /\ r \in LogThread /\ Shape(r.todo) /\ r.todo # <<>> /\ r.todo[1] = "forget"
      /\ r.frames = th.frames /\ r.most = th.most /\ r.depth = 0
  BY <1>3, <1>4, <1>5, ThenNone
<1>7. log \in Log /\ log.thread \in [LogThreads -> LogThread] /\ ~log.aborted
  BY ThreadIs DEF LogRight
<1>8. log' = [log EXCEPT !.era = log.era + 1, !.thread = [log.thread EXCEPT ![t] = r]]
  BY <1>1, <1>5 DEF NextEra
<1>9. PICK g : g = log'
  OBVIOUS
<1>10. [log.thread EXCEPT ![t] = r] \in [LogThreads -> LogThread] /\ log.era + 1 \in Nat
  BY <1>6, <1>7 DEF Log
<1>11. /\ g \in Log /\ g.level = log.level /\ g.next = log.next /\ g.head = log.head /\ g.aborted = log.aborted
       /\ g.thread = [log.thread EXCEPT ![t] = r]
  BY <1>7, <1>8, <1>9, <1>10 DEF Log
<1>12. FramesRight(r)
  BY <1>3, <1>6 DEF FramesRight
<1>13. Own(g, r)
  BY <1>3, <1>6, <1>12, OwnChanging DEF Changes
<1>14. At(r, {"era", "forget"}) /\ ~At(r, {"swap", "link"})
  BY <1>6 DEF At
<1>15. LevelsRight(g)
  <2>1. g.thread[t] = r
    BY <1>7, <1>11
  <2> QED
    BY <1>11, <1>14, <2>1 DEF LogRight, LevelsRight
<1>16. LogRight(g)
  BY <1>1, <1>3, <1>6, <1>7, <1>11, <1>13, <1>14, <1>15, OnlyChanger
<1> QED
  BY <1>9, <1>16

\* A thread that has come to another control of the list.
LEMMA WithAt ==
    ASSUME NEW th \in LogThread, NEW f \in Files \cup {NoControl}
    PROVE  LET u == [th EXCEPT !.at = f] IN
           /\ u \in LogThread /\ u.todo = th.todo /\ u.frames = th.frames /\ u.most = th.most
           /\ u.depth = th.depth /\ u.at = f
  BY DEF LogThread

\* The walk begins at the head of the list, from which every control with a level is reached.
LEMMA ForgetKeeps == ASSUME LogRight(log), NEW t \in LogThreads, Forget(t) PROVE LogRight(log')
<1>1. PICK th : th = log.thread[t]
  OBVIOUS
<1>2. LogDoes(t, "forget") /\ "forget" \in Changes
  BY DEF Forget, Changes
<1>3. /\ th \in LogThread /\ Shape(th.todo) /\ FramesRight(th) /\ th.most >= 0 /\ th.depth = 0
      /\ th.todo # <<>> /\ th.todo[1] = "forget" /\ th.todo \in Seq(LogSteps)
      /\ ~At(th, {"swap", "link"}) /\ \A u \in LogThreads \ {t} : log.thread[u].todo = <<>>
  BY <1>1, <1>2, Changer
<1>4. Len(th.todo) = 1
  BY <1>3, ShapeIs
<1>5. log \in Log /\ log.thread \in [LogThreads -> LogThread] /\ ~log.aborted /\ log.head \in Files \cup {NoControl}
  BY ThreadIs DEF LogRight, Log
<1>6. PICK u : u = [th EXCEPT !.at = log.head]
  OBVIOUS
<1>7. /\ u \in LogThread /\ u.todo = th.todo /\ u.frames = th.frames /\ u.most = th.most /\ u.depth = th.depth
      /\ u.at = log.head
  BY <1>3, <1>5, <1>6, WithAt
<1>8. PICK r : r = Then(u, IF log.head = NoControl THEN <<>> ELSE <<"wipe">>)
  OBVIOUS
<1>9. log' = [log EXCEPT !.thread = [log.thread EXCEPT ![t] = r]]
  BY <1>1, <1>6, <1>8 DEF Forget
<1>10. /\ r \in LogThread /\ Shape(r.todo) /\ r.frames = u.frames /\ r.most = u.most /\ r.depth = 0
       /\ log.head = NoControl => r.todo = <<>>
       /\ log.head # NoControl => r.todo # <<>> /\ r.todo[1] = "wipe" /\ r.at = log.head
  <2>1. CASE log.head = NoControl
    <3>1. r = Then(u, <<>>)
      BY <1>8, <2>1
    <3> QED
      BY <1>3, <1>4, <1>7, <2>1, <3>1, ThenNone
  <2>2. CASE log.head # NoControl
    <3>1. r = Then(u, <<"wipe">>)
      BY <1>8, <2>2
    <3>2. "wipe" \in LogSteps \ {"count", "pop"} /\ "wipe" \in Ends
      BY DEF LogSteps, Changes, Ends
    <3>3. ~(Len(u.todo) > 1)
      BY <1>4, <1>7, OneIsNotMore, Zenon
    <3> QED
      BY <1>3, <1>7, <2>2, <3>1, <3>2, <3>3, ThenOne
  <2> QED
    BY <2>1, <2>2
<1>11. PICK g : g = log'
  OBVIOUS
<1>12. [log.thread EXCEPT ![t] = r] \in [LogThreads -> LogThread]
  BY <1>5, <1>10
<1>13. /\ g \in Log /\ g.level = log.level /\ g.next = log.next /\ g.head = log.head /\ g.aborted = log.aborted
       /\ g.global = log.global /\ g.thread = [log.thread EXCEPT ![t] = r]
  BY <1>5, <1>9, <1>11, <1>12 DEF Log
<1>14. ListRight(log) /\ LevelsRight(log)
  BY DEF LogRight
<1>15. /\ \A a, b \in Files : Links(log, a, b) <=> log.next[a] = b
       /\ \A a \in Files : Linked(log, a) <=> log.next[a] # NoControl
  BY <1>1, <1>3, Unlinking
<1>16. ~At(r, {"swap", "link"}) /\ (log.head # NoControl => At(r, {"wipe"}))
  <2>1. CASE log.head = NoControl
    BY <1>10, <2>1 DEF At
  <2>2. CASE log.head # NoControl
    BY <1>10, <2>2 DEF At
  <2> QED
    BY <2>1, <2>2
<1>17. Own(g, r)
  <2>1. FramesRight(r) /\ r.most >= 0
    BY <1>3, <1>7, <1>10 DEF FramesRight
  <2>2. r.todo # <<>> => r.todo[1] \in Changes /\ r.at \in Files /\ g.next[r.at] # NoControl
    <3>1. log.head # NoControl => log.head \in Files /\ log.next[log.head] # NoControl
      BY <1>5, <1>14, <1>15 DEF ListRight
    <3> QED
      BY <1>10, <1>13, <3>1 DEF Changes
  <2> QED
    BY <1>10, <2>1, <2>2, OwnChanging
<1>18. g.thread[t] = r /\ \A v \in LogThreads \ {t} : g.thread[v] = log.thread[v]
  BY <1>5, <1>13
<1>19. LevelsRight(g)
  <2>1. \A a, b \in Files : Reaches(g, a, b) <=> Reaches(log, a, b)
    BY <1>1, <1>3, <1>13, <1>16, <1>18, LinksKept
  <2>2. ASSUME NEW f \in Files, log.level[f] # Unknown
        PROVE  \E v \in LogThreads : At(g.thread[v], {"wipe"}) /\ Reaches(g, g.thread[v].at, f)
    <3>1. Linked(log, f)
      BY <1>14, <1>15, <2>2 DEF LevelsRight
    <3>2. log.head \in Files /\ Reaches(log, log.head, f)
      BY <1>14, <3>1 DEF ListRight
    <3>3. log.head # NoControl
      BY <3>2, StepsDistinct
    <3> QED
      BY <1>10, <1>16, <1>18, <2>1, <3>2, <3>3
  <2> QED
    BY <1>13, <1>14, <2>2 DEF LevelsRight
<1>20. LogRight(g)
  BY <1>1, <1>3, <1>5, <1>10, <1>13, <1>16, <1>17, <1>19, OnlyChanger
<1> QED
  BY <1>11, <1>20

\* A control forgets its level, and the walk goes on to the next, from which all that remain are reached.
LEMMA WipeKeeps == ASSUME LogRight(log), NEW t \in LogThreads, Wipe(t) PROVE LogRight(log')
<1>1. PICK th : th = log.thread[t]
  OBVIOUS
<1>2. LogDoes(t, "wipe") /\ "wipe" \in Changes
  BY DEF Wipe, Changes
<1>3. /\ th \in LogThread /\ Shape(th.todo) /\ FramesRight(th) /\ th.most >= 0 /\ th.depth = 0
      /\ th.todo # <<>> /\ th.todo[1] = "wipe" /\ th.todo \in Seq(LogSteps)
      /\ ~At(th, {"swap", "link"}) /\ th.at \in Files /\ log.next[th.at] # NoControl
      /\ \A u \in LogThreads \ {t} : log.thread[u].todo = <<>>
  BY <1>1, <1>2, Changer
<1>4. Len(th.todo) = 1
  BY <1>3, ShapeIs
<1>5. log \in Log /\ log.thread \in [LogThreads -> LogThread] /\ ~log.aborted /\ ListRight(log) /\ LevelsRight(log)
  BY ThreadIs DEF LogRight
<1>6. PICK f : f = th.at
  OBVIOUS
<1>7. PICK next : next = log.next[f]
  OBVIOUS
<1>8. f \in Files /\ next \in Files /\ next # NoControl
  BY <1>3, <1>5, <1>6, <1>7 DEF Log
<1>9. PICK u : u = [th EXCEPT !.at = next]
  OBVIOUS
<1>10. u \in LogThread /\ u.todo = th.todo /\ u.frames = th.frames /\ u.most = th.most /\ u.depth = th.depth /\ u.at = next
  BY <1>3, <1>8, <1>9, WithAt
<1>11. PICK r : r = Then(u, IF next = f THEN <<>> ELSE <<"wipe">>)
  OBVIOUS
<1>12. log' = [log EXCEPT !.level = [log.level EXCEPT ![f] = Unknown], !.thread = [log.thread EXCEPT ![t] = r]]
  BY <1>1, <1>6, <1>7, <1>8, <1>9, <1>11 DEF Wipe, Wiped
<1>13. /\ r \in LogThread /\ Shape(r.todo) /\ r.frames = u.frames /\ r.most = u.most /\ r.depth = 0
       /\ next = f => r.todo = <<>>
       /\ next # f => r.todo # <<>> /\ r.todo[1] = "wipe" /\ r.at = next
  <2>1. CASE next = f
    <3>1. r = Then(u, <<>>)
      BY <1>11, <2>1
    <3> QED
      BY <1>3, <1>4, <1>10, <2>1, <3>1, ThenNone
  <2>2. CASE next # f
    <3>1. r = Then(u, <<"wipe">>)
      BY <1>11, <2>2
    <3>2. "wipe" \in LogSteps \ {"count", "pop"} /\ "wipe" \in Ends
      BY DEF LogSteps, Changes, Ends
    <3>3. ~(Len(u.todo) > 1)
      BY <1>4, <1>10, OneIsNotMore, Zenon
    <3> QED
      BY <1>3, <1>10, <2>2, <3>1, <3>2, <3>3, ThenOne
  <2> QED
    BY <2>1, <2>2
<1>14. PICK g : g = log'
  OBVIOUS
<1>15. [log.thread EXCEPT ![t] = r] \in [LogThreads -> LogThread]
       /\ [log.level EXCEPT ![f] = Unknown] \in [Files -> Levels \cup {Unknown}]
  BY <1>5, <1>13 DEF Log
<1>16. /\ g \in Log /\ g.level = [log.level EXCEPT ![f] = Unknown] /\ g.next = log.next /\ g.head = log.head
       /\ g.aborted = log.aborted /\ g.global = log.global /\ g.thread = [log.thread EXCEPT ![t] = r]
  BY <1>5, <1>12, <1>14, <1>15 DEF Log
<1>17. g.level[f] = Unknown /\ \A a \in Files : a # f => g.level[a] = log.level[a]
  BY <1>5, <1>8, <1>16 DEF Log
<1>18. /\ \A a, b \in Files : Links(log, a, b) <=> log.next[a] = b
       /\ \A a \in Files : Linked(log, a) <=> log.next[a] # NoControl
  BY <1>1, <1>3, Unlinking
<1>19. ~At(r, {"swap", "link"}) /\ (next # f => At(r, {"wipe"}))
  <2>1. CASE next = f
    BY <1>13, <2>1 DEF At
  <2>2. CASE next # f
    BY <1>13, <2>2 DEF At
  <2> QED
    BY <2>1, <2>2
<1>20. Own(g, r)
  <2>1. FramesRight(r) /\ r.most >= 0
    BY <1>3, <1>10, <1>13 DEF FramesRight
  <2>2. log.next[next] # NoControl
    BY <1>5, <1>7, <1>8, <1>18 DEF ListRight
  <2>3. r.todo # <<>> => r.todo[1] \in Changes /\ r.at \in Files /\ g.next[r.at] # NoControl
    BY <1>8, <1>13, <1>16, <2>2 DEF Changes
  <2> QED
    BY <1>13, <2>1, <2>3, OwnChanging
<1>21. g.thread[t] = r /\ \A v \in LogThreads \ {t} : g.thread[v] = log.thread[v]
  BY <1>5, <1>16
<1>22. \A a, b \in Files : Reaches(g, a, b) <=> Reaches(log, a, b)
  BY <1>1, <1>3, <1>16, <1>19, <1>21, LinksKept
<1>23. ASSUME NEW a \in Files, a # f, Reaches(log, f, a) PROVE next # f /\ Reaches(log, next, a)
  <2>1. next # f
    <3>1. SUFFICES ASSUME next = f PROVE FALSE
      OBVIOUS
    <3>2. {f} \in SUBSET Files /\ ClosedSet(log, {f})
      BY <1>7, <1>8, <1>18, <3>1 DEF ClosedSet
    <3> QED
      BY <1>23, <3>2 DEF Reaches
  <2>2. ASSUME NEW S \in SUBSET Files, next \in S, ClosedSet(log, S) PROVE a \in S
    <3>1. S \cup {f} \in SUBSET Files /\ f \in S \cup {f}
      BY <1>8
    <3>2. ClosedSet(log, S \cup {f})
      BY <1>7, <1>8, <1>18, <2>2 DEF ClosedSet
    <3>3. a \in S \cup {f}
      BY <1>23, <3>1, <3>2 DEF Reaches
    <3> QED
      BY <1>23, <3>3
  <2> QED
    BY <2>1, <2>2 DEF Reaches
<1>24. LevelsRight(g)
  <2>1. \A v \in LogThreads : ~At(log.thread[v], {"era", "forget"})
    <3>1. ~At(log.thread[t], {"era", "forget"})
      BY <1>1, <1>3 DEF At
    <3> QED
      BY <1>3, <3>1, AtIs
  <2>2. ASSUME NEW a \in Files
        PROVE  \/ g.level[a] \in {Unknown, Setting(g, a)}
               \/ \E v \in LogThreads : At(g.thread[v], {"wipe"}) /\ Reaches(g, g.thread[v].at, a)
    <3>1. CASE a = f
      BY <1>17, <3>1
    <3>2. CASE a # f
      <4>1. g.level[a] = log.level[a] /\ Setting(g, a) = Setting(log, a)
        BY <1>16, <1>17, <3>2, SettingKept
      <4>2. \/ log.level[a] \in {Unknown, Setting(log, a)}
            \/ \E v \in LogThreads : At(log.thread[v], {"wipe"}) /\ Reaches(log, log.thread[v].at, a)
        BY <1>5, <2>1 DEF LevelsRight
      <4>3. CASE log.level[a] \in {Unknown, Setting(log, a)}
        BY <4>1, <4>3
      <4>4. CASE \E v \in LogThreads : At(log.thread[v], {"wipe"}) /\ Reaches(log, log.thread[v].at, a)
        <5>1. PICK v \in LogThreads : At(log.thread[v], {"wipe"}) /\ Reaches(log, log.thread[v].at, a)
          BY <4>4
        <5>2. v = t
          BY <1>3, <5>1, AtIs
        <5>3. Reaches(log, f, a)
          BY <1>1, <1>6, <5>1, <5>2
        <5>4. next # f /\ Reaches(log, next, a)
          BY <1>23, <3>2, <5>3
        <5> QED
          BY <1>8, <1>13, <1>19, <1>21, <1>22, <5>4
      <4> QED
        BY <4>2, <4>3, <4>4
    <3> QED
      BY <3>1, <3>2
  <2>3. \A a \in Files : g.level[a] # Unknown => g.next[a] # NoControl
    BY <1>5, <1>16, <1>17 DEF LevelsRight
  <2> QED
    BY <2>2, <2>3 DEF LevelsRight
<1>25. LogRight(g)
  BY <1>1, <1>3, <1>5, <1>13, <1>16, <1>19, <1>20, <1>24, OnlyChanger
<1> QED
  BY <1>14, <1>25

\* A change of the level starts while no thread logs, or is a race.
LEMMA ChangeKeeps ==
    ASSUME LogRight(log), NEW t \in LogThreads, NEW level \in Levels \cup {Unknown}, NEW steps \in {<<"era", "forget">>, <<"forget">>},
           ChangeLevel(t, level, steps), ~log'.raced
    PROVE  LogRight(log')
<1>1. PICK th : th = log.thread[t]
  OBVIOUS
<1>2. th \in LogThread /\ Own(log, th) /\ log \in Log /\ log.thread \in [LogThreads -> LogThread] /\ ~log.aborted
      /\ log.raced \in BOOLEAN
  BY <1>1, ThreadIs DEF LogRight, Log
<1>3. th.todo = <<>>
  BY <1>1 DEF ChangeLevel, MayCall, Busy
<1>4. steps \in Seq(LogSteps) /\ Shape(steps) /\ steps # <<>> /\ steps[1] \in {"era", "forget"}
  <2>1. CASE steps = <<"era", "forget">>
    <3>1. "era" \in LogSteps /\ "forget" \in LogSteps /\ Follows("era", "forget") /\ "forget" \in Ends
      BY DEF LogSteps, Changes, Follows, Ends
    <3>2. steps \in Seq(LogSteps) /\ Len(steps) = 2 /\ steps[1] = "era" /\ steps[2] = "forget"
      BY <2>1, <3>1
    <3>3. \A i \in 1 .. (Len(steps) - 1) : i = 1 /\ i + 1 = 2
      BY <3>2
    <3>4. \A i \in 1 .. Len(steps) : i = 1 \/ i = 2
      BY <3>2
    <3>5. \A i \in 1 .. Len(steps) : steps[i] \notin {"count", "pop"}
      BY <3>2, <3>4
    <3>6. \A i \in 1 .. (Len(steps) - 1) : Follows(steps[i], steps[i + 1])
      BY <3>1, <3>2, <3>3
    <3>7. steps[Len(steps)] \in Ends
      BY <3>1, <3>2
    <3> QED
      BY <3>2, <3>5, <3>6, <3>7 DEF Shape
  <2>2. CASE steps = <<"forget">>
    <3>1. "forget" \in LogSteps /\ "forget" \in Ends
      BY DEF LogSteps, Changes, Ends
    <3>2. steps \in Seq(LogSteps) /\ Len(steps) = 1 /\ steps[1] = "forget"
      BY <2>2, <3>1
    <3>3. steps[Len(steps)] \in Ends
      BY <3>1, <3>2
    <3>4. \A i \in 1 .. Len(steps) : steps[i] \notin {"count", "pop"}
      BY <3>2
    <3>5. \A i \in 1 .. (Len(steps) - 1) : Follows(steps[i], steps[i + 1])
      BY <3>2
    <3> QED
      BY <3>2, <3>4, <3>5, <3>3 DEF Shape
  <2> QED
    BY <2>1, <2>2
<1>5. PICK r : r = [th EXCEPT !.todo = steps]
  OBVIOUS
<1>6. r \in LogThread /\ r.todo = steps /\ r.frames = th.frames /\ r.most = th.most /\ r.depth = th.depth
  BY <1>2, <1>4, <1>5 DEF LogThread
<1>7. PICK raced : raced = (log.raced \/ OthersBusy(t))
  OBVIOUS
<1>8. log' = [log EXCEPT !.global = level, !.calls = [log.calls EXCEPT ![t] = log.calls[t] + 1], !.raced = raced,
                         !.thread = [log.thread EXCEPT ![t] = r]]
  BY <1>1, <1>5, <1>7 DEF ChangeLevel
<1>9. PICK g : g = log'
  OBVIOUS
<1>10. /\ [log.thread EXCEPT ![t] = r] \in [LogThreads -> LogThread] /\ raced \in BOOLEAN
       /\ [log.calls EXCEPT ![t] = log.calls[t] + 1] \in [LogThreads -> Nat]
  BY <1>2, <1>6, <1>7 DEF Log, OthersBusy
<1>11. /\ g \in Log /\ g.level = log.level /\ g.next = log.next /\ g.head = log.head /\ g.aborted = log.aborted
       /\ g.raced = raced /\ g.thread = [log.thread EXCEPT ![t] = r]
  BY <1>2, <1>8, <1>9, <1>10 DEF Log
<1>12. \A u \in LogThreads \ {t} : log.thread[u].todo = <<>>
  BY <1>7, <1>9, <1>11 DEF OthersBusy, Busy
<1>13. FramesRight(r) /\ r.most >= 0 /\ r.depth = 0
  BY <1>2, <1>3, <1>6 DEF Own, FramesRight
<1>14. Own(g, r)
  BY <1>4, <1>6, <1>13, OwnChanging DEF Changes
<1>15. ~At(th, {"swap", "link"}) /\ ~At(r, {"swap", "link"}) /\ At(r, {"era", "forget"})
  BY <1>3, <1>4, <1>6 DEF At
<1>16. LevelsRight(g)
  <2>1. g.thread[t] = r
    BY <1>2, <1>11
  <2> QED
    BY <1>11, <1>15, <2>1 DEF LogRight, LevelsRight
<1>17. LogRight(g)
  BY <1>1, <1>2, <1>6, <1>11, <1>12, <1>14, <1>15, <1>16, OnlyChanger
<1> QED
  BY <1>9, <1>17

-----------------------------------------------------------------------------
\* A call that starts.
LEMMA StartKeeps ==
    ASSUME LogRight(log), NEW t \in LogThreads, log.thread[t].todo = <<>>, NEW r \in LogThread, Shape(r.todo),
           FramesRight(r),
           r.most >= 0, r.depth = 0, r.todo # <<>> => r.todo[1] = "learn" /\ r.todo[2] # "assign" /\ r.file \in Files,
           log' = [log EXCEPT !.calls[t] = @ + 1, !.raced = @ \/ OthersChange(t), !.thread[t] = r], ~log'.raced
    PROVE  LogRight(log')
<1>1. log \in Log /\ log.thread \in [LogThreads -> LogThread] /\ ~log.aborted /\ log.raced \in BOOLEAN
  BY ThreadIs DEF LogRight, Log
<1>2. PICK raced : raced = (log.raced \/ OthersChange(t))
  OBVIOUS
<1>3. log' = [log EXCEPT !.calls = [log.calls EXCEPT ![t] = log.calls[t] + 1], !.raced = raced,
                         !.thread = [log.thread EXCEPT ![t] = r]]
  BY <1>2
<1>4. /\ [log.thread EXCEPT ![t] = r] \in [LogThreads -> LogThread] /\ raced \in BOOLEAN
      /\ [log.calls EXCEPT ![t] = log.calls[t] + 1] \in [LogThreads -> Nat]
  BY <1>1, <1>2 DEF Log, OthersChange
<1>5. PICK g : g = log'
  OBVIOUS
<1>6. /\ g \in Log /\ g.level = log.level /\ g.next = log.next /\ g.head = log.head /\ g.aborted = log.aborted
      /\ g.global = log.global /\ g.raced = raced /\ g.thread = [log.thread EXCEPT ![t] = r]
  BY <1>1, <1>3, <1>4, <1>5 DEF Log
<1>7. ~OthersChange(t)
  BY <1>2, <1>5, <1>6
<1>8. ASSUME NEW u \in LogThreads \ {t} PROVE ~At(log.thread[u], Changes)
  <2>1. log.thread[u].todo \in Seq(LogSteps)
    BY ThreadIs
  <2>2. \A i \in DOMAIN log.thread[u].todo : log.thread[u].todo[i] \notin Changes
    BY <1>7 DEF OthersChange, Changes
  <2>3. log.thread[u].todo # <<>> => 1 \in DOMAIN log.thread[u].todo
    BY <2>1
  <2> QED
    BY <2>2, <2>3 DEF At
<1>9. \A f \in Files : Setting(g, f) = Setting(log, f)
  BY <1>6, SettingKept
<1>10. Own(g, r)
  BY OwnPlain
<1>11. ~At(log.thread[t], {"swap", "link"} \cup Changes) /\ ~At(r, {"swap", "link"} \cup Changes)
  BY DEF At, Changes
<1>12. LogRight(g)
  BY <1>1, <1>6, <1>8, <1>9, <1>10, <1>11, OnlyThread
<1> QED
  BY <1>5, <1>12

\* What a call may rely on when it starts.
LEMMA MayStart ==
    ASSUME LogRight(log), NEW t \in LogThreads, MayCall(t), NEW th, th = log.thread[t]
    PROVE  /\ log.thread[t].todo = <<>> /\ th \in LogThread /\ th.todo = <<>>
           /\ FramesRight(th) /\ th.most >= 0 /\ th.depth = 0
<1>1. th \in LogThread /\ Own(log, th)
  BY ThreadIs
<1>2. th.todo = <<>> /\ log.thread[t].todo = <<>>
  BY DEF MayCall, Busy
<1> QED
  BY <1>1, <1>2 DEF Own

WithCall(th, f, level, todo) == [th EXCEPT !.file = f, !.level = level, !.todo = todo]

\* The thread after a call has started.
LEMMA CalledIs ==
    ASSUME NEW th \in LogThread, NEW f \in Files, NEW level \in Levels, NEW todo \in Seq(LogSteps),
           FramesRight(th), th.most >= 0, th.depth = 0
    PROVE  LET u == WithCall(th, f, level, todo) IN
           /\ u \in LogThread /\ u.todo = todo /\ u.file = f /\ u.level = level /\ u.depth = 0 /\ u.frames = th.frames
           /\ u.most >= 0 /\ FramesRight(u)
<1>1. PICK u : u = WithCall(th, f, level, todo)
  OBVIOUS
<1>2. /\ u \in LogThread /\ u.todo = todo /\ u.file = f /\ u.level = level /\ u.depth = th.depth /\ u.frames = th.frames
      /\ u.most = th.most
  BY <1>1 DEF WithCall, LogThread
<1>3. FramesRight(u)
  BY <1>2 DEF FramesRight
<1> QED
  BY <1>1, <1>2, <1>3

\* What a call has to do has the shape that the invariant asks for.
LEMMA CallsShaped ==
    /\ <<"learn", "enter">> \in Seq(LogSteps) /\ Shape(<<"learn", "enter">>)
    /\ <<"learn", "line">> \in Seq(LogSteps) /\ Shape(<<"learn", "line">>)
    /\ <<"push">> \in Seq(LogSteps) /\ Shape(<<"push">>)
    /\ <<"learn", "line", "pop", "learn", "line">> \in Seq(LogSteps) /\ Shape(<<"learn", "line", "pop", "learn", "line">>)
<1>1. {"learn", "enter", "line", "pop", "push"} \subseteq LogSteps
  BY DEF LogSteps, Learns, Uses
<1>2. {"enter", "line", "push"} \subseteq Ends
  BY DEF Ends
<1>3. Follows("learn", "enter") /\ Follows("learn", "line") /\ Follows("line", "pop") /\ Follows("pop", "learn")
  BY DEF Follows, Uses
<1>4. ASSUME NEW a \in {"enter", "line"} PROVE <<"learn", a>> \in Seq(LogSteps) /\ Shape(<<"learn", a>>)
  <2>1. PICK s : s = <<"learn", a>>
    OBVIOUS
  <2>2. s \in Seq(LogSteps) /\ Len(s) = 2 /\ s[1] = "learn" /\ s[2] = a
    BY <1>1, <2>1
  <2>3. \A i \in 1 .. (Len(s) - 1) : i = 1 /\ i + 1 = 2
    BY <2>2
  <2>4. \A i \in 1 .. (Len(s) - 1) : Follows(s[i], s[i + 1])
    BY <1>3, <2>2, <2>3
  <2>5. \A i \in 1 .. Len(s) : i = 1 \/ i = 2
    BY <2>2
  <2>6. \A i \in 1 .. Len(s) : s[i] \notin {"count", "pop"}
    BY <2>2, <2>5
  <2>7. s[Len(s)] \in Ends
    BY <1>2, <2>2
  <2> QED
    BY <2>1, <2>2, <2>4, <2>6, <2>7 DEF Shape
<1>5. <<"push">> \in Seq(LogSteps) /\ Shape(<<"push">>)
  <2>1. PICK s : s = <<"push">>
    OBVIOUS
  <2>2. s \in Seq(LogSteps) /\ Len(s) = 1 /\ s[1] = "push"
    BY <1>1, <2>1
  <2>3. \A i \in 1 .. (Len(s) - 1) : Follows(s[i], s[i + 1])
    BY <2>2
  <2>4. \A i \in 1 .. Len(s) : s[i] \notin {"count", "pop"}
    BY <2>2
  <2>5. s[Len(s)] \in Ends
    BY <1>2, <2>2
  <2> QED
    BY <2>1, <2>2, <2>3, <2>4, <2>5 DEF Shape
<1>6. <<"learn", "line", "pop", "learn", "line">> \in Seq(LogSteps) /\ Shape(<<"learn", "line", "pop", "learn", "line">>)
  <2>1. PICK s : s = <<"learn", "line", "pop", "learn", "line">>
    OBVIOUS
  <2>2. /\ s \in Seq(LogSteps) /\ Len(s) = 5 /\ s[1] = "learn" /\ s[2] = "line" /\ s[3] = "pop"
        /\ s[4] = "learn" /\ s[5] = "line"
    BY <1>1, <2>1
  <2>3. Len(s) = 5
    BY <2>2
  <2>4. \A i \in 1 .. (Len(s) - 1) : (i = 1 /\ i + 1 = 2) \/ (i = 2 /\ i + 1 = 3) \/ (i = 3 /\ i + 1 = 4) \/ (i = 4 /\ i + 1 = 5)
    BY <2>3
  <2>5. \A i \in 1 .. (Len(s) - 1) : Follows(s[i], s[i + 1])
    BY <1>3, <2>2, <2>4
  <2>6. \A i \in 1 .. Len(s) : i = 1 \/ i = 2 \/ (i = 3 /\ i + 2 = 5 /\ i + 2 <= Len(s)) \/ i = 4 \/ i = 5
    BY <2>2
  <2>7. \A i \in 1 .. Len(s) : s[i] \in {"count", "pop"} => i + 2 <= Len(s) /\ s[i + 2] = Second(s[i])
    BY <2>2, <2>6 DEF Second
  <2>8. s[Len(s)] \in Ends
    BY <1>2, <2>2
  <2> QED
    BY <2>1, <2>2, <2>5, <2>7, <2>8 DEF Shape
<1> QED
  BY <1>4, <1>5, <1>6

\* The start of sxe_log keeps the invariant.
LEMMA LogKeeps == ASSUME LogRight(log), NEW t \in LogThreads, sxe_log(t), ~log'.raced PROVE LogRight(log')
<1>1. PICK th : th = log.thread[t]
  OBVIOUS
<1>2. PICK f \in Files, level \in Levels :
          /\ MayCall(t)
          /\ log' = [log EXCEPT !.calls[t] = @ + 1, !.raced = @ \/ OthersChange(t),
                                !.thread[t] = [@ EXCEPT !.file = f, !.level = level, !.todo = <<"learn", "line">>]]
  BY DEF sxe_log
<1>3. log.thread[t].todo = <<>> /\ th \in LogThread /\ FramesRight(th) /\ th.most >= 0 /\ th.depth = 0
  BY <1>1, <1>2, MayStart
<1>4. PICK todo : todo = <<"learn", "line">>
  OBVIOUS
<1>5. todo \in Seq(LogSteps) /\ Shape(todo) /\ todo[1] = "learn" /\ todo[2] # "assign"
  BY <1>4, CallsShaped
<1>6. PICK r : r = WithCall(th, f, level, todo)
  OBVIOUS
<1>7. r \in LogThread /\ r.todo = todo /\ r.file = f /\ r.depth = 0 /\ r.most >= 0 /\ FramesRight(r)
  BY <1>3, <1>6, <1>5, CalledIs
<1>8. Shape(r.todo) /\ r.todo[1] = "learn" /\ r.todo[2] # "assign"
  BY <1>7, <1>5
<1>9. log' = [log EXCEPT !.calls[t] = @ + 1, !.raced = @ \/ OthersChange(t), !.thread[t] = r]
  BY <1>1, <1>2, <1>6, <1>4 DEF WithCall
<1> QED
  BY <1>3, <1>7, <1>8, <1>9, StartKeeps

\* The start of sxe_log_entry keeps the invariant.
LEMMA EntryKeeps == ASSUME LogRight(log), NEW t \in LogThreads, sxe_log_entry(t), ~log'.raced PROVE LogRight(log')
<1>1. PICK th : th = log.thread[t]
  OBVIOUS
<1> DEFINE Of(f, level) == [log.thread[t] EXCEPT !.file = f, !.level = level]
<1>2. PICK f \in Files, level \in Levels :
          /\ MayCall(t)
          /\ \/ Exceeds(Of(f, level))
             \/ log' = [log EXCEPT !.calls[t] = @ + 1, !.raced = @ \/ OthersChange(t),
                                   !.thread[t] = IF level <= log.level[f] THEN WithCall(log.thread[t], f, level, <<"learn", "enter">>)
                                                 ELSE Then(Pushed(WithCall(log.thread[t], f, level, <<"push">>), FALSE), <<>>)]
  BY DEF sxe_log_entry, WithCall
<1>3. log.thread[t].todo = <<>> /\ th \in LogThread /\ FramesRight(th) /\ th.most >= 0 /\ th.depth = 0
  BY <1>1, <1>2, MayStart
<1>4. ~Exceeds(Of(f, level))
  <2>1. PICK u : u = Of(f, level)
    OBVIOUS
  <2>2. u \in LogThread /\ u.frames = th.frames /\ u.most = th.most
    BY <1>1, <1>3, <2>1 DEF LogThread
  <2>3. FramesRight(u)
    BY <1>3, <2>2 DEF FramesRight
  <2> HIDE DEF Of
  <2> QED
    BY <1>3, <2>1, <2>2, <2>3, TopIs
<1> HIDE DEF Of
<1>5. CASE level <= log.level[f]
  <2>1. PICK todo : todo = <<"learn", "enter">>
    OBVIOUS
  <2>2. todo \in Seq(LogSteps) /\ Shape(todo) /\ todo[1] = "learn" /\ todo[2] # "assign"
    BY <2>1, CallsShaped
  <2>3. PICK r : r = WithCall(th, f, level, todo)
    OBVIOUS
  <2>4. r \in LogThread /\ r.todo = todo /\ r.file = f /\ r.depth = 0 /\ r.most >= 0 /\ FramesRight(r)
    BY <1>3, <2>3, <2>2, CalledIs
  <2>5. Shape(r.todo) /\ r.todo[1] = "learn" /\ r.todo[2] # "assign"
    BY <2>4, <2>2
  <2>6. log' = [log EXCEPT !.calls[t] = @ + 1, !.raced = @ \/ OthersChange(t), !.thread[t] = r]
    BY <1>1, <1>2, <1>4, <1>5, <2>3, <2>1
  <2> QED
    BY <1>3, <2>4, <2>5, <2>6, StartKeeps
<1>6. CASE ~(level <= log.level[f])
  <2>1. PICK v : v = WithCall(th, f, level, <<"push">>)
    OBVIOUS
  <2>2. v \in LogThread /\ v.todo = <<"push">> /\ v.file = f /\ v.depth = 0 /\ v.most >= 0 /\ FramesRight(v)
    BY <1>3, <2>1, CallsShaped, CalledIs
  <2>3. PICK u : u = Pushed(v, FALSE)
    OBVIOUS
  <2>4. u \in LogThread /\ u.todo = <<"push">> /\ u.depth = 0 /\ u.most >= 0 /\ FramesRight(u)
    BY <2>2, <2>3, PushedIs
  <2>5. PICK r : r = Then(u, <<>>)
    OBVIOUS
  <2>6. <<"push">> # <<>> /\ Len(<<"push">>) = 1
    OBVIOUS
  <2>7. r \in LogThread /\ r.todo = <<>> /\ Shape(r.todo) /\ r.depth = 0 /\ r.frames = u.frames /\ r.most = u.most
    BY <2>4, <2>5, <2>6, CallsShaped, ThenNone
  <2>8. FramesRight(r) /\ r.most >= 0
    BY <2>4, <2>7 DEF FramesRight
  <2>9. log' = [log EXCEPT !.calls[t] = @ + 1, !.raced = @ \/ OthersChange(t), !.thread[t] = r]
    BY <1>1, <1>2, <1>4, <1>6, <2>1, <2>3, <2>5
  <2> QED
    BY <1>3, <2>7, <2>8, <2>9, StartKeeps
<1> QED
  BY <1>5, <1>6

\* The start of sxe_log_return keeps the invariant.
LEMMA ReturnKeeps == ASSUME LogRight(log), NEW t \in LogThreads, sxe_log_return(t), ~log'.raced PROVE LogRight(log')
<1>1. PICK th : th = log.thread[t]
  OBVIOUS
<1>2. PICK frame : frame = th.frames[Len(th.frames)]
  OBVIOUS
<1>3. /\ MayCall(t) /\ th.frames # <<>>
      /\ log' = [log EXCEPT !.calls[t] = @ + 1, !.raced = @ \/ OthersChange(t),
                            !.thread[t] = IF frame.level <= log.level[frame.file]
                                          THEN WithCall(th, frame.file, frame.level, <<"learn", "line", "pop", "learn", "line">>)
                                          ELSE Popped(th)]
  BY <1>1, <1>2 DEF sxe_log_return, WithCall
<1>4. log.thread[t].todo = <<>> /\ th \in LogThread /\ th.todo = <<>> /\ FramesRight(th) /\ th.most >= 0 /\ th.depth = 0
  BY <1>1, <1>3, MayStart
<1>5. CASE frame.level <= log.level[frame.file]
  <2>1. frame.file \in Files /\ frame.level \in Levels
    <3>1. th.frames \in Seq(Frame)
      BY <1>4 DEF LogThread
    <3>2. frame \in Frame
      BY <1>2, <1>3, <3>1
    <3> QED
      BY <3>2 DEF Frame
  <2>2. PICK todo : todo = <<"learn", "line", "pop", "learn", "line">>
    OBVIOUS
  <2>3. todo \in Seq(LogSteps) /\ Shape(todo) /\ todo[1] = "learn" /\ todo[2] # "assign"
    BY <2>2, CallsShaped
  <2>4. PICK r : r = WithCall(th, frame.file, frame.level, todo)
    OBVIOUS
  <2>5. r \in LogThread /\ r.todo = todo /\ r.file = frame.file /\ r.depth = 0 /\ r.most >= 0 /\ FramesRight(r)
    BY <1>4, <2>1, <2>3, <2>4, CalledIs
  <2>6. log' = [log EXCEPT !.calls[t] = @ + 1, !.raced = @ \/ OthersChange(t), !.thread[t] = r]
    BY <1>3, <1>5, <2>2, <2>4
  <2> QED
    BY <1>4, <2>1, <2>3, <2>5, <2>6, StartKeeps
<1>6. CASE ~(frame.level <= log.level[frame.file])
  <2>1. PICK r : r = Popped(th)
    OBVIOUS
  <2>2. r \in LogThread /\ r.todo = <<>> /\ r.depth = 0 /\ r.most >= 0 /\ FramesRight(r)
    BY <1>4, <2>1, PoppedIs
  <2>3. Shape(r.todo)
    BY <2>2 DEF Shape
  <2>4. log' = [log EXCEPT !.calls[t] = @ + 1, !.raced = @ \/ OthersChange(t), !.thread[t] = r]
    BY <1>3, <1>6, <2>1
  <2> QED
    BY <1>4, <2>2, <2>3, <2>4, StartKeeps
<1> QED
  BY <1>5, <1>6

-----------------------------------------------------------------------------
\* The invariant holds of a program that has not logged.
LEMMA LogBegins == LogInit => LogInv
<1> SUFFICES ASSUME LogInit PROVE LogRight(log) /\ LogRecord(log)
  BY DEF LogInv
<1>1. Quiet \in LogThread
  <2>1. <<>> \in Seq(LogSteps) /\ <<>> \in Seq(Frame) /\ 1 \in Levels /\ 0 \in Nat /\ 0 \in Int
    BY LogAssumption DEF Levels
  <2> QED
    BY <2>1 DEF Quiet, LogThread
<1>2. log \in Log
  <2>1. log = [level |-> [f \in Files |-> Unknown], next |-> [f \in Files |-> NoControl], head |-> NoControl,
               global |-> Unknown, era |-> 0, calls |-> [t \in LogThreads |-> 0], thread |-> [t \in LogThreads |-> Quiet],
               aborted |-> FALSE, raced |-> FALSE]
    BY DEF LogInit
  <2> QED
    BY <1>1, <2>1 DEF Log
<1>3. /\ log.level = [f \in Files |-> Unknown] /\ log.next = [f \in Files |-> NoControl] /\ log.head = NoControl
      /\ log.thread = [t \in LogThreads |-> Quiet] /\ log.aborted = FALSE /\ log.raced = FALSE
  BY DEF LogInit
<1>4. \A t \in LogThreads : log.thread[t] = Quiet
  BY <1>3
<1>5. Quiet.todo = <<>> /\ Quiet.frames = <<>> /\ Quiet.most = 0 /\ Quiet.depth = 0
  BY DEF Quiet
<1>6. \A X : ~At(Quiet, X)
  BY <1>5 DEF At
<1>7. Own(log, Quiet)
  <2>1. Shape(Quiet.todo) /\ FramesRight(Quiet)
    BY <1>5 DEF Shape, FramesRight
  <2> QED
    BY <1>5, <1>6, <2>1 DEF Own
<1>8. \A a, b \in Files : ~Links(log, a, b)
  BY <1>3, <1>4, <1>6, StepsDistinct DEF Links
<1>9. ListRight(log)
  BY <1>3, <1>8, StepsDistinct DEF ListRight, Linked
<1>10. LevelsRight(log)
  BY <1>3 DEF LevelsRight
<1>11. LinkersApart(log)
  BY <1>4, <1>6 DEF LinkersApart
<1>12. LogRecord(log)
  BY <1>2 DEF Log, LogRecord
<1> QED
  BY <1>2, <1>3, <1>4, <1>7, <1>9, <1>10, <1>11, <1>12 DEF LogRight



\* What has raced stays so.
LEMMA RacedStays ==
    ASSUME LogRecord(log), LogNext
    PROVE  LogRecord(log') /\ (log.raced => log'.raced)
<1>1. PICK t \in LogThreads : \/ LogStep(t)
                              \/ sxe_log_entry(t) \/ sxe_log(t) \/ sxe_log_return(t)
                              \/ sxe_log_set_level(t) \/ sxe_log_decrease_level(t)
  BY DEF LogNext
<1> DEFINE Goal == LogRecord(log') /\ (log.raced => log'.raced)
<1>2. ASSUME NEW x, log' = [log EXCEPT !.thread = x] PROVE Goal
  BY <1>2 DEF LogRecord
<1>3. ASSUME NEW x, NEW y, log' = [log EXCEPT !.aborted = y, !.thread = x] PROVE Goal
  BY <1>3 DEF LogRecord
<1>4. ASSUME NEW x, NEW y, NEW z \in BOOLEAN, log.raced => z, log' = [log EXCEPT !.calls = y, !.raced = z, !.thread = x] PROVE Goal
  BY <1>4 DEF LogRecord
<1>5. ASSUME Abort(t) PROVE Goal
  BY <1>5, <1>3 DEF Abort
<1>6. CASE Learn(t)
  <2>1. CASE log' = [log EXCEPT !.thread[t] = Level(t)]
    BY <1>2, <2>1
  <2>2. ASSUME NEW x, NEW z \in BOOLEAN, log.raced => z, log' = [log EXCEPT !.raced = z, !.thread = x] PROVE Goal
    BY <2>2 DEF LogRecord
  <2>3. PICK z : z = (log.raced \/ \E u \in LogThreads \ {t} : log.thread[u].file = log.thread[t].file /\ Linking(u))
    OBVIOUS
  <2>4. z \in BOOLEAN /\ (log.raced => z)
    BY <2>3 DEF LogRecord
  <2>5. CASE log' = [log EXCEPT !.raced = z, !.thread[t] = Then(@, <<"swap", "link", "learn">>)]
    BY <2>2, <2>4, <2>5
  <2> QED
    BY <1>6, <2>1, <2>3, <2>5 DEF Learn
<1>7. CASE Link(t)
  BY <1>7 DEF Link, LogRecord
<1>8. CASE Find(t)
  BY <1>2, <1>8 DEF Find
<1>9. CASE StoreGlobal(t)
  BY <1>9 DEF StoreGlobal, LogRecord
<1>10. CASE Store(t)
  BY <1>10 DEF Store, LogRecord
<1>11. CASE Forget(t)
  BY <1>2, <1>11 DEF Forget
<1>12. CASE Wipe(t)
  <2>1. CASE Abort(t)
    BY <1>5, <2>1
  <2>2. ASSUME NEW x, NEW y, log' = [log EXCEPT !.level = y, !.thread = x] PROVE Goal
    BY <2>2 DEF LogRecord
  <2> QED
    BY <1>12, <2>1, <2>2 DEF Wipe
<1>13. CASE NextEra(t)
  BY <1>13 DEF NextEra, LogRecord
<1>14. CASE GetIndent(t)
  BY <1>2, <1>5, <1>14 DEF GetIndent
<1>15. CASE CountShown(t)
  BY <1>2, <1>15 DEF CountShown
<1>16. CASE Assign(t)
  BY <1>2, <1>16 DEF Assign
<1>17. CASE Enter(t)
  BY <1>2, <1>17 DEF Enter
<1>18. CASE Line(t)
  BY <1>2, <1>18 DEF Line
<1>19. CASE Pop(t)
  BY <1>2, <1>19 DEF Pop
<1>20. PICK z : z = (log.raced \/ OthersChange(t))
  OBVIOUS
<1>21. z \in BOOLEAN /\ (log.raced => z)
  BY <1>20 DEF LogRecord, OthersChange
<1>22. ASSUME NEW x, log' = [log EXCEPT !.calls[t] = @ + 1, !.raced = @ \/ OthersChange(t), !.thread[t] = x] PROVE Goal
  BY <1>4, <1>20, <1>21, <1>22
<1>23. CASE sxe_log_entry(t)
  BY <1>5, <1>22, <1>23 DEF sxe_log_entry
<1>24. CASE sxe_log(t)
  BY <1>22, <1>24 DEF sxe_log
<1>25. CASE sxe_log_return(t)
  BY <1>22, <1>25 DEF sxe_log_return
<1>26. ASSUME NEW level, NEW steps, ChangeLevel(t, level, steps) PROVE Goal
  <2>1. PICK y : y = (log.raced \/ OthersBusy(t))
    OBVIOUS
  <2>2. y \in BOOLEAN /\ (log.raced => y)
    BY <2>1 DEF LogRecord, OthersBusy
  <2>3. ASSUME NEW x, NEW w, log' = [log EXCEPT !.global = level, !.calls = w, !.raced = y, !.thread = x] PROVE Goal
    BY <2>2, <2>3 DEF LogRecord
  <2> QED
    BY <1>26, <2>1, <2>3 DEF ChangeLevel
<1>27. CASE sxe_log_set_level(t) \/ sxe_log_decrease_level(t)
  BY <1>26, <1>27 DEF sxe_log_set_level, sxe_log_decrease_level
<1>28. CASE SwapHead(t)
  BY <1>28 DEF SwapHead, LogRecord
<1> QED
  BY <1>1, <1>6, <1>7, <1>8, <1>9, <1>10, <1>11, <1>12, <1>13, <1>14, <1>15, <1>16, <1>17, <1>18, <1>19, <1>23,
     <1>24, <1>25, <1>27, <1>28
     DEF LogStep

\* Every step of every thread keeps it.
LEMMA LogStepKeeps == ASSUME LogInv, LogNext PROVE LogInv'
<1>1. LogRecord(log') /\ (log.raced => log'.raced)
  BY RacedStays DEF LogInv
<1>2. ASSUME ~log'.raced PROVE LogRight(log')
  <2>1. LogRight(log)
    BY <1>1, <1>2 DEF LogInv
  <2>2. PICK t \in LogThreads : \/ LogStep(t)
                                \/ sxe_log_entry(t) \/ sxe_log(t) \/ sxe_log_return(t)
                                \/ sxe_log_set_level(t) \/ sxe_log_decrease_level(t)
    BY DEF LogNext
  <2>3. CASE LogStep(t)
    BY <1>2, <2>1, <2>3, LearnKeeps, SwapKeeps, LinkKeeps, FindKeeps, StoreGlobalKeeps, StoreKeeps, ForgetKeeps, WipeKeeps,
       NextEraKeeps, GetIndentKeeps, CountKeeps, AssignKeeps, EnterKeeps, LineKeeps, PopKeeps DEF LogStep
  <2>4. CASE sxe_log_entry(t) \/ sxe_log(t) \/ sxe_log_return(t)
    BY <1>2, <2>1, <2>4, EntryKeeps, LogKeeps, ReturnKeeps
  <2>5. CASE sxe_log_set_level(t)
    BY <1>2, <2>1, <2>5, ChangeKeeps DEF sxe_log_set_level
  <2>6. CASE sxe_log_decrease_level(t)
    BY <1>2, <2>1, <2>6, ChangeKeeps DEF sxe_log_decrease_level
  <2> QED
    BY <2>2, <2>3, <2>4, <2>5, <2>6
<1> QED
  BY <1>1, <1>2 DEF LogInv

\* It says more than LogSound.
LEMMA LogInvSound == LogInv => LogSound
<1> SUFFICES ASSUME LogRight(log) PROVE LevelsForgotten /\ IndentsSound
  BY DEF LogInv, LogSound
<1>1. LevelsForgotten
  <2>1. SUFFICES ASSUME \A t \in LogThreads : log.thread[t].todo = <<>>, NEW f \in Files
                 PROVE  log.level[f] \in {Unknown, Current(f)}
    BY DEF LevelsForgotten, Settled, Busy
  <2>2. Current(f) = Setting(log, f)
    BY DEF Current, Setting
  <2> QED
    BY <2>1, <2>2, AtIs DEF LogRight, LevelsRight
<1>2. ASSUME NEW t \in LogThreads, NEW i \in DOMAIN log.thread[t].frames
      PROVE  log.thread[t].frames[i].indent - (IF i = 1 THEN 0 ELSE log.thread[t].frames[i - 1].indent) \in {0, 1}
  <2>1. FramesRight(log.thread[t])
    BY DEF LogRight, Own
  <2>2. log.thread[t].frames \in Seq(Frame)
    BY ThreadIs DEF LogThread
  <2>3. i \in 1 .. Len(log.thread[t].frames)
    BY <2>2
  <2> QED
    BY <2>1, <2>3 DEF FramesRight
<1> QED
  BY <1>1, <1>2 DEF IndentsSound, LogRight

\* For any threads, files and settings, and any number and depth of calls: when no
\* call is in progress no file keeps a level that sxe_log_set_level or
\* sxe_log_decrease_level made it forget, the frames of sxe_log_entry are indented
\* as their callers' or one more, and no thread aborts; unless a change raced with a
\* thread that was logging, or two threads linked the same control.
THEOREM LogAlwaysSound == LogSpec => []LogSound
<1>1. LogInit => LogInv
  BY LogBegins
<1>2. LogInv /\ [LogNext]_log => LogInv'
  <2>1. CASE LogNext
    BY <2>1, LogStepKeeps
  <2>2. ASSUME LogInv, log' = log PROVE LogInv'
    BY <2>2 DEF LogInv
  <2> QED
    BY <2>1, <2>2
<1>3. LogInv => LogSound
  BY LogInvSound
<1> QED
  BY <1>1, <1>2, <1>3, PTL DEF LogSpec
=============================================================================
