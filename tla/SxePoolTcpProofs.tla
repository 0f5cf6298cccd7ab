-------------------------- MODULE SxePoolTcpProofs --------------------------
(***************************************************************************)
(* The TCP pool keeps its nodes, SXEs, events and requests in agreement,   *)
(* for any number of connections, SXEs, requests and segments, whatever    *)
(* the application calls from inside which callback, provided that it      *)
(* finishes no initialization in a close callback.                         *)
(***************************************************************************)
EXTENDS SxePoolTcp, SequenceTheorems, TLAPS

-----------------------------------------------------------------------------
(* The inductive invariant.                                                *)

Member(list, i) == \E k \in 1 .. Len(list) : list[k] = i
Distinct(list) == \A k, l \in 1 .. Len(list) : list[k] = list[l] => k = l
In(q, n, s) == Member(q[s], n)

\* Every node is in one place of one queue.
Placed(q) == \A n \in Nodes : \E s \in States : In(q, n, s)
Once(q) == \A s, t \in States : \A k \in 1 .. Len(q[s]), l \in 1 .. Len(q[t]) : q[s][k] = q[t][l] => s = t /\ k = l
QueuesOK(q) == q \in [States -> Seq(Nodes)] /\ Placed(q) /\ Once(q)

\* The stack is what runs to its end before the application does, then the
\* ready-to-write events inside each other, then the one handler at the bottom.
Prefixes == {"none", "ramp", "ramp_dispatch", "dispatch", "ready"}
Prefix(p, k) == CASE p = "none" -> <<>>
                  [] p = "ramp" -> At("ramp", k)
                  [] p = "ramp_dispatch" -> At("ramp", k) \o At("dispatch", 0)
                  [] OTHER -> At(p, 0)

\* A refused connection's close event is followed by its close.
Bases == [at : {"none", "connected", "init", "read", "assert", "timeout", "closed", "refused", "close"}, of : Nat]
Base(b) == CASE b.at = "none" -> <<>>
             [] b.at = "refused" -> At("closed", b.of) \o At("close", b.of)
             [] OTHER -> At(b.at, b.of)

\* m ready-to-write events have not returned.
Low(m, b) == [i \in 1 .. (m + Len(Base(b))) |-> IF i <= m THEN [at |-> "app", of |-> 0] ELSE Base(b)[i - m]]
StackIs(s, p, k, m, b) == s = Prefix(p, k) \o Low(m, b)

\* What the state of a node says of its SXE, while b is the handler at the bottom.
Linked(n, s, x, f, d, b, spawn) ==
    /\ x.status \in (IF s = "CONNECTING" THEN {"connecting", "failed"} ELSE {"connected"})
    /\ x.user = IF b.at = "read" /\ b.of = n THEN THEIRS ELSE n
    /\ s # "IN_USE" => x.used = 0
    /\ s \in {"CONNECTING", "READY_TO_SEND"} => x.due = 0
    /\ s = "INITIALIZING" => x.due \in {0, 1}
    /\ s = "IN_USE" => x.used + x.due <= MaxSegments /\ x.asked = d /\ d \in Requests
    /\ s = "CONNECTING" \/ ~spawn => f < FailureMax

LinksOK(st, ns, ud, fc, sx, b, spawn) ==
    \A n \in Nodes : st[n] # "UNCONNECTED" => ns[n] \in Sxes /\ Linked(n, st[n], sx[ns[n]], fc[n], ud[n], b, spawn)

Apart(st, ns) == \A m, n \in Nodes : st[m] # "UNCONNECTED" /\ st[n] # "UNCONNECTED" /\ ns[m] = ns[n] => m = n

\* An open SXE is a node's, or is about to be closed.
Owns(st, ns, x) == \E n \in Nodes : st[n] # "UNCONNECTED" /\ ns[n] = x
Closing(b, x) == b.at \in {"refused", "close"} /\ b.of = x
OwnersOK(st, ns, sx, b) == \A x \in Sxes : sx[x].status # "free" => Owns(st, ns, x) \/ Closing(b, x)

FreeOK(sx, fr) == Distinct(fr) /\ \A x \in Sxes : Member(fr, x) <=> sx[x].status = "free"

\* What the handler at the bottom goes back to.
BaseOK(st, ns, sx, b) ==
    /\ b.at \in {"connected", "init"} => Owns(st, ns, b.of)
    /\ b.at = "read" => b.of \in Nodes /\ st[b.of] = "IN_USE" /\ (sx[ns[b.of]].used = 0 => sx[ns[b.of]].due = 0)
    /\ b.at \in {"assert", "timeout"} => b.of \in Nodes /\ st[b.of] # "UNCONNECTED"
    /\ b.at = "closed" => b.of \in Sxes /\ sx[b.of].status = "free"
    /\ b.at \in {"refused", "close"} => b.of \in Sxes /\ sx[b.of].status = "connecting" /\ ~Owns(st, ns, b.of)

\* The requests that are neither answered nor closed on: a reply that is complete
\* has been taken while its callback still runs.
Busy(st, ns, sx, b, n) == st[n] = "IN_USE" /\ ~(b.at = "read" /\ b.of = n /\ sx[ns[n]].used = 0)
PendingOK(st, ns, ud, sx, pd, b) ==
    /\ pd = {ud[n] : n \in {n \in Nodes : Busy(st, ns, sx, b, n)}}
    /\ \A m, n \in Nodes : Busy(st, ns, sx, b, m) /\ Busy(st, ns, sx, b, n) /\ ud[m] = ud[n] => m = n

\* A ready-to-write event is on its way to a connection that is ready, and while events
\* are queued no other connection is.
Serving(p) == p \in {"ramp_dispatch", "dispatch", "ready"}
ReadyOK(st, qd, p) ==
    /\ Serving(p) => \E n \in Nodes : st[n] = "READY_TO_SEND"
    /\ qd > 0 => \A m, n \in Nodes : st[m] = "READY_TO_SEND" /\ st[n] = "READY_TO_SEND" => m = n
    /\ qd > 0 /\ ~Serving(p) => \A n \in Nodes : st[n] # "READY_TO_SEND"

\* No connection is made while a close callback runs.
RampApart(p, b) == p \in {"ramp", "ramp_dispatch"} => b.at \notin {"closed", "refused"}

Live(st, ns, ud, fc, sx, fr, pd, qd, p, b, spawn) ==
    /\ LinksOK(st, ns, ud, fc, sx, b, spawn) /\ Apart(st, ns) /\ OwnersOK(st, ns, sx, b) /\ FreeOK(sx, fr)
    /\ BaseOK(st, ns, sx, b) /\ PendingOK(st, ns, ud, sx, pd, b) /\ ReadyOK(st, qd, p) /\ RampApart(p, b)

St == [n \in Nodes |-> StateOf(n)]

TypesOK ==
    /\ QueuesOK(queue)
    /\ failure_count \in [Nodes -> 0 .. FailureMax]
    /\ node_sxe \in [Nodes -> Sxes \cup {NULL}]
    /\ user_data \in [Nodes -> Requests \cup {"none"}]
    /\ kind \in [is_spawn : BOOLEAN, has_initialization : BOOLEAN]
    /\ queued \in Nat /\ free \in Seq(Sxes) /\ sxe \in [Sxes -> Sxe] /\ pending \subseteq Requests
    /\ deleted \in BOOLEAN /\ aborted = FALSE

Alive == \E p \in Prefixes, k \in Nat, m \in Nat, b \in Bases :
            /\ StackIs(stack, p, k, m, b)
            /\ Live(St, node_sxe, user_data, failure_count, sxe, free, pending, queued, p, b, kind.is_spawn)

TcpInv == /\ TypesOK
          /\ ~deleted => Alive
          /\ deleted => stack = <<>> /\ \A x \in Sxes : sxe[x].status = "free"
-----------------------------------------------------------------------------
(* Queues.                                                                 *)

\* RemoveAt closes the gap.
LEMMA RemoveOne ==
    ASSUME NEW q \in Seq(Nodes), NEW i \in 1 .. Len(q)
    PROVE  /\ Seqs!RemoveAt(q, i) \in Seq(Nodes) /\ Len(Seqs!RemoveAt(q, i)) = Len(q) - 1
           /\ \A j \in 1 .. Len(q) - 1 : Seqs!RemoveAt(q, i)[j] = q[IF j >= i THEN j + 1 ELSE j]
<1> DEFINE a == SubSeq(q, 1, i - 1)
<1> DEFINE b == SubSeq(q, i + 1, Len(q))
<1>1. a \in Seq(Nodes) /\ Len(a) = i - 1 /\ \A j \in 1 .. i - 1 : a[j] = q[j]
  OBVIOUS
<1>2. b \in Seq(Nodes) /\ Len(b) = Len(q) - i /\ \A j \in 1 .. Len(q) - i : b[j] = q[i + j]
  OBVIOUS
<1>3. Seqs!RemoveAt(q, i) = a \o b
  BY DEF Seqs!RemoveAt
<1> HIDE DEF a, b
<1>4. Len(q) \in Nat /\ i \in Nat /\ i >= 1 /\ i <= Len(q)
  OBVIOUS
<1>5. a \o b \in Seq(Nodes) /\ Len(a \o b) = Len(q) - 1
  <2>1. a \o b \in Seq(Nodes) /\ Len(a \o b) = Len(a) + Len(b)
    BY <1>1, <1>2, ConcatProperties
  <2>2. (i - 1) + (Len(q) - i) = Len(q) - 1
    BY <1>4
  <2> QED
    BY <1>1, <1>2, <2>1, <2>2
<1>6. ASSUME NEW j \in 1 .. Len(q) - 1 PROVE (a \o b)[j] = q[IF j >= i THEN j + 1 ELSE j]
  <2>1. CASE j < i
    BY <1>1, <1>2, <1>4, <2>1
  <2>2. CASE j >= i
    <3>1. j - (i - 1) \in 1 .. Len(q) - i /\ i + (j - (i - 1)) = j + 1
      BY <1>4, <2>2
    <3>2. (a \o b)[j] = b[j - Len(a)]
      BY <1>1, <1>2, <1>4, <2>2
    <3> QED
      BY <1>1, <1>2, <2>2, <3>1, <3>2
  <2>3. j \in Int /\ i \in Int
    OBVIOUS
  <2>4. j < i \/ j >= i
    BY <2>3
  <2> QED
    BY <2>1, <2>2, <2>4
<1> QED
  BY <1>3, <1>5, <1>6

\* Taking an element out of a list without duplicates leaves the others, once.
LEMMA RemovedMembers ==
    ASSUME NEW q \in Seq(Nodes), NEW p \in 1 .. Len(q), NEW r,
           Distinct(q), r = Seqs!RemoveAt(q, p)
    PROVE  r \in Seq(Nodes) /\ Distinct(r) /\ \A j : Member(r, j) <=> j # q[p] /\ Member(q, j)
<1> USE DEF Distinct, Member
<1>0. /\ r \in Seq(Nodes) /\ Len(r) = Len(q) - 1
      /\ \A j \in 1 .. Len(q) - 1 : r[j] = q[IF j >= p THEN j + 1 ELSE j]
  BY RemoveOne
<1>2. PICK n \in Nat : n = Len(q)
  OBVIOUS
<1>1. /\ r \in Seq(Nodes) /\ \A j \in 1 .. n - 1 : r[j] = q[IF j >= p THEN j + 1 ELSE j]
  BY <1>0, <1>2
<1>3. p \in 1 .. n /\ Len(r) = n - 1
  BY <1>0, <1>2
<1> HIDE DEF Nodes
<1>4. ASSUME NEW j, NEW k \in 1 .. n - 1, r[k] = j PROVE j # q[p] /\ \E l \in 1 .. n : q[l] = j
  <2>1. (IF k >= p THEN k + 1 ELSE k) \in 1 .. n /\ (IF k >= p THEN k + 1 ELSE k) # p
    BY <1>3, <1>2
  <2> QED
    BY <1>1, <1>2, <1>3, <1>4, <2>1
<1>5. ASSUME NEW j, j # q[p], NEW k \in 1 .. n, q[k] = j PROVE \E l \in 1 .. n - 1 : r[l] = j
  <2>1. k # p
    BY <1>5
  <2>2. CASE k < p
    <3>1. k \in 1 .. n - 1 /\ ~(k >= p)
      BY <1>3, <2>2
    <3> QED
      BY <1>1, <1>3, <1>5, <3>1
  <2>3. CASE k > p
    <3>1. k - 1 \in 1 .. n - 1 /\ k - 1 >= p /\ (k - 1) + 1 = k
      BY <1>3, <2>3
    <3>2. r[k - 1] = q[k]
      BY <1>1, <1>3, <3>1
    <3> QED
      BY <1>5, <3>1, <3>2
  <2>4. k \in Int /\ p \in Int
    BY <1>3
  <2> QED
    BY <2>1, <2>2, <2>3, <2>4
<1>6. ASSUME NEW k \in 1 .. n - 1, NEW l \in 1 .. n - 1, r[k] = r[l] PROVE k = l
  <2>1. /\ (IF k >= p THEN k + 1 ELSE k) \in 1 .. n
        /\ (IF l >= p THEN l + 1 ELSE l) \in 1 .. n
    BY <1>3, <1>2
  <2>2. q[IF k >= p THEN k + 1 ELSE k] = q[IF l >= p THEN l + 1 ELSE l]
    BY <1>1, <1>3, <1>6
  <2>3. (IF k >= p THEN k + 1 ELSE k) = (IF l >= p THEN l + 1 ELSE l)
    BY <1>2, <2>1, <2>2
  <2> QED
    BY <1>3, <2>3
<1>7. Len(r) \in Nat
  BY <1>2, <1>3
<1>8. \A j : (\E k \in 1 .. n - 1 : r[k] = j) <=> j # q[p] /\ \E k \in 1 .. n : q[k] = j
  BY <1>4, <1>5
<1>9. \A k, l \in 1 .. n - 1 : r[k] = r[l] => k = l
  BY <1>6
<1> QED
  BY <1>1, <1>2, <1>3, <1>7, <1>8, <1>9

\* Append adds one member, at the end.
LEMMA AppendedMembers ==
    ASSUME NEW S, NEW q \in Seq(S), NEW i \in S, NEW r,
           Distinct(q), ~Member(q, i), r = Append(q, i)
    PROVE  r \in Seq(S) /\ Distinct(r) /\ \A j : Member(r, j) <=> j = i \/ Member(q, j)
<1> USE DEF Distinct, Member
<1>1. PICK n \in Nat : n = Len(q)
  OBVIOUS
<1>2. r \in Seq(S) /\ Len(r) = n + 1 /\ r[n + 1] = i /\ \A k \in 1 .. n : r[k] = q[k]
  BY <1>1
<1>3. \A k : k \in 1 .. n + 1 <=> k = n + 1 \/ k \in 1 .. n
  BY <1>1
<1>4. Len(r) \in Nat
  BY <1>1, <1>2
<1> HIDE DEF Nodes
<1>5. ASSUME NEW k \in 1 .. n + 1, NEW l \in 1 .. n + 1, r[k] = r[l] PROVE k = l
  BY <1>1, <1>2, <1>3, <1>5
<1> QED
  BY <1>1, <1>2, <1>3, <1>4, <1>5

\* Moving a node leaves every node in one place, and no other node in another state.
LEMMA QueueMove ==
    ASSUME NEW q, QueuesOK(q), NEW i \in Nodes, NEW old \in States, NEW new \in States,
           In(q, i, old), NEW r, r = Moved(q, i, old, new)
    PROVE  /\ QueuesOK(r)
           /\ \A j \in Nodes, s \in States : In(r, j, s) <=> IF j = i THEN s = new ELSE In(q, j, s)
<1> HIDE DEF Nodes, States
<1>1. q \in [States -> Seq(Nodes)] /\ Placed(q) /\ Once(q)
  BY DEF QueuesOK
<1>2. PICK p : p = Place(q[old], i)
  OBVIOUS
<1>3. p \in 1 .. Len(q[old]) /\ q[old][p] = i
  BY <1>2 DEF Place, In, Member
<1>4. PICK rest : rest = Seqs!RemoveAt(q[old], p)
  OBVIOUS
<1>51. PICK others : others = IF new = old THEN rest ELSE q[new]
  OBVIOUS
<1>5. PICK longer : longer = Append(others, i)
  OBVIOUS
<1>6. \A s \in States : r[s] = IF s = new THEN longer ELSE IF s = old THEN rest ELSE q[s]
  BY <1>1, <1>2, <1>4, <1>5, <1>51 DEF Moved
<1>7. r = [s \in States |-> r[s]]
  BY <1>1 DEF Moved
<1>8. \A s \in States : q[s] \in Seq(Nodes) /\ Distinct(q[s])
  BY <1>1 DEF Once, Distinct
<1>9. \A j : \A s, t \in States : In(q, j, s) /\ In(q, j, t) => s = t
  BY <1>1 DEF Once, In, Member
<1>10. rest \in Seq(Nodes) /\ Distinct(rest) /\ \A j : Member(rest, j) <=> j # i /\ In(q, j, old)
  BY <1>3, <1>4, <1>8, RemovedMembers DEF In
<1>11. longer \in Seq(Nodes) /\ Distinct(longer) /\ \A j : Member(longer, j) <=> j = i \/ In(q, j, new)
  <2>1. /\ others \in Seq(Nodes) /\ Distinct(others) /\ ~Member(others, i)
        /\ \A j : j # i => (Member(others, j) <=> In(q, j, new))
    <3>1. CASE new = old
      BY <1>3, <1>10, <1>51, <3>1
    <3>2. CASE new # old
      BY <1>8, <1>9, <1>51, <3>2 DEF In
    <3> QED
      BY <3>1, <3>2
  <2>2. longer \in Seq(Nodes) /\ Distinct(longer) /\ \A j : Member(longer, j) <=> j = i \/ Member(others, j)
    BY <1>5, <2>1, AppendedMembers
  <2> QED
    BY <2>1, <2>2
<1>12. r \in [States -> Seq(Nodes)]
  BY <1>1, <1>6, <1>7, <1>10, <1>11
<1>13. \A j : \A s \in States : In(r, j, s) <=> IF j = i THEN s = new ELSE In(q, j, s)
  <2> SUFFICES ASSUME NEW s \in States, NEW j PROVE In(r, j, s) <=> IF j = i THEN s = new ELSE In(q, j, s)
    OBVIOUS
  <2>1. CASE s = new
    BY <1>6, <1>11, <2>1 DEF In
  <2>2. CASE s = old /\ s # new
    BY <1>6, <1>10, <2>2 DEF In
  <2>3. CASE s # old /\ s # new
    <3>1. In(r, j, s) <=> In(q, j, s)
      BY <1>6, <2>3 DEF In
    <3> QED
      BY <1>9, <2>3, <3>1
  <2> QED
    BY <2>1, <2>2, <2>3
<1>14. \A s \in States : Distinct(r[s])
  BY <1>6, <1>8, <1>10, <1>11
<1>15. Placed(r)
  BY <1>1, <1>13 DEF Placed
<1>16. Once(r)
  <2> SUFFICES ASSUME NEW s \in States, NEW t \in States, NEW k \in 1 .. Len(r[s]), NEW l \in 1 .. Len(r[t]),
                      r[s][k] = r[t][l]
               PROVE  s = t /\ k = l
    BY DEF Once
  <2>1. In(r, r[s][k], s) /\ In(r, r[s][k], t)
    BY DEF In, Member
  <2>2. s = t
    BY <1>9, <1>13, <2>1
  <2> QED
    BY <1>14, <2>2 DEF Distinct
<1> QED
  BY <1>12, <1>13, <1>15, <1>16 DEF QueuesOK

LEMMA HeldIn ==
    ASSUME NEW q, QueuesOK(q), NEW j, NEW s \in States
    PROVE  j \in Seqs!ToSet(q[s]) <=> In(q, j, s)
<1> HIDE DEF Nodes, States
<1>1. q[s] \in Seq(Nodes)
  BY DEF QueuesOK
<1>2. DOMAIN q[s] = 1 .. Len(q[s])
  BY <1>1
<1> QED
  BY <1>2 DEF In, Member, Seqs!ToSet

\* StateOf is the one state that a node is in.
LEMMA StateOfIn ==
    ASSUME QueuesOK(queue), NEW i \in Nodes
    PROVE  /\ StateOf(i) \in States /\ In(queue, i, StateOf(i))
           /\ \A s \in States : In(queue, i, s) => StateOf(i) = s
<1> HIDE DEF Nodes, States
<1>1. \E s \in States : i \in Seqs!ToSet(queue[s])
  BY HeldIn DEF QueuesOK, Placed
<1>2. StateOf(i) \in States /\ i \in Seqs!ToSet(queue[StateOf(i)])
  BY <1>1 DEF StateOf
<1>3. StateOf(i) \in States /\ In(queue, i, StateOf(i))
  BY <1>2, HeldIn
<1>4. \A s, t \in States : In(queue, i, s) /\ In(queue, i, t) => s = t
  BY DEF QueuesOK, Once, In, Member
<1> QED
  BY <1>3, <1>4

\* A move puts one node in its new state.
LEMMA StateMoved ==
    ASSUME QueuesOK(queue), NEW n \in Nodes, NEW new \in States, queue' = Moved(queue, n, StateOf(n), new)
    PROVE  QueuesOK(queue)' /\ St' = [St EXCEPT ![n] = new]
<1> HIDE DEF Nodes, States
<1>1. PICK old \in States : old = StateOf(n) /\ In(queue, n, old)
  BY StateOfIn
<1>2. /\ QueuesOK(queue')
      /\ \A j \in Nodes, s \in States : In(queue', j, s) <=> IF j = n THEN s = new ELSE In(queue, j, s)
  BY <1>1, QueueMove
<1>3. \A j \in Nodes, s \in States : In(queue', j, s) => StateOf(j)' = s
  <2>1. \A j \in Nodes, s, t \in States : In(queue', j, s) /\ In(queue', j, t) => s = t
    BY <1>2 DEF QueuesOK, Once, In, Member
  <2>2. \A j, s : s \in States => (j \in Seqs!ToSet(queue'[s]) <=> In(queue', j, s))
    BY <1>2, HeldIn
  <2>3. ASSUME NEW j \in Nodes, NEW s \in States, In(queue', j, s) PROVE StateOf(j)' = s
    <3>1. \E t \in States : j \in Seqs!ToSet(queue'[t])
      BY <2>2, <2>3
    <3>2. StateOf(j)' \in States /\ j \in Seqs!ToSet(queue'[StateOf(j)'])
      BY <3>1 DEF StateOf
    <3> QED
      BY <2>1, <2>2, <2>3, <3>2
  <2> QED
    BY <2>3
<1>4. \A j \in Nodes : StateOf(j) \in States /\ In(queue, j, StateOf(j))
  BY StateOfIn
<1>5. StateOf(n)' = new
  BY <1>2, <1>3
<1>6. ASSUME NEW j \in Nodes, j # n PROVE StateOf(j)' = StateOf(j)
  BY <1>2, <1>3, <1>4, <1>6
<1>7. QueuesOK(queue)'
  BY <1>2 DEF QueuesOK, Placed, Once, In, Member
<1> QED
  BY <1>5, <1>6, <1>7 DEF St

LEMMA StateStays ==
    ASSUME QueuesOK(queue), queue' = queue
    PROVE  QueuesOK(queue)' /\ St' = St
<1>1. \A n \in Nodes : StateOf(n)' = StateOf(n)
  BY DEF StateOf
<1> QED
  BY <1>1 DEF St, QueuesOK, Placed, Once, In, Member

\* The first node of a queue is in that queue's state.
LEMMA HeadState ==
    ASSUME QueuesOK(queue), NEW s \in States, queue[s] # <<>>
    PROVE  Head(queue[s]) \in Nodes /\ StateOf(Head(queue[s])) = s
<1> HIDE DEF Nodes, States
<1>1. queue[s] \in Seq(Nodes)
  BY DEF QueuesOK
<1>2. Head(queue[s]) \in Nodes /\ Len(queue[s]) \in Nat /\ Len(queue[s]) # 0 /\ Head(queue[s]) = queue[s][1]
  BY <1>1
<1>3. In(queue, Head(queue[s]), s)
  BY <1>2 DEF In, Member
<1> QED
  BY <1>2, <1>3, StateOfIn

\* A queue holds the nodes in its state.
LEMMA QueueHolds ==
    ASSUME QueuesOK(queue), NEW s \in States
    PROVE  /\ St \in [Nodes -> States]
           /\ \A n \in Nodes : n \in Seqs!ToSet(queue[s]) <=> St[n] = s
           /\ Seqs!ToSet(queue[s]) = {n \in Nodes : St[n] = s}
           /\ queue[s] = <<>> <=> \A n \in Nodes : St[n] # s
<1> HIDE DEF Nodes, States
<1>1. queue[s] \in Seq(Nodes)
  BY DEF QueuesOK
<1>2. \A n : n \in Seqs!ToSet(queue[s]) <=> In(queue, n, s)
  BY <1>1 DEF In, Member, Seqs!ToSet
<1>3. \A n \in Nodes : StateOf(n) \in States /\ St[n] = StateOf(n)
  BY StateOfIn DEF St
<1>4. \A n \in Nodes : In(queue, n, s) <=> StateOf(n) = s
  BY StateOfIn
<1>5. \A n : In(queue, n, s) => n \in Nodes
  BY <1>1 DEF In, Member
<1>6. St \in [Nodes -> States]
  BY <1>3 DEF St
<1>7. queue[s] = <<>> <=> \A n \in Nodes : St[n] # s
  <2>1. CASE queue[s] = <<>>
    <3>1. \A n : ~In(queue, n, s)
      BY <2>1 DEF In, Member
    <3> QED
      BY <1>3, <1>4, <2>1, <3>1
  <2>2. CASE queue[s] # <<>>
    BY <1>3, <2>2, HeadState
  <2> QED
    BY <2>1, <2>2
<1> QED
  BY <1>2, <1>3, <1>4, <1>5, <1>6, <1>7
-----------------------------------------------------------------------------
(* The stack.                                                              *)

NoBase == [at |-> "none", of |-> 0]
AppFrame == [at |-> "app", of |-> 0]

\* A frame on top of a stack.
LEMMA Pushed ==
    ASSUME NEW f \in Frame, NEW s \in Seq(Frame)
    PROVE  /\ <<f>> \o s \in Seq(Frame) /\ <<f>> \o s # <<>> /\ Head(<<f>> \o s) = f /\ Tail(<<f>> \o s) = s
           /\ Len(<<f>> \o s) = Len(s) + 1 /\ \A i \in 1 .. Len(s) : (<<f>> \o s)[i + 1] = s[i]
<1> HIDE DEF Frame
<1>1. PICK n \in Nat : n = Len(s)
  OBVIOUS
<1>2. PICK t : t = <<f>> \o s
  OBVIOUS
<1>3. t \in Seq(Frame) /\ Len(t) = n + 1 /\ t[1] = f /\ \A i \in 1 .. n : t[i + 1] = s[i]
  BY <1>1, <1>2
<1>4. t # <<>> /\ Head(t) = f
  BY <1>1, <1>3
<1>5. Tail(t) \in Seq(Frame) /\ Len(Tail(t)) = n /\ \A i \in 1 .. n : Tail(t)[i] = t[i + 1]
  BY <1>1, <1>3, <1>4
<1>6. Tail(t) = s
  BY <1>1, <1>3, <1>5
<1> QED
  BY <1>1, <1>2, <1>3, <1>4, <1>6

LEMMA FrameOf ==
    /\ AppFrame \in Frame
    /\ \A k \in Nat : \A a \in {"ramp", "dispatch", "ready", "connected", "init", "read", "assert", "timeout", "closed", "close"} :
          [at |-> a, of |-> k] \in Frame
  BY DEF AppFrame, Frame, Callbacks

LEMMA BaseFrames ==
    ASSUME NEW b \in Bases
    PROVE  /\ Base(b) \in Seq(Frame)
           /\ b.at = "none" => Base(b) = <<>>
           /\ b.at = "refused" => Base(b) = <<[at |-> "closed", of |-> b.of]>> \o <<[at |-> "close", of |-> b.of]>>
           /\ b.at \notin {"none", "refused"} => Base(b) = <<[at |-> b.at, of |-> b.of]>> \o <<>>
<1>1. b.of \in Nat /\ b.at \in {"none", "connected", "init", "read", "assert", "timeout", "closed", "refused", "close"}
  BY DEF Bases
<1>2. CASE b.at = "none"
  BY <1>2 DEF Base
<1>3. CASE b.at = "refused"
  <2>1. [at |-> "closed", of |-> b.of] \in Frame /\ [at |-> "close", of |-> b.of] \in Frame
    BY <1>1, FrameOf
  <2> HIDE DEF Frame
  <2>2. Base(b) = <<[at |-> "closed", of |-> b.of]>> \o <<[at |-> "close", of |-> b.of]>>
    BY <1>3 DEF Base, At
  <2> QED
    BY <1>3, <2>1, <2>2
<1>4. CASE b.at \notin {"none", "refused"}
  <2>1. [at |-> b.at, of |-> b.of] \in Frame
    BY <1>1, <1>4, FrameOf
  <2> HIDE DEF Frame
  <2>2. Base(b) = <<[at |-> b.at, of |-> b.of]>>
    BY <1>4 DEF Base, At
  <2> QED
    BY <1>4, <2>1, <2>2
<1> QED
  BY <1>2, <1>3, <1>4

LEMMA LowFrames ==
    ASSUME NEW b \in Bases, NEW m \in Nat
    PROVE  /\ Low(m, b) \in Seq(Frame) /\ Low(0, b) = Base(b)
           /\ Low(m + 1, b) = <<AppFrame>> \o Low(m, b)
<1>1. PICK base : base = Base(b) /\ base \in Seq(Frame)
  BY BaseFrames
<1>2. PICK l \in Nat : l = Len(base)
  BY <1>1
<1>3. AppFrame \in Frame
  BY FrameOf
<1> HIDE DEF Frame, AppFrame
<1>4. ASSUME NEW j \in Nat
      PROVE  /\ Low(j, b) \in Seq(Frame) /\ Len(Low(j, b)) = j + l
             /\ \A i \in 1 .. j + l : Low(j, b)[i] = IF i <= j THEN AppFrame ELSE base[i - j]
  <2>1. Low(j, b) = [i \in 1 .. (j + l) |-> IF i <= j THEN AppFrame ELSE base[i - j]]
    BY <1>1, <1>2 DEF Low, AppFrame
  <2>2. \A i \in 1 .. (j + l) : (IF i <= j THEN AppFrame ELSE base[i - j]) \in Frame
    BY <1>1, <1>2, <1>3
  <2> QED
    BY <1>2, <2>1, <2>2
<1>5. Low(0, b) = base
  <2>1. Len(Low(0, b)) = l /\ Low(0, b) \in Seq(Frame)
    BY <1>2, <1>4
  <2>2. ASSUME NEW i \in 1 .. l PROVE Low(0, b)[i] = base[i]
    <3>1. 0 \in Nat /\ 0 + l = l /\ ~(i <= 0) /\ i - 0 = i
      BY <1>2
    <3>2. \A h \in 1 .. 0 + l : Low(0, b)[h] = IF h <= 0 THEN AppFrame ELSE base[h - 0]
      BY <1>4, <3>1
    <3> QED
      BY <3>1, <3>2
  <2> QED
    BY <1>1, <1>2, <2>1, <2>2
<1>6. PICK t, low, more : t = <<AppFrame>> \o low /\ low = Low(m, b) /\ more = Low(m + 1, b)
  OBVIOUS
<1>7. low \in Seq(Frame) /\ Len(low) = m + l /\ \A i \in 1 .. m + l : low[i] = IF i <= m THEN AppFrame ELSE base[i - m]
  BY <1>4, <1>6
<1>8. t \in Seq(Frame) /\ Len(t) = m + l + 1 /\ t[1] = AppFrame /\ \A i \in 1 .. m + l : t[i + 1] = low[i]
  <2>1. t \in Seq(Frame) /\ Len(t) = Len(low) + 1 /\ Head(t) = AppFrame /\ t # <<>> /\ \A i \in 1 .. Len(low) : t[i + 1] = low[i]
    BY <1>3, <1>6, <1>7, Pushed
  <2> QED
    BY <1>2, <1>7, <2>1
<1>9. /\ more \in Seq(Frame) /\ Len(more) = m + l + 1
      /\ \A i \in 1 .. m + l + 1 : more[i] = IF i <= m + 1 THEN AppFrame ELSE base[i - (m + 1)]
  <2>1. m + 1 \in Nat /\ m + 1 + l = m + l + 1
    BY <1>2
  <2>2. /\ Low(m + 1, b) \in Seq(Frame) /\ Len(Low(m + 1, b)) = m + 1 + l
        /\ \A i \in 1 .. m + 1 + l : Low(m + 1, b)[i] = IF i <= m + 1 THEN AppFrame ELSE base[i - (m + 1)]
    BY <1>4, <2>1
  <2> QED
    BY <1>6, <2>1, <2>2
<1>10. ASSUME NEW i \in 1 .. m + l + 1 PROVE more[i] = t[i]
  <2>1. CASE i = 1
    <3>1. i <= m + 1
      BY <2>1
    <3>2. more[i] = AppFrame
      BY <1>9, <3>1
    <3> QED
      BY <1>8, <2>1, <3>2
  <2>2. CASE i # 1
    <3>1. PICK j \in 1 .. m + l : i = j + 1
      <4>1. i - 1 \in 1 .. m + l /\ i = (i - 1) + 1
        BY <1>2, <2>2
      <4> QED
        BY <4>1
    <3>2. t[i] = low[j] /\ low[j] = IF j <= m THEN AppFrame ELSE base[j - m]
      BY <1>7, <1>8, <3>1
    <3>3. (i <= m + 1 <=> j <= m) /\ i - (m + 1) = j - m
      BY <1>2, <3>1
    <3> QED
      BY <1>9, <3>2, <3>3
  <2> QED
    BY <2>1, <2>2
<1>11. more = t
  <2>1. m + l + 1 \in Nat
    BY <1>2
  <2> QED
    BY <1>8, <1>9, <1>10, <2>1
<1> QED
  BY <1>1, <1>4, <1>5, <1>6, <1>11

\* What is on top of the stack, and what is below it.
Pops(s, f, p, k, m, b) == s # <<>> /\ Head(s) = f /\ StackIs(Tail(s), p, k, m, b)

LEMMA PrefixIs ==
    ASSUME NEW k \in Nat
    PROVE  /\ Prefix("none", k) = <<>>
           /\ Prefix("ramp", k) = <<[at |-> "ramp", of |-> k]>>
           /\ Prefix("ramp_dispatch", k) = <<[at |-> "ramp", of |-> k]>> \o <<[at |-> "dispatch", of |-> 0]>>
           /\ Prefix("dispatch", k) = <<[at |-> "dispatch", of |-> 0]>>
           /\ Prefix("ready", k) = <<[at |-> "ready", of |-> 0]>>
  BY DEF Prefix, At

\* A handler that begins on the empty stack.
LEMMA StackBegins ==
    ASSUME NEW b \in Bases
    PROVE  StackIs(Base(b), "none", 0, 0, b)
<1>1. Low(0, b) = Base(b) /\ Base(b) \in Seq(Frame)
  BY BaseFrames, LowFrames
<1> HIDE DEF Frame
<1>2. <<>> \o Base(b) = Base(b)
  BY <1>1
<1> QED
  BY <1>1, <1>2, PrefixIs DEF StackIs

LEMMA StackTops ==
    ASSUME NEW s, NEW p \in Prefixes, NEW k \in Nat, NEW m \in Nat, NEW b \in Bases, StackIs(s, p, k, m, b)
    PROVE  /\ s \in Seq(Frame)
           /\ p = "ramp" => Pops(s, [at |-> "ramp", of |-> k], "none", 0, m, b)
           /\ p = "ramp_dispatch" => Pops(s, [at |-> "ramp", of |-> k], "dispatch", 0, m, b)
           /\ p \in {"dispatch", "ready"} => Pops(s, [at |-> p, of |-> 0], "none", 0, m, b)
           /\ p = "none" /\ m # 0 => Pops(s, AppFrame, "none", 0, m - 1, b)
           /\ p = "none" /\ m = 0 /\ b.at = "none" => s = <<>>
           /\ p = "none" /\ m = 0 /\ b.at = "refused" =>
                 Pops(s, [at |-> "closed", of |-> b.of], "none", 0, 0, [at |-> "close", of |-> b.of])
           /\ p = "none" /\ m = 0 /\ b.at \notin {"none", "refused"} => Pops(s, [at |-> b.at, of |-> b.of], "none", 0, 0, NoBase)
<1>0. 0 \in Nat /\ b.of \in Nat /\ b.at \in {"none", "connected", "init", "read", "assert", "timeout", "closed", "refused", "close"}
  BY DEF Bases
<1>1. PICK low : low = Low(m, b) /\ low \in Seq(Frame)
  BY LowFrames
<1>2. s = Prefix(p, k) \o low
  BY <1>1 DEF StackIs
<1>3. /\ [at |-> "ramp", of |-> k] \in Frame /\ [at |-> "dispatch", of |-> 0] \in Frame /\ [at |-> "ready", of |-> 0] \in Frame
      /\ AppFrame \in Frame
  BY <1>0, FrameOf
<1> HIDE DEF Frame, AppFrame
<1>4. <<>> \o low = low
  BY <1>1
<1>5. StackIs(low, "none", 0, m, b)
  BY <1>0, <1>1, <1>4, PrefixIs DEF StackIs
<1>6. CASE p = "ramp"
  <2>1. s = <<[at |-> "ramp", of |-> k]>> \o low
    BY <1>2, <1>6, PrefixIs
  <2>2. s \in Seq(Frame) /\ s # <<>> /\ Head(s) = [at |-> "ramp", of |-> k] /\ Tail(s) = low
    BY <1>1, <1>3, <2>1, Pushed
  <2> QED
    BY <1>5, <1>6, <2>2 DEF Pops
<1>7. CASE p = "ramp_dispatch"
  <2>1. PICK more : more = <<[at |-> "dispatch", of |-> 0]>> \o low
    OBVIOUS
  <2>2. more \in Seq(Frame)
    BY <1>1, <1>3, <2>1, Pushed
  <2>3. s = <<[at |-> "ramp", of |-> k]>> \o more
    <3>1. PICK f \in Frame, g \in Frame : f = [at |-> "ramp", of |-> k] /\ g = [at |-> "dispatch", of |-> 0]
      BY <1>3
    <3>2. s = (<<f>> \o <<g>>) \o low
      BY <1>2, <1>7, <3>1, PrefixIs
    <3>3. (<<f>> \o <<g>>) \o low = <<f>> \o (<<g>> \o low)
      <4>1. <<f>> \in Seq(Frame) /\ <<g>> \in Seq(Frame)
        OBVIOUS
      <4> QED
        BY <1>1, <4>1, ConcatAssociative
    <3> QED
      BY <2>1, <3>1, <3>2, <3>3
  <2>4. s \in Seq(Frame) /\ s # <<>> /\ Head(s) = [at |-> "ramp", of |-> k] /\ Tail(s) = more
    BY <1>3, <2>2, <2>3, Pushed
  <2>5. StackIs(more, "dispatch", 0, m, b)
    BY <1>0, <1>1, <2>1, PrefixIs DEF StackIs
  <2> QED
    BY <1>7, <2>4, <2>5 DEF Pops
<1>8. CASE p \in {"dispatch", "ready"}
  <2>1. s = <<[at |-> p, of |-> 0]>> \o low /\ [at |-> p, of |-> 0] \in Frame
    BY <1>2, <1>3, <1>8, PrefixIs
  <2>2. s \in Seq(Frame) /\ s # <<>> /\ Head(s) = [at |-> p, of |-> 0] /\ Tail(s) = low
    BY <1>1, <2>1, Pushed
  <2> QED
    BY <1>5, <1>8, <2>2 DEF Pops
<1>9. CASE p = "none"
  <2>1. s = low
    BY <1>2, <1>4, <1>9, PrefixIs
  <2>2. CASE m # 0
    <3>1. PICK j \in Nat : m = j + 1
      <4>1. m - 1 \in Nat /\ m = (m - 1) + 1
        BY <2>2
      <4> QED
        BY <4>1
    <3>2. s = <<AppFrame>> \o Low(j, b) /\ Low(j, b) \in Seq(Frame)
      BY <1>1, <2>1, <3>1, LowFrames
    <3>3. s # <<>> /\ Head(s) = AppFrame /\ Tail(s) = Low(j, b)
      BY <1>3, <3>2, Pushed
    <3>4. StackIs(Low(j, b), "none", 0, j, b)
      <4>1. <<>> \o Low(j, b) = Low(j, b)
        BY <3>2
      <4> QED
        BY <1>0, <4>1, PrefixIs DEF StackIs
    <3>5. j = m - 1
      BY <3>1
    <3> QED
      BY <1>1, <1>9, <2>1, <2>2, <3>3, <3>4, <3>5 DEF Pops
  <2>3. CASE m = 0
    <3>1. s = Base(b)
      BY <1>0, <1>1, <2>1, <2>3, LowFrames
    <3>2. CASE b.at = "none"
      BY <1>1, <1>9, <2>1, <2>3, <3>1, <3>2, BaseFrames
    <3>3. CASE b.at = "refused"
      <4>1. PICK f \in Frame, g \in Frame : f = [at |-> "closed", of |-> b.of] /\ g = [at |-> "close", of |-> b.of]
        BY <1>0, FrameOf
      <4>2. s = <<f>> \o <<g>>
        BY <3>1, <3>3, <4>1, BaseFrames
      <4>3. <<g>> \in Seq(Frame)
        OBVIOUS
      <4>4. s # <<>> /\ Head(s) = f /\ Tail(s) = <<g>>
        BY <4>2, <4>3, Pushed
      <4>5. PICK c : c = [at |-> "close", of |-> b.of]
        OBVIOUS
      <4>6. c \in Bases /\ c.at = "close" /\ c.of = b.of
        BY <1>0, <4>5 DEF Bases
      <4>7. Base(c) = <<g>> /\ Low(0, c) = Base(c)
        <5>1. Base(c) = <<[at |-> c.at, of |-> c.of]>> \o <<>>
          BY <4>6, BaseFrames
        <5>2. <<g>> \o <<>> = <<g>>
          BY <4>3
        <5> QED
          BY <1>0, <4>1, <4>6, <5>1, <5>2, LowFrames
      <4>8. StackIs(<<g>>, "none", 0, 0, c)
        BY <4>6, <4>7, StackBegins
      <4> QED
        BY <1>1, <1>9, <2>1, <2>3, <3>3, <4>1, <4>4, <4>5, <4>8 DEF Pops
    <3>4. CASE b.at \notin {"none", "refused"}
      <4>1. PICK f \in Frame : f = [at |-> b.at, of |-> b.of]
        BY <1>0, <3>4, FrameOf
      <4>7. s = <<f>> \o <<>>
        BY <3>1, <3>4, <4>1, BaseFrames
      <4>8. <<>> \in Seq(Frame)
        OBVIOUS
      <4>2. s = <<f>> \o <<>> /\ <<>> \in Seq(Frame)
        BY <4>7, <4>8
      <4>3. s # <<>> /\ Head(s) = f /\ Tail(s) = <<>>
        BY <4>2, Pushed
      <4>4. NoBase \in Bases /\ NoBase.at = "none"
        BY <1>0 DEF NoBase, Bases
      <4>5. Base(NoBase) = <<>>
        BY <4>4, BaseFrames
      <4>6. StackIs(<<>>, "none", 0, 0, NoBase)
        BY <4>4, <4>5, StackBegins
      <4> QED
        BY <1>1, <1>9, <2>1, <2>3, <3>4, <4>1, <4>3, <4>6 DEF Pops
    <3> QED
      BY <3>2, <3>3, <3>4
  <2> QED
    BY <2>2, <2>3
<1> QED
  BY <1>6, <1>7, <1>8, <1>9 DEF Prefixes

\* What is put on a stack.
LEMMA StackPushes ==
    ASSUME NEW s, NEW k \in Nat, NEW m \in Nat, NEW b \in Bases, StackIs(s, "none", k, m, b)
    PROVE  /\ StackIs(At("ready", 0) \o s, "ready", 0, m, b)
           /\ StackIs(At("dispatch", 0) \o s, "dispatch", 0, m, b)
           /\ StackIs(At("app", 0) \o s, "none", 0, m + 1, b)
           /\ \A j \in Nat : StackIs(At("ramp", j) \o s, "ramp", j, m, b)
           /\ ConnectionRamp \in Nat => StackIs(Restart \o s, "ramp_dispatch", ConnectionRamp, m, b)
<1>1. PICK low : low = Low(m, b) /\ low \in Seq(Frame)
  BY LowFrames
<1> HIDE DEF Frame
<1>2. s = low
  <2>1. s = <<>> \o low
    BY <1>1, PrefixIs DEF StackIs
  <2> QED
    BY <1>1, <2>1
<1>3. StackIs(At("app", 0) \o s, "none", 0, m + 1, b)
  <2>1. At("app", 0) \o s = Low(m + 1, b) /\ Low(m + 1, b) \in Seq(Frame)
    <3>1. m + 1 \in Nat
      OBVIOUS
    <3> QED
      BY <1>1, <1>2, <3>1, LowFrames DEF At, AppFrame
  <2>2. <<>> \o Low(m + 1, b) = Low(m + 1, b)
    BY <2>1
  <2> QED
    BY <2>1, <2>2, PrefixIs DEF StackIs
<1> QED
  BY <1>1, <1>2, <1>3, PrefixIs DEF StackIs, At, Restart

LEMMA StackRamp ==
    ASSUME NEW s, NEW k \in Nat, NEW m \in Nat, NEW b \in Bases, StackIs(s, "dispatch", k, m, b), NEW j \in Nat
    PROVE  StackIs(At("ramp", j) \o s, "ramp_dispatch", j, m, b)
<1>1. PICK low : low = Low(m, b) /\ low \in Seq(Frame)
  BY LowFrames
<1>2. PICK f \in Frame, g \in Frame : f = [at |-> "ramp", of |-> j] /\ g = [at |-> "dispatch", of |-> 0]
  BY FrameOf
<1> HIDE DEF Frame
<1>3. s = <<g>> \o low
  BY <1>1, <1>2, PrefixIs DEF StackIs
<1>4. (<<f>> \o <<g>>) \o low = <<f>> \o (<<g>> \o low)
  <2>1. <<f>> \in Seq(Frame) /\ <<g>> \in Seq(Frame)
    OBVIOUS
  <2> QED
    BY <1>1, <2>1, ConcatAssociative
<1> QED
  BY <1>1, <1>2, <1>3, <1>4, PrefixIs DEF StackIs, At
-----------------------------------------------------------------------------
(* Steps that change one node and one SXE.                                 *)

Typed(st, ns, ud, fc, sx) ==
    /\ st \in [Nodes -> States] /\ ns \in [Nodes -> Sxes \cup {NULL}] /\ ud \in [Nodes -> Requests \cup {"none"}]
    /\ fc \in [Nodes -> 0 .. FailureMax] /\ sx \in [Sxes -> Sxe]

\* f and g differ at i only.
But(S, f, g, i) == \A j \in S \ {i} : g[j] = f[j]

\* b and c are the same handler, or neither reads the reply of m.
SameReader(b, c, m) == (b.at = "read" /\ b.of = m) <=> (c.at = "read" /\ c.of = m)

LEMMA NotNodes == NULL \notin Nodes /\ THEIRS \notin Nodes /\ NULL \notin Sxes /\ Nodes \subseteq Nat /\ Sxes \subseteq Nat
  BY ConcurrencyAssumption DEF NULL, THEIRS, Nodes, Sxes

\* Node n, which alone may have the SXE x, changes with it.
OneChanges(st, ns, ud, fc, sx, b, st2, ns2, ud2, fc2, sx2, c, n, x) ==
    /\ n \in Nodes /\ x \in Sxes
    /\ But(Nodes, st, st2, n) /\ But(Nodes, ns, ns2, n) /\ But(Nodes, ud, ud2, n) /\ But(Nodes, fc, fc2, n)
    /\ But(Sxes, sx, sx2, x)
    /\ \A m \in Nodes \ {n} : st[m] # "UNCONNECTED" => ns[m] # x
    /\ st[n] # "UNCONNECTED" => ns[n] = x
    /\ st2[n] # "UNCONNECTED" => ns2[n] = x
    /\ \A m \in Nodes \ {n} : SameReader(b, c, m)

LEMMA LinksKept ==
    ASSUME NEW st, NEW ns, NEW ud, NEW fc, NEW sx, NEW b, NEW st2, NEW ns2, NEW ud2, NEW fc2, NEW sx2, NEW c, NEW n, NEW x, NEW spawn,
           OneChanges(st, ns, ud, fc, sx, b, st2, ns2, ud2, fc2, sx2, c, n, x),
           LinksOK(st, ns, ud, fc, sx, b, spawn), Apart(st, ns),
           st2[n] # "UNCONNECTED" => Linked(n, st2[n], sx2[x], fc2[n], ud2[n], c, spawn)
    PROVE  LinksOK(st2, ns2, ud2, fc2, sx2, c, spawn) /\ Apart(st2, ns2)
<1> HIDE DEF Nodes, Sxes
<1> USE DEF OneChanges
<1>1. ASSUME NEW m \in Nodes, st2[m] # "UNCONNECTED"
      PROVE  ns2[m] \in Sxes /\ Linked(m, st2[m], sx2[ns2[m]], fc2[m], ud2[m], c, spawn)
  <2>1. CASE m = n
    BY <1>1, <2>1
  <2>2. CASE m # n
    <3>1. st2[m] = st[m] /\ ns2[m] = ns[m] /\ ud2[m] = ud[m] /\ fc2[m] = fc[m]
      BY <2>2 DEF But
    <3>2. ns[m] \in Sxes /\ Linked(m, st[m], sx[ns[m]], fc[m], ud[m], b, spawn) /\ ns[m] # x
      BY <1>1, <2>2, <3>1 DEF LinksOK
    <3>3. sx2[ns[m]] = sx[ns[m]] /\ SameReader(b, c, m)
      BY <2>2, <3>2 DEF But
    <3>4. Linked(m, st[m], sx[ns[m]], fc[m], ud[m], c, spawn)
      BY <3>2, <3>3 DEF Linked, SameReader
    <3> QED
      BY <3>1, <3>2, <3>3, <3>4
  <2> QED
    BY <2>1, <2>2
<1>2. ASSUME NEW l \in Nodes, NEW m \in Nodes, st2[l] # "UNCONNECTED", st2[m] # "UNCONNECTED", ns2[l] = ns2[m] PROVE l = m
  <2>1. \A j \in Nodes \ {n} : st2[j] = st[j] /\ ns2[j] = ns[j]
    BY DEF But
  <2> QED
    BY <1>2, <2>1 DEF Apart
<1>3. LinksOK(st2, ns2, ud2, fc2, sx2, c, spawn)
  BY <1>1 DEF LinksOK
<1> QED
  BY <1>2, <1>3 DEF Apart

LEMMA OwnsKept ==
    ASSUME NEW st, NEW ns, NEW ud, NEW fc, NEW sx, NEW b, NEW st2, NEW ns2, NEW ud2, NEW fc2, NEW sx2, NEW c, NEW n, NEW x,
           OneChanges(st, ns, ud, fc, sx, b, st2, ns2, ud2, fc2, sx2, c, n, x)
    PROVE  /\ \A y \in Sxes \ {x} : Owns(st2, ns2, y) <=> Owns(st, ns, y)
           /\ Owns(st2, ns2, x) <=> st2[n] # "UNCONNECTED"
           /\ Owns(st, ns, x) <=> st[n] # "UNCONNECTED"
<1> HIDE DEF Nodes, Sxes
<1> USE DEF OneChanges
<1>1. \A j \in Nodes \ {n} : st2[j] = st[j] /\ ns2[j] = ns[j]
  BY DEF But
<1> QED
  BY <1>1 DEF Owns

LEMMA OwnersKept ==
    ASSUME NEW st, NEW ns, NEW ud, NEW fc, NEW sx, NEW b, NEW st2, NEW ns2, NEW ud2, NEW fc2, NEW sx2, NEW c, NEW n, NEW x,
           OneChanges(st, ns, ud, fc, sx, b, st2, ns2, ud2, fc2, sx2, c, n, x),
           OwnersOK(st, ns, sx, b), \A y \in Sxes \ {x} : Closing(b, y) => Closing(c, y),
           sx2[x].status = "free" \/ st2[n] # "UNCONNECTED" \/ Closing(c, x)
    PROVE  OwnersOK(st2, ns2, sx2, c)
<1> HIDE DEF Nodes, Sxes
<1>1. \A y \in Sxes \ {x} : Owns(st2, ns2, y) <=> Owns(st, ns, y)
  BY OwnsKept
<1>2. Owns(st2, ns2, x) <=> st2[n] # "UNCONNECTED"
  BY OwnsKept
<1>3. \A y \in Sxes \ {x} : sx2[y] = sx[y]
  BY DEF OneChanges, But
<1> QED
  BY <1>1, <1>2, <1>3 DEF OwnersOK

\* The handler at the bottom stays as it was.
LEMMA BaseKept ==
    ASSUME NEW st, NEW ns, NEW ud, NEW fc, NEW sx, NEW b, NEW st2, NEW ns2, NEW ud2, NEW fc2, NEW sx2, NEW n, NEW x, NEW spawn,
           OneChanges(st, ns, ud, fc, sx, b, st2, ns2, ud2, fc2, sx2, b, n, x),
           BaseOK(st, ns, sx, b), LinksOK(st, ns, ud, fc, sx, b, spawn), st2[n] # "UNCONNECTED", st[n] # "IN_USE",
           b.at \in {"closed", "refused", "close"} => b.of # x
    PROVE  BaseOK(st2, ns2, sx2, b)
<1> HIDE DEF Nodes, Sxes
<1>1. \A y \in Sxes \ {x} : Owns(st2, ns2, y) <=> Owns(st, ns, y)
  BY OwnsKept
<1>2. Owns(st2, ns2, x)
  BY OwnsKept
<1>3. \A y \in Sxes \ {x} : sx2[y] = sx[y]
  BY DEF OneChanges, But
<1>4. \A j \in Nodes \ {n} : st2[j] = st[j] /\ ns2[j] = ns[j]
  BY DEF OneChanges, But
<1>5. ASSUME b.at \in {"connected", "init"} PROVE Owns(st2, ns2, b.of)
  <2>1. Owns(st, ns, b.of)
    BY <1>5 DEF BaseOK
  <2>2. b.of \in Sxes
    BY <2>1 DEF Owns, LinksOK
  <2> QED
    BY <1>1, <1>2, <2>1, <2>2
<1>6. ASSUME b.at = "read" PROVE b.of \in Nodes /\ st2[b.of] = "IN_USE" /\ (sx2[ns2[b.of]].used = 0 => sx2[ns2[b.of]].due = 0)
  <2>1. b.of \in Nodes /\ st[b.of] = "IN_USE" /\ (sx[ns[b.of]].used = 0 => sx[ns[b.of]].due = 0)
    BY <1>6 DEF BaseOK
  <2>2. b.of # n /\ ns[b.of] # x /\ ns[b.of] \in Sxes
    BY <2>1 DEF OneChanges, LinksOK
  <2> QED
    BY <1>3, <1>4, <2>1, <2>2
<1>7. ASSUME b.at \in {"assert", "timeout"} PROVE b.of \in Nodes /\ st2[b.of] # "UNCONNECTED"
  BY <1>4, <1>7 DEF BaseOK
<1>8. ASSUME b.at = "closed" PROVE b.of \in Sxes /\ sx2[b.of].status = "free"
  BY <1>3, <1>8 DEF BaseOK
<1>9. ASSUME b.at \in {"refused", "close"} PROVE b.of \in Sxes /\ sx2[b.of].status = "connecting" /\ ~Owns(st2, ns2, b.of)
  BY <1>1, <1>3, <1>9 DEF BaseOK
<1> QED
  BY <1>5, <1>6, <1>7, <1>8, <1>9 DEF BaseOK

\* Requests: those of the other nodes stay.
LEMMA BusyKept ==
    ASSUME NEW st, NEW ns, NEW ud, NEW fc, NEW sx, NEW b, NEW st2, NEW ns2, NEW ud2, NEW fc2, NEW sx2, NEW c, NEW n, NEW x, NEW spawn,
           OneChanges(st, ns, ud, fc, sx, b, st2, ns2, ud2, fc2, sx2, c, n, x), LinksOK(st, ns, ud, fc, sx, b, spawn)
    PROVE  \A m \in Nodes \ {n} : (Busy(st2, ns2, sx2, c, m) <=> Busy(st, ns, sx, b, m)) /\ ud2[m] = ud[m]
<1> HIDE DEF Nodes, Sxes
<1> TAKE m \in Nodes \ {n}
<1>1. st2[m] = st[m] /\ ns2[m] = ns[m] /\ ud2[m] = ud[m] /\ SameReader(b, c, m)
  BY DEF OneChanges, But
<1>2. CASE st[m] = "IN_USE"
  <2>1. ns[m] \in Sxes /\ ns[m] # x
    BY <1>2 DEF LinksOK, OneChanges
  <2>2. sx2[ns[m]] = sx[ns[m]]
    BY <2>1 DEF OneChanges, But
  <2> QED
    BY <1>1, <2>2 DEF Busy, SameReader
<1>3. CASE st[m] # "IN_USE"
  BY <1>1, <1>3 DEF Busy
<1> QED
  BY <1>2, <1>3

\* Nodes B are busy with the requests of ud.
Tracked(B, ud, pd) == pd = {ud[n] : n \in B} /\ \A m, n \in B : ud[m] = ud[n] => m = n
BusyNodes(st, ns, sx, b) == {n \in Nodes : Busy(st, ns, sx, b, n)}

LEMMA PendingIs ==
    ASSUME NEW st, NEW ns, NEW ud, NEW sx, NEW pd, NEW b
    PROVE  PendingOK(st, ns, ud, sx, pd, b) <=> Tracked(BusyNodes(st, ns, sx, b), ud, pd)
  BY DEF PendingOK, Tracked, BusyNodes

LEMMA TrackedSame ==
    ASSUME NEW B, NEW ud, NEW pd, NEW ud2, Tracked(B, ud, pd), \A m \in B : ud2[m] = ud[m]
    PROVE  Tracked(B, ud2, pd)
  BY DEF Tracked

LEMMA TrackedEnds ==
    ASSUME NEW B, NEW ud, NEW pd, NEW n \in B, Tracked(B, ud, pd)
    PROVE  Tracked(B \ {n}, ud, pd \ {ud[n]})
  BY DEF Tracked

LEMMA TrackedBegins ==
    ASSUME NEW B, NEW ud, NEW pd, NEW n, NEW ud2, NEW r, n \notin B, Tracked(B, ud, pd),
           \A m \in B : ud2[m] = ud[m], ud2[n] = r, r \notin pd
    PROVE  Tracked(B \cup {n}, ud2, pd \cup {r})
  BY DEF Tracked

LEMMA PendingKept ==
    ASSUME NEW st, NEW ns, NEW ud, NEW fc, NEW sx, NEW b, NEW st2, NEW ns2, NEW ud2, NEW fc2, NEW sx2, NEW c, NEW n, NEW x,
           NEW spawn, NEW pd,
           OneChanges(st, ns, ud, fc, sx, b, st2, ns2, ud2, fc2, sx2, c, n, x), LinksOK(st, ns, ud, fc, sx, b, spawn),
           PendingOK(st, ns, ud, sx, pd, b)
    PROVE  /\ ~Busy(st, ns, sx, b, n) /\ ~Busy(st2, ns2, sx2, c, n) => PendingOK(st2, ns2, ud2, sx2, pd, c)
           /\ Busy(st, ns, sx, b, n) /\ Busy(st2, ns2, sx2, c, n) /\ ud2[n] = ud[n] => PendingOK(st2, ns2, ud2, sx2, pd, c)
           /\ Busy(st, ns, sx, b, n) /\ ~Busy(st2, ns2, sx2, c, n) => PendingOK(st2, ns2, ud2, sx2, pd \ {ud[n]}, c)
           /\ ~Busy(st, ns, sx, b, n) /\ Busy(st2, ns2, sx2, c, n) /\ ud2[n] \notin pd =>
                 PendingOK(st2, ns2, ud2, sx2, pd \cup {ud2[n]}, c)
<1> HIDE DEF Nodes, Sxes
<1>1. n \in Nodes /\ \A m \in Nodes \ {n} : (Busy(st2, ns2, sx2, c, m) <=> Busy(st, ns, sx, b, m)) /\ ud2[m] = ud[m]
  BY BusyKept DEF OneChanges
<1>2. PICK B : B = BusyNodes(st, ns, sx, b)
  OBVIOUS
<1>3. PICK B2 : B2 = BusyNodes(st2, ns2, sx2, c)
  OBVIOUS
<1>4. Tracked(B, ud, pd)
  BY <1>2, PendingIs
<1>5. n \in B <=> Busy(st, ns, sx, b, n)
  BY <1>1, <1>2 DEF BusyNodes
<1>6. n \in B2 <=> Busy(st2, ns2, sx2, c, n)
  BY <1>1, <1>3 DEF BusyNodes
<1>7. \A m : m # n => (m \in B2 <=> m \in B) /\ (m \in B => ud2[m] = ud[m])
  BY <1>1, <1>2, <1>3 DEF BusyNodes
<1>8. \A q : Tracked(B2, ud2, q) => PendingOK(st2, ns2, ud2, sx2, q, c)
  BY <1>3, PendingIs
<1>9. ASSUME n \notin B, n \notin B2 PROVE Tracked(B2, ud2, pd)
  <2>1. B2 = B /\ \A m \in B : ud2[m] = ud[m]
    BY <1>7, <1>9
  <2> QED
    BY <1>4, <2>1, TrackedSame
<1>10. ASSUME n \in B, n \in B2, ud2[n] = ud[n] PROVE Tracked(B2, ud2, pd)
  <2>1. B2 = B /\ \A m \in B : ud2[m] = ud[m]
    BY <1>7, <1>10
  <2> QED
    BY <1>4, <2>1, TrackedSame
<1>11. ASSUME n \in B, n \notin B2 PROVE Tracked(B2, ud2, pd \ {ud[n]})
  <2>1. B2 = B \ {n} /\ \A m \in B2 : ud2[m] = ud[m]
    BY <1>7, <1>11
  <2>2. Tracked(B \ {n}, ud, pd \ {ud[n]})
    BY <1>4, <1>11, TrackedEnds
  <2> QED
    BY <2>1, <2>2, TrackedSame
<1>12. ASSUME n \notin B, n \in B2, ud2[n] \notin pd PROVE Tracked(B2, ud2, pd \cup {ud2[n]})
  <2>1. B2 = B \cup {n} /\ \A m \in B : ud2[m] = ud[m]
    BY <1>7, <1>12
  <2> QED
    BY <1>4, <1>12, <2>1, TrackedBegins
<1> QED
  BY <1>5, <1>6, <1>8, <1>9, <1>10, <1>11, <1>12
-----------------------------------------------------------------------------
(* The free SXEs.                                                          *)

LEMMA FreeTaken ==
    ASSUME NEW sx, NEW fr \in Seq(Sxes), FreeOK(sx, fr), fr # <<>>
    PROVE  /\ Head(fr) \in Sxes /\ sx[Head(fr)].status = "free" /\ Tail(fr) \in Seq(Sxes)
           /\ \A sx2 : But(Sxes, sx, sx2, Head(fr)) /\ sx2[Head(fr)].status # "free" => FreeOK(sx2, Tail(fr))
<1> HIDE DEF Sxes
<1>1. PICK n \in Nat : n = Len(fr) /\ n # 0
  OBVIOUS
<1>2. PICK r : r = Tail(fr)
  OBVIOUS
<1>3. r \in Seq(Sxes) /\ Len(r) = n - 1 /\ \A i \in 1 .. n - 1 : r[i] = fr[i + 1]
  BY <1>1, <1>2
<1>4. PICK x : x = Head(fr)
  OBVIOUS
<1>5. x = fr[1] /\ 1 \in 1 .. n /\ x \in Sxes
  BY <1>1, <1>4
<1>6. \A i, j \in 1 .. n : fr[i] = fr[j] => i = j
  BY <1>1 DEF FreeOK, Distinct
<1>7. Distinct(r)
  <2> SUFFICES ASSUME NEW i \in 1 .. n - 1, NEW j \in 1 .. n - 1, r[i] = r[j] PROVE i = j
    BY <1>3 DEF Distinct
  <2>1. i + 1 \in 1 .. n /\ j + 1 \in 1 .. n
    BY <1>1
  <2>2. i + 1 = j + 1
    BY <1>3, <1>6, <2>1
  <2> QED
    BY <2>2
<1>8. ASSUME NEW y PROVE Member(r, y) <=> y # x /\ Member(fr, y)
  <2>1. ASSUME NEW i \in 1 .. n - 1, r[i] = y PROVE y # x /\ Member(fr, y)
    <3>1. i + 1 \in 1 .. n /\ i + 1 # 1
      BY <1>1
    <3>2. fr[i + 1] = y
      BY <1>3, <2>1
    <3> QED
      BY <1>1, <1>5, <1>6, <3>1, <3>2 DEF Member
  <2>2. ASSUME NEW i \in 1 .. n, fr[i] = y, y # x PROVE Member(r, y)
    <3>1. i # 1
      BY <1>5, <2>2
    <3>2. i - 1 \in 1 .. n - 1 /\ (i - 1) + 1 = i
      BY <1>1, <3>1
    <3> QED
      BY <1>3, <2>2, <3>2 DEF Member
  <2> QED
    BY <1>1, <1>3, <2>1, <2>2 DEF Member
<1>9. Member(fr, x)
  BY <1>1, <1>5 DEF Member
<1>10. ASSUME NEW sx2, But(Sxes, sx, sx2, x), sx2[x].status # "free" PROVE FreeOK(sx2, r)
  BY <1>5, <1>7, <1>8, <1>10 DEF FreeOK, But
<1> QED
  BY <1>2, <1>3, <1>4, <1>5, <1>9, <1>10 DEF FreeOK

LEMMA FreeGiven ==
    ASSUME NEW sx, NEW fr \in Seq(Sxes), FreeOK(sx, fr), NEW x \in Sxes, sx[x].status # "free",
           NEW sx2, But(Sxes, sx, sx2, x), sx2[x].status = "free"
    PROVE  Append(fr, x) \in Seq(Sxes) /\ FreeOK(sx2, Append(fr, x))
<1> HIDE DEF Sxes
<1>1. PICK r : r = Append(fr, x)
  OBVIOUS
<1>2. Distinct(fr) /\ ~Member(fr, x)
  BY DEF FreeOK
<1>3. r \in Seq(Sxes) /\ Distinct(r) /\ \A j : Member(r, j) <=> j = x \/ Member(fr, j)
  BY <1>1, <1>2, AppendedMembers
<1> QED
  BY <1>1, <1>3 DEF FreeOK, But

LEMMA FreeSame ==
    ASSUME NEW sx, NEW fr, FreeOK(sx, fr), NEW x, NEW sx2, But(Sxes, sx, sx2, x), sx2[x].status = "free" <=> sx[x].status = "free"
    PROVE  FreeOK(sx2, fr)
  BY DEF FreeOK, But

\* Whose an open SXE is.
LEMMA OwnerOf ==
    ASSUME NEW st, NEW ns, NEW ud, NEW fc, NEW sx, NEW b, NEW spawn, NEW x \in Sxes,
           LinksOK(st, ns, ud, fc, sx, b, spawn), Apart(st, ns), OwnersOK(st, ns, sx, b), sx[x].status # "free", ~Closing(b, x)
    PROVE  \E n \in Nodes : /\ st[n] # "UNCONNECTED" /\ ns[n] = x /\ Linked(n, st[n], sx[x], fc[n], ud[n], b, spawn)
                            /\ \A m \in Nodes \ {n} : st[m] # "UNCONNECTED" => ns[m] # x
<1> HIDE DEF Nodes, Sxes
<1>1. PICK n \in Nodes : st[n] # "UNCONNECTED" /\ ns[n] = x
  BY DEF OwnersOK, Owns
<1> QED
  BY <1>1 DEF LinksOK, Apart

\* Another handler at the bottom, neither of which has anything to do with an SXE.
Plain == {"none", "connected", "init", "assert", "timeout"}

LEMMA LiveRebased ==
    ASSUME NEW st, NEW ns, NEW ud, NEW fc, NEW sx, NEW fr, NEW pd, NEW qd, NEW p, NEW b, NEW spawn, NEW p2, NEW c,
           Live(st, ns, ud, fc, sx, fr, pd, qd, p, b, spawn), b.at \in Plain, c.at \in Plain,
           BaseOK(st, ns, sx, c), ReadyOK(st, qd, p2)
    PROVE  Live(st, ns, ud, fc, sx, fr, pd, qd, p2, c, spawn)
<1> HIDE DEF Nodes, Sxes
<1>1. b.at \notin {"read", "closed", "refused", "close"} /\ c.at \notin {"read", "closed", "refused", "close"}
  BY DEF Plain
<1>2. LinksOK(st, ns, ud, fc, sx, c, spawn)
  BY <1>1 DEF Live, LinksOK, Linked
<1>3. OwnersOK(st, ns, sx, c)
  BY <1>1 DEF Live, OwnersOK, Closing
<1>4. \A n : Busy(st, ns, sx, c, n) <=> Busy(st, ns, sx, b, n)
  BY <1>1 DEF Busy
<1>5. PendingOK(st, ns, ud, sx, pd, c)
  BY <1>4 DEF Live, PendingOK
<1> QED
  BY <1>1, <1>2, <1>3, <1>5 DEF Live, RampApart

\* The application or the ramp goes on with the same nodes.
LEMMA LiveServes ==
    ASSUME NEW st, NEW ns, NEW ud, NEW fc, NEW sx, NEW fr, NEW pd, NEW qd, NEW p, NEW b, NEW spawn, NEW p2, NEW qd2,
           Live(st, ns, ud, fc, sx, fr, pd, qd, p, b, spawn), ReadyOK(st, qd2, p2), RampApart(p2, b)
    PROVE  Live(st, ns, ud, fc, sx, fr, pd, qd2, p2, b, spawn)
  BY DEF Live

\* connect_ramp gives a node an SXE.
LEMMA LiveConnects ==
    ASSUME NEW st, NEW ns, NEW ud, NEW fc, NEW sx, NEW fr \in Seq(Sxes), NEW pd, NEW qd, NEW p, NEW b, NEW spawn,
           Live(st, ns, ud, fc, sx, fr, pd, qd, p, b, spawn), b.at \notin {"closed", "refused"}, fr # <<>>,
           NEW n \in Nodes, st[n] = "UNCONNECTED", fc[n] < FailureMax,
           NEW st2, st2[n] = "CONNECTING", But(Nodes, st, st2, n),
           NEW ns2, ns2[n] = Head(fr), But(Nodes, ns, ns2, n),
           NEW sx2, But(Sxes, sx, sx2, Head(fr)), sx2[Head(fr)].status \in {"connecting", "failed"}, sx2[Head(fr)].user = n,
           sx2[Head(fr)].used = 0, sx2[Head(fr)].due = 0
    PROVE  Live(st2, ns2, ud, fc, sx2, Tail(fr), pd, qd, p, b, spawn)
<1> HIDE DEF Nodes, Sxes
<1>1. PICK x : x = Head(fr)
  OBVIOUS
<1>2. x \in Sxes /\ sx[x].status = "free" /\ FreeOK(sx2, Tail(fr))
  BY <1>1, FreeTaken DEF Live
<1>3. \A m \in Nodes : st[m] # "UNCONNECTED" => ns[m] # x
  BY <1>2 DEF Live, LinksOK, Linked
<1>4. OneChanges(st, ns, ud, fc, sx, b, st2, ns2, ud, fc, sx2, b, n, x)
  BY <1>1, <1>2, <1>3 DEF OneChanges, But, SameReader
<1>5. ~(b.at = "read" /\ b.of = n)
  BY DEF Live, BaseOK
<1>6. Linked(n, st2[n], sx2[x], fc[n], ud[n], b, spawn)
  BY <1>1, <1>5 DEF Linked
<1>7. LinksOK(st2, ns2, ud, fc, sx2, b, spawn) /\ Apart(st2, ns2)
  BY <1>4, <1>6, LinksKept DEF Live
<1>8. OwnersOK(st2, ns2, sx2, b)
  BY <1>4, OwnersKept DEF Live
<1>9. BaseOK(st2, ns2, sx2, b)
  <2>1. b.at \in {"closed", "refused", "close"} => b.of # x
    BY <1>2 DEF Live, BaseOK
  <2> QED
    BY <1>4, <2>1, BaseKept DEF Live
<1>10. PendingOK(st2, ns2, ud, sx2, pd, b)
  <2>1. ~Busy(st, ns, sx, b, n) /\ ~Busy(st2, ns2, sx2, b, n)
    BY DEF Busy
  <2>2. LinksOK(st, ns, ud, fc, sx, b, spawn) /\ PendingOK(st, ns, ud, sx, pd, b)
    BY DEF Live
  <2>3. ~Busy(st, ns, sx, b, n) /\ ~Busy(st2, ns2, sx2, b, n) => PendingOK(st2, ns2, ud, sx2, pd, b)
    BY ONLY <1>4, <2>2, PendingKept
  <2> QED
    BY <2>1, <2>3
<1>11. ReadyOK(st2, qd, p)
  <2>1. \A m \in Nodes : st2[m] = "READY_TO_SEND" <=> st[m] = "READY_TO_SEND"
    BY DEF But
  <2> QED
    BY <2>1 DEF Live, ReadyOK
<1> QED
  BY <1>2, <1>7, <1>8, <1>9, <1>10, <1>11 DEF Live

\* A request is written on a ready connection.
LEMMA LiveWrites ==
    ASSUME NEW st, NEW ns, NEW ud, NEW fc, NEW sx, NEW fr, NEW pd, NEW qd, NEW p, NEW b, NEW spawn,
           Live(st, ns, ud, fc, sx, fr, pd, qd, p, b, spawn), p = "ready" \/ qd = 0, qd \in Nat,
           NEW n \in Nodes, st[n] = "READY_TO_SEND", NEW r \in Requests, r \notin pd, NEW due \in 0 .. MaxSegments, NEW x, x = ns[n],
           NEW st2, st2[n] = "IN_USE", But(Nodes, st, st2, n),
           NEW ud2, ud2[n] = r, But(Nodes, ud, ud2, n),
           NEW sx2, But(Sxes, sx, sx2, x), sx2[x].status = sx[x].status, sx2[x].user = sx[x].user,
           sx2[x].used = sx[x].used, sx2[x].due = due, sx2[x].asked = r
    PROVE  Live(st2, ns, ud2, fc, sx2, fr, pd \cup {r}, qd, "none", b, spawn)
<1>0. due \in Nat /\ due <= MaxSegments /\ 0 + due = due
  BY LimitsAssumption
<1> HIDE DEF Nodes, Sxes
<1>1. /\ LinksOK(st, ns, ud, fc, sx, b, spawn) /\ Apart(st, ns) /\ OwnersOK(st, ns, sx, b) /\ FreeOK(sx, fr)
      /\ BaseOK(st, ns, sx, b) /\ PendingOK(st, ns, ud, sx, pd, b) /\ ReadyOK(st, qd, p)
  BY DEF Live
<1>2. x \in Sxes /\ Linked(n, "READY_TO_SEND", sx[x], fc[n], ud[n], b, spawn)
  BY <1>1 DEF LinksOK
<1>3. \A m \in Nodes \ {n} : st[m] # "UNCONNECTED" => ns[m] # x
  BY <1>1 DEF Apart
<1>4. OneChanges(st, ns, ud, fc, sx, b, st2, ns, ud2, fc, sx2, b, n, x)
  BY <1>2, <1>3 DEF OneChanges, But, SameReader
<1>5. ~(b.at = "read" /\ b.of = n)
  BY <1>1 DEF BaseOK
<1>6. sx[x].status = "connected" /\ sx[x].user = n /\ sx[x].used = 0 /\ (~spawn => fc[n] < FailureMax)
  BY <1>2, <1>5 DEF Linked
<1>7. LinksOK(st2, ns, ud2, fc, sx2, b, spawn) /\ Apart(st2, ns)
  <2>1. Linked(n, st2[n], sx2[x], fc[n], ud2[n], b, spawn)
    BY <1>0, <1>5, <1>6 DEF Linked
  <2> QED
    BY <1>1, <1>4, <2>1, LinksKept
<1>8. OwnersOK(st2, ns, sx2, b)
  BY <1>1, <1>4, OwnersKept
<1>9. BaseOK(st2, ns, sx2, b)
  <2>1. Owns(st, ns, x)
    BY DEF Owns
  <2>2. b.at \in {"closed", "refused", "close"} => b.of # x
    BY <1>1, <1>6, <2>1 DEF BaseOK
  <2> QED
    BY <1>1, <1>4, <2>2, BaseKept
<1>10. PendingOK(st2, ns, ud2, sx2, pd \cup {r}, b)
  <2>1. ~Busy(st, ns, sx, b, n) /\ Busy(st2, ns, sx2, b, n)
    BY <1>5 DEF Busy
  <2> QED
    BY <1>1, <1>4, <2>1, PendingKept
<1>11. ReadyOK(st2, qd, "none")
  <2>1. \A m \in Nodes : st2[m] = "READY_TO_SEND" => m # n /\ st[m] = "READY_TO_SEND"
    BY DEF But
  <2>2. qd > 0 => \A m \in Nodes : st2[m] # "READY_TO_SEND"
    BY <1>1, <2>1 DEF ReadyOK
  <2> QED
    BY <2>2 DEF ReadyOK, Serving
<1>12. FreeOK(sx2, fr)
  BY <1>1, FreeSame
<1> QED
  BY <1>7, <1>8, <1>9, <1>10, <1>11, <1>12 DEF Live, RampApart

\* A node becomes connected, initialized or ready; b is the handler at the bottom then.
LEMMA LiveAdvances ==
    ASSUME NEW st, NEW ns, NEW ud, NEW fc, NEW sx, NEW fr, NEW pd, NEW qd, NEW b, NEW spawn, NEW p,
           Live(st, ns, ud, fc, sx, fr, pd, qd, "none", b, spawn), qd \in Nat,
           NEW n \in Nodes, NEW old, st[n] = old, NEW x, x = ns[n], NEW new,
           \/ old = "CONNECTING" /\ new = "INITIALIZING" /\ p = "none"
           \/ old \in {"CONNECTING", "INITIALIZING"} /\ new = "READY_TO_SEND" /\ p = "ramp_dispatch",
           b.at \notin {"closed", "refused"},
           NEW st2, st2[n] = new, But(Nodes, st, st2, n),
           NEW fc2, But(Nodes, fc, fc2, n), fc2[n] = fc[n] \/ spawn,
           NEW sx2, But(Sxes, sx, sx2, x), sx2[x].status = "connected", sx2[x].user = sx[x].user, sx2[x].used = 0,
           sx2[x].due = (IF new = "INITIALIZING" THEN 1 ELSE 0)
    PROVE  Live(st2, ns, ud, fc2, sx2, fr, pd, qd, p, b, spawn)
<1> HIDE DEF Nodes, Sxes
<1>1. /\ LinksOK(st, ns, ud, fc, sx, b, spawn) /\ Apart(st, ns) /\ OwnersOK(st, ns, sx, b) /\ FreeOK(sx, fr)
      /\ BaseOK(st, ns, sx, b) /\ PendingOK(st, ns, ud, sx, pd, b) /\ ReadyOK(st, qd, "none")
  BY DEF Live
<1>2. x \in Sxes /\ Linked(n, old, sx[x], fc[n], ud[n], b, spawn)
  BY <1>1 DEF LinksOK
<1>3. \A m \in Nodes \ {n} : st[m] # "UNCONNECTED" => ns[m] # x
  BY <1>1 DEF Apart
<1>4. OneChanges(st, ns, ud, fc, sx, b, st2, ns, ud, fc2, sx2, b, n, x)
  BY <1>2, <1>3 DEF OneChanges, But, SameReader
<1>5. ~(b.at = "read" /\ b.of = n)
  BY <1>1 DEF BaseOK
<1>6. sx[x].status # "free" /\ sx[x].user = n /\ (~spawn => fc[n] < FailureMax)
  BY <1>2, <1>5 DEF Linked
<1>7. LinksOK(st2, ns, ud, fc2, sx2, b, spawn) /\ Apart(st2, ns)
  <2>1. Linked(n, st2[n], sx2[x], fc2[n], ud[n], b, spawn)
    BY <1>5, <1>6 DEF Linked
  <2> QED
    BY <1>1, <1>4, <2>1, LinksKept
<1>8. OwnersOK(st2, ns, sx2, b)
  BY <1>1, <1>4, OwnersKept
<1>9. BaseOK(st2, ns, sx2, b)
  <2>1. Owns(st, ns, x)
    BY DEF Owns
  <2>2. b.at \in {"closed", "refused", "close"} => b.of # x
    BY <1>1, <1>6, <2>1 DEF BaseOK
  <2> QED
    BY <1>1, <1>4, <2>2, BaseKept
<1>10. PendingOK(st2, ns, ud, sx2, pd, b)
  <2>1. ~Busy(st, ns, sx, b, n) /\ ~Busy(st2, ns, sx2, b, n)
    BY DEF Busy
  <2> QED
    BY <1>1, <1>4, <2>1, PendingKept
<1>11. ReadyOK(st2, qd, p)
  <2>1. \A m \in Nodes : st2[m] = "READY_TO_SEND" => m = n \/ st[m] = "READY_TO_SEND"
    BY DEF But
  <2>2. qd > 0 => \A m \in Nodes : st[m] # "READY_TO_SEND"
    BY <1>1 DEF ReadyOK, Serving
  <2> QED
    BY <2>1, <2>2 DEF ReadyOK, Serving
<1>12. FreeOK(sx2, fr)
  BY <1>1, <1>6, FreeSame
<1> QED
  BY <1>7, <1>8, <1>9, <1>10, <1>11, <1>12 DEF Live, RampApart

\* A greeting arrives.
LEMMA LiveGreets ==
    ASSUME NEW st, NEW ns, NEW ud, NEW fc, NEW sx, NEW fr, NEW pd, NEW qd, NEW b, NEW spawn, NEW c,
           Live(st, ns, ud, fc, sx, fr, pd, qd, "none", b, spawn), b.at = "none",
           NEW n \in Nodes, st[n] = "INITIALIZING", NEW x, x = ns[n], c.at = "init", c.of = x,
           NEW sx2, But(Sxes, sx, sx2, x), sx2[x].status = sx[x].status, sx2[x].user = sx[x].user, sx2[x].used = 0, sx2[x].due = 0
    PROVE  Live(st, ns, ud, fc, sx2, fr, pd, qd, "none", c, spawn)
<1> HIDE DEF Nodes, Sxes
<1>1. /\ LinksOK(st, ns, ud, fc, sx, b, spawn) /\ Apart(st, ns) /\ OwnersOK(st, ns, sx, b) /\ FreeOK(sx, fr)
      /\ BaseOK(st, ns, sx, b) /\ PendingOK(st, ns, ud, sx, pd, b) /\ ReadyOK(st, qd, "none")
  BY DEF Live
<1>2. x \in Sxes /\ Linked(n, "INITIALIZING", sx[x], fc[n], ud[n], b, spawn)
  BY <1>1 DEF LinksOK
<1>3. \A m \in Nodes \ {n} : st[m] # "UNCONNECTED" => ns[m] # x
  BY <1>1 DEF Apart
<1>4. OneChanges(st, ns, ud, fc, sx, b, st, ns, ud, fc, sx2, c, n, x)
  BY <1>2, <1>3 DEF OneChanges, But, SameReader
<1>5. LinksOK(st, ns, ud, fc, sx2, c, spawn)
  <2>1. Linked(n, st[n], sx2[x], fc[n], ud[n], c, spawn)
    BY <1>2 DEF Linked
  <2> QED
    BY <1>1, <1>4, <2>1, LinksKept
<1>6. OwnersOK(st, ns, sx2, c)
  <2>1. \A y \in Sxes \ {x} : Closing(b, y) => Closing(c, y)
    BY DEF Closing
  <2> QED
    BY <1>1, <1>4, <2>1, OwnersKept
<1>7. BaseOK(st, ns, sx2, c)
  <2>1. Owns(st, ns, x)
    BY DEF Owns
  <2> QED
    BY <2>1 DEF BaseOK
<1>8. PendingOK(st, ns, ud, sx2, pd, c)
  <2>1. ~Busy(st, ns, sx, b, n) /\ ~Busy(st, ns, sx2, c, n)
    BY DEF Busy
  <2> QED
    BY <1>1, <1>4, <2>1, PendingKept
<1>9. FreeOK(sx2, fr)
  BY <1>1, FreeSame
<1> QED
  BY <1>1, <1>5, <1>6, <1>7, <1>8, <1>9 DEF Live, RampApart

\* A segment of a reply arrives, and with the last one the request is answered.
LEMMA LiveReads ==
    ASSUME NEW st, NEW ns, NEW ud, NEW fc, NEW sx, NEW fr, NEW pd, NEW qd, NEW b, NEW spawn, NEW c,
           Live(st, ns, ud, fc, sx, fr, pd, qd, "none", b, spawn), b.at = "none",
           NEW n \in Nodes, st[n] = "IN_USE", NEW x, x = ns[n], c.at = "read", c.of = n,
           NEW fc2, But(Nodes, fc, fc2, n), fc2[n] = 0,
           sx[x].due \in Nat, sx[x].used \in Nat, sx[x].due > 0,
           NEW sx2, But(Sxes, sx, sx2, x), sx2[x].status = sx[x].status, sx2[x].user = THEIRS, sx2[x].asked = sx[x].asked,
           sx2[x].due = sx[x].due - 1, sx2[x].used = IF sx[x].due - 1 = 0 THEN 0 ELSE sx[x].used + 1,
           NEW pd2, pd2 = IF sx[x].due - 1 = 0 THEN pd \ {ud[n]} ELSE pd
    PROVE  Live(st, ns, ud, fc2, sx2, fr, pd2, qd, "none", c, spawn)
<1> HIDE DEF Nodes, Sxes
<1>1. /\ LinksOK(st, ns, ud, fc, sx, b, spawn) /\ Apart(st, ns) /\ OwnersOK(st, ns, sx, b) /\ FreeOK(sx, fr)
      /\ BaseOK(st, ns, sx, b) /\ PendingOK(st, ns, ud, sx, pd, b) /\ ReadyOK(st, qd, "none")
  BY DEF Live
<1>2. x \in Sxes /\ Linked(n, "IN_USE", sx[x], fc[n], ud[n], b, spawn)
  BY <1>1 DEF LinksOK
<1>3. \A m \in Nodes \ {n} : st[m] # "UNCONNECTED" => ns[m] # x
  BY <1>1 DEF Apart
<1>4. OneChanges(st, ns, ud, fc, sx, b, st, ns, ud, fc2, sx2, c, n, x)
  BY <1>2, <1>3 DEF OneChanges, But, SameReader
<1>5. LinksOK(st, ns, ud, fc2, sx2, c, spawn)
  <2>1. MaxSegments \in Nat /\ 0 < FailureMax
    BY LimitsAssumption
  <2>2. sx[x].status = "connected" /\ sx[x].asked = ud[n] /\ ud[n] \in Requests /\ sx[x].used + sx[x].due <= MaxSegments
    BY <1>2 DEF Linked
  <2>3. sx2[x].used + sx2[x].due <= MaxSegments
    <3>1. PICK d \in Nat, u \in Nat : d = sx[x].due /\ u = sx[x].used
      OBVIOUS
    <3>2. d > 0 /\ u + d <= MaxSegments
      BY <2>2, <3>1
    <3>3. sx2[x].due = d - 1 /\ sx2[x].used = IF d - 1 = 0 THEN 0 ELSE u + 1
      BY <3>1
    <3> QED
      BY <2>1, <3>2, <3>3
  <2>4. Linked(n, st[n], sx2[x], fc2[n], ud[n], c, spawn)
    BY <2>1, <2>2, <2>3 DEF Linked
  <2> QED
    BY <1>1, <1>4, <2>4, LinksKept
<1>6. OwnersOK(st, ns, sx2, c)
  <2>1. \A y \in Sxes \ {x} : Closing(b, y) => Closing(c, y)
    BY DEF Closing
  <2> QED
    BY <1>1, <1>4, <2>1, OwnersKept
<1>7. (sx2[x].used = 0 <=> sx[x].due - 1 = 0) /\ (sx2[x].used = 0 => sx2[x].due = 0)
  OBVIOUS
<1>8. BaseOK(st, ns, sx2, c)
  BY <1>7 DEF BaseOK
<1>9. PendingOK(st, ns, ud, sx2, pd2, c)
  <2>1. Busy(st, ns, sx, b, n) /\ (Busy(st, ns, sx2, c, n) <=> sx[x].due - 1 # 0)
    BY <1>7 DEF Busy
  <2> QED
    BY <1>1, <1>4, <2>1, PendingKept
<1>10. FreeOK(sx2, fr)
  BY <1>1, FreeSame
<1> QED
  BY <1>1, <1>4, <1>5, <1>6, <1>8, <1>9, <1>10 DEF Live, RampApart

\* The read callback returns: there is more to come, or the connection is ready again.
LEMMA LiveReadReturns ==
    ASSUME NEW st, NEW ns, NEW ud, NEW fc, NEW sx, NEW fr, NEW pd, NEW qd, NEW b, NEW spawn, NEW c, NEW p,
           Live(st, ns, ud, fc, sx, fr, pd, qd, "none", b, spawn), b.at = "read", qd \in Nat,
           NEW n, n = b.of, NEW x, x = ns[n],
           NEW st2, But(Nodes, st, st2, n),
           NEW sx2, But(Sxes, sx, sx2, x), sx2[x].status = sx[x].status, sx2[x].user = n, sx2[x].asked = sx[x].asked,
           sx2[x].due = sx[x].due, sx2[x].used = sx[x].used,
           \/ sx[x].used # 0 /\ st2[n] = st[n] /\ p = "none" /\ c.at = "none"
           \/ sx[x].used = 0 /\ st2[n] = "READY_TO_SEND" /\ p = "dispatch" /\ c.at = "assert" /\ c.of = n
    PROVE  Live(st2, ns, ud, fc, sx2, fr, pd, qd, p, c, spawn)
<1> HIDE DEF Nodes, Sxes
<1>1. /\ LinksOK(st, ns, ud, fc, sx, b, spawn) /\ Apart(st, ns) /\ OwnersOK(st, ns, sx, b) /\ FreeOK(sx, fr)
      /\ BaseOK(st, ns, sx, b) /\ PendingOK(st, ns, ud, sx, pd, b) /\ ReadyOK(st, qd, "none")
  BY DEF Live
<1>2. n \in Nodes /\ st[n] = "IN_USE" /\ (sx[x].used = 0 => sx[x].due = 0)
  BY <1>1 DEF BaseOK
<1>3. x \in Sxes /\ Linked(n, "IN_USE", sx[x], fc[n], ud[n], b, spawn)
  BY <1>1, <1>2 DEF LinksOK
<1>4. \A m \in Nodes \ {n} : st[m] # "UNCONNECTED" => ns[m] # x
  BY <1>1, <1>2 DEF Apart
<1>5. OneChanges(st, ns, ud, fc, sx, b, st2, ns, ud, fc, sx2, c, n, x)
  BY <1>2, <1>3, <1>4 DEF OneChanges, But, SameReader
<1>6. LinksOK(st2, ns, ud, fc, sx2, c, spawn) /\ Apart(st2, ns)
  <2>1. Linked(n, st2[n], sx2[x], fc[n], ud[n], c, spawn)
    BY <1>2, <1>3 DEF Linked
  <2> QED
    BY <1>1, <1>5, <2>1, LinksKept
<1>7. OwnersOK(st2, ns, sx2, c)
  <2>1. (\A y \in Sxes \ {x} : Closing(b, y) => Closing(c, y)) /\ st2[n] # "UNCONNECTED"
    BY <1>2 DEF Closing
  <2> QED
    BY <1>1, <1>5, <2>1, OwnersKept
<1>8. BaseOK(st2, ns, sx2, c)
  BY <1>2 DEF BaseOK
<1>9. PendingOK(st2, ns, ud, sx2, pd, c)
  <2>1. Busy(st2, ns, sx2, c, n) <=> Busy(st, ns, sx, b, n)
    BY <1>2 DEF Busy
  <2> QED
    BY <1>1, <1>5, <2>1, PendingKept
<1>10. ReadyOK(st2, qd, p)
  <2>1. \A m \in Nodes : m # n => st2[m] = st[m]
    BY DEF But
  <2>2. qd > 0 => \A m \in Nodes : st[m] # "READY_TO_SEND"
    BY <1>1 DEF ReadyOK, Serving
  <2>3. p = "dispatch" => \E m \in Nodes : st2[m] = "READY_TO_SEND"
    BY <1>2
  <2>4. p = "none" => st2[n] # "READY_TO_SEND"
    BY <1>2
  <2> QED
    BY <2>1, <2>2, <2>3, <2>4 DEF ReadyOK, Serving
<1>11. FreeOK(sx2, fr)
  BY <1>1, FreeSame
<1> QED
  BY <1>6, <1>7, <1>8, <1>9, <1>10, <1>11 DEF Live, RampApart

\* A connection is refused: its node has gone, and its SXE is to be closed.
LEMMA LiveRefuses ==
    ASSUME NEW st, NEW ns, NEW ud, NEW fc, NEW sx, NEW fr, NEW pd, NEW qd, NEW b, NEW spawn, NEW c,
           Live(st, ns, ud, fc, sx, fr, pd, qd, "none", b, spawn), b.at = "none",
           NEW n \in Nodes, st[n] = "CONNECTING", NEW x, x = ns[n], c.at = "refused", c.of = x, sx[x].status = "connecting",
           NEW st2, But(Nodes, st, st2, n), st2[n] = "UNCONNECTED",
           NEW fc2, But(Nodes, fc, fc2, n),
           NEW sx2, But(Sxes, sx, sx2, x), sx2[x].status = sx[x].status
    PROVE  Live(st2, ns, ud, fc2, sx2, fr, pd, qd, "none", c, spawn)
<1> HIDE DEF Nodes, Sxes
<1>1. /\ LinksOK(st, ns, ud, fc, sx, b, spawn) /\ Apart(st, ns) /\ OwnersOK(st, ns, sx, b) /\ FreeOK(sx, fr)
      /\ BaseOK(st, ns, sx, b) /\ PendingOK(st, ns, ud, sx, pd, b) /\ ReadyOK(st, qd, "none")
  BY DEF Live
<1>2. x \in Sxes
  BY <1>1 DEF LinksOK
<1>3. \A m \in Nodes \ {n} : st[m] # "UNCONNECTED" => ns[m] # x
  BY <1>1 DEF Apart
<1>4. OneChanges(st, ns, ud, fc, sx, b, st2, ns, ud, fc2, sx2, c, n, x)
  BY <1>2, <1>3 DEF OneChanges, But, SameReader
<1>5. LinksOK(st2, ns, ud, fc2, sx2, c, spawn) /\ Apart(st2, ns)
  BY <1>1, <1>4, LinksKept
<1>6. OwnersOK(st2, ns, sx2, c)
  <2>1. (\A y \in Sxes \ {x} : Closing(b, y) => Closing(c, y)) /\ Closing(c, x)
    BY DEF Closing
  <2> QED
    BY <1>1, <1>4, <2>1, OwnersKept
<1>7. BaseOK(st2, ns, sx2, c)
  <2>1. ~Owns(st2, ns, x)
    BY <1>4, OwnsKept
  <2> QED
    BY <1>2, <2>1 DEF BaseOK
<1>8. PendingOK(st2, ns, ud, sx2, pd, c)
  <2>1. ~Busy(st, ns, sx, b, n) /\ ~Busy(st2, ns, sx2, c, n)
    BY DEF Busy
  <2> QED
    BY <1>1, <1>4, <2>1, PendingKept
<1>9. ReadyOK(st2, qd, "none")
  <2>1. \A m \in Nodes : st2[m] = "READY_TO_SEND" <=> st[m] = "READY_TO_SEND"
    BY DEF But
  <2> QED
    BY <1>1, <2>1 DEF ReadyOK
<1>10. FreeOK(sx2, fr)
  BY <1>1, FreeSame
<1> QED
  BY <1>5, <1>6, <1>7, <1>8, <1>9, <1>10 DEF Live, RampApart

\* A connection is closed: its node has gone with its request, and its SXE is free.
Dropped(state, request, pd) == IF state = "IN_USE" THEN pd \ {request} ELSE pd

LEMMA LiveCloses ==
    ASSUME NEW st, NEW ns, NEW ud, NEW fc, NEW sx, NEW fr \in Seq(Sxes), NEW pd, NEW qd, NEW b, NEW spawn, NEW c,
           Live(st, ns, ud, fc, sx, fr, pd, qd, "none", b, spawn), b.at \in {"none", "timeout"}, qd \in Nat,
           NEW n \in Nodes, st[n] # "UNCONNECTED", NEW x, x = ns[n], c.at = "closed", c.of = x,
           NEW st2, But(Nodes, st, st2, n), st2[n] = "UNCONNECTED",
           NEW fc2, But(Nodes, fc, fc2, n),
           NEW sx2, But(Sxes, sx, sx2, x), sx2[x].status = "free",
           NEW pd2, pd2 = Dropped(st[n], ud[n], pd),
           NEW fr2, fr2 = Append(fr, x)
    PROVE  Live(st2, ns, ud, fc2, sx2, fr2, pd2, qd, "none", c, spawn)
<1> HIDE DEF Nodes, Sxes
<1>1. /\ LinksOK(st, ns, ud, fc, sx, b, spawn) /\ Apart(st, ns) /\ OwnersOK(st, ns, sx, b) /\ FreeOK(sx, fr)
      /\ BaseOK(st, ns, sx, b) /\ PendingOK(st, ns, ud, sx, pd, b) /\ ReadyOK(st, qd, "none")
  BY DEF Live
<1>2. x \in Sxes /\ sx[x].status # "free"
  BY <1>1 DEF LinksOK, Linked
<1>3. \A m \in Nodes \ {n} : st[m] # "UNCONNECTED" => ns[m] # x
  BY <1>1 DEF Apart
<1>4. OneChanges(st, ns, ud, fc, sx, b, st2, ns, ud, fc2, sx2, c, n, x)
  BY <1>2, <1>3 DEF OneChanges, But, SameReader
<1>5. LinksOK(st2, ns, ud, fc2, sx2, c, spawn) /\ Apart(st2, ns)
  BY <1>1, <1>4, LinksKept
<1>6. OwnersOK(st2, ns, sx2, c)
  <2>1. \A y \in Sxes \ {x} : Closing(b, y) => Closing(c, y)
    BY DEF Closing
  <2> QED
    BY <1>1, <1>4, <2>1, OwnersKept
<1>7. BaseOK(st2, ns, sx2, c)
  BY <1>2 DEF BaseOK
<1>8. PendingOK(st2, ns, ud, sx2, pd2, c)
  <2>1. (Busy(st, ns, sx, b, n) <=> st[n] = "IN_USE") /\ ~Busy(st2, ns, sx2, c, n)
    BY DEF Busy
  <2>2. CASE st[n] = "IN_USE"
    BY <1>1, <1>4, <2>1, <2>2, PendingKept DEF Dropped
  <2>3. CASE st[n] # "IN_USE"
    BY <1>1, <1>4, <2>1, <2>3, PendingKept DEF Dropped
  <2> QED
    BY <2>2, <2>3
<1>9. ReadyOK(st2, qd, "none")
  <2>1. \A m \in Nodes : st2[m] = "READY_TO_SEND" => st[m] = "READY_TO_SEND"
    BY DEF But
  <2> QED
    BY <1>1, <2>1 DEF ReadyOK, Serving
<1>10. FreeOK(sx2, fr2)
  BY <1>1, <1>2, FreeGiven
<1> QED
  BY <1>5, <1>6, <1>7, <1>8, <1>9, <1>10 DEF Live, RampApart

\* The close event of x returns: x is no node's.
LEMMA LiveCloseReturns ==
    ASSUME NEW st, NEW ns, NEW ud, NEW fc, NEW sx, NEW fr \in Seq(Sxes), NEW pd, NEW qd, NEW b, NEW spawn, NEW c, NEW p, NEW fr2,
           Live(st, ns, ud, fc, sx, fr, pd, qd, "none", b, spawn), NEW x, x = b.of,
           NEW sx2, But(Sxes, sx, sx2, x),
           \/ b.at = "closed" /\ sx2[x].status = sx[x].status /\ fr2 = fr /\ c.at = "none" /\ p = "ramp"
           \/ b.at = "refused" /\ sx2[x].status = sx[x].status /\ fr2 = fr /\ c.at = "close" /\ c.of = x /\ p = "ramp"
           \/ b.at = "close" /\ sx2[x].status = "free" /\ fr2 = Append(fr, x) /\ c.at = "none" /\ p = "none"
    PROVE  Live(st, ns, ud, fc, sx2, fr2, pd, qd, p, c, spawn)
<1> HIDE DEF Nodes, Sxes
<1>1. /\ LinksOK(st, ns, ud, fc, sx, b, spawn) /\ Apart(st, ns) /\ OwnersOK(st, ns, sx, b) /\ FreeOK(sx, fr)
      /\ BaseOK(st, ns, sx, b) /\ PendingOK(st, ns, ud, sx, pd, b) /\ ReadyOK(st, qd, "none")
  BY DEF Live
<1>2. /\ x \in Sxes /\ (b.at = "closed" => sx[x].status = "free")
      /\ b.at \in {"refused", "close"} => sx[x].status = "connecting" /\ ~Owns(st, ns, x)
  BY <1>1 DEF BaseOK
<1>3. b.at # "read" /\ c.at # "read"
  OBVIOUS
<1>4. \A m \in Nodes : st[m] # "UNCONNECTED" => ns[m] # x
  BY <1>1, <1>2 DEF LinksOK, Linked, Owns
<1>5. \A y \in Sxes : y # x => sx2[y] = sx[y]
  BY DEF But
<1>6. \A m \in Nodes : st[m] # "UNCONNECTED" => ns[m] \in Sxes /\ sx2[ns[m]] = sx[ns[m]]
  BY <1>1, <1>4, <1>5 DEF LinksOK
<1>7. LinksOK(st, ns, ud, fc, sx2, c, spawn)
  BY <1>1, <1>3, <1>6 DEF LinksOK, Linked
<1>8. OwnersOK(st, ns, sx2, c)
  BY <1>1, <1>2, <1>5 DEF OwnersOK, Closing
<1>9. BaseOK(st, ns, sx2, c)
  BY <1>2 DEF BaseOK
<1>10. PendingOK(st, ns, ud, sx2, pd, c)
  <2>1. \A m \in Nodes : Busy(st, ns, sx2, c, m) <=> Busy(st, ns, sx, b, m)
    BY <1>3 DEF Busy
  <2>2. BusyNodes(st, ns, sx2, c) = BusyNodes(st, ns, sx, b)
    BY <2>1 DEF BusyNodes
  <2> QED
    BY <1>1, <2>2, PendingIs
<1>11. ReadyOK(st, qd, p)
  BY <1>1 DEF ReadyOK, Serving
<1>12. FreeOK(sx2, fr2)
  <2>1. CASE b.at = "close"
    <3>1. sx[x].status # "free" /\ sx2[x].status = "free" /\ fr2 = Append(fr, x)
      BY <1>2, <2>1
    <3> QED
      BY <1>1, <1>2, <3>1, FreeGiven
  <2>2. CASE b.at # "close"
    BY <1>1, <2>2, FreeSame
  <2> QED
    BY <2>1, <2>2
<1> QED
  BY <1>1, <1>7, <1>8, <1>9, <1>10, <1>11, <1>12 DEF Live, RampApart
-----------------------------------------------------------------------------
(* What the top of the stack says of the rest of it.                       *)

Bottoms == {"connected", "init", "read", "assert", "timeout", "closed", "close"}

LEMMA StackSays ==
    ASSUME NEW p \in Prefixes, NEW k \in Nat, NEW m \in Nat, NEW b \in Bases, StackIs(stack, p, k, m, b)
    PROVE  /\ stack \in Seq(Frame)
           /\ stack = <<>> => p = "none" /\ m = 0 /\ b.at = "none"
           /\ App => p = "none"
           /\ Doing("ramp") => Of = k /\ \/ p = "ramp" /\ StackIs(Rest, "none", 0, m, b)
                                         \/ p = "ramp_dispatch" /\ StackIs(Rest, "dispatch", 0, m, b)
           /\ \A a \in {"dispatch", "ready"} : Doing(a) => p = a /\ StackIs(Rest, "none", 0, m, b)
           /\ Doing("app") => p = "none" /\ m # 0 /\ StackIs(Rest, "none", 0, m - 1, b)
           /\ \A a \in Bottoms : Doing(a) =>
                 /\ p = "none" /\ m = 0 /\ Of = b.of
                 /\ \/ b.at = a /\ StackIs(Rest, "none", 0, 0, NoBase)
                    \/ a = "closed" /\ b.at = "refused" /\ StackIs(Rest, "none", 0, 0, [at |-> "close", of |-> b.of])
<1>0. b.at \in {"none", "refused"} \cup Bottoms
  BY DEF Bases, Bottoms
<1>1. stack \in Seq(Frame)
  BY StackTops
<1>2. stack # <<>> => Rest = Tail(stack)
  BY DEF Rest
<1>3. CASE p = "ramp"
  <2>1. Pops(stack, [at |-> "ramp", of |-> k], "none", 0, m, b)
    BY <1>3, StackTops
  <2>2. stack # <<>> /\ Head(stack) = [at |-> "ramp", of |-> k] /\ StackIs(Rest, "none", 0, m, b)
    BY <1>2, <2>1 DEF Pops
  <2>3. Head(stack).at = "ramp" /\ Of = k
    BY <2>2 DEF Of
  <2>4. \A a : Doing(a) => a = "ramp"
    BY <2>3 DEF Doing
  <2>5. ~App
    BY <1>3, <2>2, <2>3 DEF App, Callbacks
  <2> QED
    BY <1>1, <1>3, <2>2, <2>3, <2>4, <2>5 DEF Bottoms
<1>4. CASE p = "ramp_dispatch"
  <2>1. Pops(stack, [at |-> "ramp", of |-> k], "dispatch", 0, m, b)
    BY <1>4, StackTops
  <2>2. stack # <<>> /\ Head(stack) = [at |-> "ramp", of |-> k] /\ StackIs(Rest, "dispatch", 0, m, b)
    BY <1>2, <2>1 DEF Pops
  <2>3. Head(stack).at = "ramp" /\ Of = k
    BY <2>2 DEF Of
  <2>4. \A a : Doing(a) => a = "ramp"
    BY <2>3 DEF Doing
  <2>5. ~App
    BY <1>4, <2>2, <2>3 DEF App, Callbacks
  <2> QED
    BY <1>1, <1>4, <2>2, <2>3, <2>4, <2>5 DEF Bottoms
<1>5. CASE p \in {"dispatch", "ready"}
  <2>1. Pops(stack, [at |-> p, of |-> 0], "none", 0, m, b)
    BY <1>5, StackTops
  <2>2. stack # <<>> /\ Head(stack) = [at |-> p, of |-> 0] /\ StackIs(Rest, "none", 0, m, b)
    BY <1>2, <2>1 DEF Pops
  <2>3. Head(stack).at = p /\ Of = 0
    BY <2>2 DEF Of
  <2>4. \A a : Doing(a) => a = p
    BY <2>3 DEF Doing
  <2>5. ~App
    BY <1>5, <2>2, <2>3 DEF App, Callbacks
  <2> QED
    BY <1>1, <1>5, <2>2, <2>3, <2>4, <2>5 DEF Bottoms
<1>6. CASE p = "none" /\ m # 0
  <2>1. Pops(stack, [at |-> "app", of |-> 0], "none", 0, m - 1, b)
    BY <1>6, StackTops DEF AppFrame
  <2>2. stack # <<>> /\ Head(stack) = [at |-> "app", of |-> 0] /\ StackIs(Rest, "none", 0, m - 1, b)
    BY <1>2, <2>1 DEF Pops
  <2>3. Head(stack).at = "app" /\ Of = 0
    BY <2>2 DEF Of
  <2>4. \A a : Doing(a) => a = "app"
    BY <2>3 DEF Doing
  <2> QED
    BY <1>1, <1>6, <2>2, <2>3, <2>4 DEF Bottoms
<1>7. CASE p = "none" /\ m = 0 /\ b.at = "none"
  <2>1. stack = <<>>
    BY <1>7, StackTops
  <2> QED
    BY <1>1, <1>7, <2>1 DEF App, Doing
<1>8. CASE p = "none" /\ m = 0 /\ b.at = "refused"
  <2>1. Pops(stack, [at |-> "closed", of |-> b.of], "none", 0, 0, [at |-> "close", of |-> b.of])
    BY <1>8, StackTops
  <2>2. stack # <<>> /\ Head(stack) = [at |-> "closed", of |-> b.of] /\ StackIs(Rest, "none", 0, 0, [at |-> "close", of |-> b.of])
    BY <1>2, <2>1 DEF Pops
  <2>3. Head(stack).at = "closed" /\ Of = b.of
    BY <2>2 DEF Of
  <2>4. \A a : Doing(a) => a = "closed"
    BY <2>3 DEF Doing
  <2> QED
    BY <1>1, <1>8, <2>2, <2>3, <2>4 DEF Bottoms
<1>9. CASE p = "none" /\ m = 0 /\ b.at \in Bottoms
  <2>1. b.at \notin {"none", "refused"} /\ b.at \notin {"ramp", "dispatch", "ready", "app"}
    BY <1>9 DEF Bottoms
  <2>2. Pops(stack, [at |-> b.at, of |-> b.of], "none", 0, 0, NoBase)
    BY <1>9, <2>1, StackTops
  <2>3. stack # <<>> /\ Head(stack) = [at |-> b.at, of |-> b.of] /\ StackIs(Rest, "none", 0, 0, NoBase)
    BY <1>2, <2>2 DEF Pops
  <2>4. Head(stack).at = b.at /\ Of = b.of
    BY <2>3 DEF Of
  <2>5. \A a : Doing(a) => a = b.at
    BY <2>4 DEF Doing
  <2> QED
    BY <1>1, <1>9, <2>1, <2>3, <2>4, <2>5
<1> QED
  BY <1>0, <1>3, <1>4, <1>5, <1>6, <1>7, <1>8, <1>9 DEF Prefixes

\* A close callback that has not returned is on the stack.
LEMMA StackShowsClose ==
    ASSUME NEW k \in Nat, NEW m \in Nat, NEW b \in Bases, StackIs(stack, "none", k, m, b), ~InClose
    PROVE  b.at \notin {"closed", "refused"}
<1> SUFFICES ASSUME b.at \in {"closed", "refused"} PROVE FALSE
  OBVIOUS
<1>1. PICK low : low = Low(m, b) /\ low \in Seq(Frame)
  BY LowFrames
<1>2. stack = low
  <2>1. stack = <<>> \o low
    BY <1>1, PrefixIs DEF StackIs
  <2> QED
    BY <1>1, <2>1
<1>3. PICK base : base = Base(b) /\ base \in Seq(Frame)
  BY BaseFrames
<1>4. base[1].at = "closed" /\ Len(base) \in Nat /\ Len(base) >= 1
  <2>1. PICK f \in Frame : f = [at |-> "closed", of |-> b.of]
    BY FrameOf DEF Bases
  <2>2. \E t \in Seq(Frame) : base = <<f>> \o t
    <3>1. CASE b.at = "closed"
      <4>1. base = <<f>> \o <<>>
        BY <1>3, <2>1, <3>1, BaseFrames
      <4>2. <<>> \in Seq(Frame)
        OBVIOUS
      <4> QED
        BY <4>1, <4>2
    <3>2. CASE b.at = "refused"
      <4>1. PICK g \in Frame : g = [at |-> "close", of |-> b.of]
        BY FrameOf DEF Bases
      <4>2. base = <<f>> \o <<g>>
        BY <1>3, <2>1, <3>2, <4>1, BaseFrames
      <4>3. <<g>> \in Seq(Frame)
        OBVIOUS
      <4> QED
        BY <4>2, <4>3
    <3> QED
      BY <3>1, <3>2
  <2>3. PICK t \in Seq(Frame) : base = <<f>> \o t
    BY <2>2
  <2> HIDE DEF Frame
  <2>4. base # <<>> /\ Head(base) = f /\ Len(base) = Len(t) + 1 /\ Len(t) \in Nat
    BY <2>3, Pushed
  <2> QED
    BY <1>3, <2>1, <2>4
<1>5. m + 1 \in 1 .. m + Len(base) /\ ~(m + 1 <= m) /\ (m + 1) - m = 1
  BY <1>4
<1>6. low = [i \in 1 .. (m + Len(base)) |-> IF i <= m THEN [at |-> "app", of |-> 0] ELSE base[i - m]]
  BY <1>1, <1>3 DEF Low
<1>7. m + 1 \in DOMAIN low /\ low[m + 1] = base[1]
  BY <1>5, <1>6
<1> QED
  BY <1>2, <1>4, <1>7 DEF InClose
-----------------------------------------------------------------------------
(* The steps.                                                              *)

LiveNow(p, b) == Live(St, node_sxe, user_data, failure_count, sxe, free, pending, queued, p, b, kind.is_spawn)

Holds(p, k, m, b) == /\ p \in Prefixes /\ k \in Nat /\ m \in Nat /\ b \in Bases
                     /\ StackIs(stack, p, k, m, b) /\ LiveNow(p, b)

LEMMA Begins ==
    ASSUME TcpInv, Running
    PROVE  TypesOK /\ deleted = FALSE /\ \E p, k, m, b : Holds(p, k, m, b)
  BY DEF TcpInv, TypesOK, Running, Alive, Holds, LiveNow

LEMMA Resumes ==
    ASSUME TypesOK', deleted' = FALSE, NEW p \in Prefixes, NEW k \in Nat, NEW m \in Nat, NEW b \in Bases,
           StackIs(stack', p, k, m, b), LiveNow(p, b)'
    PROVE  TcpInv'
<1>1. Alive'
  BY DEF Alive, LiveNow
<1> QED
  BY <1>1 DEF TcpInv

LEMMA NoBaseIs == NoBase \in Bases /\ NoBase.at = "none" /\ Base(NoBase) = <<>>
<1>1. NoBase \in Bases /\ NoBase.at = "none"
  BY DEF NoBase, Bases
<1> QED
  BY <1>1, BaseFrames

\* Nothing but the stack and the events that are queued changes.
Still == /\ QueuesOK(queue)' /\ St' = St
         /\ UNCHANGED <<failure_count, node_sxe, user_data, kind, free, sxe, pending, deleted, aborted>>

LEMMA SameResumes ==
    ASSUME NEW p, NEW k, NEW m, NEW b, TypesOK, deleted = FALSE, Holds(p, k, m, b), Still, queued' \in Nat,
           NEW p2 \in Prefixes, NEW k2 \in Nat, NEW m2 \in Nat,
           StackIs(stack', p2, k2, m2, b), ReadyOK(St, queued', p2), RampApart(p2, b)
    PROVE  TcpInv'
<1>1. TypesOK' /\ deleted' = FALSE
  BY DEF TypesOK, Still
<1>2. Live(St, node_sxe, user_data, failure_count, sxe, free, pending, queued', p2, b, kind.is_spawn)
  BY LiveServes DEF Holds, LiveNow
<1>3. LiveNow(p2, b)'
  BY <1>2 DEF LiveNow, Still
<1> QED
  BY <1>1, <1>3, Resumes DEF Holds

\* Nor does more than the handler at the bottom.
LEMMA RebasedResumes ==
    ASSUME NEW p, NEW k, NEW m, NEW b, TypesOK, deleted = FALSE, Holds(p, k, m, b), Still, queued' = queued,
           NEW p2 \in Prefixes, NEW k2 \in Nat, NEW m2 \in Nat, NEW c \in Bases,
           b.at \in Plain, c.at \in Plain, BaseOK(St, node_sxe, sxe, c),
           StackIs(stack', p2, k2, m2, c), ReadyOK(St, queued, p2)
    PROVE  TcpInv'
<1>1. TypesOK' /\ deleted' = FALSE
  BY DEF TypesOK, Still
<1>2. Live(St, node_sxe, user_data, failure_count, sxe, free, pending, queued, p2, c, kind.is_spawn)
  BY LiveRebased DEF Holds, LiveNow
<1>3. LiveNow(p2, c)'
  BY <1>2 DEF LiveNow, Still
<1> QED
  BY <1>1, <1>3, Resumes

LEMMA RampEndsKeeps == ASSUME TcpInv, RampEnds PROVE TcpInv'
<1>1. Doing("ramp") /\ Running /\ stack' = Rest /\ queue' = queue /\ queued' = queued
  BY DEF RampEnds, Doing, pool
<1>2. TypesOK /\ deleted = FALSE
  BY <1>1, Begins
<1>3. PICK p, k, m, b : Holds(p, k, m, b)
  BY <1>1, Begins
<1>4. Still /\ queued' \in Nat
  <2>1. QueuesOK(queue)' /\ St' = St
    BY <1>1, <1>2, StateStays DEF TypesOK
  <2> QED
    BY <1>1, <1>2, <2>1 DEF Still, RampEnds, pool, TypesOK
<1>5. \/ p = "ramp" /\ StackIs(Rest, "none", 0, m, b)
      \/ p = "ramp_dispatch" /\ StackIs(Rest, "dispatch", 0, m, b)
  BY <1>1, <1>3, StackSays DEF Holds
<1>6. ReadyOK(St, queued, p) /\ m \in Nat
  BY <1>3 DEF Holds, LiveNow, Live
<1>7. CASE p = "ramp" /\ StackIs(Rest, "none", 0, m, b)
  <2>1. ReadyOK(St, queued', "none") /\ RampApart("none", b) /\ "none" \in Prefixes /\ 0 \in Nat
    BY <1>1, <1>6, <1>7 DEF ReadyOK, Serving, RampApart, Prefixes
  <2> QED
    BY <1>1, <1>2, <1>3, <1>4, <1>6, <1>7, <2>1, SameResumes
<1>8. CASE p = "ramp_dispatch" /\ StackIs(Rest, "dispatch", 0, m, b)
  <2>1. ReadyOK(St, queued', "dispatch") /\ RampApart("dispatch", b) /\ "dispatch" \in Prefixes /\ 0 \in Nat
    BY <1>1, <1>6, <1>8 DEF ReadyOK, Serving, RampApart, Prefixes
  <2> QED
    BY <1>1, <1>2, <1>3, <1>4, <1>6, <1>8, <2>1, SameResumes
<1> QED
  BY <1>5, <1>7, <1>8

\* The oldest unconnected node goes to the end of its queue.
LEMMA RequeuedStays ==
    ASSUME QueuesOK(queue), queue["UNCONNECTED"] # <<>>,
           queue' = Moved(queue, Head(queue["UNCONNECTED"]), "UNCONNECTED", "UNCONNECTED")
    PROVE  QueuesOK(queue)' /\ St' = St
<1>1. PICK n : n = Head(queue["UNCONNECTED"])
  OBVIOUS
<1>2. "UNCONNECTED" \in States
  BY DEF States
<1>3. n \in Nodes /\ StateOf(n) = "UNCONNECTED"
  BY <1>1, <1>2, HeadState
<1>4. QueuesOK(queue)' /\ St' = [St EXCEPT ![n] = "UNCONNECTED"]
  BY <1>1, <1>2, <1>3, StateMoved
<1>5. St[n] = "UNCONNECTED" /\ DOMAIN St = Nodes
  BY <1>3 DEF St
<1>6. [St EXCEPT ![n] = "UNCONNECTED"] = St
  BY <1>3, <1>5 DEF St
<1> QED
  BY <1>4, <1>6

LEMMA RampSkipsKeeps == ASSUME TcpInv, RampSkips PROVE TcpInv'
<1>1. Doing("ramp") /\ Running /\ stack' = At("ramp", Of - 1) \o Rest /\ queued' = queued /\ Of > 0
  BY DEF RampSkips, Doing
<1>2. TypesOK /\ deleted = FALSE
  BY <1>1, Begins
<1>3. PICK p, k, m, b : Holds(p, k, m, b)
  BY <1>1, Begins
<1>4. Still /\ queued' \in Nat
  <2>1. QueuesOK(queue)' /\ St' = St
    BY <1>2, RequeuedStays DEF TypesOK, RampSkips
  <2> QED
    BY <1>1, <1>2, <2>1 DEF Still, RampSkips, TypesOK
<1>5. Of = k /\ \/ p = "ramp" /\ StackIs(Rest, "none", 0, m, b)
                \/ p = "ramp_dispatch" /\ StackIs(Rest, "dispatch", 0, m, b)
  BY <1>1, <1>3, StackSays DEF Holds
<1>6. ReadyOK(St, queued, p) /\ RampApart(p, b) /\ m \in Nat /\ k \in Nat /\ b \in Bases /\ p \in Prefixes
  BY <1>3 DEF Holds, LiveNow, Live
<1>7. PICK j \in Nat : j = Of - 1
  BY <1>1, <1>5, <1>6
<1>8. StackIs(stack', p, j, m, b)
  <2>1. 0 \in Nat
    OBVIOUS
  <2>2. CASE p = "ramp" /\ StackIs(Rest, "none", 0, m, b)
    BY <1>1, <1>6, <1>7, <2>1, <2>2, StackPushes
  <2>3. CASE p = "ramp_dispatch" /\ StackIs(Rest, "dispatch", 0, m, b)
    BY <1>1, <1>6, <1>7, <2>1, <2>3, StackRamp
  <2> QED
    BY <1>5, <2>2, <2>3
<1> QED
  BY <1>1, <1>2, <1>3, <1>4, <1>6, <1>7, <1>8, SameResumes

LEMMA RampFailsKeeps == ASSUME TcpInv, RampFails PROVE TcpInv'
<1>1. Doing("ramp") /\ Running /\ stack' = Rest /\ queued' = queued
  BY DEF RampFails, Doing
<1>2. TypesOK /\ deleted = FALSE
  BY <1>1, Begins
<1>3. PICK p, k, m, b : Holds(p, k, m, b)
  BY <1>1, Begins
<1>4. Still /\ queued' \in Nat
  <2>1. QueuesOK(queue)' /\ St' = St
    BY <1>2, RequeuedStays DEF TypesOK, RampFails
  <2> QED
    BY <1>1, <1>2, <2>1 DEF Still, RampFails, TypesOK
<1>5. \/ p = "ramp" /\ StackIs(Rest, "none", 0, m, b)
      \/ p = "ramp_dispatch" /\ StackIs(Rest, "dispatch", 0, m, b)
  BY <1>1, <1>3, StackSays DEF Holds
<1>6. ReadyOK(St, queued, p) /\ m \in Nat
  BY <1>3 DEF Holds, LiveNow, Live
<1>7. CASE p = "ramp" /\ StackIs(Rest, "none", 0, m, b)
  <2>1. ReadyOK(St, queued', "none") /\ RampApart("none", b) /\ "none" \in Prefixes /\ 0 \in Nat
    BY <1>1, <1>6, <1>7 DEF ReadyOK, Serving, RampApart, Prefixes
  <2> QED
    BY <1>1, <1>2, <1>3, <1>4, <1>6, <1>7, <2>1, SameResumes
<1>8. CASE p = "ramp_dispatch" /\ StackIs(Rest, "dispatch", 0, m, b)
  <2>1. ReadyOK(St, queued', "dispatch") /\ RampApart("dispatch", b) /\ "dispatch" \in Prefixes /\ 0 \in Nat
    BY <1>1, <1>6, <1>8 DEF ReadyOK, Serving, RampApart, Prefixes
  <2> QED
    BY <1>1, <1>2, <1>3, <1>4, <1>6, <1>8, <2>1, SameResumes
<1> QED
  BY <1>5, <1>7, <1>8

Fresh(status, user) == [FreeSxe EXCEPT !.status = status, !.user = user]

LEMMA FreshSxe ==
    ASSUME NEW status \in {"free", "connecting", "failed", "connected"}, NEW user \in Nodes \cup {NULL, THEIRS}
    PROVE  /\ Fresh(status, user) \in Sxe /\ Fresh(status, user).status = status /\ Fresh(status, user).user = user
           /\ Fresh(status, user).used = 0 /\ Fresh(status, user).due = 0
<1>1. 0 \in 0 .. MaxSegments
  BY LimitsAssumption
<1>2. PICK w : w = Fresh(status, user)
  OBVIOUS
<1>3. w = [status |-> status, user |-> user, asked |-> "none", due |-> 0, used |-> 0]
  BY <1>2 DEF FreeSxe, Fresh
<1>4. w.status = status /\ w.user = user /\ w.used = 0 /\ w.due = 0
  BY <1>3
<1>5. "none" \in Requests \cup {"none"}
  OBVIOUS
<1>6. w \in Sxe
  BY <1>1, <1>3, <1>5 DEF Sxe
<1> QED
  BY <1>2, <1>4, <1>6

\* A function with one value replaced.
LEMMA Replaced ==
    ASSUME NEW S, NEW T, NEW f \in [S -> T], NEW i \in S, NEW v \in T, NEW g, g = [f EXCEPT ![i] = v]
    PROVE  g \in [S -> T] /\ g[i] = v /\ But(S, f, g, i)
  BY DEF But

\* The node n moves to another state.
LEMMA Moves ==
    ASSUME QueuesOK(queue), NEW n \in Nodes, NEW old, NEW new \in States, St[n] = old, queue' = Moved(queue, n, old, new)
    PROVE  QueuesOK(queue)' /\ St'[n] = new /\ But(Nodes, St, St', n)
<1>1. StateOf(n) = old
  BY DEF St
<1>2. QueuesOK(queue)' /\ St' = [St EXCEPT ![n] = new]
  BY <1>1, StateMoved
<1>3. St \in [Nodes -> States]
  BY StateOfIn DEF St
<1>4. PICK t : t = St
  OBVIOUS
<1>5. PICK u : u = St'
  OBVIOUS
<1>6. u[n] = new /\ But(Nodes, t, u, n)
  BY <1>2, <1>3, <1>4, <1>5, Replaced
<1> QED
  BY <1>2, <1>4, <1>5, <1>6

LEMMA RampConnectsKeeps == ASSUME TcpInv, RampConnects PROVE TcpInv'
<1>1. Doing("ramp") /\ Running /\ stack' = At("ramp", Of - 1) \o Rest /\ Of > 0 /\ queue["UNCONNECTED"] # <<>> /\ free # <<>>
  BY DEF RampConnects, Doing
<1>2. TypesOK /\ deleted = FALSE
  BY <1>1, Begins
<1>3. PICK p, k, m, b : Holds(p, k, m, b)
  BY <1>1, Begins
<1>4. PICK n, x : n = Head(queue["UNCONNECTED"]) /\ x = Head(free)
  OBVIOUS
<1>5. /\ ~Skips(n) /\ queue' = Moved(queue, n, "UNCONNECTED", "CONNECTING") /\ free' = Tail(free)
      /\ node_sxe' = [node_sxe EXCEPT ![n] = x]
      /\ UNCHANGED <<failure_count, user_data, kind, queued, pending, deleted, aborted>>
  BY <1>4 DEF RampConnects
<1>6. PICK status \in {"connecting", "failed"} : sxe' = [sxe EXCEPT ![x] = Fresh(status, n)]
  BY <1>4 DEF RampConnects, Fresh
<1>7. "UNCONNECTED" \in States /\ "CONNECTING" \in States
  BY DEF States
<1>8. n \in Nodes /\ St[n] = "UNCONNECTED"
  BY <1>1, <1>2, <1>4, <1>7, HeadState DEF TypesOK, St
<1>9. QueuesOK(queue)' /\ St'[n] = "CONNECTING" /\ But(Nodes, St, St', n)
  BY <1>2, <1>5, <1>7, <1>8, Moves DEF TypesOK
<1>10. Of = k /\ \/ p = "ramp" /\ StackIs(Rest, "none", 0, m, b)
                 \/ p = "ramp_dispatch" /\ StackIs(Rest, "dispatch", 0, m, b)
  BY <1>1, <1>3, StackSays DEF Holds
<1>11. LiveNow(p, b) /\ m \in Nat /\ k \in Nat /\ b \in Bases /\ p \in Prefixes
  BY <1>3 DEF Holds
<1>12. b.at \notin {"closed", "refused"} /\ FreeOK(sxe, free)
  BY <1>10, <1>11 DEF LiveNow, Live, RampApart
<1>13. x \in Sxes /\ Tail(free) \in Seq(Sxes)
  BY <1>1, <1>2, <1>4, <1>12, FreeTaken DEF TypesOK
<1>14. n \in Nodes \cup {NULL, THEIRS} /\ status \in {"free", "connecting", "failed", "connected"}
  BY <1>8
<1>15. PICK v \in Sxe : v = Fresh(status, n) /\ v.status = status /\ v.user = n /\ v.used = 0 /\ v.due = 0
  BY <1>14, FreshSxe
<1>16. sxe' \in [Sxes -> Sxe] /\ sxe'[x] = v /\ But(Sxes, sxe, sxe', x)
  <2>1. sxe \in [Sxes -> Sxe] /\ sxe' = [sxe EXCEPT ![x] = v]
    BY <1>2, <1>6, <1>15 DEF TypesOK
  <2> QED
    BY <1>13, <1>15, <2>1, Replaced
<1>17. node_sxe' \in [Nodes -> Sxes \cup {NULL}] /\ node_sxe'[n] = x /\ But(Nodes, node_sxe, node_sxe', n)
  <2>1. node_sxe \in [Nodes -> Sxes \cup {NULL}] /\ x \in Sxes \cup {NULL}
    BY <1>2, <1>13 DEF TypesOK
  <2> QED
    BY <1>5, <1>8, <2>1, Replaced
<1>18. failure_count[n] < FailureMax
  <2>1. failure_count[n] \in 0 .. FailureMax /\ FailureMax \in Nat
    BY <1>2, <1>8, LimitsAssumption DEF TypesOK
  <2> QED
    BY <1>5, <2>1 DEF Skips
<1>19. Live(St', node_sxe', user_data, failure_count, sxe', Tail(free), pending, queued, p, b, kind.is_spawn)
  BY <1>1, <1>2, <1>4, <1>8, <1>9, <1>11, <1>12, <1>15, <1>16, <1>17, <1>18, LiveConnects DEF LiveNow, TypesOK
<1>20. LiveNow(p, b)'
  BY <1>5, <1>19 DEF LiveNow
<1>21. TypesOK' /\ deleted' = FALSE
  BY <1>2, <1>5, <1>9, <1>13, <1>16, <1>17 DEF TypesOK
<1>22. PICK j \in Nat : j = Of - 1
  BY <1>1, <1>10, <1>11
<1>23. StackIs(stack', p, j, m, b)
  <2>1. 0 \in Nat
    OBVIOUS
  <2>2. CASE p = "ramp" /\ StackIs(Rest, "none", 0, m, b)
    BY <1>1, <1>11, <1>22, <2>1, <2>2, StackPushes
  <2>3. CASE p = "ramp_dispatch" /\ StackIs(Rest, "dispatch", 0, m, b)
    BY <1>1, <1>11, <1>22, <2>1, <2>3, StackRamp
  <2> QED
    BY <1>10, <2>2, <2>3
<1> QED
  BY <1>11, <1>20, <1>21, <1>22, <1>23, Resumes

LEMMA DispatchKeeps == ASSUME TcpInv, Dispatch PROVE TcpInv'
<1>1. Doing("dispatch") /\ Running /\ queue' = queue
  BY DEF Dispatch, Doing, pool
<1>2. TypesOK /\ deleted = FALSE
  BY <1>1, Begins
<1>3. PICK p, k, m, b : Holds(p, k, m, b)
  BY <1>1, Begins
<1>4. Still
  <2>1. QueuesOK(queue)' /\ St' = St
    BY <1>1, <1>2, StateStays DEF TypesOK
  <2> QED
    BY <2>1 DEF Still, Dispatch, pool
<1>5. p = "dispatch" /\ StackIs(Rest, "none", 0, m, b)
  BY <1>1, <1>3, StackSays DEF Holds
<1>6. ReadyOK(St, queued, p) /\ m \in Nat /\ b \in Bases /\ queued \in Nat
  BY <1>2, <1>3 DEF Holds, LiveNow, Live, TypesOK
<1>7. CASE queued > 0
  <2>1. queued' = queued - 1 /\ stack' = At("ready", 0) \o Rest /\ queued' \in Nat
    BY <1>6, <1>7 DEF Dispatch
  <2>2. StackIs(stack', "ready", 0, m, b)
    <3>1. 0 \in Nat
      OBVIOUS
    <3> QED
      BY <1>5, <1>6, <2>1, <3>1, StackPushes
  <2>3. ReadyOK(St, queued', "ready") /\ RampApart("ready", b) /\ "ready" \in Prefixes /\ 0 \in Nat
    BY <1>5, <1>6, <1>7, <2>1 DEF ReadyOK, Serving, RampApart, Prefixes
  <2> QED
    BY <1>2, <1>3, <1>4, <1>6, <2>1, <2>2, <2>3, SameResumes
<1>8. CASE ~(queued > 0)
  <2>1. queued' = queued /\ stack' = Rest /\ queued' \in Nat
    BY <1>6, <1>8 DEF Dispatch
  <2>2. ReadyOK(St, queued', "none") /\ RampApart("none", b) /\ "none" \in Prefixes /\ 0 \in Nat
    BY <1>8, <2>1 DEF ReadyOK, Serving, RampApart, Prefixes
  <2> QED
    BY <1>2, <1>3, <1>4, <1>5, <1>6, <2>1, <2>2, SameResumes
<1> QED
  BY <1>7, <1>8

\* What a step writes into one SXE.
Asked(v, r, due) == [v EXCEPT !.asked = r, !.due = due]
AskedOn(sx, x, r, due) == [sx EXCEPT ![x].asked = r, ![x].due = due]
Greets(v) == [v EXCEPT !.status = "connected", !.due = 1]
GreetsOn(sx, x) == [sx EXCEPT ![x].status = "connected", ![x].due = 1]
Connects(v) == [v EXCEPT !.status = "connected"]
ConnectsOn(sx, x) == [sx EXCEPT ![x].status = "connected"]
Uses(v, user) == [v EXCEPT !.user = user]
UsesOn(sx, x, user) == [sx EXCEPT ![x].user = user]

LEMMA AskedIs ==
    ASSUME NEW v \in Sxe, NEW r \in Requests, NEW due \in 0 .. MaxSegments
    PROVE  /\ Asked(v, r, due) \in Sxe
           /\ Asked(v, r, due).status = v.status /\ Asked(v, r, due).user = v.user /\ Asked(v, r, due).asked = r
           /\ Asked(v, r, due).due = due /\ Asked(v, r, due).used = v.used
<1>1. PICK w : w = Asked(v, r, due)
  OBVIOUS
<1>2. w = [status |-> v.status, user |-> v.user, asked |-> r, due |-> due, used |-> v.used]
  BY <1>1 DEF Asked, Sxe
<1>3. w \in Sxe
  BY <1>2 DEF Sxe
<1> QED
  BY <1>1, <1>2, <1>3

LEMMA GreetsIs ==
    ASSUME NEW v \in Sxe
    PROVE  /\ Greets(v) \in Sxe /\ Greets(v).status = "connected" /\ Greets(v).user = v.user
           /\ Greets(v).due = 1 /\ Greets(v).used = v.used
<1>1. PICK w : w = Greets(v)
  OBVIOUS
<1>2. w = [status |-> "connected", user |-> v.user, asked |-> v.asked, due |-> 1, used |-> v.used]
  BY <1>1 DEF Greets, Sxe
<1>3. 1 \in 0 .. MaxSegments
  BY LimitsAssumption
<1>4. w \in Sxe
  BY <1>2, <1>3 DEF Sxe
<1> QED
  BY <1>1, <1>2, <1>4

LEMMA ConnectsIs ==
    ASSUME NEW v \in Sxe
    PROVE  /\ Connects(v) \in Sxe /\ Connects(v).status = "connected" /\ Connects(v).user = v.user
           /\ Connects(v).due = v.due /\ Connects(v).used = v.used
<1>1. PICK w : w = Connects(v)
  OBVIOUS
<1>2. w = [status |-> "connected", user |-> v.user, asked |-> v.asked, due |-> v.due, used |-> v.used]
  BY <1>1 DEF Connects, Sxe
<1>3. w \in Sxe
  BY <1>2 DEF Sxe
<1> QED
  BY <1>1, <1>2, <1>3

LEMMA UsesIs ==
    ASSUME NEW v \in Sxe, NEW user \in Nodes \cup {NULL, THEIRS}
    PROVE  /\ Uses(v, user) \in Sxe /\ Uses(v, user).status = v.status /\ Uses(v, user).user = user
           /\ Uses(v, user).asked = v.asked /\ Uses(v, user).due = v.due /\ Uses(v, user).used = v.used
<1>1. PICK w : w = Uses(v, user)
  OBVIOUS
<1>2. w = [status |-> v.status, user |-> user, asked |-> v.asked, due |-> v.due, used |-> v.used]
  BY <1>1 DEF Uses, Sxe
<1>3. w \in Sxe
  BY <1>2 DEF Sxe
<1> QED
  BY <1>1, <1>2, <1>3

\* A request is written, in a ready-to-write event or not.
LEMMA WriteResumes ==
    ASSUME NEW p, NEW k, NEW m, NEW b, TypesOK, deleted = FALSE, Holds(p, k, m, b), Ready # <<>>,
           NEW r \in Requests \ pending, Write(r), p = "ready" \/ queued = 0,
           UNCHANGED <<failure_count, node_sxe, kind, queued, free, deleted>>,
           NEW m2 \in Nat, StackIs(stack', "none", 0, m2, b)
    PROVE  TcpInv'
<1>1. PICK n : n = Head(Ready)
  OBVIOUS
<1>2. PICK x : x = node_sxe[n]
  OBVIOUS
<1>3. /\ aborted' = FALSE /\ queue' = Moved(queue, n, "READY_TO_SEND", "IN_USE")
      /\ user_data' = [user_data EXCEPT ![n] = r] /\ pending' = pending \cup {r}
  BY <1>1 DEF Write
<1>4. PICK due \in 0 .. MaxSegments : sxe' = AskedOn(sxe, x, r, due)
  BY <1>1, <1>2 DEF Write, AskedOn
<1>5. "READY_TO_SEND" \in States /\ "IN_USE" \in States
  BY DEF States
<1>6. n \in Nodes /\ St[n] = "READY_TO_SEND"
  BY <1>1, <1>5, HeadState DEF TypesOK, St, Ready
<1>7. QueuesOK(queue)' /\ St'[n] = "IN_USE" /\ But(Nodes, St, St', n)
  BY <1>3, <1>5, <1>6, Moves DEF TypesOK
<1>8. LiveNow(p, b) /\ b \in Bases
  BY DEF Holds
<1>9. x \in Sxes
  BY <1>2, <1>6, <1>8 DEF LiveNow, Live, LinksOK
<1>10. user_data' \in [Nodes -> Requests \cup {"none"}] /\ user_data'[n] = r /\ But(Nodes, user_data, user_data', n)
  <2>1. user_data \in [Nodes -> Requests \cup {"none"}] /\ r \in Requests \cup {"none"}
    BY DEF TypesOK
  <2>2. PICK f : f = user_data
    OBVIOUS
  <2>3. PICK g : g = user_data'
    OBVIOUS
  <2>4. PICK T : T = Requests \cup {"none"}
    OBVIOUS
  <2>5. f \in [Nodes -> T] /\ g = [f EXCEPT ![n] = r] /\ r \in T
    BY <1>3, <2>1, <2>2, <2>3, <2>4
  <2>6. g \in [Nodes -> T] /\ g[n] = r /\ But(Nodes, f, g, n)
    BY <1>6, <2>5, Replaced
  <2> QED
    BY <2>2, <2>3, <2>4, <2>6
<1>11. PICK v \in Sxe : /\ v = Asked(sxe[x], r, due) /\ v.status = sxe[x].status /\ v.user = sxe[x].user /\ v.asked = r
                        /\ v.due = due /\ v.used = sxe[x].used
  <2>1. sxe[x] \in Sxe /\ r \in Requests
    BY <1>9 DEF TypesOK
  <2> QED
    BY <2>1, AskedIs
<1>12. sxe' \in [Sxes -> Sxe] /\ sxe'[x] = v /\ But(Sxes, sxe, sxe', x)
  <2>1. sxe \in [Sxes -> Sxe] /\ sxe' = [sxe EXCEPT ![x] = v]
    <3>1. AskedOn(sxe, x, r, due) = [sxe EXCEPT ![x] = Asked(sxe[x], r, due)]
      BY DEF AskedOn, Asked
    <3> QED
      BY <1>4, <1>11, <3>1 DEF TypesOK
  <2> QED
    BY <1>9, <2>1, Replaced
<1>13. Live(St', node_sxe, user_data', failure_count, sxe', free, pending \cup {r}, queued, "none", b, kind.is_spawn)
  <2>1. queued \in Nat /\ r \in Requests /\ r \notin pending
    BY DEF TypesOK
  <2> QED
    BY <1>2, <1>6, <1>7, <1>8, <1>10, <1>11, <1>12, <2>1, LiveWrites DEF LiveNow
<1>14. LiveNow("none", b)'
  BY <1>3, <1>13 DEF LiveNow
<1>15. TypesOK' /\ deleted' = FALSE
  BY <1>3, <1>7, <1>10, <1>12 DEF TypesOK
<1> QED
  <2>1. "none" \in Prefixes /\ 0 \in Nat
    BY DEF Prefixes
  <2> QED
    BY <1>8, <1>14, <1>15, <2>1, Resumes

LEMMA WriteKeeps == ASSUME TcpInv, sxe_pool_tcp_write PROVE TcpInv'
<1>1. Doing("ready") /\ Running /\ stack' = At("app", 0) \o Rest
  BY DEF sxe_pool_tcp_write, Doing
<1>2. TypesOK /\ deleted = FALSE
  BY <1>1, Begins
<1>3. PICK p, k, m, b : Holds(p, k, m, b)
  BY <1>1, Begins
<1>4. p = "ready" /\ StackIs(Rest, "none", 0, m, b)
  BY <1>1, <1>3, StackSays DEF Holds
<1>5. ReadyOK(St, queued, p) /\ m \in Nat /\ b \in Bases /\ 0 \in Nat /\ m + 1 \in Nat
  BY <1>3 DEF Holds, LiveNow, Live
<1>6. Ready # <<>>
  <2>1. PICK n \in Nodes : St[n] = "READY_TO_SEND"
    BY <1>4, <1>5 DEF ReadyOK, Serving
  <2>2. "READY_TO_SEND" \in States
    BY DEF States
  <2>3. n \in Seqs!ToSet(Ready)
    BY <1>2, <2>1, <2>2, QueueHolds DEF TypesOK, Ready
  <2> QED
    BY <2>3 DEF Seqs!ToSet
<1>7. StackIs(stack', "none", 0, m + 1, b)
  BY <1>1, <1>4, <1>5, StackPushes
<1> QED
  BY <1>2, <1>3, <1>4, <1>5, <1>6, <1>7, WriteResumes DEF sxe_pool_tcp_write

LEMMA UnaskedKeeps == ASSUME TcpInv, WriteUnasked PROVE TcpInv'
<1>1. App /\ Running /\ stack' = stack /\ Ready # <<>>
  BY DEF WriteUnasked, App
<1>2. TypesOK /\ deleted = FALSE
  BY <1>1, Begins
<1>3. PICK p, k, m, b : Holds(p, k, m, b)
  BY <1>1, Begins
<1>4. p = "none"
  BY <1>1, <1>3, StackSays DEF Holds
<1>5. ReadyOK(St, queued, p) /\ m \in Nat /\ queued \in Nat
  BY <1>2, <1>3 DEF Holds, LiveNow, Live, TypesOK
<1>6. queued = 0
  <2>1. PICK n : n = Head(Ready)
    OBVIOUS
  <2>2. "READY_TO_SEND" \in States
    BY DEF States
  <2>3. n \in Nodes /\ St[n] = "READY_TO_SEND"
    BY <1>1, <1>2, <2>1, <2>2, HeadState DEF TypesOK, St, Ready
  <2>4. ~(queued > 0)
    BY <1>4, <1>5, <2>3 DEF ReadyOK, Serving
  <2> QED
    BY <1>5, <2>4
<1>7. StackIs(stack', "none", 0, m, b)
  BY <1>1, <1>3, <1>4 DEF Holds, StackIs, Prefix
<1> QED
  BY <1>1, <1>2, <1>3, <1>5, <1>6, <1>7, WriteResumes DEF WriteUnasked

LEMMA QueueKeeps == ASSUME TcpInv, sxe_pool_tcp_queue_ready_to_write_event PROVE TcpInv'
<1>1. App /\ Running /\ queue' = queue
  BY DEF sxe_pool_tcp_queue_ready_to_write_event, App, pool
<1>2. TypesOK /\ deleted = FALSE
  BY <1>1, Begins
<1>3. PICK p, k, m, b : Holds(p, k, m, b)
  BY <1>1, Begins
<1>4. p = "none"
  BY <1>1, <1>3, StackSays DEF Holds
<1>5. Still
  <2>1. QueuesOK(queue)' /\ St' = St
    BY <1>1, <1>2, StateStays DEF TypesOK
  <2> QED
    BY <2>1 DEF Still, sxe_pool_tcp_queue_ready_to_write_event, pool
<1>6. ReadyOK(St, queued, "none") /\ m \in Nat /\ k \in Nat /\ b \in Bases /\ queued \in Nat /\ StackIs(stack, "none", k, m, b)
  BY <1>2, <1>3, <1>4 DEF Holds, LiveNow, Live, TypesOK
<1>7. \A n \in Nodes : n \in Seqs!ToSet(Ready) <=> St[n] = "READY_TO_SEND"
  <2>1. "READY_TO_SEND" \in States
    BY DEF States
  <2> QED
    BY <1>2, <2>1, QueueHolds DEF TypesOK, Ready
<1>8. CASE Ready = <<>>
  <2>1. queued' = queued + 1 /\ queued' \in Nat /\ stack' = stack
    BY <1>6, <1>8 DEF sxe_pool_tcp_queue_ready_to_write_event
  <2>2. \A n \in Nodes : St[n] # "READY_TO_SEND"
    <3>1. Seqs!ToSet(<<>>) = {}
      BY DEF Seqs!ToSet
    <3> QED
      BY <1>7, <1>8, <3>1
  <2>3. ReadyOK(St, queued', "none") /\ RampApart("none", b) /\ "none" \in Prefixes
    BY <2>2 DEF ReadyOK, Serving, RampApart, Prefixes
  <2> QED
    BY <1>2, <1>3, <1>5, <1>6, <2>1, <2>3, SameResumes
<1>9. CASE Ready # <<>>
  <2>1. queued' = queued /\ queued' \in Nat /\ stack' = At("ready", 0) \o stack
    BY <1>6, <1>9 DEF sxe_pool_tcp_queue_ready_to_write_event
  <2>2. PICK n \in Nodes : St[n] = "READY_TO_SEND"
    <3>1. "READY_TO_SEND" \in States
      BY DEF States
    <3> QED
      BY <1>2, <1>9, <3>1, HeadState DEF TypesOK, St, Ready
  <2>3. queued = 0
    BY <1>6, <2>2 DEF ReadyOK, Serving
  <2>4. ReadyOK(St, queued', "ready") /\ RampApart("ready", b) /\ "ready" \in Prefixes /\ 0 \in Nat
    BY <2>1, <2>2, <2>3 DEF ReadyOK, Serving, RampApart, Prefixes
  <2>5. StackIs(stack', "ready", 0, m, b)
    BY <1>6, <2>1, StackPushes
  <2> QED
    BY <1>2, <1>3, <1>5, <1>6, <2>1, <2>4, <2>5, SameResumes
<1> QED
  BY <1>8, <1>9

LEMMA UnqueueKeeps == ASSUME TcpInv, sxe_pool_tcp_unqueue_ready_to_write_event PROVE TcpInv'
<1>1. App /\ Running /\ queue' = queue /\ stack' = stack /\ queued > 0 /\ queued' = queued - 1
  BY DEF sxe_pool_tcp_unqueue_ready_to_write_event, App, pool
<1>2. TypesOK /\ deleted = FALSE
  BY <1>1, Begins
<1>3. PICK p, k, m, b : Holds(p, k, m, b)
  BY <1>1, Begins
<1>4. p = "none"
  BY <1>1, <1>3, StackSays DEF Holds
<1>5. Still
  <2>1. QueuesOK(queue)' /\ St' = St
    BY <1>1, <1>2, StateStays DEF TypesOK
  <2> QED
    BY <2>1 DEF Still, sxe_pool_tcp_unqueue_ready_to_write_event, pool
<1>6. ReadyOK(St, queued, "none") /\ m \in Nat /\ k \in Nat /\ b \in Bases /\ queued \in Nat /\ StackIs(stack, "none", k, m, b)
  BY <1>2, <1>3, <1>4 DEF Holds, LiveNow, Live, TypesOK
<1>7. queued' \in Nat
  BY <1>1, <1>6
<1>8. ReadyOK(St, queued', "none") /\ RampApart("none", b) /\ "none" \in Prefixes
  <2>1. queued > 0 /\ ~Serving("none")
    BY <1>1 DEF Serving
  <2> QED
    BY <1>6, <2>1 DEF ReadyOK, RampApart, Prefixes
<1> QED
  BY <1>1, <1>2, <1>3, <1>5, <1>6, <1>7, <1>8, SameResumes

\* Between two events, an open SXE is its user's.
LEMMA UserOwns ==
    ASSUME NEW k \in Nat, NEW p, NEW m, NEW b, Holds(p, k, m, b), stack = <<>> \/ b.at = "none", NEW x \in Sxes, sxe[x].status # "free"
    PROVE  /\ b.at = "none"
           /\ sxe[x].user \in Nodes /\ St[sxe[x].user] # "UNCONNECTED" /\ node_sxe[sxe[x].user] = x
           /\ Linked(sxe[x].user, St[sxe[x].user], sxe[x], failure_count[sxe[x].user], user_data[sxe[x].user], b, kind.is_spawn)
<1>1. b.at = "none"
  BY StackSays DEF Holds
<1>2. ~Closing(b, x)
  BY <1>1 DEF Closing
<1>3. /\ LinksOK(St, node_sxe, user_data, failure_count, sxe, b, kind.is_spawn) /\ Apart(St, node_sxe)
      /\ OwnersOK(St, node_sxe, sxe, b)
  BY DEF Holds, LiveNow, Live
<1>4. PICK n \in Nodes : /\ St[n] # "UNCONNECTED" /\ node_sxe[n] = x
                         /\ Linked(n, St[n], sxe[x], failure_count[n], user_data[n], b, kind.is_spawn)
  BY <1>2, <1>3, OwnerOf
<1>5. sxe[x].user = n
  BY <1>1, <1>4 DEF Linked
<1> QED
  BY <1>1, <1>4, <1>5

\* sxe_pool_set_indexed_element_state finds its node where the caller says.
LEMMA SetMoves ==
    ASSUME QueuesOK(queue), NEW n \in Nodes, NEW old \in States, NEW new \in States, St[n] = old, Set(n, old, new)
    PROVE  aborted' = FALSE /\ QueuesOK(queue)' /\ St'[n] = new /\ But(Nodes, St, St', n)
<1>1. n \in Seqs!ToSet(queue[old])
  BY QueueHolds
<1>2. aborted' = FALSE /\ queue' = Moved(queue, n, old, new)
  BY <1>1 DEF Set
<1> QED
  BY <1>2, Moves

\* A handler begins.
LEMMA BaseBegins ==
    ASSUME NEW a \in {"connected", "init", "read", "timeout", "closed"}, NEW x \in Nat
    PROVE  \E c \in Bases : c.at = a /\ c.of = x /\ StackIs(At(a, x), "none", 0, 0, c)
<1>1. PICK c : c = [at |-> a, of |-> x]
  OBVIOUS
<1>2. c \in Bases /\ c.at = a /\ c.of = x
  BY <1>1 DEF Bases
<1>3. Base(c) = At(a, x)
  BY <1>2 DEF Base
<1>4. StackIs(Base(c), "none", 0, 0, c)
  BY <1>2, StackBegins
<1> QED
  BY <1>2, <1>3, <1>4

LEMMA ConnectedKeeps == ASSUME TcpInv, NEW x \in Sxes, sxe_pool_tcp_event_connected(x) PROVE TcpInv'
<1>1. Running /\ stack = <<>> /\ sxe[x].status = "connecting"
  BY DEF sxe_pool_tcp_event_connected, InLoop
<1>2. TypesOK /\ deleted = FALSE
  BY <1>1, Begins
<1>3. PICK p, k, m, b : Holds(p, k, m, b)
  BY <1>1, Begins
<1>4. PICK n : n = sxe[x].user
  OBVIOUS
<1>5. k \in Nat /\ m \in Nat /\ p = "none" /\ b.at = "none" /\ LiveNow("none", b) /\ 0 \in Nat
  BY <1>1, <1>3, StackSays DEF Holds
<1>6. n \in Nodes /\ St[n] # "UNCONNECTED" /\ node_sxe[n] = x /\ Linked(n, St[n], sxe[x], failure_count[n], user_data[n], b, kind.is_spawn)
  BY <1>1, <1>3, <1>4, <1>5, UserOwns
<1>7. St[n] = "CONNECTING" /\ sxe[x].used = 0 /\ sxe[x].due = 0 /\ failure_count[n] < FailureMax
  BY <1>1, <1>6 DEF Linked
<1>8. /\ kind' = kind /\ UNCHANGED <<node_sxe, user_data, queued, free, pending, deleted>>
      /\ failure_count' = failure_count \/ (kind.is_spawn /\ failure_count' = [failure_count EXCEPT ![n] = failure_count[n] + 1])
  <2>1. PICK fc : fc = [failure_count EXCEPT ![n] = @ + 1]
    OBVIOUS
  <2>2. /\ failure_count' \in {failure_count} \cup (IF kind.is_spawn /\ spawns[n].previous THEN {fc} ELSE {})
        /\ kind' = kind /\ UNCHANGED <<node_sxe, user_data, queued, free, pending, deleted>>
    BY <1>4, <2>1 DEF sxe_pool_tcp_event_connected
  <2>3. failure_count' = failure_count \/ (kind.is_spawn /\ failure_count' = fc)
    BY <2>2
  <2>4. fc = [failure_count EXCEPT ![n] = failure_count[n] + 1]
    BY <2>1
  <2> QED
    BY <2>2, <2>3, <2>4
<1>9. /\ failure_count' \in [Nodes -> 0 .. FailureMax] /\ But(Nodes, failure_count, failure_count', n)
      /\ failure_count'[n] = failure_count[n] \/ kind.is_spawn
  <2>1. failure_count \in [Nodes -> 0 .. FailureMax]
    BY <1>2 DEF TypesOK
  <2>2. CASE failure_count' = failure_count
    BY <2>1, <2>2 DEF But
  <2>3. CASE kind.is_spawn /\ failure_count' = [failure_count EXCEPT ![n] = failure_count[n] + 1]
    <3>1. failure_count[n] + 1 \in 0 .. FailureMax
      BY <1>6, <1>7, <2>1, LimitsAssumption
    <3>2. PICK more \in 0 .. FailureMax : more = failure_count[n] + 1
      BY <3>1
    <3>3. failure_count' = [failure_count EXCEPT ![n] = more]
      BY <2>3, <3>2
    <3>4. failure_count' \in [Nodes -> 0 .. FailureMax] /\ But(Nodes, failure_count, failure_count', n)
      BY <1>6, <2>1, <3>3, Replaced
    <3> QED
      BY <2>3, <3>4
  <2> QED
    BY <1>8, <2>2, <2>3
<1>10. PICK v \in Sxe : v = sxe[x]
  BY <1>2 DEF TypesOK
<1>11. queued \in Nat /\ sxe \in [Sxes -> Sxe] /\ QueuesOK(queue)
  BY <1>2 DEF TypesOK
<1>12. {"CONNECTING", "INITIALIZING", "READY_TO_SEND"} \subseteq States
  BY DEF States
<1>13. Owns(St, node_sxe, x) /\ x \in Nat
  BY <1>6, NotNodes DEF Owns
<1>14. PICK c \in Bases : c.at = "connected" /\ c.of = x /\ StackIs(At("connected", x), "none", 0, 0, c)
  BY <1>13, BaseBegins
<1>15. ASSUME NEW new, NEW q, NEW due,
              \/ new = "INITIALIZING" /\ q = "none" /\ due = 1
              \/ new = "READY_TO_SEND" /\ q = "ramp_dispatch" /\ due = 0,
              Set(n, "CONNECTING", new), NEW w \in Sxe, sxe' = [sxe EXCEPT ![x] = w],
              w.status = "connected", w.user = v.user, w.used = v.used, w.due = due,
              NEW j \in Nat, StackIs(stack', q, j, 0, c)
       PROVE  TcpInv'
  <2>1. aborted' = FALSE /\ QueuesOK(queue)' /\ St'[n] = new /\ But(Nodes, St, St', n)
    BY <1>6, <1>7, <1>11, <1>12, <1>15, SetMoves
  <2>2. sxe' \in [Sxes -> Sxe] /\ sxe'[x] = w /\ But(Sxes, sxe, sxe', x)
    <3>1. sxe \in [Sxes -> Sxe] /\ sxe' = [sxe EXCEPT ![x] = w]
      BY <1>11, <1>15
    <3> QED
      BY <3>1, Replaced
  <2>3. Live(St', node_sxe, user_data, failure_count', sxe', free, pending, queued, q, b, kind.is_spawn)
    <3>1. /\ sxe'[x].status = "connected" /\ sxe'[x].user = sxe[x].user /\ sxe'[x].used = 0
          /\ sxe'[x].due = (IF new = "INITIALIZING" THEN 1 ELSE 0)
      BY <1>7, <1>10, <1>15, <2>2
    <3>2. b.at \notin {"closed", "refused"}
      BY <1>5
    <3>3. \/ new = "INITIALIZING" /\ q = "none"
          \/ new = "READY_TO_SEND" /\ q = "ramp_dispatch"
      BY <1>15
    <3>4. Live(St, node_sxe, user_data, failure_count, sxe, free, pending, queued, "none", b, kind.is_spawn)
      BY <1>5 DEF LiveNow
    <3> QED
      BY <1>6, <1>7, <1>9, <1>11, <2>1, <2>2, <3>1, <3>2, <3>3, <3>4, LiveAdvances
  <2>4. BaseOK(St', node_sxe, sxe', c) /\ ReadyOK(St', queued, q) /\ b.at \in Plain /\ c.at \in Plain
    <3>1. ReadyOK(St', queued, q)
      BY <2>3 DEF Live
    <3>2. Owns(St', node_sxe, x)
      <4>1. St'[n] # "UNCONNECTED" /\ n \in Nodes /\ node_sxe[n] = x
        BY <1>6, <1>15, <2>1
      <4> QED
        BY <4>1 DEF Owns
    <3>3. BaseOK(St', node_sxe, sxe', c)
      BY <1>14, <3>2 DEF BaseOK
    <3> QED
      BY <1>5, <1>14, <3>1, <3>3 DEF Plain
  <2>5. Live(St', node_sxe, user_data, failure_count', sxe', free, pending, queued, q, c, kind.is_spawn)
    BY <2>3, <2>4, LiveRebased
  <2>6. LiveNow(q, c)'
    BY <1>8, <2>5 DEF LiveNow
  <2>7. TypesOK' /\ deleted' = FALSE
    BY <1>2, <1>8, <1>9, <2>1, <2>2 DEF TypesOK
  <2>8. q \in Prefixes
    BY <1>15 DEF Prefixes
  <2> QED
    BY <1>5, <1>14, <1>15, <2>6, <2>7, <2>8, Resumes
<1>16. CASE kind.has_initialization
  <2>1. Set(n, "CONNECTING", "INITIALIZING") /\ sxe' = GreetsOn(sxe, x) /\ stack' = At("connected", x)
    BY <1>4, <1>16 DEF sxe_pool_tcp_event_connected, GreetsOn
  <2>2. PICK w \in Sxe : w = Greets(v) /\ w.status = "connected" /\ w.user = v.user /\ w.due = 1 /\ w.used = v.used
    BY GreetsIs
  <2>3. sxe' = [sxe EXCEPT ![x] = w]
    <3>1. GreetsOn(sxe, x) = [sxe EXCEPT ![x] = Greets(sxe[x])]
      BY DEF GreetsOn, Greets
    <3> QED
      BY <1>10, <2>1, <2>2, <3>1
  <2>4. StackIs(stack', "none", 0, 0, c)
    BY <1>14, <2>1
  <2> QED
    BY <1>5, <1>15, <2>1, <2>2, <2>3, <2>4
<1>17. CASE ~kind.has_initialization
  <2>1. Set(n, "CONNECTING", "READY_TO_SEND") /\ sxe' = ConnectsOn(sxe, x) /\ stack' = Restart \o At("connected", x)
    BY <1>4, <1>17 DEF sxe_pool_tcp_event_connected, ConnectsOn
  <2>2. PICK w \in Sxe : w = Connects(v) /\ w.status = "connected" /\ w.user = v.user /\ w.due = v.due /\ w.used = v.used
    BY ConnectsIs
  <2>3. sxe' = [sxe EXCEPT ![x] = w]
    <3>1. ConnectsOn(sxe, x) = [sxe EXCEPT ![x] = Connects(sxe[x])]
      BY DEF ConnectsOn, Connects
    <3> QED
      BY <1>10, <2>1, <2>2, <3>1
  <2>4. ConnectionRamp \in Nat
    BY LimitsAssumption
  <2>5. StackIs(stack', "ramp_dispatch", ConnectionRamp, 0, c)
    BY <1>5, <1>14, <2>1, <2>4, StackPushes
  <2>6. w.due = 0
    BY <1>7, <1>10, <2>2
  <2> QED
    BY <1>15, <2>1, <2>2, <2>3, <2>4, <2>5, <2>6
<1> QED
  BY <1>16, <1>17

LEMMA InitializedKeeps ==
    ASSUME InitializesInClose = FALSE, TcpInv, NEW x \in Sxes, sxe_pool_tcp_initialized(x)
    PROVE  TcpInv'
<1>1. App /\ Running /\ ~InClose /\ sxe[x].status = "connected" /\ sxe[x].due = 0 /\ stack' = Restart \o stack
  BY DEF sxe_pool_tcp_initialized, App
<1>2. TypesOK /\ deleted = FALSE
  BY <1>1, Begins
<1>3. PICK p, k, m, b : Holds(p, k, m, b)
  BY <1>1, Begins
<1>4. PICK n : n = sxe[x].user
  OBVIOUS
<1>5. /\ n \in Seqs!ToSet(queue["INITIALIZING"]) /\ Set(n, "INITIALIZING", "READY_TO_SEND")
      /\ UNCHANGED <<failure_count, node_sxe, user_data, kind, queued, free, sxe, pending, deleted>>
  BY <1>4 DEF sxe_pool_tcp_initialized
<1>6. p = "none" /\ StackIs(stack, "none", k, m, b) /\ LiveNow("none", b) /\ k \in Nat /\ m \in Nat /\ b \in Bases
  BY <1>1, <1>3, StackSays DEF Holds
<1>7. "INITIALIZING" \in States /\ "READY_TO_SEND" \in States /\ QueuesOK(queue)
  BY <1>2 DEF States, TypesOK
<1>8. n \in Nodes /\ St[n] = "INITIALIZING"
  BY <1>5, <1>7, QueueHolds
<1>9. /\ LinksOK(St, node_sxe, user_data, failure_count, sxe, b, kind.is_spawn) /\ Apart(St, node_sxe)
      /\ OwnersOK(St, node_sxe, sxe, b) /\ BaseOK(St, node_sxe, sxe, b)
  BY <1>6 DEF LiveNow, Live
<1>10. node_sxe[n] = x
  <2>1. ~Closing(b, x)
    BY <1>1, <1>9 DEF Closing, BaseOK
  <2>2. PICK o \in Nodes : /\ node_sxe[o] = x
                           /\ Linked(o, St[o], sxe[x], failure_count[o], user_data[o], b, kind.is_spawn)
    BY <1>1, <1>9, <2>1, OwnerOf
  <2>3. sxe[x].user \in {o, THEIRS}
    BY <2>2 DEF Linked
  <2> QED
    BY <1>4, <1>8, <2>2, <2>3, NotNodes
<1>11. Linked(n, "INITIALIZING", sxe[x], failure_count[n], user_data[n], b, kind.is_spawn)
  BY <1>8, <1>9, <1>10 DEF LinksOK
<1>12. sxe[x].used = 0
  BY <1>11 DEF Linked
<1>13. aborted' = FALSE /\ QueuesOK(queue)' /\ St'[n] = "READY_TO_SEND" /\ But(Nodes, St, St', n)
  BY <1>5, <1>7, <1>8, SetMoves
<1>14. b.at \notin {"closed", "refused"}
  BY <1>1, <1>6, StackShowsClose
<1>15. Live(St', node_sxe, user_data, failure_count, sxe, free, pending, queued, "ramp_dispatch", b, kind.is_spawn)
  <2>1. But(Nodes, failure_count, failure_count, n) /\ But(Sxes, sxe, sxe, x) /\ queued \in Nat
    BY <1>2 DEF But, TypesOK
  <2>2. Live(St, node_sxe, user_data, failure_count, sxe, free, pending, queued, "none", b, kind.is_spawn)
    BY <1>6 DEF LiveNow
  <2>3. sxe[x].due = (IF "READY_TO_SEND" = "INITIALIZING" THEN 1 ELSE 0)
    BY <1>1
  <2> QED
    BY <1>1, <1>8, <1>10, <1>12, <1>13, <1>14, <2>1, <2>2, <2>3, LiveAdvances
<1>16. LiveNow("ramp_dispatch", b)'
  BY <1>5, <1>15 DEF LiveNow
<1>17. TypesOK' /\ deleted' = FALSE
  BY <1>2, <1>5, <1>13 DEF TypesOK
<1>18. StackIs(stack', "ramp_dispatch", ConnectionRamp, m, b) /\ ConnectionRamp \in Nat /\ "ramp_dispatch" \in Prefixes
  <2>1. ConnectionRamp \in Nat
    BY LimitsAssumption
  <2> QED
    BY <1>1, <1>6, <2>1, StackPushes DEF Prefixes
<1> QED
  BY <1>6, <1>16, <1>17, <1>18, Resumes

\* What a segment does to its SXE: a greeting is taken at once, a reply when it is complete.
Greeted(v) == [[v EXCEPT !.due = @ - 1, !.used = @ + 1] EXCEPT !.used = 0]
Read(v) == [[v EXCEPT !.due = @ - 1, !.used = @ + 1] EXCEPT
              !.user = THEIRS, !.used = IF [v EXCEPT !.due = @ - 1, !.used = @ + 1].due = 0 THEN 0 ELSE @]

LEMMA GreetedIs ==
    ASSUME NEW v \in Sxe, v.due \in {0, 1}, v.due > 0
    PROVE  /\ Greeted(v) \in Sxe /\ Greeted(v).status = v.status /\ Greeted(v).user = v.user
           /\ Greeted(v).due = 0 /\ Greeted(v).used = 0
<1>1. PICK w : w = Greeted(v)
  OBVIOUS
<1>2. v.due = 1 /\ 0 \in 0 .. MaxSegments
  BY LimitsAssumption
<1>3. w = [status |-> v.status, user |-> v.user, asked |-> v.asked, due |-> v.due - 1, used |-> 0]
  BY <1>1 DEF Greeted, Sxe
<1>4. w = [status |-> v.status, user |-> v.user, asked |-> v.asked, due |-> 0, used |-> 0]
  BY <1>2, <1>3
<1>5. w \in Sxe
  BY <1>2, <1>4 DEF Sxe
<1> QED
  BY <1>1, <1>4, <1>5

LEMMA ReadIs ==
    ASSUME NEW v \in Sxe, v.due > 0, v.used + v.due <= MaxSegments
    PROVE  /\ Read(v) \in Sxe /\ Read(v).status = v.status /\ Read(v).user = THEIRS /\ Read(v).asked = v.asked
           /\ Read(v).due = v.due - 1 /\ Read(v).used = IF v.due - 1 = 0 THEN 0 ELSE v.used + 1
           /\ v.due \in Nat /\ v.used \in Nat
<1>1. PICK w : w = Read(v)
  OBVIOUS
<1>2. PICK d, u : d = v.due /\ u = v.used
  OBVIOUS
<1>3. d \in 0 .. MaxSegments /\ u \in 0 .. MaxSegments /\ MaxSegments \in Nat
  BY <1>2, LimitsAssumption DEF Sxe
<1>4. PICK t : t = [v EXCEPT !.due = @ - 1, !.used = @ + 1]
  OBVIOUS
<1>5. t = [status |-> v.status, user |-> v.user, asked |-> v.asked, due |-> d - 1, used |-> u + 1]
  BY <1>2, <1>4 DEF Sxe
<1>6. w = [t EXCEPT !.user = THEIRS, !.used = IF t.due = 0 THEN 0 ELSE @]
  BY <1>1, <1>4 DEF Read
<1>7. w = [status |-> v.status, user |-> THEIRS, asked |-> v.asked, due |-> d - 1, used |-> IF d - 1 = 0 THEN 0 ELSE u + 1]
  BY <1>5, <1>6
<1>8. d - 1 \in 0 .. MaxSegments /\ (IF d - 1 = 0 THEN 0 ELSE u + 1) \in 0 .. MaxSegments
  BY <1>2, <1>3
<1>9. w \in Sxe
  BY <1>7, <1>8 DEF Sxe
<1> QED
  BY <1>1, <1>2, <1>3, <1>7, <1>9

LEMMA ReadKeeps == ASSUME TcpInv, NEW x \in Sxes, sxe_pool_tcp_event_read(x) PROVE TcpInv'
<1>1. Running /\ stack = <<>> /\ sxe[x].status = "connected" /\ sxe[x].due > 0
  BY DEF sxe_pool_tcp_event_read, InLoop
<1>2. TypesOK /\ deleted = FALSE
  BY <1>1, Begins
<1>3. PICK p, k, m, b : Holds(p, k, m, b)
  BY <1>1, Begins
<1>4. PICK n : n = sxe[x].user
  OBVIOUS
<1>5. k \in Nat /\ m \in Nat /\ p = "none" /\ b.at = "none" /\ LiveNow("none", b) /\ 0 \in Nat /\ "none" \in Prefixes
  BY <1>1, <1>3, StackSays DEF Holds, Prefixes
<1>6. n \in Nodes /\ St[n] # "UNCONNECTED" /\ node_sxe[n] = x /\ Linked(n, St[n], sxe[x], failure_count[n], user_data[n], b, kind.is_spawn)
  BY <1>1, <1>3, <1>4, <1>5, UserOwns
<1>7. UNCHANGED <<queue, node_sxe, user_data, kind, queued, free, deleted, aborted>>
  BY DEF sxe_pool_tcp_event_read
<1>8. PICK v \in Sxe : v = sxe[x]
  BY <1>2 DEF TypesOK
<1>9. QueuesOK(queue) /\ sxe \in [Sxes -> Sxe] /\ failure_count \in [Nodes -> 0 .. FailureMax] /\ pending \subseteq Requests
  BY <1>2 DEF TypesOK
<1>10. QueuesOK(queue)' /\ St' = St
  BY <1>7, <1>9, StateStays
<1>11. StateOf(n) = St[n] /\ St[n] \in States
  BY <1>6, <1>9, StateOfIn DEF St
<1>12. x \in Nat /\ n \in Nat
  BY <1>6, NotNodes
<1>13. Live(St, node_sxe, user_data, failure_count, sxe, free, pending, queued, "none", b, kind.is_spawn)
  BY <1>5 DEF LiveNow
<1>14. CASE St[n] = "INITIALIZING"
  <2>1. sxe' = [sxe EXCEPT ![x] = Greeted(sxe[x])] /\ stack' = At("init", x) /\ failure_count' = failure_count /\ pending' = pending
    BY <1>4, <1>11, <1>14 DEF sxe_pool_tcp_event_read, Greeted
  <2>2. v.due \in {0, 1} /\ v.due > 0
    BY <1>1, <1>6, <1>8, <1>14 DEF Linked
  <2>3. PICK w \in Sxe : w = Greeted(v) /\ w.status = v.status /\ w.user = v.user /\ w.due = 0 /\ w.used = 0
    BY <2>2, GreetedIs
  <2>4. sxe' \in [Sxes -> Sxe] /\ sxe'[x] = w /\ But(Sxes, sxe, sxe', x)
    <3>1. sxe' = [sxe EXCEPT ![x] = w]
      BY <1>8, <2>1, <2>3
    <3> QED
      BY <1>9, <3>1, Replaced
  <2>5. PICK c \in Bases : c.at = "init" /\ c.of = x /\ StackIs(At("init", x), "none", 0, 0, c)
    BY <1>12, BaseBegins
  <2>6. Live(St, node_sxe, user_data, failure_count, sxe', free, pending, queued, "none", c, kind.is_spawn)
    <3>1. sxe'[x].status = sxe[x].status /\ sxe'[x].user = sxe[x].user /\ sxe'[x].used = 0 /\ sxe'[x].due = 0
      BY <1>8, <2>3, <2>4
    <3> QED
      BY <1>5, <1>6, <1>13, <1>14, <2>4, <2>5, <3>1, LiveGreets
  <2>7. LiveNow("none", c)'
    BY <1>7, <1>10, <2>1, <2>6 DEF LiveNow
  <2>8. TypesOK' /\ deleted' = FALSE
    BY <1>2, <1>7, <1>10, <2>1, <2>4 DEF TypesOK
  <2>9. StackIs(stack', "none", 0, 0, c)
    BY <2>1, <2>5
  <2> QED
    BY <1>5, <2>5, <2>7, <2>8, <2>9, Resumes
<1>15. CASE St[n] # "INITIALIZING"
  <2>1. /\ failure_count' = [failure_count EXCEPT ![n] = 0] /\ stack' = At("read", n)
        /\ sxe' = [sxe EXCEPT ![x] = Read(sxe[x])]
        /\ pending' = IF sxe[x].due - 1 = 0 THEN pending \ {user_data[n]} ELSE pending
    <3>1. PICK t : t = [sxe[x] EXCEPT !.due = @ - 1, !.used = @ + 1]
      OBVIOUS
    <3>2. t.due = sxe[x].due - 1
      BY <1>8, <3>1 DEF Sxe
    <3>3. /\ failure_count' = [failure_count EXCEPT ![n] = 0] /\ stack' = At("read", n)
          /\ sxe' = [sxe EXCEPT ![x] = [t EXCEPT !.user = THEIRS, !.used = IF t.due = 0 THEN 0 ELSE @]]
          /\ pending' = IF t.due = 0 THEN pending \ {user_data[n]} ELSE pending
      BY <1>4, <1>11, <1>15, <3>1 DEF sxe_pool_tcp_event_read
    <3>4. Read(sxe[x]) = [t EXCEPT !.user = THEIRS, !.used = IF t.due = 0 THEN 0 ELSE @]
      BY <3>1 DEF Read
    <3> QED
      BY <3>2, <3>3, <3>4
  <2>2. St[n] = "IN_USE"
    BY <1>1, <1>6, <1>11, <1>15 DEF Linked, States
  <2>3. v.due > 0 /\ v.used + v.due <= MaxSegments
    BY <1>1, <1>6, <1>8, <2>2 DEF Linked
  <2>4. PICK w \in Sxe : /\ w = Read(v) /\ w.status = v.status /\ w.user = THEIRS /\ w.asked = v.asked
                         /\ w.due = v.due - 1 /\ w.used = IF v.due - 1 = 0 THEN 0 ELSE v.used + 1
    BY <2>3, ReadIs
  <2>5. sxe' \in [Sxes -> Sxe] /\ sxe'[x] = w /\ But(Sxes, sxe, sxe', x)
    <3>1. sxe' = [sxe EXCEPT ![x] = w]
      BY <1>8, <2>1, <2>4
    <3> QED
      BY <1>9, <3>1, Replaced
  <2>6. failure_count' \in [Nodes -> 0 .. FailureMax] /\ failure_count'[n] = 0 /\ But(Nodes, failure_count, failure_count', n)
    <3>1. 0 \in 0 .. FailureMax
      BY LimitsAssumption
    <3> QED
      BY <1>6, <1>9, <2>1, <3>1, Replaced
  <2>7. PICK c \in Bases : c.at = "read" /\ c.of = n /\ StackIs(At("read", n), "none", 0, 0, c)
    BY <1>12, BaseBegins
  <2>8. Live(St, node_sxe, user_data, failure_count', sxe', free, pending', queued, "none", c, kind.is_spawn)
    <3>1. /\ sxe[x].due \in Nat /\ sxe[x].used \in Nat /\ sxe[x].due > 0
          /\ sxe'[x].status = sxe[x].status /\ sxe'[x].user = THEIRS /\ sxe'[x].asked = sxe[x].asked
          /\ sxe'[x].due = sxe[x].due - 1 /\ sxe'[x].used = IF sxe[x].due - 1 = 0 THEN 0 ELSE sxe[x].used + 1
      BY <1>8, <2>3, <2>4, <2>5, ReadIs
    <3>2. pending' = IF sxe[x].due - 1 = 0 THEN pending \ {user_data[n]} ELSE pending
      BY <2>1
    <3> QED
      BY <1>5, <1>6, <1>13, <2>2, <2>5, <2>6, <2>7, <3>1, <3>2, LiveReads
  <2>9. LiveNow("none", c)'
    BY <1>7, <1>10, <2>8 DEF LiveNow
  <2>10. TypesOK' /\ deleted' = FALSE
    <3>1. pending' \subseteq Requests
      BY <1>9, <2>1
    <3> QED
      BY <1>2, <1>7, <1>10, <2>5, <2>6, <3>1 DEF TypesOK
  <2>11. StackIs(stack', "none", 0, 0, c)
    BY <2>1, <2>7
  <2> QED
    BY <1>5, <2>7, <2>9, <2>10, <2>11, Resumes
<1> QED
  BY <1>14, <1>15

LEMMA ReadReturnsKeeps == ASSUME TcpInv, ReadReturns PROVE TcpInv'
<1>1. Doing("read") /\ Running
  BY DEF ReadReturns, Doing
<1>2. TypesOK /\ deleted = FALSE
  BY <1>1, Begins
<1>3. PICK p, k, m, b : Holds(p, k, m, b)
  BY <1>1, Begins
<1>4. p = "none" /\ b.at = "read" /\ Of = b.of /\ StackIs(Rest, "none", 0, 0, NoBase)
  <2>1. "read" \in Bottoms
    BY DEF Bottoms
  <2> QED
    BY <1>1, <1>3, <2>1, StackSays DEF Holds
<1>5. PICK n : n = Of
  OBVIOUS
<1>6. Live(St, node_sxe, user_data, failure_count, sxe, free, pending, queued, "none", b, kind.is_spawn)
  BY <1>3, <1>4 DEF Holds, LiveNow
<1>7. n \in Nodes /\ St[n] = "IN_USE"
  BY <1>4, <1>5, <1>6 DEF Live, BaseOK
<1>8. PICK x \in Sxes : x = node_sxe[n]
  BY <1>6, <1>7 DEF Live, LinksOK
<1>9. PICK v \in Sxe : v = sxe[x]
  BY <1>2 DEF TypesOK
<1>10. PICK w \in Sxe : w = Uses(v, n) /\ w.status = v.status /\ w.user = n /\ w.asked = v.asked /\ w.due = v.due /\ w.used = v.used
  BY <1>7, UsesIs
<1>11. sxe' \in [Sxes -> Sxe] /\ sxe'[x] = w /\ But(Sxes, sxe, sxe', x)
  <2>1. sxe' = UsesOn(sxe, x, n)
    BY <1>5, <1>8 DEF ReadReturns, UsesOn
  <2>2. UsesOn(sxe, x, n) = [sxe EXCEPT ![x] = Uses(sxe[x], n)]
    BY DEF UsesOn, Uses
  <2>3. sxe \in [Sxes -> Sxe] /\ sxe' = [sxe EXCEPT ![x] = w]
    BY <1>2, <1>9, <1>10, <2>1, <2>2 DEF TypesOK
  <2> QED
    BY <2>3, Replaced
<1>12. UNCHANGED <<failure_count, node_sxe, user_data, kind, queued, free, pending, deleted>>
  BY DEF ReadReturns
<1>13. /\ sxe'[x].status = sxe[x].status /\ sxe'[x].user = n /\ sxe'[x].asked = sxe[x].asked
       /\ sxe'[x].due = sxe[x].due /\ sxe'[x].used = sxe[x].used
  BY <1>9, <1>10, <1>11
<1>14. queued \in Nat /\ QueuesOK(queue) /\ 0 \in Nat
  BY <1>2 DEF TypesOK
<1>15. CASE sxe[x].used # 0
  <2>1. stack' = Rest /\ queue' = queue /\ aborted' = aborted
    BY <1>5, <1>8, <1>15 DEF ReadReturns
  <2>2. QueuesOK(queue)' /\ St' = St
    BY <1>14, <2>1, StateStays
  <2>3. Live(St, node_sxe, user_data, failure_count, sxe', free, pending, queued, "none", NoBase, kind.is_spawn)
    <3>1. But(Nodes, St, St, n)
      BY DEF But
    <3> QED
      BY <1>4, <1>5, <1>6, <1>8, <1>11, <1>13, <1>14, <1>15, <3>1, NoBaseIs, LiveReadReturns
  <2>4. LiveNow("none", NoBase)'
    BY <1>12, <2>2, <2>3 DEF LiveNow
  <2>5. TypesOK' /\ deleted' = FALSE
    BY <1>2, <1>11, <1>12, <2>1, <2>2 DEF TypesOK
  <2>6. "none" \in Prefixes /\ StackIs(stack', "none", 0, 0, NoBase)
    BY <1>4, <2>1 DEF Prefixes
  <2> QED
    BY <1>14, <2>4, <2>5, <2>6, NoBaseIs, Resumes
<1>16. CASE sxe[x].used = 0
  <2>1. Set(n, "IN_USE", "READY_TO_SEND") /\ stack' = At("dispatch", 0) \o At("assert", n) \o Rest
    BY <1>5, <1>8, <1>16 DEF ReadReturns
  <2>2. aborted' = FALSE /\ QueuesOK(queue)' /\ St'[n] = "READY_TO_SEND" /\ But(Nodes, St, St', n)
    <3>1. "IN_USE" \in States /\ "READY_TO_SEND" \in States
      BY DEF States
    <3> QED
      BY <1>7, <1>14, <2>1, <3>1, SetMoves
  <2>3. PICK c : c = [at |-> "assert", of |-> n]
    OBVIOUS
  <2>4. c \in Bases /\ c.at = "assert" /\ c.of = n
    BY <1>7, <2>3, NotNodes DEF Bases
  <2>5. Live(St', node_sxe, user_data, failure_count, sxe', free, pending, queued, "dispatch", c, kind.is_spawn)
    BY <1>4, <1>5, <1>6, <1>8, <1>11, <1>13, <1>14, <1>16, <2>2, <2>4, LiveReadReturns
  <2>6. LiveNow("dispatch", c)'
    BY <1>12, <2>5 DEF LiveNow
  <2>7. TypesOK' /\ deleted' = FALSE
    BY <1>2, <1>11, <1>12, <2>2 DEF TypesOK
  <2>8. StackIs(stack', "dispatch", 0, 0, c)
    <3>1. Rest = <<>>
      BY <1>4, <1>14, NoBaseIs, StackTops DEF Prefixes
    <3>2. Base(c) = At("assert", n) /\ Base(c) \in Seq(Frame)
      BY <2>4, BaseFrames DEF Base
    <3>3. stack' = At("dispatch", 0) \o Base(c)
      <4>1. PICK s : s = Base(c) /\ s \in Seq(Frame)
        BY <3>2
      <4>2. PICK d : d = At("dispatch", 0) /\ d \in Seq(Frame)
        <5>1. PICK f \in Frame : f = [at |-> "dispatch", of |-> 0]
          BY <1>14, FrameOf
        <5>2. <<f>> \in Seq(Frame)
          OBVIOUS
        <5>3. At("dispatch", 0) = <<f>>
          BY <5>1 DEF At
        <5> QED
          BY <5>2, <5>3
      <4>3. d \o s \in Seq(Frame)
        BY <4>1, <4>2, ConcatProperties
      <4>4. (d \o s) \o <<>> = d \o s
        BY <4>3
      <4>5. d \o (s \o <<>>) = d \o s
        BY <4>1
      <4> QED
        BY <2>1, <3>1, <3>2, <4>1, <4>2, <4>4, <4>5
    <3> QED
      BY <1>14, <2>4, <3>3, StackBegins, StackPushes
  <2> QED
    BY <1>14, <2>4, <2>6, <2>7, <2>8, Resumes DEF Prefixes
<1> QED
  BY <1>15, <1>16

LEMMA AssertsKeeps == ASSUME TcpInv, ReadAsserts PROVE TcpInv'
<1>1. Doing("assert") /\ Running /\ stack' = Rest /\ queue' = queue /\ queued' = queued
  BY DEF ReadAsserts, Doing, pool
<1>2. TypesOK /\ deleted = FALSE
  BY <1>1, Begins
<1>3. PICK p, k, m, b : Holds(p, k, m, b)
  BY <1>1, Begins
<1>4. p = "none" /\ b.at = "assert" /\ Of = b.of /\ StackIs(Rest, "none", 0, 0, NoBase)
  <2>1. "assert" \in Bottoms
    BY DEF Bottoms
  <2> QED
    BY <1>1, <1>3, <2>1, StackSays DEF Holds
<1>5. b.of \in Nodes /\ St[b.of] # "UNCONNECTED" /\ ReadyOK(St, queued, "none")
  BY <1>3, <1>4 DEF Holds, LiveNow, Live, BaseOK
<1>6. Of \notin Seqs!ToSet(queue["UNCONNECTED"])
  <2>1. "UNCONNECTED" \in States
    BY DEF States
  <2> QED
    BY <1>2, <1>4, <1>5, <2>1, QueueHolds DEF TypesOK
<1>7. Still
  <2>1. QueuesOK(queue)' /\ St' = St
    BY <1>1, <1>2, StateStays DEF TypesOK
  <2>2. aborted' = aborted
    <3>1. (Of \in Seqs!ToSet(queue["UNCONNECTED"])) = FALSE
      BY <1>6
    <3>5. aborted' = FALSE
      BY <3>1 DEF ReadAsserts
    <3>3. aborted = FALSE
      BY <1>2 DEF TypesOK
    <3> QED
      BY <3>3, <3>5
  <2> QED
    BY <2>1, <2>2 DEF Still, ReadAsserts, pool
<1>8. b.at \in Plain /\ NoBase.at \in Plain /\ BaseOK(St, node_sxe, sxe, NoBase) /\ "none" \in Prefixes /\ 0 \in Nat
  BY <1>4, NoBaseIs DEF Plain, BaseOK, Prefixes
<1> QED
  BY <1>1, <1>2, <1>3, <1>4, <1>5, <1>7, <1>8, NoBaseIs, RebasedResumes

LEMMA CallbackKeeps == ASSUME TcpInv, CallbackReturns PROVE TcpInv'
<1>1. /\ Doing("connected") \/ Doing("init") \/ Doing("app")
      /\ Running /\ stack' = Rest /\ queue' = queue /\ queued' = queued
      /\ aborted' = (Head(stack).at # "app" /\ sxe[Of].user \notin Nodes)
  BY DEF CallbackReturns, Doing, pool
<1>2. TypesOK /\ deleted = FALSE
  BY <1>1, Begins
<1>3. PICK p, k, m, b : Holds(p, k, m, b)
  BY <1>1, Begins
<1>4. QueuesOK(queue)' /\ St' = St /\ UNCHANGED <<failure_count, node_sxe, user_data, kind, free, sxe, pending, deleted>>
  <2>1. QueuesOK(queue)' /\ St' = St
    BY <1>1, <1>2, StateStays DEF TypesOK
  <2> QED
    BY <2>1 DEF CallbackReturns, pool
<1>5. "none" \in Prefixes /\ 0 \in Nat /\ queued \in Nat
  BY <1>2 DEF Prefixes, TypesOK
<1>6. CASE Doing("app")
  <2>1. p = "none" /\ m # 0 /\ m \in Nat /\ StackIs(Rest, "none", 0, m - 1, b) /\ ReadyOK(St, queued, "none")
    BY <1>3, <1>6, StackSays DEF Holds, LiveNow, Live
  <2>2. aborted' = aborted
    BY <1>1, <1>2, <1>6 DEF Doing, TypesOK
  <2>3. Still
    BY <1>4, <2>2 DEF Still
  <2>4. PICK j \in Nat : j = m - 1
    BY <2>1
  <2>5. RampApart("none", b)
    BY DEF RampApart
  <2> QED
    BY <1>1, <1>2, <1>3, <1>5, <2>1, <2>3, <2>4, <2>5, SameResumes
<1>7. CASE Doing("connected") \/ Doing("init")
  <2>1. p = "none" /\ b.at \in {"connected", "init"} /\ Of = b.of /\ StackIs(Rest, "none", 0, 0, NoBase)
    <3>1. "connected" \in Bottoms /\ "init" \in Bottoms
      BY DEF Bottoms
    <3> QED
      BY <1>3, <1>7, <3>1, StackSays DEF Holds
  <2>2. ReadyOK(St, queued, "none") /\ Owns(St, node_sxe, b.of) /\ LinksOK(St, node_sxe, user_data, failure_count, sxe, b, kind.is_spawn)
    BY <1>3, <2>1 DEF Holds, LiveNow, Live, BaseOK
  <2>3. PICK n \in Nodes : St[n] # "UNCONNECTED" /\ node_sxe[n] = b.of
    BY <2>2 DEF Owns
  <2>4. sxe[b.of].user = n
    BY <2>1, <2>2, <2>3 DEF LinksOK, Linked
  <2>5. Still
    BY <1>1, <1>2, <1>4, <2>1, <2>4 DEF Still, TypesOK
  <2>6. b.at \in Plain /\ NoBase.at \in Plain /\ BaseOK(St, node_sxe, sxe, NoBase)
    BY <2>1, NoBaseIs DEF Plain, BaseOK
  <2> QED
    BY <1>1, <1>2, <1>3, <1>5, <2>1, <2>2, <2>5, <2>6, NoBaseIs, RebasedResumes
<1> QED
  BY <1>1, <1>6, <1>7

LEMMA OverdueKeeps == ASSUME TcpInv, NEW n \in Nodes, sxe_pool_tcp_event_read_timeout(n) PROVE TcpInv'
<1>1. Running /\ stack = <<>> /\ stack' = At("timeout", n) /\ queue' = queue /\ queued' = queued
  BY DEF sxe_pool_tcp_event_read_timeout, InLoop, pool
<1>2. TypesOK /\ deleted = FALSE
  BY <1>1, Begins
<1>3. PICK p, k, m, b : Holds(p, k, m, b)
  BY <1>1, Begins
<1>4. p = "none" /\ b.at = "none" /\ ReadyOK(St, queued, "none")
  BY <1>1, <1>3, StackSays DEF Holds, LiveNow, Live
<1>5. Still
  <2>1. QueuesOK(queue)' /\ St' = St
    BY <1>1, <1>2, StateStays DEF TypesOK
  <2> QED
    BY <2>1 DEF Still, sxe_pool_tcp_event_read_timeout, pool
<1>6. St[n] # "UNCONNECTED"
  <2>1. PICK s \in TimedStates : queue[s] # <<>> /\ Head(queue[s]) = n
    BY DEF sxe_pool_tcp_event_read_timeout
  <2>2. s \in States /\ s # "UNCONNECTED"
    BY DEF TimedStates, States
  <2> QED
    BY <1>2, <2>1, <2>2, HeadState DEF TypesOK, St
<1>7. PICK c \in Bases : c.at = "timeout" /\ c.of = n /\ StackIs(At("timeout", n), "none", 0, 0, c)
  BY NotNodes, BaseBegins
<1>8. b.at \in Plain /\ c.at \in Plain /\ BaseOK(St, node_sxe, sxe, c) /\ "none" \in Prefixes /\ 0 \in Nat
  BY <1>4, <1>6, <1>7 DEF Plain, BaseOK, Prefixes
<1> QED
  BY <1>1, <1>2, <1>3, <1>4, <1>5, <1>7, <1>8, RebasedResumes

\* The close event of an SXE that is a node's, up to the application's callback.
LEMMA EventCloses ==
    ASSUME TypesOK, NEW x \in Sxes, NEW n \in Nodes, NEW sx, sx[x].user = n, St[n] # "UNCONNECTED",
           St[n] = "CONNECTING" \/ ~kind.is_spawn => failure_count[n] < FailureMax, EventClose(x, sx)
    PROVE  /\ aborted' = FALSE /\ QueuesOK(queue)' /\ St'[n] = "UNCONNECTED" /\ But(Nodes, St, St', n)
           /\ failure_count' \in [Nodes -> 0 .. FailureMax] /\ But(Nodes, failure_count, failure_count', n)
           /\ pending' = IF St[n] = "IN_USE" THEN pending \ {user_data[n]} ELSE pending
           /\ pending' \subseteq Requests
           /\ sxe' = UsesOn(sx, x, THEIRS)
           /\ UNCHANGED <<node_sxe, user_data, kind, queued, deleted>>
<1>1. PICK fc : fc = [failure_count EXCEPT ![n] = failure_count[n] + 1]
  OBVIOUS
<1>2. PICK old : old = StateOf(n) /\ old = St[n]
  BY DEF St
<1>3. /\ aborted' = (old = "UNCONNECTED")
      /\ failure_count' = IF ~kind.is_spawn \/ old = "CONNECTING" THEN fc ELSE failure_count
      /\ queue' = Moved(queue, n, old, "UNCONNECTED")
      /\ pending' = IF old = "IN_USE" THEN pending \ {user_data[n]} ELSE pending
      /\ UNCHANGED <<node_sxe, user_data, kind, queued, deleted>>
  BY <1>1, <1>2 DEF EventClose
<1>4. sxe' = UsesOn(sx, x, THEIRS)
  BY DEF EventClose, UsesOn
<1>5. QueuesOK(queue) /\ failure_count \in [Nodes -> 0 .. FailureMax] /\ pending \subseteq Requests
  BY DEF TypesOK
<1>6. QueuesOK(queue)' /\ St'[n] = "UNCONNECTED" /\ But(Nodes, St, St', n)
  <2>1. "UNCONNECTED" \in States
    BY DEF States
  <2> QED
    BY <1>2, <1>3, <1>5, <2>1, Moves
<1>7. failure_count' \in [Nodes -> 0 .. FailureMax] /\ But(Nodes, failure_count, failure_count', n)
  <2>1. CASE ~kind.is_spawn \/ old = "CONNECTING"
    <3>1. failure_count[n] + 1 \in 0 .. FailureMax
      BY <1>2, <1>5, <2>1, LimitsAssumption
    <3>2. PICK more \in 0 .. FailureMax : more = failure_count[n] + 1
      BY <3>1
    <3>3. failure_count' = [failure_count EXCEPT ![n] = more]
      BY <1>1, <1>3, <2>1, <3>2
    <3>4. PICK T : T = 0 .. FailureMax
      OBVIOUS
    <3>5. failure_count \in [Nodes -> T] /\ more \in T /\ n \in Nodes
      BY <1>5, <3>2, <3>4
    <3>6. failure_count' \in [Nodes -> T] /\ But(Nodes, failure_count, failure_count', n)
      BY ONLY <3>3, <3>5, Replaced
    <3> QED
      BY <3>4, <3>6
  <2>2. CASE ~(~kind.is_spawn \/ old = "CONNECTING")
    BY <1>3, <1>5, <2>2 DEF But
  <2> QED
    BY <2>1, <2>2
<1>8. aborted' = FALSE
  BY <1>2, <1>3
<1> QED
  BY <1>2, <1>3, <1>4, <1>5, <1>6, <1>7, <1>8

LEMMA RefusedKeeps == ASSUME TcpInv, NEW x \in Sxes, Refused(x) PROVE TcpInv'
<1>1. /\ Running /\ stack = <<>> /\ sxe[x].status = "connecting" /\ free' = free
      /\ stack' = At("closed", x) \o At("close", x) /\ EventClose(x, sxe)
  BY DEF Refused, InLoop
<1>2. TypesOK /\ deleted = FALSE
  BY <1>1, Begins
<1>3. PICK p, k, m, b : Holds(p, k, m, b)
  BY <1>1, Begins
<1>4. PICK n : n = sxe[x].user
  OBVIOUS
<1>5. p = "none" /\ b.at = "none" /\ LiveNow("none", b) /\ k \in Nat /\ 0 \in Nat
  BY <1>1, <1>3, StackSays DEF Holds
<1>6. n \in Nodes /\ St[n] # "UNCONNECTED" /\ node_sxe[n] = x /\ Linked(n, St[n], sxe[x], failure_count[n], user_data[n], b, kind.is_spawn)
  BY <1>1, <1>3, <1>4, <1>5, UserOwns
<1>7. St[n] = "CONNECTING" /\ failure_count[n] < FailureMax
  BY <1>1, <1>6 DEF Linked
<1>8. /\ aborted' = FALSE /\ QueuesOK(queue)' /\ St'[n] = "UNCONNECTED" /\ But(Nodes, St, St', n)
      /\ failure_count' \in [Nodes -> 0 .. FailureMax] /\ But(Nodes, failure_count, failure_count', n)
      /\ pending' = pending
      /\ sxe' = UsesOn(sxe, x, THEIRS)
      /\ UNCHANGED <<node_sxe, user_data, kind, queued, deleted>>
  BY <1>1, <1>2, <1>4, <1>6, <1>7, EventCloses
<1>9. PICK v \in Sxe : v = sxe[x]
  BY <1>2 DEF TypesOK
<1>10. PICK w \in Sxe : w = Uses(v, THEIRS) /\ w.status = v.status
  BY <1>9, UsesIs
<1>11. sxe' \in [Sxes -> Sxe] /\ sxe'[x] = w /\ But(Sxes, sxe, sxe', x)
  <2>1. UsesOn(sxe, x, THEIRS) = [sxe EXCEPT ![x] = Uses(sxe[x], THEIRS)]
    BY DEF UsesOn, Uses
  <2>2. sxe \in [Sxes -> Sxe] /\ sxe' = [sxe EXCEPT ![x] = w]
    BY <1>2, <1>8, <1>9, <1>10, <2>1 DEF TypesOK
  <2> QED
    BY <2>2, Replaced
<1>12. PICK c : c = [at |-> "refused", of |-> x]
  OBVIOUS
<1>13. c \in Bases /\ c.at = "refused" /\ c.of = x
  BY <1>12, NotNodes DEF Bases
<1>14. Live(St', node_sxe, user_data, failure_count', sxe', free, pending, queued, "none", c, kind.is_spawn)
  <2>1. Live(St, node_sxe, user_data, failure_count, sxe, free, pending, queued, "none", b, kind.is_spawn)
    BY <1>5 DEF LiveNow
  <2>2. sxe'[x].status = sxe[x].status
    BY <1>9, <1>10, <1>11
  <2> QED
    BY <1>1, <1>5, <1>6, <1>7, <1>8, <1>11, <1>13, <2>1, <2>2, LiveRefuses
<1>15. LiveNow("none", c)'
  BY <1>1, <1>8, <1>14 DEF LiveNow
<1>16. TypesOK' /\ deleted' = FALSE
  BY <1>1, <1>2, <1>8, <1>11 DEF TypesOK
<1>17. StackIs(stack', "none", 0, 0, c)
  <2>1. Base(c) = At("closed", x) \o At("close", x)
    BY <1>13 DEF Base
  <2> QED
    BY <1>1, <1>13, <2>1, StackBegins
<1> QED
  BY <1>5, <1>13, <1>15, <1>16, <1>17, Resumes DEF Prefixes

LEMMA ClosedIs == ASSUME NEW x PROVE Closed(x) = Fresh("free", sxe[x].user)
<1>1. PICK u : u = sxe[x].user
  OBVIOUS
<1>2. PICK v : v = [FreeSxe EXCEPT !.user = u]
  OBVIOUS
<1>3. v = [status |-> "free", user |-> u, asked |-> "none", due |-> 0, used |-> 0]
  BY <1>2 DEF FreeSxe
<1>4. PICK w : w = Fresh("free", u)
  OBVIOUS
<1>5. w = [status |-> "free", user |-> u, asked |-> "none", due |-> 0, used |-> 0]
  BY <1>4 DEF Fresh, FreeSxe
<1> QED
  BY <1>1, <1>2, <1>3, <1>4, <1>5 DEF Closed

\* An SXE is closed before its close event.
LEMMA ClosesResumes ==
    ASSUME TypesOK, deleted = FALSE, NEW k, NEW m, NEW b, Holds("none", k, m, b), b.at \in {"none", "timeout"},
           NEW x \in Sxes, NEW n \in Nodes, St[n] # "UNCONNECTED", node_sxe[n] = x,
           EventClose(x, [sxe EXCEPT ![x] = Closed(x)]), free' = Append(free, x), stack' = At("closed", x)
    PROVE  TcpInv'
<1>1. Live(St, node_sxe, user_data, failure_count, sxe, free, pending, queued, "none", b, kind.is_spawn)
  BY DEF Holds, LiveNow
<1>2. Linked(n, St[n], sxe[x], failure_count[n], user_data[n], b, kind.is_spawn)
  BY <1>1 DEF Live, LinksOK
<1>3. sxe[x].user = n /\ (St[n] = "CONNECTING" \/ ~kind.is_spawn => failure_count[n] < FailureMax) /\ sxe[x].status # "free"
  BY <1>2 DEF Linked
<1>4. PICK v \in Sxe : v = Closed(x) /\ v.user = n /\ v.status = "free"
  BY <1>3, ClosedIs, FreshSxe
<1>5. sxe \in [Sxes -> Sxe] /\ free \in Seq(Sxes) /\ queued \in Nat /\ QueuesOK(queue) /\ 0 \in Nat
  BY DEF TypesOK
<1>6. PICK sx : sx = [sxe EXCEPT ![x] = v]
  OBVIOUS
<1>7. sx \in [Sxes -> Sxe] /\ sx[x] = v /\ But(Sxes, sxe, sx, x)
  BY ONLY <1>4, <1>5, <1>6, x \in Sxes, Replaced
<1>8. EventClose(x, sx)
  BY <1>4, <1>6
<1>9. /\ aborted' = FALSE /\ QueuesOK(queue)' /\ St'[n] = "UNCONNECTED" /\ But(Nodes, St, St', n)
      /\ failure_count' \in [Nodes -> 0 .. FailureMax] /\ But(Nodes, failure_count, failure_count', n)
      /\ pending' = IF St[n] = "IN_USE" THEN pending \ {user_data[n]} ELSE pending
      /\ pending' \subseteq Requests
      /\ sxe' = UsesOn(sx, x, THEIRS)
      /\ UNCHANGED <<node_sxe, user_data, kind, queued, deleted>>
  BY <1>3, <1>4, <1>7, <1>8, EventCloses
<1>10. PICK w \in Sxe : w = Uses(v, THEIRS) /\ w.status = "free"
  BY <1>4, UsesIs
<1>11. sxe' \in [Sxes -> Sxe] /\ sxe'[x] = w /\ But(Sxes, sxe, sxe', x)
  <2>1. UsesOn(sx, x, THEIRS) = [sx EXCEPT ![x] = Uses(sx[x], THEIRS)]
    BY DEF UsesOn, Uses
  <2>2. sxe' = [sx EXCEPT ![x] = w]
    BY <1>7, <1>9, <1>10, <2>1
  <2>3. sxe' \in [Sxes -> Sxe] /\ sxe'[x] = w /\ But(Sxes, sx, sxe', x)
    BY ONLY <1>7, <1>10, <2>2, x \in Sxes, Replaced
  <2> QED
    BY <1>7, <2>3 DEF But
<1>12. PICK c \in Bases : c.at = "closed" /\ c.of = x /\ StackIs(At("closed", x), "none", 0, 0, c)
  BY NotNodes, BaseBegins
<1>13. Live(St', node_sxe, user_data, failure_count', sxe', Append(free, x), pending', queued, "none", c, kind.is_spawn)
  <2>1. sxe'[x].status = "free"
    BY <1>10, <1>11
  <2>2. PICK st2 : st2 = St'
    OBVIOUS
  <2>3. PICK fc2 : fc2 = failure_count'
    OBVIOUS
  <2>4. PICK sx2 : sx2 = sxe'
    OBVIOUS
  <2>5. PICK pd2 : pd2 = pending'
    OBVIOUS
  <2>6. /\ But(Nodes, St, st2, n) /\ st2[n] = "UNCONNECTED" /\ But(Nodes, failure_count, fc2, n)
        /\ But(Sxes, sxe, sx2, x) /\ sx2[x].status = "free"
        /\ pd2 = Dropped(St[n], user_data[n], pending)
    BY <1>9, <1>11, <2>1, <2>2, <2>3, <2>4, <2>5 DEF Dropped
  <2>7. x = node_sxe[n] /\ n \in Nodes /\ St[n] # "UNCONNECTED" /\ b.at \in {"none", "timeout"} /\ c.at = "closed" /\ c.of = x
    BY <1>12
  <2>8. PICK fr2 : fr2 = Append(free, x)
    OBVIOUS
  <2>9. Live(st2, node_sxe, user_data, fc2, sx2, fr2, pd2, queued, "none", c, kind.is_spawn)
    BY ONLY <1>1, <1>5, <2>6, <2>7, <2>8, LiveCloses
  <2> QED
    BY <2>2, <2>3, <2>4, <2>5, <2>8, <2>9
<1>14. LiveNow("none", c)'
  BY <1>9, <1>13 DEF LiveNow
<1>15. TypesOK' /\ deleted' = FALSE
  <2>1. Append(free, x) \in Seq(Sxes)
    BY <1>5
  <2> QED
    BY <1>9, <1>11, <2>1 DEF TypesOK
<1> QED
  BY <1>5, <1>12, <1>14, <1>15, Resumes DEF Prefixes

LEMMA DisconnectedKeeps == ASSUME TcpInv, NEW x \in Sxes, Disconnected(x) PROVE TcpInv'
<1>1. /\ Running /\ stack = <<>> /\ sxe[x].status = "connected"
      /\ EventClose(x, [sxe EXCEPT ![x] = Closed(x)]) /\ free' = Append(free, x) /\ stack' = At("closed", x)
  BY DEF Disconnected, InLoop
<1>2. TypesOK /\ deleted = FALSE
  BY <1>1, Begins
<1>3. PICK p, k, m, b : Holds(p, k, m, b)
  BY <1>1, Begins
<1>4. p = "none" /\ b.at = "none" /\ k \in Nat
  BY <1>1, <1>3, StackSays DEF Holds
<1>5. PICK n : n = sxe[x].user
  OBVIOUS
<1>6. n \in Nodes /\ St[n] # "UNCONNECTED" /\ node_sxe[n] = x
  BY <1>1, <1>3, <1>4, <1>5, UserOwns
<1> QED
  BY <1>1, <1>2, <1>3, <1>4, <1>6, ClosesResumes

LEMMA TimeoutReturnsKeeps == ASSUME TcpInv, TimeoutReturns PROVE TcpInv'
<1>1. Doing("timeout") /\ Running
  BY DEF TimeoutReturns, Doing
<1>2. TypesOK /\ deleted = FALSE
  BY <1>1, Begins
<1>3. PICK p, k, m, b : Holds(p, k, m, b)
  BY <1>1, Begins
<1>4. p = "none" /\ b.at = "timeout" /\ Of = b.of /\ StackIs(Rest, "none", 0, 0, NoBase)
  <2>1. "timeout" \in Bottoms
    BY DEF Bottoms
  <2> QED
    BY <1>1, <1>3, <2>1, StackSays DEF Holds
<1>5. PICK n : n = Of
  OBVIOUS
<1>6. n \in Nodes /\ St[n] # "UNCONNECTED"
  BY <1>3, <1>4, <1>5 DEF Holds, LiveNow, Live, BaseOK
<1>7. PICK x : x = node_sxe[n]
  OBVIOUS
<1>8. x \in Sxes /\ sxe[x].status # "free"
  BY <1>3, <1>6, <1>7 DEF Holds, LiveNow, Live, LinksOK, Linked
<1>9. EventClose(x, [sxe EXCEPT ![x] = Closed(x)]) /\ free' = Append(free, x) /\ stack' = At("closed", x) \o Rest
  BY <1>5, <1>7, <1>8 DEF TimeoutReturns
<1>10. stack' = At("closed", x)
  <2>1. Rest = <<>>
    <3>1. 0 \in Nat
      OBVIOUS
    <3> QED
      BY <1>4, <3>1, NoBaseIs, StackTops DEF Prefixes
  <2>2. PICK s : s = At("closed", x) /\ s \in Seq(Frame)
    <3>1. PICK f \in Frame : f = [at |-> "closed", of |-> x]
      BY <1>8, NotNodes, FrameOf
    <3>2. <<f>> \in Seq(Frame)
      OBVIOUS
    <3> QED
      BY <3>1, <3>2 DEF At
  <2>3. s \o <<>> = s
    BY <2>2
  <2> QED
    BY <1>9, <2>1, <2>2, <2>3
<1> QED
  BY <1>2, <1>3, <1>4, <1>6, <1>7, <1>8, <1>9, <1>10, ClosesResumes

LEMMA CloseReturnsKeeps == ASSUME TcpInv, CloseReturns PROVE TcpInv'
<1>1. /\ Doing("closed") /\ Running /\ stack' = At("ramp", ConnectionRamp) \o Rest /\ sxe' = UsesOn(sxe, Of, NULL)
      /\ queue' = queue /\ UNCHANGED <<failure_count, node_sxe, user_data, kind, queued, free, pending, deleted, aborted>>
  BY DEF CloseReturns, Doing, UsesOn, pool
<1>2. TypesOK /\ deleted = FALSE
  BY <1>1, Begins
<1>3. PICK p, k, m, b : Holds(p, k, m, b)
  BY <1>1, Begins
<1>4. /\ p = "none" /\ Of = b.of
      /\ \/ b.at = "closed" /\ StackIs(Rest, "none", 0, 0, NoBase)
         \/ b.at = "refused" /\ StackIs(Rest, "none", 0, 0, [at |-> "close", of |-> b.of])
  <2>1. "closed" \in Bottoms
    BY DEF Bottoms
  <2> QED
    BY <1>1, <1>3, <2>1, StackSays DEF Holds
<1>5. Live(St, node_sxe, user_data, failure_count, sxe, free, pending, queued, "none", b, kind.is_spawn)
  BY <1>3, <1>4 DEF Holds, LiveNow
<1>6. PICK x \in Sxes : x = b.of
  BY <1>4, <1>5 DEF Live, BaseOK
<1>7. PICK c \in Bases : /\ StackIs(Rest, "none", 0, 0, c)
                         /\ \/ b.at = "closed" /\ c.at = "none"
                            \/ b.at = "refused" /\ c.at = "close" /\ c.of = x
  <2>1. CASE b.at = "closed"
    <3>1. StackIs(Rest, "none", 0, 0, NoBase)
      BY <1>4, <2>1
    <3>2. PICK c : c = NoBase
      OBVIOUS
    <3>3. c \in Bases /\ c.at = "none" /\ StackIs(Rest, "none", 0, 0, c)
      BY <3>1, <3>2, NoBaseIs
    <3> QED
      BY ONLY <2>1, <3>3
  <2>2. CASE b.at = "refused"
    <3>1. PICK c : c = [at |-> "close", of |-> b.of]
      OBVIOUS
    <3>2. c \in Bases /\ c.at = "close" /\ c.of = x
      BY <1>6, <3>1, NotNodes DEF Bases
    <3> QED
      BY <1>4, <2>2, <3>1, <3>2
  <2> QED
    BY <1>4, <2>1, <2>2
<1>8. PICK v \in Sxe : v = sxe[x]
  BY <1>2 DEF TypesOK
<1>9. PICK w \in Sxe : w = Uses(v, NULL) /\ w.status = v.status
  BY <1>8, UsesIs
<1>10. sxe \in [Sxes -> Sxe] /\ free \in Seq(Sxes) /\ 0 \in Nat /\ QueuesOK(queue)
  BY <1>2 DEF TypesOK
<1>11. sxe' \in [Sxes -> Sxe] /\ sxe'[x] = w /\ But(Sxes, sxe, sxe', x)
  <2>1. UsesOn(sxe, x, NULL) = [sxe EXCEPT ![x] = Uses(sxe[x], NULL)]
    BY DEF UsesOn, Uses
  <2>2. sxe' = [sxe EXCEPT ![x] = w] /\ x \in Sxes
    BY <1>1, <1>4, <1>6, <1>8, <1>9, <2>1
  <2> QED
    BY ONLY <1>9, <1>10, <2>2, Replaced
<1>12. QueuesOK(queue)' /\ St' = St
  BY <1>1, <1>10, StateStays
<1>13. Live(St, node_sxe, user_data, failure_count, sxe', free, pending, queued, "ramp", c, kind.is_spawn)
  <2>1. sxe'[x].status = sxe[x].status
    BY <1>8, <1>9, <1>11
  <2>2. PICK sx2 : sx2 = sxe'
    OBVIOUS
  <2>3. But(Sxes, sxe, sx2, x) /\ sx2[x].status = sxe[x].status /\ x = b.of
    BY <1>6, <1>11, <2>1, <2>2
  <2>4. Live(St, node_sxe, user_data, failure_count, sx2, free, pending, queued, "ramp", c, kind.is_spawn)
    BY ONLY <1>5, <1>7, <1>10, <2>3, LiveCloseReturns
  <2> QED
    BY <2>2, <2>4
<1>14. LiveNow("ramp", c)'
  BY <1>1, <1>12, <1>13 DEF LiveNow
<1>15. TypesOK' /\ deleted' = FALSE
  BY <1>1, <1>2, <1>11, <1>12 DEF TypesOK
<1>16. ConnectionRamp \in Nat /\ "ramp" \in Prefixes
  BY LimitsAssumption DEF Prefixes
<1>17. StackIs(stack', "ramp", ConnectionRamp, 0, c)
  BY <1>1, <1>7, <1>10, <1>16, StackPushes
<1> QED
  BY <1>7, <1>10, <1>14, <1>15, <1>16, <1>17, Resumes

LEMMA CloseRefusedKeeps == ASSUME TcpInv, CloseRefused PROVE TcpInv'
<1>1. /\ Doing("close") /\ Running /\ stack' = Rest /\ sxe' = [sxe EXCEPT ![Of] = Closed(Of)] /\ free' = Append(free, Of)
      /\ queue' = queue /\ UNCHANGED <<failure_count, node_sxe, user_data, kind, queued, pending, deleted, aborted>>
  BY DEF CloseRefused, Doing, pool
<1>2. TypesOK /\ deleted = FALSE
  BY <1>1, Begins
<1>3. PICK p, k, m, b : Holds(p, k, m, b)
  BY <1>1, Begins
<1>4. p = "none" /\ b.at = "close" /\ Of = b.of /\ StackIs(Rest, "none", 0, 0, NoBase)
  <2>1. "close" \in Bottoms
    BY DEF Bottoms
  <2> QED
    BY <1>1, <1>3, <2>1, StackSays DEF Holds
<1>5. Live(St, node_sxe, user_data, failure_count, sxe, free, pending, queued, "none", b, kind.is_spawn)
  BY <1>3, <1>4 DEF Holds, LiveNow
<1>6. PICK x \in Sxes : x = b.of
  BY <1>4, <1>5 DEF Live, BaseOK
<1>7. sxe \in [Sxes -> Sxe] /\ free \in Seq(Sxes) /\ 0 \in Nat /\ QueuesOK(queue)
  BY <1>2 DEF TypesOK
<1>8. sxe[x].user \in Nodes \cup {NULL, THEIRS}
  BY <1>7 DEF Sxe
<1>9. PICK w \in Sxe : w = Closed(x) /\ w.status = "free"
  BY <1>8, ClosedIs, FreshSxe
<1>10. sxe' \in [Sxes -> Sxe] /\ sxe'[x] = w /\ But(Sxes, sxe, sxe', x)
  <2>1. sxe' = [sxe EXCEPT ![x] = w] /\ x \in Sxes
    BY <1>1, <1>4, <1>6, <1>9
  <2> QED
    BY ONLY <1>7, <1>9, <2>1, Replaced
<1>11. QueuesOK(queue)' /\ St' = St
  BY <1>1, <1>7, StateStays
<1>12. free' = Append(free, x) /\ free' \in Seq(Sxes)
  BY <1>1, <1>4, <1>6, <1>7
<1>13. Live(St, node_sxe, user_data, failure_count, sxe', free', pending, queued, "none", NoBase, kind.is_spawn)
  <2>1. PICK sx2 : sx2 = sxe'
    OBVIOUS
  <2>2. PICK fr2 : fr2 = free'
    OBVIOUS
  <2>3. But(Sxes, sxe, sx2, x) /\ sx2[x].status = "free" /\ x = b.of /\ fr2 = Append(free, x) /\ NoBase.at = "none" /\ b.at = "close"
    BY <1>4, <1>6, <1>9, <1>10, <1>12, <2>1, <2>2, NoBaseIs
  <2>4. Live(St, node_sxe, user_data, failure_count, sx2, fr2, pending, queued, "none", NoBase, kind.is_spawn)
    BY ONLY <1>5, <1>7, <2>3, LiveCloseReturns
  <2> QED
    BY <2>1, <2>2, <2>4
<1>14. LiveNow("none", NoBase)'
  BY <1>1, <1>11, <1>13 DEF LiveNow
<1>15. TypesOK' /\ deleted' = FALSE
  BY <1>1, <1>2, <1>10, <1>11, <1>12 DEF TypesOK
<1> QED
  BY <1>1, <1>4, <1>7, <1>14, <1>15, NoBaseIs, Resumes DEF Prefixes

LEMMA EmptySays == ASSUME NEW p, NEW k, NEW m, NEW b, Holds(p, k, m, b), stack = <<>> PROVE p = "none" /\ b.at = "none"
<1>1. p \in Prefixes /\ k \in Nat /\ m \in Nat /\ b \in Bases /\ StackIs(stack, p, k, m, b)
  BY DEF Holds
<1>2. stack = <<>> => p = "none" /\ m = 0 /\ b.at = "none"
  BY ONLY <1>1, StackSays
<1> QED
  BY <1>2

LEMMA DeleteKeeps == ASSUME TcpInv, sxe_pool_tcp_delete PROVE TcpInv'
<1>1. PICK open : open = {n \in Nodes : n \notin Seqs!ToSet(queue["UNCONNECTED"])}
  OBVIOUS
<1>2. /\ Running /\ stack = <<>> /\ stack' = <<>> /\ deleted' = TRUE /\ queue' = queue /\ queued' = 0 /\ pending' = {}
      /\ sxe' = [x \in Sxes |-> IF \E n \in open : node_sxe[n] = x THEN FreeSxe ELSE sxe[x]]
      /\ UNCHANGED <<failure_count, node_sxe, user_data, kind, free, aborted>>
  BY <1>1 DEF sxe_pool_tcp_delete, InLoop, pool
<1>3. TypesOK /\ deleted = FALSE
  BY <1>2, Begins
<1>4. PICK p, k, m, b : Holds(p, k, m, b)
  BY <1>2, Begins
<1>5. b.at = "none" /\ OwnersOK(St, node_sxe, sxe, b)
  <2>1. b.at = "none"
    BY <1>2, <1>4, EmptySays
  <2> QED
    BY <1>4, <2>1 DEF Holds, LiveNow, Live
<1>6. \A n \in Nodes : n \in open <=> St[n] # "UNCONNECTED"
  <2>1. "UNCONNECTED" \in States
    BY DEF States
  <2> QED
    BY <1>1, <1>3, <2>1, QueueHolds DEF TypesOK
<1>7. FreeSxe \in Sxe /\ FreeSxe.status = "free"
  <2>1. 0 \in 0 .. MaxSegments
    BY LimitsAssumption
  <2> QED
    BY <2>1 DEF FreeSxe, Sxe
<1>8. sxe' \in [Sxes -> Sxe]
  BY <1>2, <1>3, <1>7 DEF TypesOK
<1>9. ASSUME NEW x \in Sxes PROVE sxe'[x].status = "free"
  <2>1. CASE \E n \in open : node_sxe[n] = x
    BY <1>2, <1>7, <2>1
  <2>2. CASE ~\E n \in open : node_sxe[n] = x
    <3>1. sxe'[x] = sxe[x]
      BY <1>2, <2>2
    <3>2. ~Owns(St, node_sxe, x)
      BY <1>6, <2>2 DEF Owns
    <3> QED
      BY <1>5, <3>1, <3>2 DEF OwnersOK, Closing
  <2> QED
    BY <2>1, <2>2
<1>10. QueuesOK(queue)'
  BY <1>2, <1>3, StateStays DEF TypesOK
<1>11. TypesOK'
  BY <1>2, <1>3, <1>8, <1>10 DEF TypesOK
<1> QED
  BY <1>2, <1>9, <1>11 DEF TcpInv
-----------------------------------------------------------------------------
(* The initial states.                                                     *)

\* A list of all numbers below a number, from the top.
LEMMA Countdown ==
    ASSUME NEW N \in Nat, NEW f, f = [i \in 1 .. N |-> N - i]
    PROVE  /\ f \in Seq(0 .. N - 1) /\ Len(f) = N /\ Distinct(f) /\ \A x \in 0 .. N - 1 : Member(f, x)
<1>1. f \in Seq(0 .. N - 1) /\ Len(f) = N /\ \A i \in 1 .. N : f[i] = N - i
  <2>1. f \in [1 .. N -> 0 .. N - 1]
    OBVIOUS
  <2> QED
    BY <2>1
<1>2. Distinct(f)
  BY <1>1 DEF Distinct
<1>3. ASSUME NEW x \in 0 .. N - 1 PROVE Member(f, x)
  <2>1. N - x \in 1 .. N /\ N - (N - x) = x
    OBVIOUS
  <2> QED
    BY <1>1, <2>1 DEF Member
<1> QED
  BY <1>1, <1>2, <1>3

LEMMA InitQueues ==
    ASSUME Init
    PROVE  QueuesOK(queue) /\ St = [n \in Nodes |-> "UNCONNECTED"]
<1>1. PICK f : f = [i \in 1 .. Concurrency |-> Concurrency - i]
  OBVIOUS
<1>2. f \in Seq(Nodes) /\ Distinct(f) /\ \A n \in Nodes : Member(f, n)
  BY <1>1, ConcurrencyAssumption, Countdown DEF Nodes
<1> HIDE DEF Nodes
<1>3. queue = [s \in States |-> IF s = "UNCONNECTED" THEN f ELSE <<>>]
  BY <1>1 DEF Init
<1>4. "UNCONNECTED" \in States
  BY DEF States
<1> HIDE DEF States
<1>5. queue \in [States -> Seq(Nodes)]
  BY <1>2, <1>3
<1>6. \A s \in States : queue[s] = IF s = "UNCONNECTED" THEN f ELSE <<>>
  BY <1>3
<1>7. Placed(queue)
  BY <1>2, <1>4, <1>6 DEF Placed, In
<1>8. Once(queue)
  <2> SUFFICES ASSUME NEW s \in States, NEW t \in States, NEW k \in 1 .. Len(queue[s]), NEW l \in 1 .. Len(queue[t]),
                      queue[s][k] = queue[t][l]
               PROVE  s = t /\ k = l
    BY DEF Once
  <2>1. s = "UNCONNECTED" /\ t = "UNCONNECTED"
    BY <1>6
  <2> QED
    BY <1>2, <1>6, <2>1 DEF Distinct
<1>9. QueuesOK(queue)
  BY <1>5, <1>7, <1>8 DEF QueuesOK
<1>10. \A n \in Nodes : In(queue, n, "UNCONNECTED")
  BY <1>2, <1>4, <1>6 DEF In
<1>11. \A n \in Nodes : StateOf(n) = "UNCONNECTED"
  BY <1>4, <1>9, <1>10, StateOfIn
<1> QED
  BY <1>9, <1>11 DEF St

LEMMA InitHolds == ASSUME Init PROVE TcpInv
<1>1. QueuesOK(queue) /\ St = [n \in Nodes |-> "UNCONNECTED"]
  BY InitQueues
<1>2. /\ failure_count = [n \in Nodes |-> 0] /\ node_sxe = [n \in Nodes |-> NULL] /\ user_data = [n \in Nodes |-> "none"]
      /\ kind \in [is_spawn : BOOLEAN, has_initialization : BOOLEAN]
      /\ queued = 0 /\ free = [i \in 1 .. NumSxes |-> NumSxes - i] /\ sxe = [x \in Sxes |-> FreeSxe]
      /\ pending = {} /\ stack = At("ramp", ConnectionRamp) /\ deleted = FALSE /\ aborted = FALSE
  BY DEF Init
<1>3. free \in Seq(Sxes) /\ Distinct(free) /\ \A x \in Sxes : Member(free, x)
  BY <1>2, ConcurrencyAssumption, Countdown DEF Sxes
<1>4. FreeSxe \in Sxe /\ FreeSxe.status = "free"
  <2>1. 0 \in 0 .. MaxSegments
    BY LimitsAssumption
  <2> QED
    BY <2>1 DEF FreeSxe, Sxe
<1>5. TypesOK
  <2>1. failure_count \in [Nodes -> 0 .. FailureMax] /\ node_sxe \in [Nodes -> Sxes \cup {NULL}]
    BY <1>2, LimitsAssumption
  <2>2. user_data \in [Nodes -> Requests \cup {"none"}] /\ sxe \in [Sxes -> Sxe]
    BY <1>2, <1>4
  <2> QED
    BY <1>1, <1>2, <1>3, <2>1, <2>2 DEF TypesOK
<1>6. \A n \in Nodes : St[n] = "UNCONNECTED"
  BY <1>1
<1>7. \A x \in Sxes : sxe[x].status = "free"
  BY <1>2, <1>4
<1> HIDE DEF Nodes, Sxes, St
<1>8. LinksOK(St, node_sxe, user_data, failure_count, sxe, NoBase, kind.is_spawn) /\ Apart(St, node_sxe)
  BY <1>6 DEF LinksOK, Apart
<1>9. OwnersOK(St, node_sxe, sxe, NoBase) /\ FreeOK(sxe, free)
  BY <1>3, <1>7 DEF OwnersOK, FreeOK
<1>10. BaseOK(St, node_sxe, sxe, NoBase) /\ ReadyOK(St, queued, "ramp") /\ RampApart("ramp", NoBase)
  BY <1>2, NoBaseIs DEF BaseOK, ReadyOK, Serving, RampApart
<1>11. PendingOK(St, node_sxe, user_data, sxe, pending, NoBase)
  BY <1>2, <1>6 DEF PendingOK, Busy
<1>12. LiveNow("ramp", NoBase)
  BY <1>8, <1>9, <1>10, <1>11 DEF LiveNow, Live
<1>13. ConnectionRamp \in Nat /\ 0 \in Nat /\ "ramp" \in Prefixes
  BY LimitsAssumption DEF Prefixes
<1>14. StackIs(stack, "ramp", ConnectionRamp, 0, NoBase)
  <2>1. StackIs(<<>>, "none", 0, 0, NoBase)
    BY NoBaseIs, StackBegins
  <2>2. StackIs(At("ramp", ConnectionRamp) \o <<>>, "ramp", ConnectionRamp, 0, NoBase)
    BY <1>13, <2>1, NoBaseIs, StackPushes
  <2>3. At("ramp", ConnectionRamp) \o <<>> = At("ramp", ConnectionRamp)
    <3>1. PICK f \in Frame : f = [at |-> "ramp", of |-> ConnectionRamp]
      BY <1>13, FrameOf
    <3>2. <<f>> \in Seq(Frame)
      OBVIOUS
    <3>3. <<f>> \o <<>> = <<f>>
      BY <3>2
    <3> QED
      BY <3>1, <3>3 DEF At
  <2> QED
    BY <1>2, <2>2, <2>3
<1>15. Alive
  BY <1>12, <1>13, <1>14, NoBaseIs DEF Alive, LiveNow
<1> QED
  BY <1>2, <1>5, <1>15 DEF TcpInv-----------------------------------------------------------------------------
(* The theorem.                                                            *)

LEMMA StutterKeeps == ASSUME TcpInv, UNCHANGED vars PROVE TcpInv'
<1>1. /\ queue' = queue /\ stack' = stack
      /\ UNCHANGED <<failure_count, node_sxe, user_data, kind, queued, free, sxe, pending, deleted, aborted>>
  BY DEF vars, pool
<1>2. TypesOK
  BY DEF TcpInv
<1>3. QueuesOK(queue)' /\ St' = St
  BY <1>1, <1>2, StateStays DEF TypesOK
<1>4. TypesOK'
  BY <1>1, <1>2, <1>3 DEF TypesOK
<1>5. CASE deleted
  BY <1>1, <1>4, <1>5 DEF TcpInv
<1>6. CASE ~deleted
  <2>1. Running /\ deleted = FALSE
    BY <1>2, <1>6 DEF Running, TypesOK
  <2>2. PICK p, k, m, b : Holds(p, k, m, b)
    BY <2>1, Begins
  <2>3. LiveNow(p, b)'
    BY <1>1, <1>3, <2>2 DEF Holds, LiveNow
  <2> QED
    BY <1>1, <1>4, <2>1, <2>2, <2>3, Resumes DEF Holds
<1> QED
  BY <1>5, <1>6

LEMMA StepKeeps == ASSUME InitializesInClose = FALSE, TcpInv, [Next]_vars PROVE TcpInv'
<1>1. CASE UNCHANGED vars
  BY <1>1, StutterKeeps
<1>2. CASE RampEnds \/ RampSkips \/ RampFails \/ RampConnects
  BY <1>2, RampEndsKeeps, RampSkipsKeeps, RampFailsKeeps, RampConnectsKeeps
<1>3. CASE Dispatch \/ sxe_pool_tcp_write \/ WriteUnasked
  BY <1>3, DispatchKeeps, WriteKeeps, UnaskedKeeps
<1>4. CASE sxe_pool_tcp_queue_ready_to_write_event \/ sxe_pool_tcp_unqueue_ready_to_write_event \/ sxe_pool_tcp_delete
  BY <1>4, QueueKeeps, UnqueueKeeps, DeleteKeeps
<1>5. CASE \E x \in Sxes : sxe_pool_tcp_initialized(x)
  BY <1>5, InitializedKeeps
<1>6. CASE \E x \in Sxes : sxe_pool_tcp_event_connected(x) \/ sxe_pool_tcp_event_read(x)
  BY <1>6, ConnectedKeeps, ReadKeeps
<1>7. CASE \E x \in Sxes : Refused(x) \/ Disconnected(x)
  BY <1>7, RefusedKeeps, DisconnectedKeeps
<1>8. CASE ReadReturns \/ ReadAsserts \/ CallbackReturns
  BY <1>8, ReadReturnsKeeps, AssertsKeeps, CallbackKeeps
<1>9. CASE CloseReturns \/ CloseRefused \/ TimeoutReturns
  BY <1>9, CloseReturnsKeeps, CloseRefusedKeeps, TimeoutReturnsKeeps
<1>10. CASE \E n \in Nodes : sxe_pool_tcp_event_read_timeout(n)
  BY <1>10, OverdueKeeps
<1> QED
  BY <1>1, <1>2, <1>3, <1>4, <1>5, <1>6, <1>7, <1>8, <1>9, <1>10 DEF Next, Continue, Application, SxeEvent, Returns

\* Between events no handler, no event and no callback is under way.
LEMMA QuietHolds ==
    ASSUME TcpInv, stack = <<>>, Running
    PROVE  \E b : b.at = "none" /\ LiveNow("none", b)
<1>1. PICK p, k, m, b : Holds(p, k, m, b)
  BY Begins
<1>2. p = "none" /\ b.at = "none"
  BY <1>1, EmptySays
<1> QED
  BY <1>1, <1>2 DEF Holds

LEMMA InvTypes == TcpInv => PoolTcpTypeOK
<1> SUFFICES ASSUME TcpInv PROVE PoolTcpTypeOK
  OBVIOUS
<1>1. TypesOK
  BY DEF TcpInv
<1>2. \A s \in States : queue[s] \in Seq(Nodes)
  BY <1>1 DEF TypesOK, QueuesOK
<1>3. ASSUME NEW n \in Nodes
      PROVE  \E s \in States : n \in Seqs!ToSet(queue[s]) /\ \A z \in States \ {s} : n \notin Seqs!ToSet(queue[z])
  <2>1. St[n] \in States /\ \A s \in States : n \in Seqs!ToSet(queue[s]) <=> St[n] = s
    <3>1. "UNCONNECTED" \in States
      BY DEF States
    <3>2. St \in [Nodes -> States]
      BY <1>1, <3>1, QueueHolds DEF TypesOK
    <3> QED
      BY <1>1, <3>2, QueueHolds DEF TypesOK
  <2> QED
    BY <2>1
<1>4. stack \in Seq(Frame)
  <2>1. CASE deleted
    BY <2>1 DEF TcpInv
  <2>2. CASE ~deleted
    <3>1. Running
      BY <1>1, <2>2 DEF Running, TypesOK
    <3> QED
      BY <3>1, Begins, StackTops DEF Holds
  <2> QED
    BY <2>1, <2>2
<1> QED
  BY <1>1, <1>2, <1>3, <1>4 DEF PoolTcpTypeOK, TypesOK

LEMMA InvSockets == TcpInv => SocketsMatch
<1> SUFFICES ASSUME TcpInv PROVE SocketsMatch
  OBVIOUS
<1>1. ASSUME stack = <<>>, Running
      PROVE  /\ \A n \in Nodes : StateOf(n) # "UNCONNECTED" =>
                   /\ sxe[node_sxe[n]].user = n
                   /\ sxe[node_sxe[n]].status \in IF StateOf(n) = "CONNECTING" THEN {"connecting", "failed"} ELSE {"connected"}
             /\ \A x \in Sxes : sxe[x].status # "free" => \E n \in Nodes : node_sxe[n] = x /\ StateOf(n) # "UNCONNECTED"
  <2>1. PICK b : b.at = "none" /\ LiveNow("none", b)
    BY <1>1, QuietHolds
  <2>2. LinksOK(St, node_sxe, user_data, failure_count, sxe, b, kind.is_spawn) /\ OwnersOK(St, node_sxe, sxe, b)
    BY <2>1 DEF LiveNow, Live
  <2>3. \A n \in Nodes : StateOf(n) = St[n]
    BY DEF St
  <2>4. ASSUME NEW n \in Nodes, StateOf(n) # "UNCONNECTED"
        PROVE  /\ sxe[node_sxe[n]].user = n
               /\ sxe[node_sxe[n]].status \in IF StateOf(n) = "CONNECTING" THEN {"connecting", "failed"} ELSE {"connected"}
    <3>1. Linked(n, St[n], sxe[node_sxe[n]], failure_count[n], user_data[n], b, kind.is_spawn)
      BY <2>2, <2>3, <2>4 DEF LinksOK
    <3> QED
      BY <2>1, <2>3, <3>1 DEF Linked
  <2>5. ASSUME NEW x \in Sxes, sxe[x].status # "free"
        PROVE  \E n \in Nodes : node_sxe[n] = x /\ StateOf(n) # "UNCONNECTED"
    BY <2>1, <2>2, <2>3, <2>5 DEF OwnersOK, Owns, Closing
  <2> QED
    BY <2>4, <2>5
<1>2. deleted => \A x \in Sxes : sxe[x].status = "free"
  BY DEF TcpInv
<1> QED
  BY <1>1, <1>2 DEF SocketsMatch

LEMMA InvReady == TcpInv => NoneReadyWhileQueued
<1> SUFFICES ASSUME TcpInv, stack = <<>>, Running PROVE queued = 0 \/ Ready = <<>>
  BY DEF NoneReadyWhileQueued
<1>1. PICK b : LiveNow("none", b)
  BY QuietHolds
<1>2. ReadyOK(St, queued, "none") /\ queued \in Nat
  BY <1>1 DEF LiveNow, Live, TcpInv, TypesOK
<1>3. queued > 0 => \A n \in Nodes : St[n] # "READY_TO_SEND"
  BY <1>2 DEF ReadyOK, Serving
<1>4. (\A n \in Nodes : St[n] # "READY_TO_SEND") => queue["READY_TO_SEND"] = <<>>
  <2>1. "READY_TO_SEND" \in States
    BY DEF States
  <2> QED
    BY <2>1, QueueHolds DEF TcpInv, TypesOK
<1> QED
  BY <1>2, <1>3, <1>4 DEF Ready

LEMMA InvRequests == TcpInv => RequestsTracked
<1> SUFFICES ASSUME TcpInv, stack = <<>>, Running,
                    NEW used, used = Seqs!ToSet(queue["IN_USE"])
             PROVE  /\ pending = {user_data[n] : n \in used}
                    /\ \A m, n \in used : user_data[m] = user_data[n] => m = n
                    /\ \A n \in used : sxe[node_sxe[n]].asked = user_data[n]
  BY DEF RequestsTracked
<1>1. PICK b : b.at = "none" /\ LiveNow("none", b)
  BY QuietHolds
<1>2. /\ LinksOK(St, node_sxe, user_data, failure_count, sxe, b, kind.is_spawn)
      /\ Tracked(BusyNodes(St, node_sxe, sxe, b), user_data, pending)
  BY <1>1, PendingIs DEF LiveNow, Live
<1>3. used = {n \in Nodes : St[n] = "IN_USE"}
  <2>1. "IN_USE" \in States
    BY DEF States
  <2> QED
    BY <2>1, QueueHolds DEF TcpInv, TypesOK
<1>4. BusyNodes(St, node_sxe, sxe, b) = used
  BY <1>1, <1>3 DEF BusyNodes, Busy
<1>5. \A n \in used : sxe[node_sxe[n]].asked = user_data[n]
  BY <1>2, <1>3 DEF LinksOK, Linked
<1> QED
  BY <1>2, <1>4, <1>5 DEF Tracked

\* The pool of connections keeps its nodes, SXEs, events and requests in agreement:
\* none is leaked or shared, no event waits while a connection is ready, every
\* request is on one connection, and no assertion fails.  The application finishes
\* no initialization in a close callback: SocketsMatch is false when it does.
THEOREM TcpAlwaysSound == InitializesInClose = FALSE /\ Spec => []TcpSound
<1>1. Init => TcpInv
  BY InitHolds
<1>2. InitializesInClose = FALSE /\ TcpInv /\ [Next]_vars => TcpInv'
  BY StepKeeps
<1>3. TcpInv => TcpSound
  BY InvTypes, InvSockets, InvReady, InvRequests DEF TcpSound, TcpAssertionsHold, TcpInv, TypesOK
<1>4. CASE InitializesInClose = FALSE
  <2>1. TcpInv /\ [Next]_vars => TcpInv'
    BY <1>2, <1>4
  <2> QED
    BY <1>1, <1>3, <2>1, PTL DEF Spec
<1>5. CASE InitializesInClose # FALSE
  BY <1>5
<1> QED
  BY <1>4, <1>5
=============================================================================
