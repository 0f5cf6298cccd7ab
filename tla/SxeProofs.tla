------------------------------ MODULE SxeProofs -------------------------------
(***************************************************************************)
(* What lib-sxe promises of its connection objects, for every number of    *)
(* SXEs, every buffer size, every limit of deferred events and every set   *)
(* of calls that the application makes: no byte of a stream is lost or     *)
(* delivered twice, a connection stops reading only when its buffer is     *)
(* full, and what is deferred can be invoked.                              *)
(***************************************************************************)
EXTENDS Sxe, SequenceTheorems, TLAPS

-----------------------------------------------------------------------------
(* The inductive invariant.                                                *)

Member(list, i) == \E k \in 1 .. Len(list) : list[k] = i
Distinct(list) == \A k, l \in 1 .. Len(list) : list[k] = list[l] => k = l
In(q, i, s) == Member(q[s], i)

\* Every SXE is in one place of one queue.
Placed(q) == \A i \in Ids : \E s \in States : In(q, i, s)
Once(q) == \A s, t \in States : \A k \in 1 .. Len(q[s]), l \in 1 .. Len(q[t]) : q[s][k] = q[t][l] => s = t /\ k = l
QueuesOK(q) == q \in [States -> Seq(Ids)] /\ Placed(q) /\ Once(q)

\* The buffer is the stream's, and an SXE without a connection has none.
Streams(x, n) == /\ x.in_consumed <= x.in_total
                 /\ x.at + x.in_total = n.got
                 /\ x.at + x.in_consumed = n.ate
                 /\ x.socket # "connected" => x.at = 0 /\ x.in_total = 0

\* An open socket is watched while there is room, and a watcher's callback is
\* one for the socket's state; sxe_io_cb_read alone may be called for any.
Watched(x) == /\ x.socket # "invalid" /\ ~x.active => Full(x)
              /\ x.active => x.socket # "invalid"
              /\ x.socket = "listen" => x.cb \in {"accept", "read"}
              /\ x.socket = "connecting" => x.cb \in {"connect", "read"}
              /\ x.socket = "connected" => x.cb \in {"read", "send", "notify", "sendfile"}

\* What the pool's state says of an SXE.
StateRight(x, s) == /\ (s = "FREE" => x.socket = "invalid")
                    /\ (s # "FREE" => x.in_event)
                    /\ (s = "DEFERRED" => x.socket = "connected" /\ x.deferred_event = "resume")

OneOK(x, n, s) == x \in Fields /\ n \in Net /\ Streams(x, n) /\ Watched(x) /\ StateRight(x, s)

AllOK == \A i \in Ids : OneOK(sxe[i], net[i], StateOf(i))

\* A read event is the outermost callback, and its SXE, if it is still open, is
\* watched: sxe_private_handle_read_data may go on after it.
Reading(x) == x.socket = "connected" => x.active
ReadOutermost == \A k \in 1 .. Len(stack) : stack[k].cb = "read" => k = Len(stack) /\ Reading(sxe[stack[k].this])

IInv == SxeTypeOK /\ QueuesOK(queue) /\ AllOK /\ ReadOutermost

-----------------------------------------------------------------------------
(* Queues.                                                                 *)

\* RemoveAt closes the gap.
LEMMA RemoveOne ==
    ASSUME NEW q \in Seq(Ids), NEW i \in 1 .. Len(q)
    PROVE  /\ Seqs!RemoveAt(q, i) \in Seq(Ids) /\ Len(Seqs!RemoveAt(q, i)) = Len(q) - 1
           /\ \A j \in 1 .. Len(q) - 1 : Seqs!RemoveAt(q, i)[j] = q[IF j >= i THEN j + 1 ELSE j]
<1> DEFINE a == SubSeq(q, 1, i - 1)
<1> DEFINE b == SubSeq(q, i + 1, Len(q))
<1>1. a \in Seq(Ids) /\ Len(a) = i - 1 /\ \A j \in 1 .. i - 1 : a[j] = q[j]
  OBVIOUS
<1>2. b \in Seq(Ids) /\ Len(b) = Len(q) - i /\ \A j \in 1 .. Len(q) - i : b[j] = q[i + j]
  OBVIOUS
<1>3. Seqs!RemoveAt(q, i) = a \o b
  BY DEF Seqs!RemoveAt
<1> HIDE DEF a, b
<1>4. Len(q) \in Nat /\ i \in Nat /\ i >= 1 /\ i <= Len(q)
  OBVIOUS
<1>5. a \o b \in Seq(Ids) /\ Len(a \o b) = Len(q) - 1
  <2>1. a \o b \in Seq(Ids) /\ Len(a \o b) = Len(a) + Len(b)
    BY <1>1, <1>2, ConcatProperties
  <2>2. (i - 1) + (Len(q) - i) = Len(q) - 1
    BY <1>4
  <2> QED
    BY <1>1, <1>2, <2>1, <2>2
<1>6. ASSUME NEW j \in 1 .. Len(q) - 1 PROVE (a \o b)[j] = q[IF j >= i THEN j + 1 ELSE j]
  <2>1. CASE j < i
    BY <1>1, <1>2, <1>4, <2>1
  <2>2. CASE j >= i
    <3>1. j - (i - 1) \in 1 .. Len(q) - i /\ i + (j - (i - 1)) = j + 1
      BY <1>4, <2>2
    <3>2. (a \o b)[j] = b[j - Len(a)]
      BY <1>1, <1>2, <1>4, <2>2
    <3> QED
      BY <1>1, <1>2, <2>2, <3>1, <3>2
  <2>3. j \in Int /\ i \in Int
    OBVIOUS
  <2>4. j < i \/ j >= i
    BY <2>3
  <2> QED
    BY <2>1, <2>2, <2>4
<1> QED
  BY <1>3, <1>5, <1>6

\* Taking an element out of a list without duplicates leaves the others, once.
LEMMA RemovedMembers ==
    ASSUME NEW q \in Seq(Ids), NEW p \in 1 .. Len(q), NEW r,
           Distinct(q), r = Seqs!RemoveAt(q, p)
    PROVE  r \in Seq(Ids) /\ Distinct(r) /\ \A j : Member(r, j) <=> j # q[p] /\ Member(q, j)
<1> USE DEF Distinct, Member
<1>0. /\ r \in Seq(Ids) /\ Len(r) = Len(q) - 1
      /\ \A j \in 1 .. Len(q) - 1 : r[j] = q[IF j >= p THEN j + 1 ELSE j]
  BY RemoveOne
<1>2. PICK n \in Nat : n = Len(q)
  OBVIOUS
<1>1. /\ r \in Seq(Ids) /\ \A j \in 1 .. n - 1 : r[j] = q[IF j >= p THEN j + 1 ELSE j]
  BY <1>0, <1>2
<1>3. p \in 1 .. n /\ Len(r) = n - 1
  BY <1>0, <1>2
<1> HIDE DEF Ids
<1>4. ASSUME NEW j, NEW k \in 1 .. n - 1, r[k] = j PROVE j # q[p] /\ \E l \in 1 .. n : q[l] = j
  <2>1. (IF k >= p THEN k + 1 ELSE k) \in 1 .. n /\ (IF k >= p THEN k + 1 ELSE k) # p
    BY <1>3, <1>2
  <2> QED
    BY <1>1, <1>2, <1>3, <1>4, <2>1
<1>5. ASSUME NEW j, j # q[p], NEW k \in 1 .. n, q[k] = j PROVE \E l \in 1 .. n - 1 : r[l] = j
  <2>1. k # p
    BY <1>5
  <2>2. CASE k < p
    <3>1. k \in 1 .. n - 1 /\ ~(k >= p)
      BY <1>3, <2>2
    <3> QED
      BY <1>1, <1>3, <1>5, <3>1
  <2>3. CASE k > p
    <3>1. k - 1 \in 1 .. n - 1 /\ k - 1 >= p /\ (k - 1) + 1 = k
      BY <1>3, <2>3
    <3>2. r[k - 1] = q[k]
      BY <1>1, <1>3, <3>1
    <3> QED
      BY <1>5, <3>1, <3>2
  <2>4. k \in Int /\ p \in Int
    BY <1>3
  <2> QED
    BY <2>1, <2>2, <2>3, <2>4
<1>6. ASSUME NEW k \in 1 .. n - 1, NEW l \in 1 .. n - 1, r[k] = r[l] PROVE k = l
  <2>1. /\ (IF k >= p THEN k + 1 ELSE k) \in 1 .. n
        /\ (IF l >= p THEN l + 1 ELSE l) \in 1 .. n
    BY <1>3, <1>2
  <2>2. q[IF k >= p THEN k + 1 ELSE k] = q[IF l >= p THEN l + 1 ELSE l]
    BY <1>1, <1>3, <1>6
  <2>3. (IF k >= p THEN k + 1 ELSE k) = (IF l >= p THEN l + 1 ELSE l)
    BY <1>2, <2>1, <2>2
  <2> QED
    BY <1>3, <2>3
<1>7. Len(r) \in Nat
  BY <1>2, <1>3
<1>8. \A j : (\E k \in 1 .. n - 1 : r[k] = j) <=> j # q[p] /\ \E k \in 1 .. n : q[k] = j
  BY <1>4, <1>5
<1>9. \A k, l \in 1 .. n - 1 : r[k] = r[l] => k = l
  BY <1>6
<1> QED
  BY <1>1, <1>2, <1>3, <1>7, <1>8, <1>9

\* Append adds one member, at the end.
LEMMA AppendedMembers ==
    ASSUME NEW q \in Seq(Ids), NEW i \in Ids, NEW r,
           Distinct(q), ~Member(q, i), r = Append(q, i)
    PROVE  r \in Seq(Ids) /\ Distinct(r) /\ \A j : Member(r, j) <=> j = i \/ Member(q, j)
<1> USE DEF Distinct, Member
<1>1. PICK n \in Nat : n = Len(q)
  OBVIOUS
<1>2. r \in Seq(Ids) /\ Len(r) = n + 1 /\ r[n + 1] = i /\ \A k \in 1 .. n : r[k] = q[k]
  BY <1>1
<1>3. \A k : k \in 1 .. n + 1 <=> k = n + 1 \/ k \in 1 .. n
  BY <1>1
<1>4. Len(r) \in Nat
  BY <1>1, <1>2
<1> HIDE DEF Ids
<1>5. ASSUME NEW k \in 1 .. n + 1, NEW l \in 1 .. n + 1, r[k] = r[l] PROVE k = l
  BY <1>1, <1>2, <1>3, <1>5
<1> QED
  BY <1>1, <1>2, <1>3, <1>4, <1>5
\* Moving an SXE leaves every SXE in one place, and no other SXE in another state.
LEMMA QueueMove ==
    ASSUME NEW q, QueuesOK(q), NEW i \in Ids, NEW old \in States, NEW new \in States, old # new,
           In(q, i, old), NEW r, r = Moved(q, i, old, new)
    PROVE  /\ QueuesOK(r)
           /\ \A j \in Ids, s \in States : In(r, j, s) <=> IF j = i THEN s = new ELSE In(q, j, s)
<1> HIDE DEF Ids, States
<1>1. q \in [States -> Seq(Ids)] /\ Placed(q) /\ Once(q)
  BY DEF QueuesOK
<1>2. PICK p : p = Place(q[old], i)
  OBVIOUS
<1>3. p \in 1 .. Len(q[old]) /\ q[old][p] = i
  BY <1>2 DEF Place, In, Member
<1>4. PICK rest : rest = Seqs!RemoveAt(q[old], p)
  OBVIOUS
<1>5. PICK longer : longer = Append(q[new], i)
  OBVIOUS
<1>6. \A s \in States : r[s] = IF s = new THEN longer ELSE IF s = old THEN rest ELSE q[s]
  BY <1>1, <1>2, <1>4, <1>5 DEF Moved
<1>7. r = [s \in States |-> r[s]]
  BY <1>1 DEF Moved
<1>8. \A s \in States : q[s] \in Seq(Ids) /\ Distinct(q[s])
  BY <1>1 DEF Once, Distinct
<1>9. \A j : \A s, t \in States : In(q, j, s) /\ In(q, j, t) => s = t
  BY <1>1 DEF Once, In, Member
<1>10. rest \in Seq(Ids) /\ Distinct(rest) /\ \A j : Member(rest, j) <=> j # i /\ In(q, j, old)
  BY <1>3, <1>4, <1>8, RemovedMembers DEF In
<1>11. longer \in Seq(Ids) /\ Distinct(longer) /\ \A j : Member(longer, j) <=> j = i \/ In(q, j, new)
  <2>1. ~In(q, i, new)
    BY <1>9
  <2> QED
    BY <1>5, <1>8, <2>1, AppendedMembers DEF In
<1>12. r \in [States -> Seq(Ids)]
  BY <1>1, <1>6, <1>7, <1>10, <1>11
<1>13. \A j : \A s \in States : In(r, j, s) <=> IF j = i THEN s = new ELSE In(q, j, s)
  <2> SUFFICES ASSUME NEW s \in States, NEW j PROVE In(r, j, s) <=> IF j = i THEN s = new ELSE In(q, j, s)
    OBVIOUS
  <2>1. CASE s = new
    BY <1>6, <1>11, <2>1 DEF In
  <2>2. CASE s = old /\ s # new
    BY <1>6, <1>10, <2>2 DEF In
  <2>3. CASE s # old /\ s # new
    <3>1. In(r, j, s) <=> In(q, j, s)
      BY <1>6, <2>3 DEF In
    <3> QED
      BY <1>9, <2>3, <3>1
  <2> QED
    BY <2>1, <2>2, <2>3
<1>14. \A s \in States : Distinct(r[s])
  BY <1>6, <1>8, <1>10, <1>11
<1>15. Placed(r)
  BY <1>1, <1>13 DEF Placed
<1>16. Once(r)
  <2> SUFFICES ASSUME NEW s \in States, NEW t \in States, NEW k \in 1 .. Len(r[s]), NEW l \in 1 .. Len(r[t]),
                      r[s][k] = r[t][l]
               PROVE  s = t /\ k = l
    BY DEF Once
  <2>1. In(r, r[s][k], s) /\ In(r, r[s][k], t)
    BY DEF In, Member
  <2>2. s = t
    BY <1>9, <1>13, <2>1
  <2> QED
    BY <1>14, <2>2 DEF Distinct
<1> QED
  BY <1>12, <1>13, <1>15, <1>16 DEF QueuesOK

\* StateOf is the one state that an SXE is in.
LEMMA StateOfIn ==
    ASSUME QueuesOK(queue), NEW i \in Ids
    PROVE  /\ StateOf(i) \in States /\ In(queue, i, StateOf(i))
           /\ \A s \in States : In(queue, i, s) => StateOf(i) = s
<1> HIDE DEF Ids, States
<1>1. \E s \in States : In(queue, i, s)
  BY DEF QueuesOK, Placed
<1>2. StateOf(i) = CHOOSE s \in States : In(queue, i, s)
  BY DEF StateOf, In, Member
<1>3. StateOf(i) \in States /\ In(queue, i, StateOf(i))
  BY <1>1, <1>2
<1>4. \A s, t \in States : In(queue, i, s) /\ In(queue, i, t) => s = t
  BY DEF QueuesOK, Once, In, Member
<1> QED
  BY <1>3, <1>4

\* A move puts one SXE in its new state.
LEMMA StateMoved ==
    ASSUME QueuesOK(queue), NEW i \in Ids, NEW old \in States, NEW new \in States, old # new,
           StateOf(i) = old, queue' = Moved(queue, i, old, new)
    PROVE  /\ QueuesOK(queue)' /\ StateOf(i)' = new
           /\ \A j \in Ids : j # i => StateOf(j)' = StateOf(j)
<1> HIDE DEF Ids, States
<1>1. In(queue, i, old)
  BY StateOfIn
<1>2. /\ QueuesOK(queue')
      /\ \A j \in Ids, s \in States : In(queue', j, s) <=> IF j = i THEN s = new ELSE In(queue, j, s)
  BY <1>1, QueueMove
<1>3. \A j \in Ids, s \in States : In(queue', j, s) => StateOf(j)' = s
  <2>1. \A j \in Ids, s, t \in States : In(queue', j, s) /\ In(queue', j, t) => s = t
    BY <1>2 DEF QueuesOK, Once, In, Member
  <2>2. \A j \in Ids : StateOf(j)' = CHOOSE s \in States : In(queue', j, s)
    BY DEF StateOf, In, Member
  <2> QED
    BY <2>1, <2>2
<1>4. \A j \in Ids : StateOf(j) \in States /\ In(queue, j, StateOf(j))
  BY StateOfIn
<1>5. StateOf(i)' = new
  BY <1>2, <1>3
<1>6. ASSUME NEW j \in Ids, j # i PROVE StateOf(j)' = StateOf(j)
  BY <1>2, <1>3, <1>4, <1>6
<1>7. QueuesOK(queue)'
  BY <1>2 DEF QueuesOK, Placed, Once, In, Member
<1> QED
  BY <1>5, <1>6, <1>7
-----------------------------------------------------------------------------
(* What each operation does to one SXE: x, n and s are its fields, the      *)
(* kernel's side of its socket and its state in the pool.                  *)

Same(x, y) == Reading(x) => Reading(y)

\* The kernel's steps leave got and ate alone.
LEMMA NetOK ==
    ASSUME NEW x, NEW n, NEW s, OneOK(x, n, s)
    PROVE  /\ OneOK(x, [n EXCEPT !.in = @ + 1], s)
           /\ OneOK(x, [n EXCEPT !.eof = TRUE], s)
           /\ n.in # 0 => OneOK(x, [n EXCEPT !.in = @ - 1], s)
<1> USE DEF OneOK, Net, Streams
<1>1. OneOK(x, [n EXCEPT !.in = @ + 1], s)
  OBVIOUS
<1>2. OneOK(x, [n EXCEPT !.eof = TRUE], s)
  OBVIOUS
<1>3. n.in # 0 => OneOK(x, [n EXCEPT !.in = @ - 1], s)
  OBVIOUS
<1> QED
  BY <1>1, <1>2, <1>3

\* A socket that is not connected has no data.
LEMMA NoBytes ==
    ASSUME NEW x, NEW n, NEW s, OneOK(x, n, s), x.socket # "connected"
    PROVE  x.at = 0 /\ x.in_total = 0 /\ x.in_consumed = 0 /\ n.got = 0 /\ n.ate = 0
<1>1. x.in_consumed \in Int /\ x.in_consumed >= 0
  BY BufSizeAssumption DEF OneOK, Fields
<1> QED
  BY <1>1 DEF OneOK, Streams

LEMMA NoNetIs == NoNet \in Net /\ NoNet.got = 0 /\ NoNet.ate = 0
BY DEF NoNet, Net

\* sxe_new, and the SXE that accept makes.
LEMMA NewOK ==
    ASSUME NEW x, NEW n, OneOK(x, n, "FREE")
    PROVE  /\ OneOK(sxe_new_internal(x), n, "USED") /\ Same(x, sxe_new_internal(x))
           /\ LET y == sxe_watch_read([sxe_new_internal(x) EXCEPT !.socket = "connected"])
              IN  OneOK(y, NoNet, "USED") /\ Same(x, y)
<1> DEFINE y == sxe_new_internal(x)
<1> DEFINE z == sxe_watch_read([y EXCEPT !.socket = "connected"])
<1>1. x \in Fields /\ 0 \in 0 .. BufSize /\ 0 \in Nat
  BY BufSizeAssumption DEF OneOK
<1>2. y \in Fields
  BY <1>1 DEF Fields, sxe_new_internal
<1>3. /\ y.in_total = 0 /\ y.in_consumed = 0 /\ y.at = 0 /\ y.socket = "invalid" /\ y.in_event
      /\ y.active = x.active /\ y.cb = x.cb
  BY <1>1 DEF Fields, sxe_new_internal
<1>4. x.socket = "invalid" /\ ~x.active /\ n \in Net /\ n.got = 0 /\ n.ate = 0
  BY <1>1, NoBytes DEF OneOK, StateRight, Watched
<1>5. OneOK(y, n, "USED") /\ Same(x, y)
  BY <1>2, <1>3, <1>4 DEF OneOK, Streams, Watched, StateRight, Same, Reading
<1> HIDE DEF y
<1>6. z \in Fields
  BY <1>2 DEF Fields, Callbacks, sxe_watch_read, sxe_private_set_watch_events
<1>7. /\ z.in_total = 0 /\ z.in_consumed = 0 /\ z.at = 0 /\ z.socket = "connected" /\ z.in_event
      /\ z.active /\ z.cb = "read"
  BY <1>2, <1>3 DEF Fields, sxe_watch_read, sxe_private_set_watch_events
<1>8. OneOK(z, NoNet, "USED") /\ Same(x, z)
  BY <1>6, <1>7, NoNetIs DEF OneOK, Streams, Watched, StateRight, Same, Reading
<1> QED
  BY <1>5, <1>8 DEF y

\* A connection is made: a one-shot listener's, one that was asked for, and one
\* that only the kernel knows of.
LEMMA ConnectedOK ==
    ASSUME NEW x, NEW n, NEW s, OneOK(x, n, s)
    PROVE  LET y == sxe_watch_read([x EXCEPT !.socket = "connected"])
               z == [x EXCEPT !.socket = "connected"]
           IN  /\ x.socket = "listen" => OneOK(y, NoNet, s) /\ Same(x, y)
               /\ x.socket = "connecting" => OneOK(y, n, s) /\ Same(x, y)
               /\ x.socket = "connecting" /\ x.cb # "connect" => OneOK(z, n, s) /\ Same(x, z)
<1> USE BufSizeAssumption DEF OneOK, Streams, Fields, Watched, StateRight, Full, Same, Reading,
        Callbacks, sxe_watch_read, sxe_private_set_watch_events
<1> DEFINE y == sxe_watch_read([x EXCEPT !.socket = "connected"])
<1> DEFINE z == [x EXCEPT !.socket = "connected"]
<1>1. ASSUME x.socket = "listen" PROVE OneOK(y, NoNet, s) /\ Same(x, y)
  <2>1. OneOK(y, n, s) /\ Same(x, y)
    BY <1>1
  <2>2. n.got = 0 /\ n.ate = 0
    BY <1>1, NoBytes
  <2> HIDE DEF y
  <2> QED
    BY <2>1, <2>2, NoNetIs DEF OneOK, Streams
<1>2. x.socket = "connecting" => OneOK(y, n, s) /\ Same(x, y)
  OBVIOUS
<1>3. x.socket = "connecting" /\ x.cb # "connect" => OneOK(z, n, s) /\ Same(x, z)
  OBVIOUS
<1> QED
  BY <1>1, <1>2, <1>3

\* A watcher is set for reading, or for writing on a connection.
LEMMA WatchOK ==
    ASSUME NEW x, NEW n, NEW s, OneOK(x, n, s), NEW b \in BOOLEAN, NEW w \in {"send", "notify", "sendfile"}
    PROVE  /\ OneOK([x EXCEPT !.out_event = b], n, s) /\ Same(x, [x EXCEPT !.out_event = b])
           /\ x.socket # "invalid" => OneOK(sxe_watch_read(x), n, s) /\ Same(x, sxe_watch_read(x))
           /\ LET y == [sxe_watch_read(x) EXCEPT !.out_event = b]
              IN  x.socket # "invalid" => OneOK(y, n, s) /\ Same(x, y)
           /\ LET y == [sxe_private_set_watch_events(x, w) EXCEPT !.out_event = b]
              IN  x.socket = "connected" => OneOK(y, n, s) /\ Same(x, y)
<1> USE BufSizeAssumption DEF OneOK, Streams, Fields, Watched, StateRight, Full, Same, Reading,
        Callbacks, sxe_watch_read, sxe_private_set_watch_events
<1>1. OneOK([x EXCEPT !.out_event = b], n, s) /\ Same(x, [x EXCEPT !.out_event = b])
  OBVIOUS
<1>2. x.socket # "invalid" => OneOK(sxe_watch_read(x), n, s) /\ Same(x, sxe_watch_read(x))
  OBVIOUS
<1>3. LET y == [sxe_watch_read(x) EXCEPT !.out_event = b]
      IN  x.socket # "invalid" => OneOK(y, n, s) /\ Same(x, y)
  OBVIOUS
<1>4. LET y == [sxe_private_set_watch_events(x, w) EXCEPT !.out_event = b]
      IN  x.socket = "connected" => OneOK(y, n, s) /\ Same(x, y)
  OBVIOUS
<1> QED
  BY <1>1, <1>2, <1>3, <1>4

\* sxe_listen and sxe_connect, on an SXE that is in use and has no socket.
LEMMA OpenOK ==
    ASSUME NEW x, NEW n, NEW s, OneOK(x, n, s), s # "FREE", x.socket = "invalid", NEW b \in BOOLEAN
    PROVE  /\ LET y == [sxe_private_set_watch_events(x, "accept") EXCEPT !.socket = "listen", !.oneshot = b]
              IN  OneOK(y, n, s) /\ Same(x, y)
           /\ LET y == [sxe_private_set_watch_events(x, "connect") EXCEPT !.socket = "connecting"]
              IN  OneOK(y, n, s) /\ Same(x, y)
           /\ LET y == [x EXCEPT !.cb = "connect"]
              IN  OneOK(y, n, s) /\ Same(x, y)
<1> USE BufSizeAssumption DEF OneOK, Streams, Fields, Watched, StateRight, Full, Same, Reading,
        Callbacks, sxe_private_set_watch_events
<1>1. LET y == [sxe_private_set_watch_events(x, "accept") EXCEPT !.socket = "listen", !.oneshot = b]
      IN  OneOK(y, n, s) /\ Same(x, y)
  OBVIOUS
<1>2. LET y == [sxe_private_set_watch_events(x, "connect") EXCEPT !.socket = "connecting"]
      IN  OneOK(y, n, s) /\ Same(x, y)
  OBVIOUS
<1>3. LET y == [x EXCEPT !.cb = "connect"]
      IN  OneOK(y, n, s) /\ Same(x, y)
  OBVIOUS
<1> QED
  BY <1>1, <1>2, <1>3

\* sxe_close.
LEMMA CloseOK ==
    ASSUME NEW x, NEW n, NEW s, OneOK(x, n, s)
    PROVE  OneOK(sxe_close(x), NoNet, "FREE") /\ Same(x, sxe_close(x))
<1> DEFINE y == sxe_close(x)
<1>1. x \in Fields /\ 0 \in 0 .. BufSize /\ 0 \in Nat
  BY BufSizeAssumption DEF OneOK
<1>2. y \in Fields
  BY <1>1 DEF Fields, Callbacks, sxe_close
<1>3. /\ y.in_total = 0 /\ y.in_consumed = 0 /\ y.at = 0 /\ y.socket = "invalid"
      /\ y.active => x.active /\ x.socket = "invalid"
  BY <1>1 DEF Fields, sxe_close
<1>4. ~y.active
  BY <1>3 DEF OneOK, Watched
<1> HIDE DEF y
<1>5. OneOK(y, NoNet, "FREE") /\ Same(x, y)
  BY <1>2, <1>3, <1>4, NoNetIs DEF OneOK, Streams, Watched, StateRight, Same, Reading
<1> QED
  BY <1>5 DEF y
\* The application is done with what is in the buffer.
LEMMA ClearOK ==
    ASSUME NEW x, NEW n, NEW s, OneOK(x, n, s)
    PROVE  OneOK(sxe_buf_clear(x), [n EXCEPT !.ate = @ + USED(x)], s) /\ Same(x, sxe_buf_clear(x))
<1> DEFINE y == sxe_buf_clear(x)
<1> DEFINE m == [n EXCEPT !.ate = @ + USED(x)]
<1>1. /\ x \in Fields /\ n \in Net /\ 0 \in 0 .. BufSize
      /\ x.in_total \in Nat /\ x.in_consumed \in Nat /\ x.at \in Nat /\ x.in_consumed <= x.in_total
  BY BufSizeAssumption DEF OneOK, Streams, Fields
<1>2. x.in_total - x.in_consumed \in Nat /\ x.at + x.in_total \in Nat
  BY <1>1
<1>3. y \in Fields
  BY <1>1, <1>2 DEF Fields, sxe_buf_clear
<1>4. /\ y.in_total = 0 /\ y.in_consumed = 0 /\ y.at = x.at + x.in_total /\ y.socket = x.socket /\ y.cb = x.cb
      /\ y.in_event = x.in_event /\ y.deferred_event = x.deferred_event
      /\ y.active <=> x.active \/ x.socket # "invalid"
  BY <1>1 DEF Fields, sxe_buf_clear
<1>5. m \in Net /\ m.got = n.got /\ m.ate = n.ate + (x.in_total - x.in_consumed)
  BY <1>1, <1>2 DEF Net, USED
<1> HIDE DEF y, m
<1>6. Streams(y, m)
  <2>1. m.ate = m.got /\ n.got = x.at + x.in_total
    BY <1>1, <1>5 DEF OneOK, Streams
  <2>2. x.socket # "connected" => x.at + x.in_total = 0
    BY <1>1 DEF OneOK, Streams
  <2> QED
    BY <1>1, <1>4, <1>5, <2>1, <2>2 DEF Streams
<1>7. Watched(y) /\ StateRight(y, s) /\ Same(x, y)
  BY <1>4 DEF OneOK, Watched, StateRight, Same, Reading
<1> QED
  BY <1>3, <1>5, <1>6, <1>7 DEF OneOK, y, m

\* A pause changes nothing that matters here.
LEMMA PauseOK ==
    ASSUME NEW x, NEW n, NEW s, OneOK(x, n, s), NEW b \in BOOLEAN
    PROVE  OneOK([x EXCEPT !.paused = b], n, s) /\ Same(x, [x EXCEPT !.paused = b])
BY DEF OneOK, Streams, Fields, Watched, StateRight, Full, Same, Reading

\* Some or all of the data is consumed.
LEMMA ConsumeOK ==
    ASSUME NEW x, NEW n, NEW s, OneOK(x, n, s), NEW bytes \in 0 .. USED(x)
    PROVE  OneOK(sxe_buf_consume(x, bytes), [n EXCEPT !.ate = @ + bytes], s) /\ Same(x, sxe_buf_consume(x, bytes))
<1> DEFINE w == [x EXCEPT !.in_consumed = @ + bytes]
<1> DEFINE y == sxe_pause(w)
<1> DEFINE m == [n EXCEPT !.ate = @ + bytes]
<1>1. /\ x \in Fields /\ n \in Net /\ BufSize \in Nat
      /\ x.in_total \in Nat /\ x.in_consumed \in Nat /\ x.at \in Nat /\ x.in_consumed <= x.in_total /\ x.in_total <= BufSize
  BY BufSizeAssumption DEF OneOK, Streams, Fields
<1>2. bytes \in Nat /\ x.in_consumed + bytes <= x.in_total /\ x.in_consumed + bytes \in 0 .. BufSize
  BY <1>1 DEF USED
<1>3. w \in Fields
  BY <1>1, <1>2 DEF Fields
<1>4. /\ w.in_total = x.in_total /\ w.in_consumed = x.in_consumed + bytes /\ w.at = x.at /\ w.socket = x.socket
      /\ w.cb = x.cb /\ w.in_event = x.in_event /\ w.deferred_event = x.deferred_event /\ w.active = x.active
  BY <1>1 DEF Fields
<1>5. m \in Net /\ m.got = n.got /\ m.ate = n.ate + bytes
  BY <1>1, <1>2 DEF Net
<1> HIDE DEF w, m
<1>6. Streams(w, m)
  BY <1>1, <1>2, <1>4, <1>5 DEF OneOK, Streams
<1>7. OneOK(w, m, s) /\ Same(x, w)
  BY <1>3, <1>4, <1>5, <1>6 DEF OneOK, Watched, StateRight, Full, Same, Reading
<1>8. OneOK(y, m, s) /\ Same(w, y)
  BY <1>7, PauseOK DEF sxe_pause
<1>9. sxe_buf_consume(x, bytes) = IF y.in_consumed = y.in_total THEN sxe_buf_clear(y) ELSE y
  BY DEF sxe_buf_consume, w
<1> HIDE DEF y
<1>10. CASE y.in_consumed = y.in_total
  <2>1. OneOK(sxe_buf_clear(y), [m EXCEPT !.ate = @ + USED(y)], s) /\ Same(y, sxe_buf_clear(y))
    BY <1>8, ClearOK
  <2>2. USED(y) = 0
    <3>1. y.in_total \in Int
      BY <1>8 DEF OneOK, Fields
    <3> QED
      BY <1>10, <3>1 DEF USED
  <2>3. [m EXCEPT !.ate = @ + 0] = m
    BY <1>5 DEF Net
  <2> QED
    BY <1>7, <1>8, <1>9, <1>10, <2>1, <2>2, <2>3 DEF Same, m
<1>11. CASE y.in_consumed # y.in_total
  BY <1>7, <1>8, <1>9, <1>11 DEF Same, m
<1> QED
  BY <1>10, <1>11

\* The data moves to the front of the buffer of a connection that is watched.
LEMMA ShuffleOK ==
    ASSUME NEW x, NEW n, NEW s, OneOK(x, n, s), x.in_consumed # 0
    PROVE  /\ x.active => OneOK(Shuffle(x), n, s) /\ Same(x, Shuffle(x))
           /\ OneOK([Shuffle(x) EXCEPT !.active = TRUE], n, s) /\ Same(x, [Shuffle(x) EXCEPT !.active = TRUE])
<1> DEFINE y == Shuffle(x)
<1> DEFINE z == [y EXCEPT !.active = TRUE]
<1>1. /\ x \in Fields /\ n \in Net /\ BufSize \in Nat
      /\ x.in_total \in Nat /\ x.in_consumed \in Nat /\ x.at \in Nat /\ x.in_consumed <= x.in_total /\ x.in_total <= BufSize
  BY BufSizeAssumption DEF OneOK, Streams, Fields
<1>2. x.socket = "connected"
  BY NoBytes
<1>3. x.in_total - x.in_consumed \in 0 .. BufSize /\ 0 \in 0 .. BufSize /\ x.at + x.in_consumed \in Nat
  BY <1>1
<1>4. y \in Fields
  BY <1>1, <1>3 DEF Fields, Shuffle
<1>5. /\ y.in_total = x.in_total - x.in_consumed /\ y.in_consumed = 0 /\ y.at = x.at + x.in_consumed
      /\ y.socket = x.socket /\ y.cb = x.cb /\ y.active = x.active
      /\ y.in_event = x.in_event /\ y.deferred_event = x.deferred_event
  BY <1>1 DEF Fields, Shuffle
<1> HIDE DEF y
<1>6. Streams(y, n)
  BY <1>1, <1>2, <1>5 DEF OneOK, Streams
<1>7. ASSUME x.active PROVE OneOK(y, n, s) /\ Same(x, y)
  BY <1>1, <1>2, <1>4, <1>5, <1>6, <1>7 DEF OneOK, Watched, StateRight, Same, Reading
<1>8. z \in Fields
  BY <1>4 DEF Fields
<1>9. /\ z.in_total = y.in_total /\ z.in_consumed = y.in_consumed /\ z.at = y.at
      /\ z.socket = x.socket /\ z.cb = x.cb /\ z.active
      /\ z.in_event = x.in_event /\ z.deferred_event = x.deferred_event
  BY <1>4, <1>5 DEF Fields
<1> HIDE DEF z
<1>10. Streams(z, n)
  BY <1>6, <1>2, <1>9 DEF Streams
<1>11. Watched(z) /\ StateRight(z, s) /\ Same(x, z)
  BY <1>2, <1>9 DEF OneOK, Watched, StateRight, Same, Reading
<1> QED
  BY <1>1, <1>7, <1>8, <1>10, <1>11 DEF OneOK, y, z
\* sxe_buf_resume.
LEMMA ResumeOK ==
    ASSUME NEW x, NEW n, NEW s, OneOK(x, n, s)
    PROVE  OneOK(sxe_buf_resume(x), n, s) /\ Same(x, sxe_buf_resume(x))
<1> DEFINE y == [x EXCEPT !.paused = FALSE]
<1>1. OneOK(y, n, s) /\ Same(x, y)
  BY PauseOK
<1>2. sxe_buf_resume(x) = IF y.in_consumed # 0 /\ Full(y) THEN [Shuffle(y) EXCEPT !.active = TRUE] ELSE y
  BY DEF sxe_buf_resume
<1> HIDE DEF y
<1> QED
  BY <1>1, <1>2, ShuffleOK DEF Same

\* The immediate resume of an SXE with data defers its event.
LEMMA DeferOK ==
    ASSUME NEW x, NEW n, OneOK(x, n, "USED"), USED(x) # 0
    PROVE  LET y == [sxe_buf_resume(x) EXCEPT !.deferred_event = "resume"]
           IN  OneOK(y, n, "DEFERRED") /\ Same(x, y)
<1> DEFINE w == sxe_buf_resume(x)
<1> DEFINE y == [w EXCEPT !.deferred_event = "resume"]
<1>1. OneOK(w, n, "USED") /\ Same(x, w)
  BY ResumeOK
<1>2. x.socket = "connected"
  <2>1. x.socket # "connected" => x.in_total = 0 /\ x.in_consumed = 0
    BY NoBytes
  <2> QED
    BY <2>1 DEF USED
<1>3. w.socket = "connected"
  BY <1>2 DEF OneOK, Fields, sxe_buf_resume, Shuffle
<1> HIDE DEF w
<1>4. y \in Fields
  BY <1>1 DEF OneOK, Fields
<1>5. /\ y.in_total = w.in_total /\ y.in_consumed = w.in_consumed /\ y.at = w.at
      /\ y.socket = w.socket /\ y.cb = w.cb /\ y.active = w.active
      /\ y.in_event = w.in_event /\ y.deferred_event = "resume"
  BY <1>1 DEF OneOK, Fields
<1> HIDE DEF y
<1>6. OneOK(y, n, "DEFERRED") /\ Same(x, y)
  BY <1>1, <1>3, <1>4, <1>5 DEF OneOK, Streams, Watched, Full, StateRight, Same, Reading
<1> QED
  BY <1>6 DEF y, w

\* An SXE leaves the deferred queue, with its event or without.
LEMMA InvokeOK ==
    ASSUME NEW x, NEW n, OneOK(x, n, "DEFERRED")
    PROVE  LET y == [x EXCEPT !.deferred_event = "none"]
           IN  OneOK(x, n, "USED") /\ OneOK(y, n, "USED") /\ Same(x, y)
BY DEF OneOK, Streams, Fields, Watched, StateRight, Full, Same, Reading

\* recv returns data, within the room that the buffer has.
LEMMA RecvOK ==
    ASSUME NEW x, NEW n, NEW s, OneOK(x, n, s), x.socket = "connected", x.active,
           NEW length \in 1 .. BufSize - x.in_total, length <= n.in
    PROVE  LET y == [x EXCEPT !.in_total = @ + length]
           IN  /\ OneOK(y, [n EXCEPT !.in = @ - length, !.got = @ + length], s)
               /\ y.active /\ y.socket = "connected"
<1> DEFINE y == [x EXCEPT !.in_total = @ + length]
<1> DEFINE m == [n EXCEPT !.in = @ - length, !.got = @ + length]
<1>1. /\ x \in Fields /\ n \in Net /\ BufSize \in Nat
      /\ x.in_total \in Nat /\ x.in_consumed \in Nat /\ x.at \in Nat /\ x.in_consumed <= x.in_total /\ x.in_total <= BufSize
      /\ n.in \in Nat /\ n.got \in Nat /\ n.ate \in Nat
  BY BufSizeAssumption DEF OneOK, Streams, Fields, Net
<1>2. length \in Nat /\ x.in_total + length \in 0 .. BufSize /\ n.in - length \in Nat /\ n.got + length \in Nat
  BY <1>1
<1>3. y \in Fields
  BY <1>1, <1>2 DEF Fields
<1>4. /\ y.in_total = x.in_total + length /\ y.in_consumed = x.in_consumed /\ y.at = x.at
      /\ y.socket = x.socket /\ y.cb = x.cb /\ y.active = x.active
      /\ y.in_event = x.in_event /\ y.deferred_event = x.deferred_event
  BY <1>1 DEF Fields
<1>5. m \in Net /\ m.got = n.got + length /\ m.ate = n.ate
  BY <1>1, <1>2 DEF Net
<1> HIDE DEF y, m
<1>6. Streams(y, m)
  BY <1>1, <1>2, <1>4, <1>5 DEF OneOK, Streams
<1>7. OneOK(y, m, s)
  BY <1>3, <1>4, <1>5, <1>6 DEF OneOK, Watched, StateRight
<1> QED
  BY <1>4, <1>7 DEF y, m

\* The end of sxe_private_handle_read_data, on an SXE that is still watched or
\* is no longer a connection.
LEMMA AfterReadOK ==
    ASSUME NEW x, NEW n, NEW s, OneOK(x, n, s), Reading(x)
    PROVE  OneOK(AfterRead(x), n, s)
<1>1. CASE ~Full(x)
  BY <1>1 DEF AfterRead
<1>2. CASE Full(x) /\ x.in_consumed # 0
  <2>1. x.active
    BY <1>2, NoBytes DEF Reading
  <2> QED
    BY <1>2, <2>1, ShuffleOK DEF AfterRead
<1>3. CASE Full(x) /\ x.in_consumed = 0
  <2> DEFINE y == [x EXCEPT !.active = FALSE]
  <2>1. y \in Fields
    BY DEF OneOK, Fields
  <2>2. /\ y.in_total = x.in_total /\ y.in_consumed = x.in_consumed /\ y.at = x.at
        /\ y.socket = x.socket /\ y.cb = x.cb /\ ~y.active
        /\ y.in_event = x.in_event /\ y.deferred_event = x.deferred_event
    BY DEF OneOK, Fields
  <2> HIDE DEF y
  <2>3. OneOK(y, n, s)
    BY <1>3, <2>1, <2>2 DEF OneOK, Streams, Watched, Full, StateRight
  <2> QED
    BY <1>3, <2>3 DEF AfterRead, y
<1> QED
  BY <1>1, <1>2, <1>3
-----------------------------------------------------------------------------
(* Steps.                                                                  *)

\* The first SXE in a queue is in that queue's state.
LEMMA HeadState ==
    ASSUME QueuesOK(queue), NEW s \in States, queue[s] # <<>>
    PROVE  Head(queue[s]) \in Ids /\ StateOf(Head(queue[s])) = s
<1> HIDE DEF Ids, States
<1>1. queue[s] \in Seq(Ids)
  BY DEF QueuesOK
<1>2. Head(queue[s]) \in Ids /\ Len(queue[s]) \in Nat /\ Len(queue[s]) # 0 /\ Head(queue[s]) = queue[s][1]
  BY <1>1
<1>3. In(queue, Head(queue[s]), s)
  BY <1>2 DEF In, Member
<1> QED
  BY <1>2, <1>3, StateOfIn

\* The frames after a step that are read events were on the stack before it, and
\* the outermost one still is the outermost one.
Older == \A k \in 1 .. Len(stack') : stack'[k].cb = "read" =>
             \E l \in 1 .. Len(stack) : stack[l] = stack'[k] /\ (l = Len(stack) => k = Len(stack'))

LEMMA OlderSame ==
    ASSUME UNCHANGED stack
    PROVE  Older
BY DEF Older

\* A callback is called.
LEMMA OlderCall ==
    ASSUME stack \in Seq(Frame), NEW c, NEW i, [cb |-> c, this |-> i] \in Frame, c # "read", Call(c, i)
    PROVE  Older /\ stack' \in Seq(Frame)
<1> DEFINE f == [cb |-> c, this |-> i]
<1>1. stack' = <<f>> \o stack
  BY DEF Call
<1>2. f.cb = c
  OBVIOUS
<1> HIDE DEF f, Frame
<1>3. PICK n \in Nat : n = Len(stack)
  OBVIOUS
<1>4. f \in Frame
  BY DEF f
<1>5. stack' \in Seq(Frame) /\ Len(stack') = n + 1
  BY <1>1, <1>3, <1>4
<1>6. \A k \in 1 .. n + 1 : stack'[k] = IF k = 1 THEN f ELSE stack[k - 1]
  BY <1>1, <1>3, <1>4
<1>7. ASSUME NEW k \in 1 .. n + 1, stack'[k].cb = "read"
      PROVE  \E l \in 1 .. n : stack[l] = stack'[k] /\ (l = n => k = n + 1)
  <2>1. k # 1
    BY <1>2, <1>6, <1>7
  <2>2. k - 1 \in 1 .. n /\ (k - 1 = n => k = n + 1)
    BY <1>3, <2>1
  <2> QED
    BY <1>6, <2>1, <2>2
<1> QED
  BY <1>3, <1>5, <1>7 DEF Older

\* A callback returns.
LEMMA OlderReturn ==
    ASSUME stack \in Seq(Frame), stack # <<>>, stack' = Tail(stack)
    PROVE  Older /\ stack' \in Seq(Frame) /\ Len(stack') = Len(stack) - 1
<1> HIDE DEF Frame
<1>1. PICK n \in Nat : n = Len(stack)
  OBVIOUS
<1>2. stack' \in Seq(Frame) /\ Len(stack') = n - 1 /\ \A k \in 1 .. n - 1 : stack'[k] = stack[k + 1]
  BY <1>1
<1>3. ASSUME NEW k \in 1 .. n - 1
      PROVE  k + 1 \in 1 .. n /\ (k + 1 = n => k = n - 1)
  BY <1>1
<1>4. \A k \in 1 .. n - 1 : \E l \in 1 .. n : stack[l] = stack'[k] /\ (l = n => k = n - 1)
  BY <1>2, <1>3
<1> QED
  BY <1>1, <1>2, <1>4 DEF Older

\* A callback takes the place of the handler that called it.
LEMMA OlderReplace ==
    ASSUME stack \in Seq(Frame), stack # <<>>, NEW f \in Frame, f.cb # "read", stack' = <<f>> \o Tail(stack)
    PROVE  Older /\ stack' \in Seq(Frame)
<1> HIDE DEF Frame
<1>1. PICK n \in Nat : n = Len(stack)
  OBVIOUS
<1>2. PICK r : r = Tail(stack)
  OBVIOUS
<1>6. r \in Seq(Frame) /\ Len(r) = n - 1 /\ \A k \in 1 .. n - 1 : r[k] = stack[k + 1]
  BY <1>1, <1>2
<1>3. n - 1 \in Nat
  BY <1>1
<1>4. stack' \in Seq(Frame) /\ Len(stack') = n /\ \A k \in 1 .. n : stack'[k] = IF k = 1 THEN f ELSE r[k - 1]
  BY <1>1, <1>2, <1>3, <1>6
<1>5. ASSUME NEW k \in 1 .. n, stack'[k].cb = "read" PROVE stack[k] = stack'[k]
  <2>1. k # 1
    BY <1>4, <1>5
  <2>2. k - 1 \in 1 .. n - 1 /\ (k - 1) + 1 = k
    BY <1>1, <2>1
  <2> QED
    BY <1>4, <1>6, <2>1, <2>2
<1> QED
  BY <1>1, <1>4, <1>5 DEF Older

\* A read event goes on as it was when its SXE does.
LEMMA ReadKept ==
    ASSUME ReadOutermost, stack \in Seq(Frame), Older,
           \A j \in Ids : Same(sxe[j], sxe'[j])
    PROVE  ReadOutermost'
<1>0. \A l \in 1 .. Len(stack) : stack[l] \in Frame
  OBVIOUS
<1>1. \A l \in 1 .. Len(stack) : stack[l].this \in Ids
  BY <1>0 DEF Frame
<1>2. ASSUME NEW k \in 1 .. Len(stack'), stack'[k].cb = "read"
      PROVE  k = Len(stack') /\ Reading(sxe'[stack'[k].this])
  <2>1. PICK l \in 1 .. Len(stack) : stack[l] = stack'[k] /\ (l = Len(stack) => k = Len(stack'))
    BY <1>2 DEF Older
  <2>2. l = Len(stack) /\ Reading(sxe[stack[l].this])
    BY <1>2, <2>1 DEF ReadOutermost
  <2> QED
    BY <1>1, <2>1, <2>2 DEF Same
<1>3. \A k \in 1 .. Len(stack') : stack'[k].cb = "read" => k = Len(stack') /\ Reading(sxe'[stack'[k].this])
  BY <1>2
<1> QED
  BY <1>3 DEF ReadOutermost, Reading

\* One SXE changes, and the others stay as they are.
LEMMA OthersStay ==
    ASSUME IInv, NEW i \in Ids, NEW y, NEW m, NEW t,
           sxe' = [sxe EXCEPT ![i] = y], net' = [net EXCEPT ![i] = m], OneOK(y, m, t),
           StateOf(i)' = t, \A j \in Ids : j # i => StateOf(j)' = StateOf(j)
    PROVE  /\ sxe' \in [Ids -> Fields] /\ net' \in [Ids -> Net] /\ AllOK'
           /\ Same(sxe[i], y) => \A j \in Ids : Same(sxe[j], sxe'[j])
<1> HIDE DEF Ids, Fields, Net
<1>1. sxe \in [Ids -> Fields] /\ net \in [Ids -> Net] /\ y \in Fields /\ m \in Net
  BY DEF IInv, SxeTypeOK, OneOK
<1>2. sxe' \in [Ids -> Fields] /\ net' \in [Ids -> Net]
  BY <1>1
<1>3. \A j \in Ids : sxe'[j] = (IF j = i THEN y ELSE sxe[j]) /\ net'[j] = IF j = i THEN m ELSE net[j]
  BY <1>1
<1>4. ASSUME NEW j \in Ids PROVE OneOK(sxe'[j], net'[j], StateOf(j)')
  BY <1>3 DEF IInv, AllOK
<1>5. AllOK'
  BY <1>4 DEF AllOK, OneOK, Streams, Watched, StateRight, Full
<1>6. Same(sxe[i], y) => \A j \in Ids : Same(sxe[j], sxe'[j])
  BY <1>3 DEF Same
<1> QED
  BY <1>2, <1>5, <1>6
RestOK == stack' \in Seq(Frame) /\ pc' \in {"release", "poll"} /\ counter' \in 0 .. DeferredMax /\ aborted' \in BOOLEAN

LEMMA Finish ==
    ASSUME sxe' \in [Ids -> Fields], net' \in [Ids -> Net], AllOK', QueuesOK(queue)', ReadOutermost', RestOK
    PROVE  IInv'
BY DEF IInv, SxeTypeOK, RestOK, QueuesOK

\* A step on one SXE that leaves it in its state.
LEMMA StayStep ==
    ASSUME IInv, NEW i \in Ids, NEW y, NEW m, sxe' = [sxe EXCEPT ![i] = y], net' = [net EXCEPT ![i] = m],
           UNCHANGED queue, OneOK(y, m, StateOf(i)), Same(sxe[i], y), Older, RestOK
    PROVE  IInv'
<1> HIDE DEF Ids, Fields, Net, Frame
<1>1. StateOf(i)' = StateOf(i) /\ \A j \in Ids : j # i => StateOf(j)' = StateOf(j)
  BY DEF StateOf
<1>2. sxe' \in [Ids -> Fields] /\ net' \in [Ids -> Net] /\ AllOK' /\ \A j \in Ids : Same(sxe[j], sxe'[j])
  BY <1>1, OthersStay
<1>3. ReadOutermost'
  BY <1>2, ReadKept DEF IInv, SxeTypeOK
<1>4. QueuesOK(queue)'
  <2>1. QueuesOK(queue) /\ queue' = queue
    BY DEF IInv
  <2>2. QueuesOK(queue')
    BY <2>1
  <2> QED
    BY <2>2 DEF QueuesOK, Placed, Once, In, Member
<1> QED
  BY <1>2, <1>3, <1>4, Finish

\* A step on one SXE that moves it to another state.
LEMMA MoveStep ==
    ASSUME IInv, NEW i \in Ids, NEW y, NEW m, sxe' = [sxe EXCEPT ![i] = y], net' = [net EXCEPT ![i] = m],
           NEW old \in States, NEW new \in States, old # new, StateOf(i) = old,
           queue' = Moved(queue, i, old, new), OneOK(y, m, new), Same(sxe[i], y), Older, RestOK
    PROVE  IInv'
<1> HIDE DEF Ids, Fields, Net, Frame, States
<1>1. QueuesOK(queue)' /\ StateOf(i)' = new /\ \A j \in Ids : j # i => StateOf(j)' = StateOf(j)
  BY StateMoved DEF IInv
<1>2. sxe' \in [Ids -> Fields] /\ net' \in [Ids -> Net] /\ AllOK' /\ \A j \in Ids : Same(sxe[j], sxe'[j])
  BY <1>1, OthersStay
<1>3. ReadOutermost'
  BY <1>2, ReadKept DEF IInv, SxeTypeOK
<1> QED
  BY <1>1, <1>2, <1>3, Finish

\* What the invariant says of one SXE, in the forms that the steps use.
LEMMA One ==
    ASSUME IInv, NEW i \in Ids
    PROVE  /\ OneOK(sxe[i], net[i], StateOf(i)) /\ StateOf(i) \in States
           /\ sxe = [sxe EXCEPT ![i] = sxe[i]] /\ net = [net EXCEPT ![i] = net[i]]
           /\ sxe \in [Ids -> Fields] /\ net \in [Ids -> Net] /\ stack \in Seq(Frame)
BY StateOfIn DEF IInv, AllOK, SxeTypeOK

\* A step that changes neither the stack nor the loop.
LEMMA Resting ==
    ASSUME IInv, UNCHANGED <<pc, counter, aborted, stack>>
    PROVE  Older /\ RestOK
BY OlderSame DEF IInv, SxeTypeOK, RestOK

\* A step that calls back, for any event but a read.
LEMMA Calling ==
    ASSUME IInv, UNCHANGED <<pc, counter, aborted>>, NEW i \in Ids, NEW c, c # "read",
           [cb |-> c, this |-> i] \in Frame, Call(c, i)
    PROVE  Older /\ RestOK
<1> HIDE DEF Frame
<1> QED
  BY OlderCall DEF IInv, SxeTypeOK, RestOK

-----------------------------------------------------------------------------
(* The application's calls.                                                *)

LEMMA ChangeStep ==
    ASSUME IInv, NEW i \in Ids, NEW y, Change(i, y), OneOK(y, net[i], StateOf(i)), Same(sxe[i], y)
    PROVE  IInv'
<1>1. Older /\ RestOK
  BY Resting DEF Change
<1>2. sxe' = [sxe EXCEPT ![i] = y] /\ net' = [net EXCEPT ![i] = net[i]] /\ queue' = queue
  BY One DEF Change
<1> QED
  BY <1>1, <1>2, StayStep

\* sxe_sendfile, from a call or from its watcher.
LEMMA SendfileStep ==
    ASSUME IInv, NEW i \in Ids, sxe[i].socket = "connected", sxe_sendfile(i), UNCHANGED <<queue, net, pc, counter, aborted>>
    PROVE  IInv'
<1> HIDE DEF Ids, Fields, Net, States
<1>1. /\ OneOK(sxe[i], net[i], StateOf(i)) /\ net' = [net EXCEPT ![i] = net[i]]
      /\ stack \in Seq(Frame)
  BY One
<1>2. \A c \in {"sendfile", "sendfile_failed"} : [cb |-> c, this |-> i] \in Frame
  BY DEF Frame
<1> HIDE DEF Frame
<1>3. CASE Call("sendfile", i) /\ sxe' = [sxe EXCEPT ![i].out_event = TRUE]
  <2>1. Older /\ RestOK
    BY <1>2, <1>3, Calling
  <2> QED
    BY <1>1, <1>3, <2>1, WatchOK, StayStep
<1>4. CASE /\ sxe' = [sxe EXCEPT ![i] = [sxe_private_set_watch_events(@, "sendfile") EXCEPT !.out_event = TRUE]]
           /\ UNCHANGED stack
  <2>1. Older /\ RestOK
    BY <1>4, Resting
  <2> QED
    BY <1>1, <1>4, <2>1, WatchOK, StayStep
<1>5. CASE Call("sendfile_failed", i) /\ sxe' = [sxe EXCEPT ![i].out_event = TRUE]
  <2>1. Older /\ RestOK
    BY <1>2, <1>5, Calling
  <2> QED
    BY <1>1, <1>5, <2>1, WatchOK, StayStep
<1> QED
  BY <1>3, <1>4, <1>5 DEF sxe_sendfile

LEMMA AppSteps ==
    ASSUME IInv, NEW i \in Allocated, App(i)
    PROVE  IInv'
<1> HIDE DEF Ids, Fields, Net, Frame, States
<1>1. i \in Ids /\ StateOf(i) # "FREE"
  BY DEF Allocated
<1>2. /\ OneOK(sxe[i], net[i], StateOf(i)) /\ StateOf(i) \in States
      /\ sxe = [sxe EXCEPT ![i] = sxe[i]] /\ net = [net EXCEPT ![i] = net[i]]
      /\ sxe \in [Ids -> Fields] /\ net \in [Ids -> Net] /\ stack \in Seq(Frame)
  BY <1>1, One
<1>3. CASE sxe_listen(i)
  <2>1. PICK b \in BOOLEAN : Change(i, [sxe_private_set_watch_events(sxe[i], "accept") EXCEPT !.socket = "listen", !.oneshot = b])
    BY <1>3 DEF sxe_listen
  <2>2. sxe[i].socket = "invalid"
    BY <1>3 DEF sxe_listen
  <2> QED
    BY <1>1, <1>2, <2>1, <2>2, OpenOK, ChangeStep
<1>4. CASE sxe_connect(i)
  <2>1. sxe[i].socket = "invalid"
    BY <1>4 DEF sxe_connect
  <2>2. CASE Change(i, [sxe_private_set_watch_events(sxe[i], "connect") EXCEPT !.socket = "connecting"])
    BY <1>1, <1>2, <2>1, <2>2, OpenOK, ChangeStep
  <2>3. CASE Change(i, [sxe[i] EXCEPT !.cb = "connect"])
    BY <1>1, <1>2, <2>1, <2>3, OpenOK, ChangeStep
  <2> QED
    BY <1>4, <2>2, <2>3 DEF sxe_connect
<1>5. CASE CallClose(i)
  <2>1. Older /\ RestOK
    BY <1>5, Resting DEF CallClose
  <2>2. /\ sxe' = [sxe EXCEPT ![i] = sxe_close(sxe[i])] /\ net' = [net EXCEPT ![i] = NoNet]
        /\ queue' = Moved(queue, i, StateOf(i), "FREE")
    BY <1>5 DEF CallClose, Close
  <2>3. "FREE" \in States
    BY DEF States
  <2> QED
    BY <1>1, <1>2, <2>1, <2>2, <2>3, CloseOK, MoveStep
<1>6. CASE CallClear(i)
  <2>1. Older /\ RestOK
    BY <1>6, Resting DEF CallClear
  <2>2. /\ sxe' = [sxe EXCEPT ![i] = sxe_buf_clear(sxe[i])] /\ queue' = queue
        /\ net' = [net EXCEPT ![i] = [net[i] EXCEPT !.ate = @ + USED(sxe[i])]]
    BY <1>6 DEF CallClear
  <2> QED
    BY <1>1, <1>2, <2>1, <2>2, ClearOK, StayStep
<1>7. CASE CallConsume(i)
  <2>1. Older /\ RestOK
    BY <1>7, Resting DEF CallConsume
  <2>2. PICK bytes \in 0 .. USED(sxe[i]) :
           /\ sxe' = [sxe EXCEPT ![i] = sxe_buf_consume(sxe[i], bytes)]
           /\ net' = [net EXCEPT ![i] = [net[i] EXCEPT !.ate = @ + bytes]]
    BY <1>7 DEF CallConsume
  <2>3. queue' = queue
    BY <1>7 DEF CallConsume
  <2> QED
    BY <1>1, <1>2, <2>1, <2>2, <2>3, ConsumeOK, StayStep
<1>8. CASE CallPause(i)
  BY <1>1, <1>2, <1>8, PauseOK, ChangeStep DEF CallPause, sxe_pause
<1>9. CASE CallResume(i)
  BY <1>1, <1>2, <1>9, ResumeOK, ChangeStep DEF CallResume
<1>10. CASE CallResumeNow(i)
  <2>0. net' = [net EXCEPT ![i] = net[i]]
    BY <1>2, <1>10 DEF CallResumeNow
  <2>1. CASE StateOf(i) = "DEFERRED"
    <3>1. Older /\ RestOK
      BY <1>10, <2>1, Resting DEF CallResumeNow
    <3>2. sxe' = [sxe EXCEPT ![i] = sxe_buf_resume(sxe[i])] /\ queue' = queue
      BY <1>10, <2>1 DEF CallResumeNow
    <3> QED
      BY <1>1, <1>2, <2>0, <3>1, <3>2, ResumeOK, StayStep
  <2>2. CASE StateOf(i) # "DEFERRED" /\ sxe[i].deferred_event # "none"
    <3>1. stack' = stack /\ pc' = pc /\ counter' = counter /\ aborted' = TRUE
      BY <1>10, <2>2 DEF CallResumeNow
    <3>2. Older /\ RestOK
      BY <1>2, <3>1, OlderSame DEF RestOK, IInv, SxeTypeOK
    <3>3. sxe' = [sxe EXCEPT ![i] = sxe[i]] /\ queue' = queue /\ Same(sxe[i], sxe[i])
      BY <1>2, <1>10, <2>2 DEF CallResumeNow, Same
    <3> QED
      BY <1>1, <1>2, <2>0, <3>2, <3>3, StayStep
  <2>3. CASE StateOf(i) # "DEFERRED" /\ sxe[i].deferred_event = "none"
    <3>1. Older /\ RestOK
      BY <1>10, <2>3, Resting DEF CallResumeNow
    <3>2. /\ sxe' = [sxe EXCEPT ![i] = [sxe_buf_resume(sxe[i]) EXCEPT !.deferred_event = "resume"]]
          /\ queue' = Moved(queue, i, "USED", "DEFERRED") /\ USED(sxe[i]) # 0
      BY <1>10, <2>3 DEF CallResumeNow
    <3>3. StateOf(i) = "USED" /\ "USED" \in States /\ "DEFERRED" \in States
      BY <1>1, <1>2, <2>3 DEF States
    <3> QED
      BY <1>1, <1>2, <2>0, <3>1, <3>2, <3>3, DeferOK, MoveStep
  <2> QED
    BY <2>1, <2>2, <2>3
<1>11. CASE sxe_send(i)
  <2>1. sxe[i].socket = "connected"
    BY <1>11 DEF sxe_send, MayWrite
  <2>2. CASE Change(i, [sxe[i] EXCEPT !.out_event = TRUE])
    BY <1>1, <1>2, <2>2, WatchOK, ChangeStep
  <2>3. CASE Change(i, [sxe_private_set_watch_events(sxe[i], "send") EXCEPT !.out_event = TRUE])
    BY <1>1, <1>2, <2>1, <2>3, WatchOK, ChangeStep
  <2> QED
    BY <1>11, <2>2, <2>3 DEF sxe_send
<1>12. CASE sxe_notify_writable(i)
  BY <1>1, <1>2, <1>12, WatchOK, ChangeStep DEF sxe_notify_writable, MayWrite
<1>13. CASE CallSendfile(i)
  BY <1>1, <1>13, SendfileStep DEF CallSendfile, MayWrite
<1> QED
  BY <1>3, <1>4, <1>5, <1>6, <1>7, <1>8, <1>9, <1>10, <1>11, <1>12, <1>13 DEF App
-----------------------------------------------------------------------------
(* The kernel, the watchers, the loop and the returns of callbacks.        *)

LEMMA KernelSteps ==
    ASSUME IInv, NEW i \in Ids, Kernel(i)
    PROVE  IInv'
<1> HIDE DEF Ids, Fields, Net, Frame, States
<1>1. /\ OneOK(sxe[i], net[i], StateOf(i)) /\ Same(sxe[i], sxe[i])
      /\ sxe = [sxe EXCEPT ![i] = sxe[i]] /\ net = [net EXCEPT ![i] = net[i]]
  BY One DEF Same
<1>2. Older /\ RestOK /\ queue' = queue
  BY Resting DEF Kernel, PeerSends, PeerCloses, PeerConnects, PeerAccepts
<1>3. CASE PeerSends(i) \/ PeerConnects(i)
  <2>1. sxe' = [sxe EXCEPT ![i] = sxe[i]] /\ net' = [net EXCEPT ![i] = [net[i] EXCEPT !.in = @ + 1]]
    BY <1>1, <1>3 DEF PeerSends, PeerConnects
  <2> QED
    BY <1>1, <1>2, <2>1, NetOK, StayStep
<1>4. CASE PeerCloses(i)
  <2>1. sxe' = [sxe EXCEPT ![i] = sxe[i]] /\ net' = [net EXCEPT ![i] = [net[i] EXCEPT !.eof = TRUE]]
    BY <1>1, <1>4 DEF PeerCloses
  <2> QED
    BY <1>1, <1>2, <2>1, NetOK, StayStep
<1>5. CASE PeerAccepts(i)
  <2>1. sxe' = [sxe EXCEPT ![i] = [sxe[i] EXCEPT !.socket = "connected"]] /\ net' = [net EXCEPT ![i] = net[i]]
    BY <1>1, <1>5 DEF PeerAccepts
  <2> QED
    BY <1>1, <1>2, <1>5, <2>1, ConnectedOK, StayStep DEF PeerAccepts
<1> QED
  BY <1>3, <1>4, <1>5 DEF Kernel

\* A socket that is open belongs to an SXE in use.
LEMMA OpenInUse ==
    ASSUME NEW x, NEW n, NEW s, OneOK(x, n, s), x.active
    PROVE  /\ s # "FREE" /\ x.socket # "invalid"
           /\ x.cb \in {"send", "notify", "sendfile"} => x.socket = "connected"
           /\ x.cb = "connect" => x.socket = "connecting"
BY DEF OneOK, Watched, StateRight, Fields

\* Data is read into the buffer of a connection: the read event is then the
\* only callback, or the SXE is paused.
LEMMA ReadDataStep ==
    ASSUME IInv, NEW i \in Ids, ReadData(i)
    PROVE  IInv'
<1> HIDE DEF Fields, Net, States
<1>1. OneOK(sxe[i], net[i], StateOf(i)) /\ sxe \in [Ids -> Fields] /\ net \in [Ids -> Net] /\ stack \in Seq(Frame)
  BY One
<1>2. /\ sxe[i].socket = "connected" /\ sxe[i].active /\ stack = <<>>
      /\ queue' = queue /\ pc' = pc /\ counter' = counter /\ aborted' = aborted
  BY DEF ReadData, Watching, InLoop
<1>3. PICK length \in 1 .. BufSize - sxe[i].in_total :
          /\ length <= net[i].in
          /\ LET x == [sxe[i] EXCEPT !.in_total = @ + length] IN
             /\ net' = [net EXCEPT ![i].in = @ - length, ![i].got = @ + length]
             /\ IF x.paused
                THEN sxe' = [sxe EXCEPT ![i] = AfterRead(x)] /\ UNCHANGED stack
                ELSE sxe' = [sxe EXCEPT ![i] = x] /\ Call("read", i)
  BY DEF ReadData
<1>4. PICK x : x = [sxe[i] EXCEPT !.in_total = @ + length]
  OBVIOUS
<1>5. PICK m : m = [net[i] EXCEPT !.in = @ - length, !.got = @ + length]
  OBVIOUS
<1>6. OneOK(x, m, StateOf(i)) /\ x.active /\ x.socket = "connected"
  BY <1>1, <1>2, <1>3, <1>4, <1>5, RecvOK
<1>7. net' = [net EXCEPT ![i] = m]
  <2>1. net' = [net EXCEPT ![i].in = @ - length, ![i].got = @ + length]
    BY <1>3
  <2>2. net[i] \in Net
    BY <1>1
  <2> QED
    BY <1>1, <1>5, <2>1, <2>2 DEF Net
<1>8. StateOf(i)' = StateOf(i) /\ \A j \in Ids : j # i => StateOf(j)' = StateOf(j)
  BY <1>2 DEF StateOf
<1>9. QueuesOK(queue)'
  <2>1. QueuesOK(queue')
    BY <1>2 DEF IInv
  <2> QED
    BY <2>1 DEF QueuesOK, Placed, Once, In, Member
<1>10. CASE x.paused
  <2>1. sxe' = [sxe EXCEPT ![i] = AfterRead(x)] /\ stack' = stack
    BY <1>3, <1>4, <1>10
  <2>2. OneOK(AfterRead(x), m, StateOf(i))
    BY <1>6, AfterReadOK DEF Reading
  <2>3. sxe' \in [Ids -> Fields] /\ net' \in [Ids -> Net] /\ AllOK'
    BY <1>7, <1>8, <2>1, <2>2, OthersStay
  <2>4. ReadOutermost' /\ RestOK
    BY <1>1, <1>2, <2>1 DEF ReadOutermost, RestOK, IInv, SxeTypeOK
  <2> QED
    BY <1>9, <2>3, <2>4, Finish
<1>11. CASE ~x.paused
  <2>1. sxe' = [sxe EXCEPT ![i] = x] /\ stack' = <<[cb |-> "read", this |-> i]>> \o stack
    BY <1>3, <1>4, <1>11 DEF Call
  <2>2. sxe' \in [Ids -> Fields] /\ net' \in [Ids -> Net] /\ AllOK'
    BY <1>6, <1>7, <1>8, <2>1, OthersStay
  <2>3. [cb |-> "read", this |-> i] \in Frame
    BY DEF Frame
  <2>4. stack' = <<[cb |-> "read", this |-> i]>>
    BY <1>2, <2>1
  <2>5. stack' \in Seq(Frame) /\ Len(stack') = 1 /\ stack'[1] = [cb |-> "read", this |-> i]
    BY <2>3, <2>4
  <2>6. sxe'[i] = x
    BY <1>1, <2>1
  <2>7. ReadOutermost'
    BY <1>6, <2>5, <2>6 DEF ReadOutermost, Reading
  <2>8. RestOK
    BY <1>2, <2>5 DEF RestOK, IInv, SxeTypeOK
  <2> QED
    BY <1>9, <2>2, <2>7, <2>8, Finish
<1> QED
  BY <1>10, <1>11

LEMMA WatcherSteps ==
    ASSUME IInv, NEW i \in Ids, Watcher(i)
    PROVE  IInv'
<1> HIDE DEF Ids, Fields, Net, States
<1>1. /\ OneOK(sxe[i], net[i], StateOf(i)) /\ Same(sxe[i], sxe[i]) /\ StateOf(i) \in States
      /\ sxe = [sxe EXCEPT ![i] = sxe[i]] /\ net = [net EXCEPT ![i] = net[i]]
  BY One DEF Same
<1>2. \A c \in {"accepting", "eof", "connect", "refused", "sent", "writable"} : [cb |-> c, this |-> i] \in Frame
  BY DEF Frame
<1> HIDE DEF Frame
<1>3. CASE ReadData(i)
  BY <1>3, ReadDataStep
<1>4. CASE ReadNothing(i)
  <2>1. Older /\ RestOK
    BY <1>2, <1>4, Calling DEF ReadNothing
  <2>2. /\ sxe' = [sxe EXCEPT ![i] = sxe_close(sxe[i])] /\ net' = [net EXCEPT ![i] = NoNet]
        /\ queue' = Moved(queue, i, StateOf(i), "FREE") /\ sxe[i].active
    BY <1>4 DEF ReadNothing, Close, Watching
  <2>3. "FREE" \in States /\ StateOf(i) # "FREE"
    BY <1>1, <2>2, OpenInUse DEF States
  <2> QED
    BY <1>1, <2>1, <2>2, <2>3, CloseOK, MoveStep
<1>5. CASE StartAccept(i)
  <2>1. Older /\ RestOK
    BY <1>2, <1>5, Calling DEF StartAccept
  <2>2. sxe' = [sxe EXCEPT ![i] = sxe[i]] /\ net' = [net EXCEPT ![i] = net[i]] /\ queue' = queue
    BY <1>1, <1>5 DEF StartAccept
  <2> QED
    BY <1>1, <2>1, <2>2, StayStep
<1>6. CASE sxe_io_cb_connect(i)
  <2>1. sxe[i].active /\ sxe[i].cb = "connect" /\ queue' = queue
    BY <1>6 DEF sxe_io_cb_connect, Watching
  <2>2. sxe[i].socket = "connecting" /\ net' = [net EXCEPT ![i] = net[i]]
    BY <1>1, <1>6, <2>1, OpenInUse DEF sxe_io_cb_connect
  <2>3. UNCHANGED <<pc, counter, aborted>>
    BY <1>6 DEF sxe_io_cb_connect
  <2>4. CASE /\ sxe' = [sxe EXCEPT ![i] = sxe_watch_read([sxe[i] EXCEPT !.socket = "connected"])]
             /\ Call("connect", i)
    <3>1. Older /\ RestOK
      BY <1>2, <2>3, <2>4, Calling
    <3> QED
      BY <1>1, <2>1, <2>2, <2>4, <3>1, ConnectedOK, StayStep
  <2>5. CASE Call("refused", i) /\ UNCHANGED sxe
    <3>1. Older /\ RestOK
      BY <1>2, <2>3, <2>5, Calling
    <3> QED
      BY <1>1, <2>1, <2>2, <2>5, <3>1, StayStep
  <2> QED
    BY <1>6, <2>4, <2>5 DEF sxe_io_cb_connect
<1>7. CASE sxe_io_cb_send_buffers(i)
  <2>1. Older /\ RestOK
    BY <1>2, <1>7, Calling DEF sxe_io_cb_send_buffers
  <2>2. /\ sxe' = [sxe EXCEPT ![i] = sxe_watch_read(sxe[i])] /\ net' = [net EXCEPT ![i] = net[i]] /\ queue' = queue
        /\ sxe[i].active
    BY <1>1, <1>7 DEF sxe_io_cb_send_buffers, Watching
  <2>3. sxe[i].socket # "invalid"
    BY <1>1, <2>2, OpenInUse
  <2> QED
    BY <1>1, <2>1, <2>2, <2>3, WatchOK, StayStep
<1>8. CASE sxe_io_cb_notify_writable(i)
  <2>1. Older /\ RestOK
    <3>1. UNCHANGED <<pc, counter, aborted>>
      BY <1>8 DEF sxe_io_cb_notify_writable
    <3>2. CASE Call("writable", i)
      BY <1>2, <3>1, <3>2, Calling
    <3>3. CASE UNCHANGED stack
      BY <3>1, <3>3, Resting
    <3> QED
      BY <1>8, <3>2, <3>3 DEF sxe_io_cb_notify_writable
  <2>2. /\ sxe' = [sxe EXCEPT ![i] = [sxe_watch_read(sxe[i]) EXCEPT !.out_event = FALSE]]
        /\ net' = [net EXCEPT ![i] = net[i]] /\ queue' = queue /\ sxe[i].active
    BY <1>1, <1>8 DEF sxe_io_cb_notify_writable, Watching
  <2>3. sxe[i].socket # "invalid"
    BY <1>1, <2>2, OpenInUse
  <2> QED
    BY <1>1, <2>1, <2>2, <2>3, WatchOK, StayStep
<1>9. CASE sxe_io_cb_sendfile(i)
  <2>1. sxe[i].active /\ sxe[i].cb = "sendfile" /\ queue' = queue /\ net' = net /\ pc' = pc /\ counter' = counter
    BY <1>9 DEF sxe_io_cb_sendfile, Watching
  <2>2. sxe[i].socket = "connected"
    BY <1>1, <2>1, OpenInUse
  <2>3. CASE sxe_sendfile(i) /\ UNCHANGED aborted
    BY <2>1, <2>2, <2>3, SendfileStep
  <2>4. CASE aborted' = TRUE /\ UNCHANGED <<sxe, stack>>
    <3>1. Older /\ RestOK
      BY <2>1, <2>4, OlderSame DEF RestOK, IInv, SxeTypeOK
    <3> QED
      BY <1>1, <2>1, <2>4, <3>1, StayStep
  <2> QED
    BY <1>9, <2>3, <2>4 DEF sxe_io_cb_sendfile
<1> QED
  BY <1>3, <1>4, <1>5, <1>6, <1>7, <1>8, <1>9 DEF Watcher
\* The frame that a step is about.
LEMMA Top ==
    ASSUME IInv, stack # <<>>
    PROVE  /\ Head(stack) \in Frame /\ Head(stack).this \in Ids
           /\ 1 \in 1 .. Len(stack) /\ stack[1] = Head(stack)
<1>1. stack \in Seq(Frame)
  BY DEF IInv, SxeTypeOK
<1>2. Head(stack) \in Frame /\ 1 \in 1 .. Len(stack) /\ stack[1] = Head(stack)
  BY <1>1
<1> QED
  BY <1>2 DEF Frame

LEMMA ReturnStep ==
    ASSUME IInv, Return
    PROVE  IInv'
<1> HIDE DEF Ids, Fields, Net, States, Frame
<1>1. stack # <<>> /\ stack' = Tail(stack) /\ pc' = pc /\ counter' = counter /\ stack \in Seq(Frame)
  BY DEF Return, InCallback, IInv, SxeTypeOK
<1>20. PICK i \in Ids : i = Head(stack).this
  BY <1>1, Top
<1>21. PICK c : c = Head(stack).cb
  OBVIOUS
<1>2. i = Head(stack).this /\ c = Head(stack).cb
  BY <1>20, <1>21
<1>3. aborted' \in BOOLEAN
  BY DEF Return
<1>4. Older /\ RestOK /\ Len(stack') = Len(stack) - 1
  BY <1>1, <1>3, OlderReturn DEF RestOK, IInv, SxeTypeOK
<1>5. /\ OneOK(sxe[i], net[i], StateOf(i)) /\ Same(sxe[i], sxe[i]) /\ StateOf(i) \in States
      /\ sxe = [sxe EXCEPT ![i] = sxe[i]] /\ net = [net EXCEPT ![i] = net[i]]
      /\ sxe \in [Ids -> Fields] /\ net \in [Ids -> Net]
  BY One DEF Same
<1>6. CASE c = "read"
  <2>1. sxe' = [sxe EXCEPT ![i] = AfterRead(sxe[i])] /\ queue' = queue /\ net' = [net EXCEPT ![i] = net[i]]
    BY <1>2, <1>5, <1>6 DEF Return
  <2>2. Reading(sxe[i]) /\ Len(stack) = 1
    BY <1>1, <1>2, <1>6, Top DEF IInv, ReadOutermost
  <2>3. OneOK(AfterRead(sxe[i]), net[i], StateOf(i))
    BY <1>5, <2>2, AfterReadOK
  <2>4. StateOf(i)' = StateOf(i) /\ \A j \in Ids : j # i => StateOf(j)' = StateOf(j)
    BY <2>1 DEF StateOf
  <2>5. sxe' \in [Ids -> Fields] /\ net' \in [Ids -> Net] /\ AllOK'
    BY <2>1, <2>3, <2>4, OthersStay
  <2>6. QueuesOK(queue)'
    <3>1. QueuesOK(queue')
      BY <2>1 DEF IInv
    <3> QED
      BY <3>1 DEF QueuesOK, Placed, Once, In, Member
  <2>7. ReadOutermost'
    <3>1. Len(stack') = 0
      BY <1>4, <2>2
    <3> QED
      BY <3>1 DEF ReadOutermost
  <2> QED
    BY <1>4, <2>5, <2>6, <2>7, Finish
<1>7. CASE c = "refused" /\ StateOf(i) # "FREE"
  <2>1. /\ sxe' = [sxe EXCEPT ![i] = sxe_close(sxe[i])] /\ net' = [net EXCEPT ![i] = NoNet]
        /\ queue' = Moved(queue, i, StateOf(i), "FREE")
    BY <1>2, <1>7 DEF Return, Close
  <2>2. "FREE" \in States
    BY DEF States
  <2> QED
    BY <1>4, <1>5, <1>7, <2>1, <2>2, CloseOK, MoveStep
<1>8. CASE c = "sendfile"
  <2>1. /\ sxe' = [sxe EXCEPT ![i] = IF sxe[i].socket = "invalid" THEN sxe[i]
                                     ELSE [sxe_watch_read(sxe[i]) EXCEPT !.out_event = FALSE]]
        /\ queue' = queue /\ net' = [net EXCEPT ![i] = net[i]]
    BY <1>2, <1>5, <1>8 DEF Return
  <2>2. CASE sxe[i].socket = "invalid"
    BY <1>4, <1>5, <2>1, <2>2, StayStep
  <2>3. CASE sxe[i].socket # "invalid"
    BY <1>4, <1>5, <2>1, <2>3, WatchOK, StayStep
  <2> QED
    BY <2>2, <2>3
<1>9. CASE c = "sendfile_failed"
  <2>1. /\ sxe' = [sxe EXCEPT ![i] = [sxe[i] EXCEPT !.out_event = FALSE]]
        /\ queue' = queue /\ net' = [net EXCEPT ![i] = net[i]]
    BY <1>2, <1>5, <1>9 DEF Return
  <2> QED
    BY <1>4, <1>5, <2>1, WatchOK, StayStep
<1>10. CASE c \notin {"read", "sendfile", "sendfile_failed"} /\ ~(c = "refused" /\ StateOf(i) # "FREE")
  <2>1. UNCHANGED <<queue, sxe, net>>
    BY <1>2, <1>10 DEF Return
  <2> QED
    BY <1>4, <1>5, <2>1, StayStep
<1> QED
  BY <1>6, <1>7, <1>8, <1>9, <1>10

LEMMA AcceptStep ==
    ASSUME IInv, AcceptNext
    PROVE  IInv'
<1> HIDE DEF Ids, Fields, Net, States
<1>1. stack # <<>> /\ pc' = pc /\ counter' = counter /\ aborted' = aborted /\ stack \in Seq(Frame)
  BY DEF AcceptNext, Accepting, IInv, SxeTypeOK
<1>2. PICK i \in Ids : i = Head(stack).this
  BY <1>1, Top
<1>3. /\ OneOK(sxe[i], net[i], StateOf(i)) /\ Same(sxe[i], sxe[i]) /\ StateOf(i) \in States
      /\ sxe = [sxe EXCEPT ![i] = sxe[i]] /\ net = [net EXCEPT ![i] = net[i]]
      /\ sxe \in [Ids -> Fields] /\ net \in [Ids -> Net]
  BY One DEF Same
<1>4. \A j \in Ids : [cb |-> "accept", this |-> j] \in Frame
  BY DEF Frame
<1> HIDE DEF Frame
<1>5. stack' = Tail(stack) => Older /\ RestOK
  BY <1>1, OlderReturn DEF RestOK, IInv, SxeTypeOK
<1>6. CASE sxe[i].socket # "listen" \/ net[i].in = 0
  <2>1. stack' = Tail(stack) /\ UNCHANGED <<queue, sxe, net>>
    BY <1>2, <1>6 DEF AcceptNext
  <2> QED
    BY <1>3, <1>5, <2>1, StayStep
<1>7. CASE ~(sxe[i].socket # "listen" \/ net[i].in = 0) /\ sxe[i].oneshot
  <2>1. /\ sxe' = [sxe EXCEPT ![i] = sxe_watch_read([sxe[i] EXCEPT !.socket = "connected"])]
        /\ net' = [net EXCEPT ![i] = NoNet]
        /\ stack' = <<[cb |-> "accept", this |-> i]>> \o Tail(stack)
        /\ queue' = queue
    BY <1>2, <1>7 DEF AcceptNext
  <2>2. Older /\ stack' \in Seq(Frame)
    BY <1>1, <1>4, <2>1, OlderReplace
  <2>3. RestOK
    BY <1>1, <2>2 DEF RestOK, IInv, SxeTypeOK
  <2> QED
    BY <1>3, <1>7, <2>1, <2>2, <2>3, ConnectedOK, StayStep
<1>8. CASE ~(sxe[i].socket # "listen" \/ net[i].in = 0) /\ ~sxe[i].oneshot /\ queue["FREE"] = <<>>
  <2>1. /\ net' = [net EXCEPT ![i] = [net[i] EXCEPT !.in = @ - 1]]
        /\ stack' = Tail(stack) /\ UNCHANGED <<queue, sxe>>
    BY <1>2, <1>8 DEF AcceptNext
  <2> QED
    BY <1>3, <1>5, <1>8, <2>1, NetOK, StayStep
<1>9. CASE ~(sxe[i].socket # "listen" \/ net[i].in = 0) /\ ~sxe[i].oneshot /\ queue["FREE"] # <<>>
  <2>1. PICK that : that = Head(queue["FREE"])
    OBVIOUS
  <2>2. /\ queue' = Moved(queue, that, "FREE", "USED")
        /\ sxe' = [sxe EXCEPT ![that] = sxe_watch_read([sxe_new_internal(sxe[that]) EXCEPT !.socket = "connected"])]
        /\ net' = [net EXCEPT ![i].in = @ - 1, ![that] = NoNet]
        /\ Call("accept", that)
    BY <1>2, <1>9, <2>1 DEF AcceptNext
  <2>3. "FREE" \in States /\ "USED" \in States
    BY DEF States
  <2>4. that \in Ids /\ StateOf(that) = "FREE"
    BY <1>9, <2>1, <2>3, HeadState DEF IInv
  <2>5. i # that
    <3>1. StateOf(i) # "FREE"
      BY <1>3, <1>9 DEF OneOK, StateRight
    <3> QED
      BY <2>4, <3>1
  <2>6. QueuesOK(queue)' /\ StateOf(that)' = "USED" /\ \A j \in Ids : j # that => StateOf(j)' = StateOf(j)
    BY <2>2, <2>3, <2>4, StateMoved DEF IInv
  <2>7. PICK y : y = sxe_watch_read([sxe_new_internal(sxe[that]) EXCEPT !.socket = "connected"])
    OBVIOUS
  <2>8. PICK m : m = [net[i] EXCEPT !.in = @ - 1]
    OBVIOUS
  <2>9. OneOK(y, NoNet, "USED") /\ Same(sxe[that], y)
    BY <2>4, <2>7, One, NewOK
  <2>10. OneOK(sxe[i], m, StateOf(i))
    BY <1>3, <1>9, <2>8, NetOK
  <2>11. /\ \A j \in Ids : sxe'[j] = IF j = that THEN y ELSE sxe[j]
         /\ \A j \in Ids : net'[j] = IF j = that THEN NoNet ELSE IF j = i THEN m ELSE net[j]
    BY <1>3, <2>2, <2>5, <2>7, <2>8
  <2>12. y \in Fields /\ NoNet \in Net /\ m \in Net
    BY <2>9, <2>10 DEF OneOK
  <2>13. sxe' \in [Ids -> Fields] /\ net' \in [Ids -> Net]
    <3>1. sxe' = [j \in Ids |-> sxe'[j]] /\ net' = [j \in Ids |-> net'[j]]
      BY <1>3, <2>2
    <3> QED
      BY <1>3, <2>11, <2>12, <3>1
  <2>14. ASSUME NEW j \in Ids PROVE OneOK(sxe'[j], net'[j], StateOf(j)') /\ Same(sxe[j], sxe'[j])
    <3>1. CASE j = that
      BY <2>6, <2>9, <2>11, <3>1
    <3>2. CASE j = i
      BY <1>3, <2>5, <2>6, <2>10, <2>11, <3>2
    <3>3. CASE j # that /\ j # i
      BY <2>6, <2>11, <3>3 DEF IInv, AllOK, Same
    <3> QED
      BY <3>1, <3>2, <3>3
  <2>15. AllOK'
    BY <2>14 DEF AllOK, OneOK, Streams, Watched, StateRight, Full
  <2>16. Older /\ RestOK
    BY <1>1, <1>4, <2>2, <2>4, Calling
  <2>17. ReadOutermost'
    BY <1>1, <2>14, <2>16, ReadKept DEF IInv
  <2> QED
    BY <2>6, <2>13, <2>15, <2>16, <2>17, Finish
<1> QED
  BY <1>6, <1>7, <1>8, <1>9

LEMMA LoopSteps ==
    ASSUME IInv, deferred_generic_invoke \/ Iterate \/ Timer \/ sxe_new
    PROVE  IInv'
<1> HIDE DEF Fields, Net, States
<1>1. 0 \in Ids
  BY NumberAssumption DEF Ids
<1>2. \A j \in Ids : [cb |-> "timer", this |-> j] \in Frame /\ [cb |-> "resume", this |-> j] \in Frame
  BY DEF Frame
<1> HIDE DEF Ids, Frame
<1>3. ASSUME UNCHANGED <<queue, sxe, net>>, Older, RestOK PROVE IInv'
  BY <1>1, <1>3, One, StayStep DEF Same
<1>4. /\ stack \in Seq(Frame) /\ pc \in {"release", "poll"} /\ counter \in 0 .. DeferredMax /\ aborted \in BOOLEAN
      /\ sxe \in [Ids -> Fields] /\ net \in [Ids -> Net]
  BY DEF IInv, SxeTypeOK
<1>5. "FREE" \in States /\ "USED" \in States /\ "DEFERRED" \in States
  BY DEF States
<1>6. CASE deferred_generic_invoke
  <2>1. CASE queue["DEFERRED"] = <<>>
    <3>1. pc' = "poll" /\ UNCHANGED <<queue, sxe, net, counter, stack, aborted>>
      BY <1>6, <2>1 DEF deferred_generic_invoke
    <3>2. Older /\ RestOK
      BY <1>4, <3>1, OlderSame DEF RestOK
    <3> QED
      BY <1>3, <3>1, <3>2
  <2>2. CASE queue["DEFERRED"] # <<>>
    <3>1. PICK i : i = Head(queue["DEFERRED"])
      OBVIOUS
    <3>2. i \in Ids /\ StateOf(i) = "DEFERRED"
      BY <1>5, <2>2, <3>1, HeadState DEF IInv
    <3>3. queue' = Moved(queue, i, "DEFERRED", "USED") /\ net' = net
      BY <1>6, <2>2, <3>1 DEF deferred_generic_invoke
    <3>4. /\ OneOK(sxe[i], net[i], "DEFERRED") /\ net' = [net EXCEPT ![i] = net[i]]
          /\ sxe = [sxe EXCEPT ![i] = sxe[i]] /\ Same(sxe[i], sxe[i])
      BY <3>2, <3>3, One DEF Same
    <3>5. CASE counter = 0
      <4>1. pc' = "poll" /\ UNCHANGED <<sxe, counter, stack, aborted>>
        BY <1>6, <2>2, <3>5 DEF deferred_generic_invoke
      <4>2. Older /\ RestOK
        BY <1>4, <4>1, OlderSame DEF RestOK
      <4> QED
        BY <1>5, <3>2, <3>3, <3>4, <4>1, <4>2, InvokeOK, MoveStep
    <3>6. CASE counter # 0
      <4>1. /\ counter' = counter - 1 /\ aborted' \in BOOLEAN /\ pc' = pc /\ Call("resume", i)
            /\ sxe' = [sxe EXCEPT ![i] = [sxe[i] EXCEPT !.deferred_event = "none"]]
        BY <1>6, <2>2, <3>1, <3>6 DEF deferred_generic_invoke
      <4>2. counter' \in 0 .. DeferredMax
        BY <1>4, <3>6, <4>1, DeferredMaxAssumption
      <4>3. Older /\ stack' \in Seq(Frame)
        BY <1>2, <1>4, <3>2, <4>1, OlderCall
      <4>4. RestOK
        BY <1>4, <4>1, <4>2, <4>3 DEF RestOK
      <4> QED
        BY <1>5, <3>2, <3>3, <3>4, <4>1, <4>3, <4>4, InvokeOK, MoveStep
    <3> QED
      BY <3>5, <3>6
  <2> QED
    BY <2>1, <2>2
<1>7. CASE Iterate
  <2>1. pc' = "release" /\ counter' = DeferredMax /\ UNCHANGED <<queue, sxe, net, stack, aborted>>
    BY <1>7 DEF Iterate
  <2>2. DeferredMax \in 0 .. DeferredMax
    BY DeferredMaxAssumption
  <2>3. Older /\ RestOK
    BY <1>4, <2>1, <2>2, OlderSame DEF RestOK
  <2> QED
    BY <1>3, <2>1, <2>3
<1>8. CASE Timer
  <2>1. Older /\ RestOK
    BY <1>1, <1>2, <1>8, Calling DEF Timer
  <2> QED
    BY <1>3, <1>8, <2>1 DEF Timer
<1>9. CASE sxe_new
  <2>1. PICK i : i = Head(queue["FREE"])
    OBVIOUS
  <2>2. /\ queue["FREE"] # <<>> /\ queue' = Moved(queue, i, "FREE", "USED")
        /\ sxe' = [sxe EXCEPT ![i] = sxe_new_internal(sxe[i])] /\ net' = net
    BY <1>9, <2>1 DEF sxe_new
  <2>3. i \in Ids /\ StateOf(i) = "FREE"
    BY <1>5, <2>1, <2>2, HeadState DEF IInv
  <2>4. Older /\ RestOK
    BY <1>9, Resting DEF sxe_new
  <2>5. OneOK(sxe[i], net[i], "FREE") /\ net' = [net EXCEPT ![i] = net[i]]
    BY <2>2, <2>3, One
  <2> QED
    BY <1>5, <2>2, <2>3, <2>4, <2>5, NewOK, MoveStep
<1> QED
  BY <1>6, <1>7, <1>8, <1>9
-----------------------------------------------------------------------------
(* The theorems.                                                           *)

LEMMA InitOK == Init => IInv
<1> SUFFICES ASSUME Init PROVE IInv
  OBVIOUS
<1>1. 0 \in 0 .. BufSize /\ 0 \in Nat /\ DeferredMax \in 0 .. DeferredMax /\ Number \in Nat
  BY BufSizeAssumption, DeferredMaxAssumption, NumberAssumption
<1>2. NoFields \in Fields
  BY <1>1 DEF NoFields, Fields, Callbacks
<1>3. OneOK(NoFields, NoNet, "FREE")
  BY <1>1, <1>2, NoNetIs DEF NoFields, OneOK, Streams, Watched, StateRight
<1>4. /\ queue["FREE"] = [k \in 1 .. Number |-> k - 1] /\ queue["USED"] = <<>> /\ queue["DEFERRED"] = <<>>
      /\ queue = [s \in States |-> queue[s]]
  BY DEF Init, States
<1>5. queue["FREE"] \in Seq(Ids) /\ Len(queue["FREE"]) = Number
  BY <1>1, <1>4 DEF Ids
<1>6. \A k \in 1 .. Number : queue["FREE"][k] = k - 1
  BY <1>4
<1>7. queue \in [States -> Seq(Ids)]
  <2>1. <<>> \in Seq(Ids)
    OBVIOUS
  <2>2. \A s \in States : queue[s] \in Seq(Ids)
    BY <1>4, <1>5, <2>1 DEF States
  <2> QED
    BY <1>4, <2>2
<1>8. ASSUME NEW i \in Ids PROVE In(queue, i, "FREE")
  <2>1. i + 1 \in 1 .. Number /\ (i + 1) - 1 = i
    BY <1>1 DEF Ids
  <2> QED
    BY <1>5, <1>6, <2>1 DEF In, Member
<1>9. Placed(queue)
  BY <1>8 DEF Placed, States
<1>10. Once(queue)
  <2>1. \A s \in States : s # "FREE" => Len(queue[s]) = 0
    BY <1>4 DEF States
  <2> SUFFICES ASSUME NEW s \in States, NEW t \in States, NEW k \in 1 .. Len(queue[s]), NEW l \in 1 .. Len(queue[t]),
                      queue[s][k] = queue[t][l]
               PROVE  s = t /\ k = l
    BY DEF Once
  <2>2. s = "FREE" /\ t = "FREE"
    BY <2>1
  <2>3. k \in 1 .. Number /\ l \in 1 .. Number /\ k - 1 = l - 1
    BY <1>5, <1>6, <2>2
  <2> QED
    BY <2>2, <2>3
<1>11. QueuesOK(queue)
  BY <1>7, <1>9, <1>10 DEF QueuesOK
<1>12. \A i \in Ids : StateOf(i) = "FREE"
  BY <1>8, <1>11, StateOfIn DEF States
<1>13. sxe = [i \in Ids |-> NoFields] /\ net = [i \in Ids |-> NoNet] /\ stack = <<>>
  BY DEF Init
<1>14. AllOK
  BY <1>3, <1>12, <1>13 DEF AllOK
<1>15. ReadOutermost
  BY <1>13 DEF ReadOutermost
<1>16. SxeTypeOK
  <2>1. sxe \in [Ids -> Fields] /\ net \in [Ids -> Net] /\ stack \in Seq(Frame)
    BY <1>2, <1>13, NoNetIs
  <2> QED
    BY <1>1, <1>7, <2>1 DEF Init, SxeTypeOK
<1> QED
  BY <1>11, <1>14, <1>15, <1>16 DEF IInv

LEMMA StepKeeps == IInv /\ [Next]_vars => IInv'
<1> SUFFICES ASSUME IInv, [Next]_vars PROVE IInv'
  OBVIOUS
<1>1. CASE UNCHANGED vars
  <2>1. 0 \in Ids
    BY NumberAssumption DEF Ids
  <2>2. Older /\ RestOK /\ queue' = queue /\ sxe' = sxe /\ net' = net
    BY <1>1, Resting DEF vars
  <2> HIDE DEF Ids
  <2> QED
    BY <2>1, <2>2, One, StayStep DEF Same
<1>2. CASE deferred_generic_invoke \/ Iterate \/ Timer \/ sxe_new
  BY <1>2, LoopSteps
<1>3. CASE AcceptNext
  BY <1>3, AcceptStep
<1>4. CASE Return
  BY <1>4, ReturnStep
<1>5. ASSUME NEW i \in Ids, Kernel(i) \/ Watcher(i) PROVE IInv'
  BY <1>5, KernelSteps, WatcherSteps
<1>6. ASSUME NEW i \in Allocated, App(i) PROVE IInv'
  BY <1>6, AppSteps
<1> QED
  BY <1>1, <1>2, <1>3, <1>4, <1>5, <1>6 DEF Next

\* The invariant says what the properties say.
LEMMA InvImplies == IInv => ConnectionsSound /\ BufferIsStream
<1> SUFFICES ASSUME IInv PROVE ConnectionsSound /\ BufferIsStream
  OBVIOUS
<1>1. SxeTypeOK
  BY DEF IInv
<1>2. ASSUME NEW i \in Ids PROVE OneOK(sxe[i], net[i], StateOf(i))
  BY <1>2 DEF IInv, AllOK
<1>3. ReadsNotForgotten
  BY <1>2 DEF ReadsNotForgotten, OneOK, Watched
<1>4. DeferredReady
  BY <1>2 DEF DeferredReady, OneOK, StateRight
<1>5. BufferIsStream
  BY <1>2 DEF BufferIsStream, OneOK, Streams
<1> QED
  BY <1>1, <1>3, <1>4, <1>5 DEF ConnectionsSound

\* Whatever the application does in its callbacks, and in whatever order the
\* kernel's events come, sxe_buf_clear, sxe_buf_consume, sxe_buf_resume and
\* sxe_private_handle_read_data keep the buffer a piece of the stream: from the
\* first byte that is not consumed to the last byte read, none lost, none twice.
THEOREM BufferIsAlwaysStream == Spec => []BufferIsStream
<1>1. Spec => []IInv
  BY InitOK, StepKeeps, PTL DEF Spec
<1> QED
  BY <1>1, InvImplies, PTL

\* A connection's watcher is stopped only while its buffer is full, so a clear,
\* a consume or a resume always finds a way to start it again, and what is on
\* the deferred queue is a connection with an event to invoke.
THEOREM ConnectionsAlwaysSound == Spec => []ConnectionsSound
<1>1. Spec => []IInv
  BY InitOK, StepKeeps, PTL DEF Spec
<1> QED
  BY <1>1, InvImplies, PTL
=============================================================================
