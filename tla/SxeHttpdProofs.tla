-------------------------- MODULE SxeHttpdProofs ---------------------------
(***************************************************************************)
(* The HTTP server's requests and buffers are sound for any number of      *)
(* them, whatever the clients send and the application calls.  A response  *)
(* call changes its own request only, and the buffers it takes come from   *)
(* the free ones (Kept); the read handler is followed from callback to     *)
(* callback (Busy, Good).                                                  *)
(***************************************************************************)
EXTENDS SxeHttpd, FiniteSetTheorems, SequenceTheorems, WellFoundedInduction, TLAPS

-----------------------------------------------------------------------------
(* The inductive invariant.                                                *)

Callbacks == {"connect", "request", "header", "eoh", "body", "respond", "sent", "sent_part", "sent_file"}
Sends == {"sent", "sent_part", "sent_file"}
Kinds == {"none", "end", "send", "ready", "file"}
Frames == [cb : Callbacks, r : Requests, consumed : BOOLEAN, kernel : BOOLEAN]
Entries == [id : Buffers \cup {App}, own : BOOLEAN, left : BOOLEAN]

\* The buffers on a response: each buffer of the pool once, and not sent yet.
OutOK(out) == /\ out \in Seq(Entries)
              /\ \A i \in 1 .. Len(out) : ~out[i].left => out[i].id = App
              /\ \A i, j \in 1 .. Len(out) : out[i].id = out[j].id => i = j \/ out[i].id = App

RequestFields == {"state", "cell", "in_total", "in_consumed", "watch", "held", "deferred", "base", "length", "next", "late",
           "ignore", "content_length", "content_seen", "paused", "started", "eoh", "out", "sending", "script", "got",
           "calls", "skewed"}

Numbered(q) == /\ q.in_total \in Int /\ q.in_consumed \in Int /\ q.length \in Int /\ q.next \in Int
               /\ q.content_length \in Int /\ q.content_seen \in Int

RequestOK(q) == DOMAIN q = RequestFields /\ q.state \in States /\ q.sending \in Kinds /\ OutOK(q.out) /\ Numbered(q)

\* A message that is being parsed is never longer than the input that is there.
Covered(q) == q.state \in {"LINE", "HEADERS"} => q.length <= Used(q)

\* Every buffer of the pool is free, on one response, leaked, or in hand.
Accounted(free, leaked, hand, own) ==
    /\ free \subseteq Buffers /\ leaked \subseteq Buffers /\ hand \subseteq Buffers
    /\ free \cap leaked = {} /\ hand \cap (free \cup leaked) = {}
    /\ \A r \in Requests : own[r] \cap (free \cup leaked \cup hand) = {}
    /\ \A r1, r2 \in Requests : r1 # r2 => own[r1] \cap own[r2] = {}
    /\ \A b \in Buffers : b \in free \cup leaked \cup hand \/ \E r \in Requests : b \in own[r]

OrderOK(order) == order \in Seq(Requests) /\ \A r \in Requests : \E k \in 1 .. Len(order) : order[k] = r

\* hand is the buffers that a call has taken and not yet put on a response.
ServerOK(s, hand) == /\ DOMAIN s = {"req", "order", "free", "leaked", "aborted", "defaults"}
                     /\ DOMAIN s.req = Requests /\ \A r \in Requests : RequestOK(s.req[r])
                     /\ OrderOK(s.order)
                     /\ Accounted(s.free, s.leaked, hand, [r \in Requests |-> Own(s.req[r])])

\* The state in which a callback leaves the request that it is for.
Awaits(cb) == CASE cb = "request" -> {"LINE"}
                [] cb \in {"header", "eoh"} -> {"HEADERS"}
                [] cb = "body" -> {"BODY"}
                [] OTHER -> States

\* Only sends are inside other callbacks, of the same request; and they are inside
\* callbacks in which the request is responded to.
StackOK(s, stk) ==
    /\ stk \in Seq(Frames)
    /\ \A i, j \in 1 .. Len(stk) : stk[i].r = stk[j].r
    /\ \A i \in 1 .. Len(stk) : stk[i].cb \notin Sends => i = Len(stk)
    /\ \A i \in 1 .. Len(stk) : stk[i].cb \notin Sends \cup {"respond"} => Len(stk) = 1 /\ State(s, stk[i].r) \in Awaits(stk[i].cb)

\* Except while a client is being connected, a request is free.
OneFree(s, stk) == \/ \E r \in Requests : State(s, r) = "FREE"
                   \/ \E i \in 1 .. Len(stk) : stk[i].cb = "connect"

Sound(s) == /\ ServerOK(s, {})
            /\ s.aborted \in {"none", "bad"}
            /\ s.aborted = "none" => \A r \in Requests : Covered(s.req[r])
            /\ \A r \in Requests : State(s, r) = "FREE" => Own(s.req[r]) = {}

Good(s, stk) == Sound(s) /\ StackOK(s, stk) /\ OneFree(s, stk)

HttpdInv == Good(server, stack) /\ connects \in Nat

-----------------------------------------------------------------------------
(* Lists and least numbers.                                                *)

\* Every non-empty set of numbers has a least one.
LEMMA LeastNumber == ASSUME NEW T, T \subseteq Nat, T # {} PROVE \E x \in T : \A y \in T : x <= y
<1>1. PICK x \in T : \A y \in T : ~(<<y, x>> \in OpToRel(<, Nat))
  BY NatLessThanWellFounded, WFMin
<1>2. \A y \in T : ~(y < x)
  BY <1>1 DEF OpToRel
<1> QED
  BY <1>2

\* So has every non-empty set of numbers that has a lower bound.
LEMMA MinIs == ASSUME NEW a \in Int, NEW T, T \subseteq Int, T # {}, \A x \in T : a <= x
               PROVE  Min(T) \in T /\ \A y \in T : Min(T) <= y
<1> DEFINE D == {x - a : x \in T}
<1>1. D \subseteq Nat /\ D # {}
  <2>1. \A x \in T : x - a \in Nat
    OBVIOUS
  <2> QED
    BY <2>1
<1>2. PICK d \in D : \A e \in D : d <= e
  <2> HIDE DEF D
  <2> QED
    BY <1>1, LeastNumber
<1>3. PICK x \in T : d = x - a
  BY <1>2
<1>4. \A y \in T : x <= y
  <2> TAKE y \in T
  <2>1. y - a \in D
    OBVIOUS
  <2>2. d <= y - a
    BY <1>2, <2>1
  <2> QED
    BY <1>3, <2>2
<1> QED
  BY <1>4 DEF Min

\* Only has the elements of the list that are in the set, and no others.
LEMMA OnlyIs ==
    ASSUME NEW A, NEW list \in Seq(A), NEW S
    PROVE  /\ Only(list, S) \in Seq(A)
           /\ \A i \in 1 .. Len(Only(list, S)) : Only(list, S)[i] \in S
           /\ \A k \in 1 .. Len(list) : list[k] \in S => \E i \in 1 .. Len(Only(list, S)) : Only(list, S)[i] = list[k]
<1> DEFINE N == Len(list)
<1> DEFINE more(q, k) == IF list[k] \in S THEN Append(q, list[k]) ELSE q
<1> DEFINE step(g, n) == [k \in 0 .. n |-> IF k = 0 THEN <<>> ELSE more(g[k - 1], k)]
<1> DEFINE first == CHOOSE g : g = step(g, N)
<1>1. Only(list, S) = first[N]
  BY DEF Only
<1>2. N \in Nat /\ \A k \in 1 .. N : list[k] \in A
  OBVIOUS
<1> HIDE DEF N, more
<1>3. \E g : g = step(g, N)
  <2> DEFINE T == {n \in 0 .. N : ~\E g : g = step(g, n)}
  <2> SUFFICES ASSUME T # {} PROVE FALSE
    <3> HIDE DEF step
    <3> QED
      BY <1>2
  <2>1. PICK x \in T : \A y \in T : x <= y
    <3>1. T \subseteq Nat
      OBVIOUS
    <3> HIDE DEF T
    <3> QED
      BY <3>1, LeastNumber
  <2>2. x # 0
    <3>1. [k \in 0 .. 0 |-> <<>>] = step([k \in 0 .. 0 |-> <<>>], 0)
      OBVIOUS
    <3> HIDE DEF step
    <3> QED
      BY <2>1, <3>1
  <2>3. x - 1 \in 0 .. N /\ x \in Nat /\ x - 1 \notin T
    <3> HIDE DEF step
    <3> QED
      BY <1>2, <2>1, <2>2
  <2>4. PICK g : g = step(g, x - 1)
    BY <2>3
  <2> DEFINE e == more(g[x - 1], x)
  <2> DEFINE h == [k \in 0 .. x |-> IF k = x THEN e ELSE g[k]]
  <2>5. h = step(h, x)
    <3>1. \A k \in 0 .. x - 1 : g[k] = IF k = 0 THEN <<>> ELSE more(g[k - 1], k)
      BY <2>4
    <3>2. ASSUME NEW k \in 0 .. x
          PROVE  h[k] = IF k = 0 THEN <<>> ELSE more(h[k - 1], k)
      <4>1. CASE k = x
        <5>1. h[k] = e /\ h[k - 1] = g[x - 1]
          BY <2>3, <2>2, <4>1
        <5> QED
          BY <2>2, <4>1, <5>1
      <4>2. CASE k # x
        <5>1. k \in 0 .. x - 1 /\ h[k] = g[k] /\ (k # 0 => h[k - 1] = g[k - 1])
          BY <2>3, <4>2
        <5> HIDE DEF h
        <5> QED
          BY <3>1, <5>1
      <4> QED
        BY <4>1, <4>2
    <3> HIDE DEF e
    <3> QED
      BY <3>2
  <2> HIDE DEF h
  <2> QED
    BY <2>1, <2>5
<1>4. first = step(first, N)
  <2> HIDE DEF step
  <2> QED
    BY <1>3
<1>5. /\ first[0] = <<>>
      /\ \A k \in 1 .. N : first[k] = IF list[k] \in S THEN Append(first[k - 1], list[k]) ELSE first[k - 1]
  <2> HIDE DEF first
  <2>1. first[0] = <<>> /\ \A k \in 1 .. N : first[k] = more(first[k - 1], k)
    BY <1>2, <1>4
  <2> QED
    BY <2>1 DEF more
<1> HIDE DEF first
<1> DEFINE Right(n) == /\ first[n] \in Seq(A)
                       /\ \A i \in 1 .. Len(first[n]) : first[n][i] \in S
                       /\ \A k \in 1 .. n : list[k] \in S => \E i \in 1 .. Len(first[n]) : first[n][i] = list[k]
<1>6. Right(0)
  BY <1>5
<1>7. ASSUME NEW n \in 1 .. N, Right(n - 1) PROVE Right(n)
  <2>1. n - 1 \in Nat /\ list[n] \in A
    BY <1>2
  <2>2. CASE list[n] \in S
    <3>1. first[n] = Append(first[n - 1], list[n])
      BY <1>5, <2>2
    <3>2. /\ first[n] \in Seq(A) /\ Len(first[n]) = Len(first[n - 1]) + 1 /\ first[n][Len(first[n])] = list[n]
          /\ \A i \in 1 .. Len(first[n - 1]) : first[n][i] = first[n - 1][i]
      BY <1>7, <2>1, <3>1
    <3>3. Len(first[n - 1]) \in Nat
      BY <1>7
    <3>4. \A i \in 1 .. Len(first[n]) : first[n][i] \in S
      <4> TAKE i \in 1 .. Len(first[n])
      <4>1. i = Len(first[n]) \/ i \in 1 .. Len(first[n - 1])
        BY <3>2, <3>3
      <4> QED
        BY <1>7, <2>2, <3>2, <4>1
    <3>5. ASSUME NEW k \in 1 .. n, list[k] \in S PROVE \E i \in 1 .. Len(first[n]) : first[n][i] = list[k]
      <4>1. CASE k = n
        BY <3>2, <3>3, <4>1
      <4>2. CASE k # n
        <5>1. k \in 1 .. n - 1
          BY <4>2
        <5>2. PICK i \in 1 .. Len(first[n - 1]) : first[n - 1][i] = list[k]
          BY <1>7, <3>5, <5>1
        <5>3. i \in 1 .. Len(first[n])
          BY <3>2, <3>3
        <5> QED
          BY <3>2, <5>2, <5>3
      <4> QED
        BY <4>1, <4>2
    <3> QED
      BY <3>2, <3>4, <3>5
  <2>3. CASE list[n] \notin S
    <3>1. first[n] = first[n - 1]
      BY <1>5, <2>3
    <3>2. \A k \in 1 .. n : list[k] \in S => k \in 1 .. n - 1
      BY <2>1, <2>3
    <3> QED
      BY <1>7, <3>1, <3>2
  <2> QED
    BY <2>2, <2>3
<1>8. Right(N)
  <2> DEFINE T == {n \in 0 .. N : ~Right(n)}
  <2> HIDE DEF Right
  <2> SUFFICES ASSUME T # {} PROVE FALSE
    BY <1>2
  <2>1. PICK x \in T : \A y \in T : x <= y
    <3>1. T \subseteq Nat
      OBVIOUS
    <3> HIDE DEF T
    <3> QED
      BY <3>1, LeastNumber
  <2>2. x \in 1 .. N
    BY <1>2, <1>6, <2>1
  <2>3. Right(x - 1)
    <3>1. x - 1 \in 0 .. N /\ ~(x <= x - 1)
      BY <1>2, <2>2
    <3> QED
      BY <2>1, <3>1
  <2> QED
    BY <1>7, <2>1, <2>2, <2>3
<1> QED
  BY <1>1, <1>8 DEF N

\* A sequence of the members of a set, each once.
LEMMA SetToSeqIs ==
    ASSUME NEW S, IsFiniteSet(S)
    PROVE  /\ SetToSeq(S) \in Seq(S) /\ Len(SetToSeq(S)) = Cardinality(S)
           /\ \A i, j \in 1 .. Len(SetToSeq(S)) : SetToSeq(S)[i] = SetToSeq(S)[j] => i = j
           /\ \A x \in S : \E i \in 1 .. Len(SetToSeq(S)) : SetToSeq(S)[i] = x
<1> DEFINE n == Cardinality(S)
<1>1. n \in Nat
  BY FS_CardinalityType
<1>2. ExistsBijection(1 .. n, S)
  BY FS_CardinalityType
<1>3. PICK f \in Bijection(1 .. n, S) : TRUE
  BY <1>2 DEF ExistsBijection
<1>4. f \in [1 .. n -> S] /\ IsInjective(f)
  BY <1>3 DEF Bijection, Injection, IsInjective
<1>5. SetToSeq(S) \in [1 .. n -> S] /\ IsInjective(SetToSeq(S))
  BY <1>4 DEF SetToSeq
<1> DEFINE f2 == SetToSeq(S)
<1>6. f2 \in Seq(S) /\ Len(f2) = n
  BY <1>1, <1>5
<1>7. \A i, j \in 1 .. n : f2[i] = f2[j] => i = j
  BY <1>5 DEF IsInjective
<1>8. IsFiniteSet(1 .. n) /\ Cardinality(1 .. n) = n
  BY <1>1, FS_Interval
<1>9. f2 \in Injection(1 .. n, S)
  BY <1>5, <1>7 DEF Injection, IsInjective
<1>10. f2 \in Surjection(1 .. n, S)
  BY <1>8, <1>9, FS_Injection
<1> QED
  BY <1>6, <1>7, <1>10 DEF Surjection
-----------------------------------------------------------------------------
(* The input of a request.                                                 *)

\* p is q after calls that leave its state and its response alone.
Alike(p, q) == RequestOK(p) /\ p.state = q.state /\ p.out = q.out /\ p.sending = q.sending

\* Moving the input to the start of the buffer changes its place only.
LEMMA ShuffleKeeps ==
    ASSUME NEW q, RequestOK(q)
    PROVE  Alike(Shuffle(q), q) /\ Used(Shuffle(q)) = Used(q) /\ Shuffle(q).length = q.length /\ Shuffle(q).next = q.next
  BY InputSizeAssumption DEF Shuffle, Used, Alike, RequestOK, Numbered, RequestFields

\* A buffer that has been cleared has no input.
LEMMA ClearKeeps ==
    ASSUME NEW q, RequestOK(q)
    PROVE  Alike(sxe_buf_clear(q), q) /\ Used(sxe_buf_clear(q)) = 0 /\ sxe_buf_clear(q).length = q.length
  BY InputSizeAssumption DEF sxe_buf_clear, Used, Alike, RequestOK, Numbered, RequestFields

\* Consuming n units leaves n less, also when it clears the buffer.
LEMMA ConsumeKeeps ==
    ASSUME NEW q, RequestOK(q), NEW n \in Int
    PROVE  /\ Alike(sxe_buf_consume(q, n), q) /\ Used(sxe_buf_consume(q, n)) = Used(q) - n
           /\ sxe_buf_consume(q, n).length = q.length
<1> DEFINE p == [q EXCEPT !.in_consumed = @ + n, !.held = TRUE]
<1>1. /\ Alike(p, q) /\ Used(p) = Used(q) - n /\ p.length = q.length
      /\ p.in_consumed \in Int /\ p.in_total \in Int
  BY DEF Used, Alike, RequestOK, Numbered, RequestFields
<1>2. sxe_buf_consume(q, n) = IF p.in_consumed = p.in_total THEN sxe_buf_clear(p) ELSE p
  BY DEF sxe_buf_consume
<1> HIDE DEF p
<1>3. CASE p.in_consumed = p.in_total
  <2>1. RequestOK(p) /\ Used(p) = 0
    BY <1>1, <1>3 DEF Alike, Used
  <2> QED
    BY <1>1, <1>2, <1>3, <2>1, ClearKeeps DEF Alike
<1> QED
  BY <1>1, <1>2, <1>3

\* Resuming a buffer keeps its input.
LEMMA ResumeKeeps ==
    ASSUME NEW q, RequestOK(q)
    PROVE  Alike(sxe_buf_resume(q), q) /\ Used(sxe_buf_resume(q)) = Used(q) /\ sxe_buf_resume(q).length = q.length
<1> DEFINE o == [Shuffle(q) EXCEPT !.watch = IF @ = "off" THEN "read" ELSE @]
<1> DEFINE p == IF q.in_consumed # 0 /\ q.in_total = InputSize THEN o ELSE q
<1>1. Alike(o, q) /\ Used(o) = Used(q) /\ o.length = q.length
  <2>1. Alike(Shuffle(q), q) /\ Used(Shuffle(q)) = Used(q) /\ Shuffle(q).length = q.length
    BY ShuffleKeeps
  <2> QED
    BY <2>1 DEF Used, Alike, RequestOK, Numbered, RequestFields
<1>2. Alike(p, q) /\ Used(p) = Used(q) /\ p.length = q.length
  BY <1>1 DEF Alike
<1>3. sxe_buf_resume(q) = [p EXCEPT !.held = FALSE, !.deferred = @ \/ Used(p) # 0]
  BY DEF sxe_buf_resume
<1> HIDE DEF p
<1> QED
  BY <1>2, <1>3 DEF Used, Alike, RequestOK, Numbered, RequestFields

\* So does the end of a read.
LEMMA AfterReadKeeps ==
    ASSUME NEW q, RequestOK(q)
    PROVE  Alike(AfterRead(q), q) /\ Used(AfterRead(q)) = Used(q) /\ AfterRead(q).length = q.length
<1> DEFINE p == [q EXCEPT !.watch = IF @ = "read" THEN "off" ELSE @]
<1>1. Alike(p, q) /\ Used(p) = Used(q) /\ p.length = q.length
  BY DEF Used, Alike, RequestOK, Numbered, RequestFields
<1>2. Alike(q, q)
  BY DEF Alike
<1>3. AfterRead(q) = IF q.in_total # InputSize THEN q ELSE IF q.in_consumed # 0 THEN Shuffle(q) ELSE p
  BY DEF AfterRead
<1> HIDE DEF p
<1> QED
  BY <1>1, <1>2, <1>3, ShuffleKeeps

\* The first line of a message ends at a number.
LEMMA MinLineEnds ==
    ASSUME NEW q, q.next \in Int, q.length \in Int, LineEnds(q) # {}
    PROVE  Min(LineEnds(q)) \in q.next + 1 .. q.length
<1>1. LineEnds(q) \subseteq Int /\ \A x \in LineEnds(q) : q.next + 1 <= x
  BY DEF LineEnds
<1>2. Min(LineEnds(q)) \in LineEnds(q)
  BY <1>1, MinIs
<1> QED
  BY <1>2 DEF LineEnds

\* The parser changes its own lengths only: a header that is returned is within
\* the message, and what is ignored is taken off it.
LEMMA ParseKeeps ==
    ASSUME NEW q, RequestOK(q)
    PROVE  LET x == ParseNextHeader(q) IN
           /\ Alike(x.q, q) /\ Used(x.q) = Used(q) /\ x.ignored \in Int
           /\ x.q.length = q.length - x.ignored
           /\ x.result \in {"block", "eof", "bad", "header", "length"}
           /\ x.result # "block" => x.ignored = 0
<1> DEFINE ends == LineEnds(q)
<1> DEFINE k == Min(ends)
<1> DEFINE Result(res, ignored, p) == [result |-> res, ignored |-> ignored, q |-> p]
<1> DEFINE Short(n, more) == [q EXCEPT !.length = @ - n, !.next = 0, !.late = ~more, !.ignore = more]
<1> DEFINE Fine(x) == /\ Alike(x.q, q) /\ Used(x.q) = Used(q) /\ x.ignored \in Int
                      /\ x.q.length = q.length - x.ignored
                      /\ x.result \in {"block", "eof", "bad", "header", "length"}
                      /\ x.result # "block" => x.ignored = 0
<1>1. ASSUME NEW n \in Int, NEW more \in BOOLEAN PROVE Fine(Result("block", n, Short(n, more)))
  <2>1. Alike(Short(n, more), q) /\ Used(Short(n, more)) = Used(q) /\ Short(n, more).length = q.length - n
    BY <1>1 DEF Used, Alike, RequestOK, Numbered, RequestFields
  <2> HIDE DEF Short
  <2> QED
    BY <2>1
<1>3. Alike(q, q) /\ q.length \in Int /\ q.next \in Int
  BY DEF Alike, RequestOK, Numbered
<1>4. ends # {} => k \in Int
  BY <1>3, MinLineEnds
<1>5. ASSUME NEW n \in Int
      PROVE  /\ Fine(Result("eof", 0, [q EXCEPT !.next = n, !.ignore = FALSE]))
             /\ Fine(Result("eof", 0, [q EXCEPT !.next = n]))
             /\ Fine(Result(At(q, k), 0, [q EXCEPT !.next = n, !.late = FALSE])) \/ At(q, k) \notin {"header", "length"}
  <2> DEFINE p1 == [q EXCEPT !.next = n, !.ignore = FALSE]
  <2> DEFINE p2 == [q EXCEPT !.next = n]
  <2> DEFINE p3 == [q EXCEPT !.next = n, !.late = FALSE]
  <2>1. Alike(p1, q) /\ Used(p1) = Used(q) /\ p1.length = q.length
    BY DEF Used, Alike, RequestOK, Numbered, RequestFields
  <2>2. Alike(p2, q) /\ Used(p2) = Used(q) /\ p2.length = q.length
    BY DEF Used, Alike, RequestOK, Numbered, RequestFields
  <2>3. Alike(p3, q) /\ Used(p3) = Used(q) /\ p3.length = q.length
    BY DEF Used, Alike, RequestOK, Numbered, RequestFields
  <2> HIDE DEF p1, p2, p3, k
  <2>4. Fine(Result("eof", 0, p1)) /\ Fine(Result("eof", 0, p2))
    BY <1>3, <2>1, <2>2
  <2>5. At(q, k) \in {"header", "length"} => Fine(Result(At(q, k), 0, p3))
    BY <1>3, <2>3
  <2> QED
    BY <2>4, <2>5 DEF p1, p2, p3
<1>6. Fine(Result("bad", 0, q)) /\ Fine(Result("block", 0, q))
  BY <1>3
<1>7. ASSUME NEW b PROVE Fine(Result("block", 0, [q EXCEPT !.late = b]))
  BY <1>7 DEF Used, Alike, RequestOK, Numbered, RequestFields
<1>8. ParseNextHeader(q) =
        IF q.ignore
        THEN IF ends = {} THEN Result("block", q.length, Short(q.length, TRUE))
             ELSE IF k = q.length THEN Result("block", k - 1, Short(k - 1, TRUE))
             ELSE IF At(q, k + 1) = "eoh" THEN Result("eof", 0, [q EXCEPT !.next = k + 1, !.ignore = FALSE])
             ELSE Result("block", k, Short(k, FALSE))
        ELSE IF ends = {} THEN Result("block", 0, [q EXCEPT !.late = @ \/ q.next = q.length])
        ELSE IF At(q, k) = "eoh" /\ ~q.late /\ k = q.next + 1 THEN Result("eof", 0, [q EXCEPT !.next = k])
        ELSE IF At(q, k) \notin {"header", "length"} THEN Result("bad", 0, q)
        ELSE IF k = q.length THEN Result("block", 0, q)
        ELSE Result(At(q, k), 0, [q EXCEPT !.next = k, !.late = FALSE])
  BY DEF ParseNextHeader
<1> HIDE DEF ends, k, Result, Short, Fine
<1>9. Fine(ParseNextHeader(q))
  <2>1. CASE q.ignore
    <3>1. CASE ends = {}
      BY <1>1, <1>3, <1>8, <2>1, <3>1
    <3>2. CASE ends # {}
      <4>1. k \in Int /\ k - 1 \in Int /\ k + 1 \in Int
        BY <1>4, <3>2
      <4> QED
        BY <1>1, <1>5, <1>8, <2>1, <3>2, <4>1
    <3> QED
      BY <3>1, <3>2
  <2>2. CASE ~q.ignore
    <3>1. CASE ends = {}
      BY <1>7, <1>8, <2>2, <3>1
    <3>2. CASE ends # {}
      BY <1>4, <1>5, <1>6, <1>8, <2>2, <3>2
    <3> QED
      BY <3>1, <3>2
  <2> QED
    BY <2>1, <2>2
<1> QED
  BY <1>9 DEF Fine

\* Consuming the headers that were parsed takes as much off the message.
LEMMA ConsumeParsedKeeps ==
    ASSUME NEW q, RequestOK(q)
    PROVE  /\ Alike(ConsumeParsed(q), q)
           /\ q.length <= Used(q) => ConsumeParsed(q).length <= Used(ConsumeParsed(q))
<1> DEFINE p == [q EXCEPT !.length = @ - q.next, !.next = 0]
<1>1. /\ Alike(p, q) /\ Used(p) = Used(q) /\ p.length = q.length - q.next
      /\ q.next \in Int /\ q.length \in Int /\ Used(q) \in Int
  BY DEF Used, Alike, RequestOK, Numbered, RequestFields
<1>2. ConsumeParsed(q) = sxe_buf_consume(p, q.next)
  BY DEF ConsumeParsed
<1> HIDE DEF p
<1>3. Alike(sxe_buf_consume(p, q.next), p) /\ Used(sxe_buf_consume(p, q.next)) = Used(p) - q.next
      /\ sxe_buf_consume(p, q.next).length = p.length
  BY <1>1, ConsumeKeeps DEF Alike
<1> QED
  BY <1>1, <1>2, <1>3 DEF Alike

\* Shifting a message within the buffer changes its cells only.
LEMMA ShiftKeeps ==
    ASSUME NEW q, RequestOK(q), NEW n
    PROVE  Alike(ShiftIgnored(q, n), q) /\ Used(ShiftIgnored(q, n)) = Used(q) /\ ShiftIgnored(q, n).length = q.length
  BY DEF ShiftIgnored, Used, Alike, RequestOK, Numbered, RequestFields
-----------------------------------------------------------------------------
(* The output buffers.                                                     *)

Changed(s, t, r) == t.aborted = s.aborted /\ \A o \in Requests \ {r} : t.req[o] = s.req[o]

\* t is s after calls for a request that leave its state and its message alone.
Kept(s, t, r, hand) == /\ ServerOK(t, hand) /\ Changed(s, t, r) /\ State(t, r) = State(s, r)
                       /\ Covered(s.req[r]) => Covered(t.req[r])

\* What two calls in turn keep.
LEMMA KeptTwice ==
    ASSUME NEW s, NEW t, NEW u, NEW r, NEW hand, NEW hand2, Kept(s, t, r, hand), Kept(t, u, r, hand2)
    PROVE  Kept(s, u, r, hand2)
  BY DEF Kept, Changed

\* A call that does nothing.
LEMMA KeptSelf == ASSUME NEW s, NEW r, NEW hand, ServerOK(s, hand) PROVE Kept(s, s, r, hand)
  BY DEF Kept, Changed

\* The buffers that a request has, those that are free, those that are leaked
\* and those in hand may be exchanged.
LEMMA Redistributed ==
    ASSUME NEW s, NEW hand, ServerOK(s, hand), NEW r \in Requests, NEW p, RequestOK(p), NEW t, NEW hand2,
           DOMAIN t = DOMAIN s, t.order = s.order, t.req = [s.req EXCEPT ![r] = p],
           Own(p) \cup t.free \cup t.leaked \cup hand2 = Own(s.req[r]) \cup s.free \cup s.leaked \cup hand,
           Own(p) \cap (t.free \cup t.leaked \cup hand2) = {}, t.free \cap t.leaked = {},
           hand2 \cap (t.free \cup t.leaked) = {}
    PROVE  ServerOK(t, hand2)
<1> DEFINE own == [o \in Requests |-> Own(s.req[o])]
<1> DEFINE own2 == [o \in Requests |-> Own(t.req[o])]
<1>1. /\ DOMAIN s = {"req", "order", "free", "leaked", "aborted", "defaults"}
      /\ DOMAIN s.req = Requests /\ \A o \in Requests : RequestOK(s.req[o])
      /\ OrderOK(s.order) /\ Accounted(s.free, s.leaked, hand, own)
  BY DEF ServerOK
<1>2. DOMAIN t.req = Requests /\ t.req[r] = p /\ \A o \in Requests : o # r => t.req[o] = s.req[o]
  BY <1>1
<1>3. own2[r] = Own(p) /\ own[r] = Own(s.req[r]) /\ \A o \in Requests : o # r => own2[o] = own[o]
  BY <1>2
<1>4. Own(p) \subseteq Buffers /\ Own(s.req[r]) \subseteq Buffers
  BY DEF Own
<1>5. Accounted(t.free, t.leaked, hand2, own2)
  <2> HIDE DEF own, own2
  <2> DEFINE all == own[r] \cup s.free \cup s.leaked \cup hand
  <2>1. /\ all \subseteq Buffers /\ all = own2[r] \cup t.free \cup t.leaked \cup hand2
        /\ \A o \in Requests : o # r => own[o] \cap all = {}
    BY <1>1, <1>3, <1>4 DEF Accounted
  <2>2. /\ t.free \subseteq Buffers /\ t.leaked \subseteq Buffers /\ hand2 \subseteq Buffers
        /\ t.free \cap t.leaked = {} /\ hand2 \cap (t.free \cup t.leaked) = {}
    BY <2>1
  <2>3. \A o \in Requests : own2[o] \cap (t.free \cup t.leaked \cup hand2) = {}
    <3> TAKE o \in Requests
    <3>1. CASE o = r
      BY <1>3, <3>1
    <3>2. CASE o # r
      <4>1. own2[o] \cap all = {}
        BY <1>3, <2>1, <3>2
      <4> HIDE DEF all
      <4> QED
        BY <2>1, <4>1
    <3> QED
      BY <3>1, <3>2
  <2>4. \A r1, r2 \in Requests : r1 # r2 => own2[r1] \cap own2[r2] = {}
    <3>1. \A o \in Requests : o # r => own2[o] \cap own2[r] = {}
      <4> TAKE o \in Requests
      <4> HAVE o # r
      <4>1. own2[o] \cap all = {} /\ own2[r] \subseteq all
        BY <1>3, <2>1
      <4> HIDE DEF all
      <4> QED
        BY <4>1
    <3>2. \A r1, r2 \in Requests : r1 # r2 => own[r1] \cap own[r2] = {}
      BY <1>1 DEF Accounted
    <3> QED
      BY <1>3, <3>1, <3>2
  <2>5. \A b \in Buffers : b \in t.free \cup t.leaked \cup hand2 \/ \E o \in Requests : b \in own2[o]
    <3> TAKE b \in Buffers
    <3>1. CASE b \in all
      <4>1. b \in own2[r] \/ b \in t.free \cup t.leaked \cup hand2
        BY <2>1, <3>1
      <4> QED
        BY <4>1
    <3>2. CASE b \notin all
      <4>1. b \notin s.free \cup s.leaked \cup hand /\ b \notin own[r]
        BY <3>2
      <4>2. PICK o \in Requests : b \in own[o]
        BY <1>1, <4>1 DEF Accounted
      <4> QED
        BY <1>3, <4>1, <4>2
    <3> QED
      BY <3>1, <3>2
  <2> QED
    BY <2>2, <2>3, <2>4, <2>5 DEF Accounted
<1> QED
  BY <1>1, <1>2, <1>5 DEF ServerOK

\* A change of a request that leaves it the same buffers of the pool.
LEMMA PutSame ==
    ASSUME NEW s, NEW hand, ServerOK(s, hand), NEW r \in Requests, NEW p, RequestOK(p), Own(p) = Own(s.req[r])
    PROVE  LET t == [s EXCEPT !.req[r] = p] IN
           /\ ServerOK(t, hand) /\ Changed(s, t, r) /\ t.req[r] = p
           /\ t.free = s.free /\ t.order = s.order
<1> DEFINE t == [s EXCEPT !.req[r] = p]
<1>1. DOMAIN s = {"req", "order", "free", "leaked", "aborted", "defaults"} /\ DOMAIN s.req = Requests
  BY DEF ServerOK
<1>2. /\ DOMAIN t = DOMAIN s /\ t.order = s.order /\ t.req = [s.req EXCEPT ![r] = p]
      /\ t.free = s.free /\ t.leaked = s.leaked /\ t.aborted = s.aborted
  BY <1>1
<1>3. Own(p) \cap (t.free \cup t.leaked \cup hand) = {} /\ t.free \cap t.leaked = {} /\ hand \cap (t.free \cup t.leaked) = {}
  BY <1>2 DEF ServerOK, Accounted
<1> HIDE DEF t
<1>4. ServerOK(t, hand)
  <2>1. Own(p) \cup t.free \cup t.leaked \cup hand = Own(s.req[r]) \cup s.free \cup s.leaked \cup hand
    BY <1>2
  <2> QED
    BY <1>2, <1>3, <2>1, Redistributed
<1> QED
  BY <1>1, <1>2, <1>4 DEF Changed, t

\* A change of a request that leaves its response alone.
LEMMA PutKeeps ==
    ASSUME NEW s, NEW hand, ServerOK(s, hand), NEW r \in Requests, NEW p, RequestOK(p), p.out = s.req[r].out
    PROVE  LET t == [s EXCEPT !.req[r] = p] IN
           /\ ServerOK(t, hand) /\ Changed(s, t, r) /\ t.req[r] = p
           /\ t.free = s.free /\ t.order = s.order
<1>1. Own(p) = Own(s.req[r])
  BY DEF Own
<1> QED
  BY <1>1, PutSame

\* A change to a request that is not to its buffers, its input or its state.
LEMMA PutKept ==
    ASSUME NEW s, NEW hand, ServerOK(s, hand), NEW r \in Requests, NEW p, Alike(p, s.req[r]),
           Used(p) = Used(s.req[r]), p.length = s.req[r].length
    PROVE  Kept(s, [s EXCEPT !.req[r] = p], r, hand)
  BY PutKeeps DEF Kept, Alike, Covered, State

\* A buffer that is free is put on a response.
LEMMA PushKept ==
    ASSUME NEW s, NEW hand, ServerOK(s, hand), NEW r \in Requests, NEW own \in BOOLEAN, s.free # {}
    PROVE  Kept(s, PushBuffer(s, r, own), r, hand)
<1> DEFINE b == CHOOSE x \in s.free : TRUE
<1> DEFINE q == s.req[r]
<1> DEFINE p == [q EXCEPT !.out = Append(@, Entry(b, own))]
<1> DEFINE t == PushBuffer(s, r, own)
<1>1. DOMAIN s = {"req", "order", "free", "leaked", "aborted", "defaults"} /\ DOMAIN s.req = Requests /\ RequestOK(q)
  BY DEF ServerOK
<1>2. /\ DOMAIN t = DOMAIN s /\ t.order = s.order /\ t.req = [s.req EXCEPT ![r] = p]
      /\ t.free = s.free \ {b} /\ t.leaked = s.leaked /\ t.aborted = s.aborted
  BY <1>1 DEF PushBuffer
<1>3. b \in s.free /\ b \in Buffers /\ b \notin Own(q)
  BY DEF ServerOK, Accounted
<1>4. /\ DOMAIN p = RequestFields /\ p.state = q.state /\ p.sending = q.sending /\ p.out = Append(q.out, Entry(b, own))
      /\ Numbered(p) /\ Used(p) = Used(q) /\ p.length = q.length
  BY <1>1 DEF RequestOK, Numbered, Used, RequestFields
<1>5. q.out \in Seq(Entries) /\ Entry(b, own) \in Entries /\ Entry(b, own).id = b /\ Entry(b, own).left
  BY <1>1, <1>3 DEF RequestOK, OutOK, Entries, Entry
<1> HIDE DEF b, q, p, t
<1> DEFINE n == Len(q.out)
<1>6. /\ n \in Nat /\ p.out \in Seq(Entries) /\ Len(p.out) = n + 1 /\ p.out[n + 1] = Entry(b, own)
      /\ \A i \in 1 .. n : p.out[i] = q.out[i]
      /\ DOMAIN p.out = 1 .. n + 1 /\ DOMAIN q.out = 1 .. n
  BY <1>4, <1>5
<1> HIDE DEF n
<1>7. \A i \in 1 .. n : p.out[i].id # b
  BY <1>3, <1>6 DEF Own
<1>8. OutOK(p.out)
  <2>1. /\ \A i \in 1 .. n : ~q.out[i].left => q.out[i].id = App
        /\ \A i, j \in 1 .. n : q.out[i].id = q.out[j].id => i = j \/ q.out[i].id = App
    BY <1>1, <1>6 DEF RequestOK, OutOK, n
  <2>2. \A i \in 1 .. n + 1 : i \in 1 .. n \/ i = n + 1
    BY <1>6
  <2>3. \A i \in 1 .. n + 1 : ~p.out[i].left => p.out[i].id = App
    BY <1>5, <1>6, <2>1, <2>2
  <2>4. \A i, j \in 1 .. n + 1 : p.out[i].id = p.out[j].id => i = j \/ p.out[i].id = App
    BY <1>5, <1>6, <1>7, <2>1, <2>2
  <2> QED
    BY <1>6, <2>3, <2>4 DEF OutOK
<1>9. Own(p) = Own(q) \cup {b}
  <2>1. \A i \in 1 .. n + 1 : i \in 1 .. n \/ i = n + 1
    BY <1>6
  <2>2. n + 1 \in 1 .. n + 1 /\ \A i \in 1 .. n : i \in 1 .. n + 1
    BY <1>6
  <2>3. {p.out[k].id : k \in 1 .. n + 1} = {q.out[k].id : k \in 1 .. n} \cup {b}
    BY <1>5, <1>6, <2>1, <2>2
  <2> QED
    BY <1>3, <1>6, <2>3 DEF Own
<1>10. RequestOK(p)
  BY <1>1, <1>4, <1>8 DEF RequestOK
<1>11. ServerOK(t, hand)
  <2>1. /\ s.free \cap s.leaked = {} /\ hand \cap (s.free \cup s.leaked) = {}
        /\ Own(q) \cap (s.free \cup s.leaked \cup hand) = {}
    BY DEF ServerOK, Accounted, q
  <2>2. Own(p) \cap (t.free \cup t.leaked \cup hand) = {} /\ t.free \cap t.leaked = {} /\ hand \cap (t.free \cup t.leaked) = {}
    BY <1>2, <1>3, <1>9, <2>1
  <2>3. Own(p) \cup t.free \cup t.leaked \cup hand = Own(s.req[r]) \cup s.free \cup s.leaked \cup hand
    BY <1>2, <1>3, <1>9 DEF q
  <2> QED
    BY <1>2, <1>10, <2>2, <2>3, Redistributed
<1> QED
  BY <1>1, <1>2, <1>4, <1>11 DEF Kept, Changed, State, Covered, t, q
-----------------------------------------------------------------------------
(* The response calls.                                                     *)

\* A response is marked.
LEMMA MarkKept ==
    ASSUME NEW s, NEW hand, ServerOK(s, hand), NEW r \in Requests, NEW b
    PROVE  /\ Kept(s, [s EXCEPT !.req[r].started = b], r, hand)
           /\ Kept(s, [s EXCEPT !.req[r].eoh = b], r, hand)
           /\ Kept(s, [s EXCEPT !.req[r].watch = b], r, hand)
<1> DEFINE q == s.req[r]
<1>1. DOMAIN s = {"req", "order", "free", "leaked", "aborted", "defaults"} /\ DOMAIN s.req = Requests /\ RequestOK(q)
  BY DEF ServerOK
<1>2. LET p == [q EXCEPT !.started = b] IN Alike(p, q) /\ Used(p) = Used(q) /\ p.length = q.length
  BY <1>1 DEF Used, Alike, RequestOK, Numbered, RequestFields
<1>3. LET p == [q EXCEPT !.eoh = b] IN Alike(p, q) /\ Used(p) = Used(q) /\ p.length = q.length
  BY <1>1 DEF Used, Alike, RequestOK, Numbered, RequestFields
<1>4. LET p == [q EXCEPT !.watch = b] IN Alike(p, q) /\ Used(p) = Used(q) /\ p.length = q.length
  BY <1>1 DEF Used, Alike, RequestOK, Numbered, RequestFields
<1>5. Kept(s, [s EXCEPT !.req[r] = [q EXCEPT !.started = b]], r, hand)
  BY <1>2, PutKept
<1>6. Kept(s, [s EXCEPT !.req[r] = [q EXCEPT !.eoh = b]], r, hand)
  BY <1>3, PutKept
<1>7. Kept(s, [s EXCEPT !.req[r] = [q EXCEPT !.watch = b]], r, hand)
  BY <1>4, PutKept
<1> QED
  BY <1>5, <1>6, <1>7

\* sxe_httpd_response_start takes a buffer for the status line, if one is free.
LEMMA StartKept ==
    ASSUME NEW s, NEW hand, ServerOK(s, hand), NEW r \in Requests
    PROVE  Kept(s, sxe_httpd_response_start(s, r), r, hand)
<1>1. CASE s.free = {}
  BY <1>1, KeptSelf DEF sxe_httpd_response_start
<1>2. CASE s.free # {}
  <2> DEFINE t == PushBuffer(s, r, TRUE)
  <2>1. Kept(s, t, r, hand)
    BY <1>2, PushKept
  <2>2. sxe_httpd_response_start(s, r) = [t EXCEPT !.req[r].started = TRUE]
    BY <1>2 DEF sxe_httpd_response_start
  <2> HIDE DEF t
  <2>3. Kept(t, [t EXCEPT !.req[r].started = TRUE], r, hand)
    <3>1. ServerOK(t, hand)
      BY <2>1 DEF Kept
    <3> QED
      BY <3>1, MarkKept
  <2> QED
    BY <2>1, <2>2, <2>3, KeptTwice
<1> QED
  BY <1>1, <1>2

\* sxe_httpd_response_header takes a buffer if the header does not fit in the last.
LEMMA HeaderKept ==
    ASSUME NEW s, NEW hand, ServerOK(s, hand), NEW r \in Requests, NEW room
    PROVE  Kept(s, sxe_httpd_response_header(s, r, room), r, hand)
  BY KeptSelf, PushKept DEF sxe_httpd_response_header

\* sxe_httpd_response_eoh does the same for the empty line.
LEMMA EohKept ==
    ASSUME NEW s, NEW hand, ServerOK(s, hand), NEW r \in Requests, NEW room
    PROVE  Kept(s, sxe_httpd_response_eoh(s, r, room), r, hand)
<1>1. CASE Fits(s.req[r], room)
  BY <1>1, MarkKept DEF sxe_httpd_response_eoh
<1>2. CASE ~Fits(s.req[r], room) /\ s.free = {}
  BY <1>2, KeptSelf DEF sxe_httpd_response_eoh
<1>3. CASE ~Fits(s.req[r], room) /\ s.free # {}
  <2> DEFINE t == PushBuffer(s, r, TRUE)
  <2>1. Kept(s, t, r, hand)
    BY <1>3, PushKept
  <2>2. sxe_httpd_response_eoh(s, r, room) = [t EXCEPT !.req[r].eoh = TRUE]
    BY <1>3 DEF sxe_httpd_response_eoh
  <2> HIDE DEF t
  <2>3. Kept(t, [t EXCEPT !.req[r].eoh = TRUE], r, hand)
    <3>1. ServerOK(t, hand)
      BY <2>1 DEF Kept
    <3> QED
      BY <3>1, MarkKept
  <2> QED
    BY <2>1, <2>2, <2>3, KeptTwice
<1> QED
  BY <1>1, <1>2, <1>3

\* The calls that add a body end the headers first.
LEMMA EnsureKept ==
    ASSUME NEW s, NEW hand, ServerOK(s, hand), NEW r \in Requests, NEW room
    PROVE  Kept(s, EnsureEoh(s, r, room), r, hand)
  BY KeptSelf, EohKept DEF EnsureEoh

\* sxe_httpd_response_simple makes the calls above in turn.
LEMMA SimpleHeadKept ==
    ASSUME NEW s, ServerOK(s, {}), NEW r \in Requests, NEW room
    PROVE  Kept(s, SimpleHead(s, r, room), r, {})
<1> DEFINE t == sxe_httpd_response_start(s, r)
<1> DEFINE u == sxe_httpd_response_header(t, r, room)
<1>1. Kept(s, t, r, {})
  BY StartKept
<1>2. SimpleHead(s, r, room) = sxe_httpd_response_header(u, r, room)
  BY DEF SimpleHead, sxe_httpd_response_content_length
<1>3. Kept(t, u, r, {})
  <2> HIDE DEF t
  <2> QED
    BY <1>1, HeaderKept DEF Kept
<1> HIDE DEF u
<1>4. Kept(u, sxe_httpd_response_header(u, r, room), r, {})
  BY <1>3, HeaderKept DEF Kept
<1> HIDE DEF t
<1>5. Kept(s, u, r, {})
  BY <1>1, <1>3, KeptTwice
<1> QED
  BY <1>2, <1>4, <1>5, KeptTwice

\* Buffers are taken from the free ones, and given back.
LEMMA TakeKept ==
    ASSUME NEW s, ServerOK(s, {}), NEW r \in Requests, NEW B, B \subseteq s.free
    PROVE  Kept(s, [s EXCEPT !.free = @ \ B], r, B)
<1> DEFINE t == [s EXCEPT !.free = @ \ B]
<1>1. DOMAIN s = {"req", "order", "free", "leaked", "aborted", "defaults"} /\ DOMAIN s.req = Requests /\ RequestOK(s.req[r])
  BY DEF ServerOK
<1>2. /\ DOMAIN t = DOMAIN s /\ t.order = s.order /\ t.req = s.req
      /\ t.free = s.free \ B /\ t.leaked = s.leaked /\ t.aborted = s.aborted
  BY <1>1
<1> HIDE DEF t
<1>3. Accounted(s.free, s.leaked, {}, [o \in Requests |-> Own(s.req[o])])
  BY DEF ServerOK
<1>4. Accounted(t.free, t.leaked, B, [o \in Requests |-> Own(t.req[o])])
  BY <1>2, <1>3 DEF Accounted
<1> QED
  BY <1>2, <1>4 DEF ServerOK, Kept, Changed, State, t

\* The buffers in hand are given back.
LEMMA BackKept ==
    ASSUME NEW s, NEW B, ServerOK(s, B), NEW r \in Requests
    PROVE  Kept(s, [s EXCEPT !.free = @ \cup B], r, {})
<1> DEFINE t == [s EXCEPT !.free = @ \cup B]
<1>1. DOMAIN s = {"req", "order", "free", "leaked", "aborted", "defaults"} /\ DOMAIN s.req = Requests /\ RequestOK(s.req[r])
  BY DEF ServerOK
<1>2. /\ DOMAIN t = DOMAIN s /\ t.order = s.order /\ t.req = s.req
      /\ t.free = s.free \cup B /\ t.leaked = s.leaked /\ t.aborted = s.aborted
  BY <1>1
<1> HIDE DEF t
<1>3. Accounted(s.free, s.leaked, B, [o \in Requests |-> Own(s.req[o])])
  BY DEF ServerOK
<1>4. Accounted(t.free, t.leaked, {}, [o \in Requests |-> Own(t.req[o])])
  BY <1>2, <1>3 DEF Accounted
<1> QED
  BY <1>2, <1>4 DEF ServerOK, Kept, Changed, State, t

\* The buffers of a copy are put on the response.
LEMMA SpliceKept ==
    ASSUME NEW s, NEW B, ServerOK(s, B), NEW r \in Requests
    PROVE  Kept(s, Splice(s, r, B), r, {})
<1> DEFINE q == s.req[r]
<1> DEFINE m == Cardinality(B)
<1> DEFINE f == SetToSeq(B)
<1> DEFINE g == [k \in 1 .. m |-> Entry(f[k], TRUE)]
<1> DEFINE p == [q EXCEPT !.out = @ \o g]
<1> DEFINE t == Splice(s, r, B)
<1>1. DOMAIN s = {"req", "order", "free", "leaked", "aborted", "defaults"} /\ DOMAIN s.req = Requests /\ RequestOK(q)
  BY DEF ServerOK
<1>2. /\ DOMAIN t = DOMAIN s /\ t.order = s.order /\ t.req = [s.req EXCEPT ![r] = p]
      /\ t.free = s.free /\ t.leaked = s.leaked /\ t.aborted = s.aborted
  BY <1>1 DEF Splice
<1>3. B \subseteq Buffers /\ \A b \in B : b \notin Own(q)
  BY DEF ServerOK, Accounted
<1>4. /\ DOMAIN p = RequestFields /\ p.state = q.state /\ p.sending = q.sending /\ p.out = q.out \o g
      /\ Numbered(p) /\ Used(p) = Used(q) /\ p.length = q.length
  BY <1>1 DEF RequestOK, Numbered, Used, RequestFields
<1>5. IsFiniteSet(B) /\ m \in Nat
  BY <1>3, BuffersAssumption, FS_Subset, FS_CardinalityType
<1>6. /\ f \in Seq(B) /\ Len(f) = m
      /\ \A i, j \in 1 .. m : f[i] = f[j] => i = j
      /\ \A x \in B : \E i \in 1 .. m : f[i] = x
  BY <1>5, SetToSeqIs
<1>7. \A i \in 1 .. m : f[i] \in B
  BY <1>6
<1>8. \A i \in 1 .. m : g[i] \in Entries /\ g[i].id = f[i] /\ g[i].left
  BY <1>3, <1>7 DEF Entries, Entry
<1>9. g \in Seq(Entries) /\ Len(g) = m
  <2>1. g \in [1 .. m -> Entries]
    BY <1>8
  <2> HIDE DEF g
  <2> QED
    BY <1>5, <2>1
<1> HIDE DEF p, t, f, g, m, q
<1> DEFINE n == Len(q.out)
<1>10. q.out \in Seq(Entries) /\ n \in Nat
  BY <1>1 DEF RequestOK, OutOK
<1>11. /\ p.out \in Seq(Entries) /\ Len(p.out) = n + m /\ DOMAIN p.out = 1 .. n + m /\ DOMAIN q.out = 1 .. n
       /\ \A i \in 1 .. n : p.out[i] = q.out[i]
       /\ \A i \in 1 .. m : p.out[n + i] = g[i]
  <2>1. p.out = q.out \o g
    BY <1>4
  <2>2. p.out \in Seq(Entries) /\ Len(p.out) = n + m
    BY <1>9, <1>10, <2>1, ConcatProperties
  <2>3. DOMAIN p.out = 1 .. n + m /\ DOMAIN q.out = 1 .. n
    BY <1>10, <2>2
  <2>4. \A i \in 1 .. n + m : p.out[i] = IF i <= n THEN q.out[i] ELSE g[i - n]
    BY <1>9, <1>10, <2>1
  <2> HIDE DEF n
  <2>5. \A i \in 1 .. n : i \in 1 .. n + m /\ i <= n
    BY <1>5, <1>10
  <2>6. \A i \in 1 .. m : n + i \in 1 .. n + m /\ ~(n + i <= n) /\ (n + i) - n = i
    BY <1>5, <1>10
  <2> QED
    BY <2>2, <2>3, <2>4, <2>5, <2>6
<1>12. /\ \A i \in 1 .. n : ~q.out[i].left => q.out[i].id = App
       /\ \A i, j \in 1 .. n : q.out[i].id = q.out[j].id => i = j \/ q.out[i].id = App
  BY <1>1 DEF RequestOK, OutOK, n
<1> HIDE DEF n
<1>13. \A i \in 1 .. n + m : i \in 1 .. n \/ (i - n \in 1 .. m /\ i = n + (i - n))
  BY <1>5, <1>10
<1>14. \A i \in 1 .. m : p.out[n + i].id = f[i] /\ p.out[n + i].left
  BY <1>8, <1>11
<1>15. \A i \in 1 .. n : p.out[i].id \notin B
  <2> TAKE i \in 1 .. n
  <2> SUFFICES ASSUME p.out[i].id \in B PROVE FALSE
    OBVIOUS
  <2>1. q.out[i].id \in Own(q)
    BY <1>3, <1>11 DEF Own
  <2> QED
    BY <1>3, <1>11, <2>1
<1>16. OutOK(p.out)
  <2>1. \A i \in 1 .. n + m : ~p.out[i].left => p.out[i].id = App
    BY <1>11, <1>12, <1>13, <1>14
  <2>2. ASSUME NEW i \in 1 .. n + m, NEW j \in 1 .. n + m, p.out[i].id = p.out[j].id
        PROVE  i = j \/ p.out[i].id = App
    <3>1. CASE i \in 1 .. n /\ j \in 1 .. n
      BY <1>11, <1>12, <2>2, <3>1
    <3>2. CASE i \notin 1 .. n
      <4>1. i - n \in 1 .. m /\ p.out[i].id = f[i - n] /\ f[i - n] \in B
        BY <1>7, <1>13, <1>14, <3>2
      <4>2. j \notin 1 .. n
        BY <1>15, <2>2, <4>1
      <4>3. j - n \in 1 .. m /\ p.out[j].id = f[j - n]
        BY <1>13, <1>14, <4>2
      <4>4. i - n = j - n
        BY <1>6, <2>2, <4>1, <4>3
      <4> QED
        BY <1>5, <1>10, <4>4
    <3>3. CASE j \notin 1 .. n
      <4>1. j - n \in 1 .. m /\ p.out[j].id = f[j - n] /\ f[j - n] \in B
        BY <1>7, <1>13, <1>14, <3>3
      <4>2. i \notin 1 .. n
        BY <1>15, <2>2, <4>1
      <4> QED
        BY <3>2, <4>2
    <3> QED
      BY <3>1, <3>2, <3>3
  <2> QED
    BY <1>11, <2>1, <2>2 DEF OutOK
<1>17. Own(p) = Own(q) \cup B
  <2>1. \A i \in 1 .. n : i \in 1 .. n + m
    BY <1>5, <1>10
  <2>2. \A i \in 1 .. m : n + i \in 1 .. n + m
    BY <1>5, <1>10
  <2>3. {p.out[k].id : k \in 1 .. n + m} = {q.out[k].id : k \in 1 .. n} \cup B
    <3>1. ASSUME NEW k \in 1 .. n + m PROVE p.out[k].id \in {q.out[i].id : i \in 1 .. n} \cup B
      BY <1>7, <1>11, <1>13, <1>14
    <3>2. ASSUME NEW k \in 1 .. n PROVE q.out[k].id \in {p.out[i].id : i \in 1 .. n + m}
      BY <1>11, <2>1
    <3>3. ASSUME NEW b \in B PROVE b \in {p.out[i].id : i \in 1 .. n + m}
      <4>1. PICK i \in 1 .. m : f[i] = b
        BY <1>6
      <4> QED
        BY <1>14, <2>2, <4>1
    <3> QED
      BY <3>1, <3>2, <3>3
  <2> QED
    BY <1>3, <1>11, <2>3 DEF Own
<1>18. RequestOK(p)
  BY <1>1, <1>4, <1>16 DEF RequestOK
<1>19. ServerOK(t, {})
  <2>1. /\ s.free \cap s.leaked = {} /\ B \cap (s.free \cup s.leaked) = {}
        /\ Own(q) \cap (s.free \cup s.leaked \cup B) = {}
    BY DEF ServerOK, Accounted, q
  <2>2. Own(p) \cap (t.free \cup t.leaked \cup {}) = {} /\ t.free \cap t.leaked = {} /\ {} \cap (t.free \cup t.leaked) = {}
    BY <1>2, <1>17, <2>1
  <2>3. Own(p) \cup t.free \cup t.leaked \cup {} = Own(s.req[r]) \cup s.free \cup s.leaked \cup B
    BY <1>2, <1>17 DEF q
  <2> QED
    BY <1>2, <1>18, <2>2, <2>3, Redistributed
<1> QED
  BY <1>1, <1>2, <1>4, <1>19 DEF Kept, Changed, State, Covered, t, q
\* A buffer of the application's is put on a response.
LEMMA AppKept ==
    ASSUME NEW s, ServerOK(s, {}), NEW r \in Requests
    PROVE  Kept(s, [s EXCEPT !.req[r].out = Append(@, Entry(App, FALSE))], r, {})
<1> DEFINE q == s.req[r]
<1> DEFINE p == [q EXCEPT !.out = Append(@, Entry(App, FALSE))]
<1> DEFINE t == [s EXCEPT !.req[r].out = Append(@, Entry(App, FALSE))]
<1>1. DOMAIN s = {"req", "order", "free", "leaked", "aborted", "defaults"} /\ DOMAIN s.req = Requests /\ RequestOK(q)
  BY DEF ServerOK
<1>2. /\ DOMAIN t = DOMAIN s /\ t.order = s.order /\ t.req = [s.req EXCEPT ![r] = p]
      /\ t.free = s.free /\ t.leaked = s.leaked /\ t.aborted = s.aborted
  BY <1>1
<1>3. /\ DOMAIN p = RequestFields /\ p.state = q.state /\ p.sending = q.sending /\ p.out = Append(q.out, Entry(App, FALSE))
      /\ Numbered(p) /\ Used(p) = Used(q) /\ p.length = q.length
  BY <1>1 DEF RequestOK, Numbered, Used, RequestFields
<1> DEFINE e == Entry(App, FALSE)
<1>4. q.out \in Seq(Entries) /\ e \in Entries /\ e.id = App /\ p.out = Append(q.out, e)
  BY <1>1, <1>3 DEF RequestOK, OutOK, Entries, Entry
<1> HIDE DEF p, t, q, e
<1> DEFINE n == Len(q.out)
<1>5. /\ n \in Nat /\ p.out \in Seq(Entries) /\ Len(p.out) = n + 1 /\ p.out[n + 1] = e
      /\ \A i \in 1 .. n : p.out[i] = q.out[i]
      /\ DOMAIN p.out = 1 .. n + 1 /\ DOMAIN q.out = 1 .. n
  BY <1>4
<1>6. /\ \A i \in 1 .. n : ~q.out[i].left => q.out[i].id = App
      /\ \A i, j \in 1 .. n : q.out[i].id = q.out[j].id => i = j \/ q.out[i].id = App
  BY <1>1 DEF RequestOK, OutOK, n
<1> HIDE DEF n
<1>7. \A i \in 1 .. n + 1 : (i \in 1 .. n /\ p.out[i] = q.out[i]) \/ (i = n + 1 /\ p.out[i].id = App)
  BY <1>4, <1>5
<1>8. OutOK(p.out)
  <2>1. \A i \in 1 .. n + 1 : ~p.out[i].left => p.out[i].id = App
    BY <1>6, <1>7
  <2>2. \A i, j \in 1 .. n + 1 : p.out[i].id = p.out[j].id => i = j \/ p.out[i].id = App
    BY <1>6, <1>7
  <2> QED
    BY <1>5, <2>1, <2>2 DEF OutOK
<1>9. Own(p) = Own(q)
  <2>1. \A i \in 1 .. n : i \in 1 .. n + 1
    BY <1>5
  <2>2. {p.out[k].id : k \in 1 .. n + 1} \ {App} = {q.out[k].id : k \in 1 .. n} \ {App}
    BY <1>5, <1>7, <2>1
  <2> QED
    BY <1>5, <2>2, BuffersAssumption DEF Own
<1>10. RequestOK(p)
  BY <1>1, <1>3, <1>8 DEF RequestOK
<1>11. ServerOK(t, {})
  <2>1. /\ s.free \cap s.leaked = {} /\ Own(q) \cap (s.free \cup s.leaked \cup {}) = {}
    BY DEF ServerOK, Accounted, q
  <2> QED
    BY <1>2, <1>9, <1>10, <2>1, Redistributed DEF q
<1> QED
  BY <1>1, <1>2, <1>3, <1>11 DEF Kept, Changed, State, Covered, t, q

\* A set with one member has a subset of one; one with two has one of two.
LEMMA SubsetOfSize ==
    ASSUME NEW S, IsFiniteSet(S), NEW n \in 1 .. 2, ~(Cardinality(S) < n)
    PROVE  (CHOOSE B \in kSubset(n, S) : TRUE) \subseteq S
<1>1. Cardinality(S) \in Nat /\ S # {}
  BY FS_CardinalityType, FS_EmptySet
<1>2. PICK x \in S : TRUE
  BY <1>1
<1>3. IsFiniteSet(S \ {x}) /\ Cardinality(S \ {x}) = Cardinality(S) - 1
  BY <1>2, FS_RemoveElement
<1>4. \E B \in SUBSET S : Cardinality(B) = n
  <2>1. CASE n = 1
    <3>1. Cardinality({x}) = 1
      BY FS_Singleton
    <3> QED
      BY <1>2, <2>1, <3>1
  <2>2. CASE n = 2
    <3>1. Cardinality(S \ {x}) # 0
      BY <1>1, <1>3, <2>2
    <3>2. S \ {x} # {}
      BY <3>1, FS_EmptySet
    <3>3. PICK y \in S \ {x} : TRUE
      BY <3>2
    <3>4. IsFiniteSet({x}) /\ Cardinality({x}) = 1 /\ y \notin {x}
      BY <3>3, FS_Singleton
    <3>5. Cardinality({x} \cup {y}) = 2
      BY <3>4, FS_AddElement
    <3> QED
      BY <1>2, <2>2, <3>3, <3>5
  <2> QED
    BY <2>1, <2>2
<1>5. \E B : B \in kSubset(n, S)
  BY <1>4 DEF kSubset
<1>6. (CHOOSE B \in kSubset(n, S) : TRUE) \in kSubset(n, S)
  BY <1>5
<1> QED
  BY <1>6 DEF kSubset

\* What the data are copied to are free buffers.
LEMMA CopyIsFree ==
    ASSUME NEW s, ServerOK(s, {}), NEW n \in 1 .. 2
    PROVE  sxe_httpd_copy_data_to_buffer_list(s, n) \subseteq s.free
<1>1. IsFiniteSet(s.free)
  BY BuffersAssumption, FS_Subset DEF ServerOK, Accounted
<1> QED
  BY <1>1, SubsetOfSize DEF sxe_httpd_copy_data_to_buffer_list

\* A body is copied to buffers, which are put behind the headers, or given back if the
\* headers cannot be ended.
LEMMA CopyBodyKept ==
    ASSUME NEW s, ServerOK(s, {}), NEW r \in Requests, NEW n \in 1 .. 2, NEW room
    PROVE  Kept(s, sxe_httpd_response_copy_body_data(s, r, n, room), r, {})
<1> DEFINE B == sxe_httpd_copy_data_to_buffer_list(s, n)
<1> DEFINE t == [s EXCEPT !.free = @ \ B]
<1> DEFINE u == EnsureEoh(t, r, room)
<1>1. sxe_httpd_response_copy_body_data(s, r, n, room) =
        IF B = {} THEN s ELSE IF ~u.req[r].eoh THEN [u EXCEPT !.free = @ \cup B] ELSE Splice(u, r, B)
  BY DEF sxe_httpd_response_copy_body_data
<1>2. B \subseteq s.free
  BY CopyIsFree
<1> HIDE DEF B
<1>3. Kept(s, t, r, B)
  BY <1>2, TakeKept
<1> HIDE DEF t
<1>4. Kept(t, u, r, B)
  <2>1. ServerOK(t, B)
    BY <1>3 DEF Kept
  <2> QED
    BY <2>1, EnsureKept
<1> HIDE DEF u
<1>5. Kept(s, u, r, B) /\ ServerOK(u, B)
  <2>1. Kept(s, u, r, B)
    BY <1>3, <1>4, KeptTwice
  <2> QED
    BY <2>1 DEF Kept
<1>6. Kept(u, [u EXCEPT !.free = @ \cup B], r, {}) /\ Kept(u, Splice(u, r, B), r, {})
  BY <1>5, BackKept, SpliceKept
<1>7. Kept(s, [u EXCEPT !.free = @ \cup B], r, {}) /\ Kept(s, Splice(u, r, B), r, {})
  BY <1>5, <1>6, KeptTwice
<1> QED
  BY <1>1, <1>7, KeptSelf

\* Raw data are copied to buffers.
LEMMA CopyRawKept ==
    ASSUME NEW s, ServerOK(s, {}), NEW r \in Requests, NEW n \in 1 .. 2
    PROVE  Kept(s, sxe_httpd_response_copy_raw_data(s, r, n), r, {})
<1> DEFINE B == sxe_httpd_copy_data_to_buffer_list(s, n)
<1> DEFINE t == [s EXCEPT !.free = @ \ B]
<1> DEFINE u == [t EXCEPT !.req[r].eoh = TRUE]
<1>1. sxe_httpd_response_copy_raw_data(s, r, n) = IF B = {} THEN s ELSE Splice(u, r, B)
  BY DEF sxe_httpd_response_copy_raw_data
<1>2. B \subseteq s.free
  BY CopyIsFree
<1> HIDE DEF B
<1>3. Kept(s, t, r, B)
  BY <1>2, TakeKept
<1> HIDE DEF t
<1>4. Kept(t, u, r, B)
  <2>1. ServerOK(t, B)
    BY <1>3 DEF Kept
  <2> QED
    BY <2>1, MarkKept
<1> HIDE DEF u
<1>5. Kept(s, u, r, B) /\ ServerOK(u, B)
  <2>1. Kept(s, u, r, B)
    BY <1>3, <1>4, KeptTwice
  <2> QED
    BY <2>1 DEF Kept
<1>6. Kept(s, Splice(u, r, B), r, {})
  BY <1>5, SpliceKept, KeptTwice
<1> QED
  BY <1>1, <1>6, KeptSelf

\* A body of the application's is put on the response, as data or in a buffer.
LEMMA AddBodyKept ==
    ASSUME NEW s, ServerOK(s, {}), NEW r \in Requests, NEW room
    PROVE  /\ Kept(s, sxe_httpd_response_add_body_data(s, r, room), r, {})
           /\ Kept(s, sxe_httpd_response_add_body_buffer(s, r, room), r, {})
<1> DEFINE t == EnsureEoh(s, r, room)
<1> DEFINE u == [t EXCEPT !.req[r].out = Append(@, Entry(App, FALSE))]
<1>1. Kept(s, t, r, {})
  BY EnsureKept
<1>2. /\ sxe_httpd_response_add_body_data(s, r, room) = IF ~t.req[r].eoh \/ t.free = {} THEN t ELSE PushBuffer(t, r, FALSE)
      /\ sxe_httpd_response_add_body_buffer(s, r, room) = IF ~t.req[r].eoh THEN t ELSE u
  BY DEF sxe_httpd_response_add_body_data, sxe_httpd_response_add_body_buffer
<1> HIDE DEF t
<1>3. ServerOK(t, {})
  BY <1>1 DEF Kept
<1>4. t.free # {} => Kept(s, PushBuffer(t, r, FALSE), r, {})
  BY <1>1, <1>3, PushKept, KeptTwice
<1>5. Kept(t, u, r, {})
  BY <1>3, AppKept
<1> HIDE DEF u
<1>6. Kept(s, u, r, {})
  BY <1>1, <1>5, KeptTwice
<1> QED
  BY <1>1, <1>2, <1>4, <1>6

\* A raw buffer of the application's is put on the response.
LEMMA AddRawKept ==
    ASSUME NEW s, ServerOK(s, {}), NEW r \in Requests
    PROVE  Kept(s, sxe_httpd_response_add_raw_buffer(s, r), r, {})
<1> DEFINE t == [s EXCEPT !.req[r].eoh = TRUE]
<1> DEFINE u == [t EXCEPT !.req[r].out = Append(@, Entry(App, FALSE))]
<1>1. Kept(s, t, r, {})
  BY MarkKept
<1>2. sxe_httpd_response_add_raw_buffer(s, r) = u
  BY DEF sxe_httpd_response_add_raw_buffer
<1> HIDE DEF t
<1>3. ServerOK(t, {})
  BY <1>1 DEF Kept
<1>4. Kept(t, u, r, {})
  BY <1>3, AppKept
<1> HIDE DEF u
<1> QED
  BY <1>1, <1>2, <1>4, KeptTwice
-----------------------------------------------------------------------------
(* Buffers that are given back, dropped or left.                           *)

\* What is left of a list without the pool's buffers.
LEMMA OnlyApp ==
    ASSUME NEW list \in Seq(Entries)
    PROVE  /\ Only(list, AppEntries) \in Seq(Entries)
           /\ \A i \in 1 .. Len(Only(list, AppEntries)) : Only(list, AppEntries)[i].id = App
           /\ {Only(list, AppEntries)[k].id : k \in DOMAIN Only(list, AppEntries)} \cap Buffers = {}
<1> DEFINE o == Only(list, AppEntries)
<1>1. o \in Seq(Entries) /\ \A i \in 1 .. Len(o) : o[i] \in AppEntries
  BY OnlyIs
<1> HIDE DEF o
<1>2. \A i \in 1 .. Len(o) : o[i].id = App
  BY <1>1 DEF AppEntries
<1>3. DOMAIN o = 1 .. Len(o)
  BY <1>1
<1> QED
  BY <1>1, <1>2, <1>3, BuffersAssumption DEF o

\* The pool's buffers on a list.
Listed(list) == {list[k].id : k \in DOMAIN list} \cap Buffers

\* They are given back.
LEMMA Given ==
    ASSUME NEW s, ServerOK(s, {}), NEW r \in Requests, NEW list \in Seq(Entries), NEW t,
           Listed(list) = Own(s.req[r]),
           DOMAIN t = DOMAIN s, t.order = s.order, t.aborted = s.aborted, t.leaked = s.leaked,
           t.free = s.free \cup Own(s.req[r]),
           t.req = [s.req EXCEPT ![r] = [s.req[r] EXCEPT !.out = Only(list, AppEntries)]]
    PROVE  Kept(s, t, r, {})
<1> DEFINE q == s.req[r]
<1> DEFINE o == Only(list, AppEntries)
<1> DEFINE p == [q EXCEPT !.out = o]
<1>1. DOMAIN s = {"req", "order", "free", "leaked", "aborted", "defaults"} /\ DOMAIN s.req = Requests /\ RequestOK(q)
  BY DEF ServerOK
<1>2. /\ DOMAIN t = DOMAIN s /\ t.order = s.order /\ t.req = [s.req EXCEPT ![r] = p]
      /\ t.free = s.free \cup Own(q) /\ t.leaked = s.leaked /\ t.aborted = s.aborted
  BY <1>1
<1>3. /\ DOMAIN p = RequestFields /\ p.state = q.state /\ p.sending = q.sending /\ p.out = o
      /\ Numbered(p) /\ Used(p) = Used(q) /\ p.length = q.length
  BY <1>1 DEF RequestOK, Numbered, Used, RequestFields
<1>4. o \in Seq(Entries) /\ (\A i \in 1 .. Len(o) : o[i].id = App) /\ {o[k].id : k \in DOMAIN o} \cap Buffers = {}
  BY OnlyApp
<1> HIDE DEF q, o, p
<1>5. OutOK(p.out) /\ Own(p) = {}
  BY <1>3, <1>4 DEF OutOK, Own
<1>6. RequestOK(p)
  BY <1>1, <1>3, <1>5 DEF RequestOK
<1>7. ServerOK(t, {})
  <2>1. s.free \cap s.leaked = {} /\ Own(q) \cap (s.free \cup s.leaked) = {}
    BY DEF ServerOK, Accounted, q
  <2>2. Own(p) \cap (t.free \cup t.leaked \cup {}) = {} /\ t.free \cap t.leaked = {} /\ {} \cap (t.free \cup t.leaked) = {}
    BY <1>2, <1>5, <2>1
  <2>3. Own(p) \cup t.free \cup t.leaked \cup {} = Own(s.req[r]) \cup s.free \cup s.leaked \cup {}
    BY <1>2, <1>5 DEF q
  <2> QED
    BY <1>2, <1>6, <2>2, <2>3, Redistributed
<1> QED
  BY <1>1, <1>2, <1>3, <1>7 DEF Kept, Changed, State, Covered, q

\* sxe_httpd_give_buffers frees the pool's buffers on a response, sent or not.
LEMMA GiveKept ==
    ASSUME NEW s, ServerOK(s, {}), NEW r \in Requests
    PROVE  /\ Kept(s, sxe_httpd_give_buffers(s, r), r, {})
           /\ Kept(s, sxe_httpd_give_buffers(Emptied(s, r), r), r, {})
<1> DEFINE q == s.req[r]
<1> DEFINE list == [k \in DOMAIN q.out |-> [q.out[k] EXCEPT !.left = FALSE]]
<1> DEFINE e == Emptied(s, r)
<1>1. DOMAIN s = {"req", "order", "free", "leaked", "aborted", "defaults"} /\ DOMAIN s.req = Requests /\ RequestOK(q)
  BY DEF ServerOK
<1>2. q.out \in Seq(Entries)
  BY <1>1 DEF RequestOK, OutOK
<1>3. Kept(s, sxe_httpd_give_buffers(s, r), r, {})
  <2> DEFINE t == sxe_httpd_give_buffers(s, r)
  <2> DEFINE lst == q.out
  <2> DEFINE p == [q EXCEPT !.out = Only(lst, AppEntries)]
  <2>1. /\ DOMAIN t = DOMAIN s /\ t.order = s.order /\ t.aborted = s.aborted /\ t.leaked = s.leaked
        /\ t.free = s.free \cup Own(q) /\ t.req = [s.req EXCEPT ![r] = p]
    BY <1>1 DEF sxe_httpd_give_buffers
  <2>2. Listed(lst) = Own(q) /\ lst \in Seq(Entries)
    BY <1>2 DEF Own, Listed
  <2> HIDE DEF t, lst
  <2>3. Kept(s, t, r, {})
    BY <2>1, <2>2, Given
  <2> QED
    BY <2>3 DEF t
<1>4. \A k \in DOMAIN q.out : q.out[k] \in Entries
  BY <1>2
<1>5. DOMAIN list = DOMAIN q.out /\ \A k \in DOMAIN q.out : list[k] \in Entries /\ list[k].id = q.out[k].id
  BY <1>4 DEF Entries
<1>6. list \in Seq(Entries)
  <2>1. DOMAIN q.out = 1 .. Len(q.out) /\ Len(q.out) \in Nat
    BY <1>2
  <2>2. list \in [1 .. Len(q.out) -> Entries]
    BY <1>5, <2>1
  <2> HIDE DEF list
  <2> QED
    BY <2>1, <2>2
<1>7. e = [s EXCEPT !.req[r].out = list]
  BY <1>1 DEF Emptied, RequestFields, RequestOK
<1> HIDE DEF list
<1>8. Listed(list) = Own(q)
  BY <1>5 DEF Own, Listed
<1>9. e.req[r].out = list /\ Own(e.req[r]) = Own(q)
  BY <1>1, <1>7, <1>8 DEF RequestOK, RequestFields, Own, Listed
<1>10. sxe_httpd_give_buffers(e, r) = [e EXCEPT !.free = @ \cup Own(q), !.req[r].out = Only(list, AppEntries)]
  BY <1>9 DEF sxe_httpd_give_buffers
<1> HIDE DEF e
<1> DEFINE p == [q EXCEPT !.out = list]
<1> DEFINE o == Only(list, AppEntries)
<1> DEFINE t == sxe_httpd_give_buffers(e, r)
<1>11. [p EXCEPT !.out = o] = [q EXCEPT !.out = o]
  BY <1>1 DEF RequestOK, RequestFields
<1>12. e = [s EXCEPT !.req[r] = p]
  BY <1>7
<1> HIDE DEF p, o
<1>13. /\ DOMAIN t = DOMAIN s /\ t.order = s.order /\ t.aborted = s.aborted /\ t.leaked = s.leaked
       /\ t.free = s.free \cup Own(q) /\ t.req = [e.req EXCEPT ![r] = [p EXCEPT !.out = o]]
  BY <1>1, <1>10, <1>12 DEF o
<1> HIDE DEF t
<1>14. t.req = [s.req EXCEPT ![r] = [q EXCEPT !.out = o]]
  <2>1. e.req = [s.req EXCEPT ![r] = p]
    BY <1>1, <1>12
  <2> QED
    BY <1>11, <1>13, <2>1
<1>15. Kept(s, t, r, {})
  BY <1>6, <1>8, <1>13, <1>14, Given DEF o
<1> QED
  BY <1>3, <1>15 DEF e, t

\* A request that is cleared leaks the buffers it has.
LEMMA ClearRequestKept ==
    ASSUME NEW s, ServerOK(s, {}), NEW r \in Requests
    PROVE  LET t == sxe_httpd_clear_request(s, r) IN
           Kept(s, t, r, {}) /\ t.req[r].out = <<>> /\ Own(t.req[r]) = {} /\ t.free = s.free /\ t.order = s.order
<1> DEFINE q == s.req[r]
<1> DEFINE p == [q EXCEPT !.content_length = 0, !.content_seen = 0, !.started = FALSE, !.eoh = FALSE,
                          !.paused = FALSE, !.out = <<>>]
<1> DEFINE t == sxe_httpd_clear_request(s, r)
<1>1. DOMAIN s = {"req", "order", "free", "leaked", "aborted", "defaults"} /\ DOMAIN s.req = Requests /\ RequestOK(q)
  BY DEF ServerOK
<1>2. /\ DOMAIN t = DOMAIN s /\ t.order = s.order /\ t.req = [s.req EXCEPT ![r] = p]
      /\ t.free = s.free /\ t.leaked = s.leaked \cup Own(q) /\ t.aborted = s.aborted
  BY <1>1 DEF sxe_httpd_clear_request
<1>3. /\ DOMAIN p = RequestFields /\ p.state = q.state /\ p.sending = q.sending /\ p.out = <<>>
      /\ Numbered(p) /\ Used(p) = Used(q) /\ p.length = q.length
  BY <1>1 DEF RequestOK, Numbered, Used, RequestFields
<1> HIDE DEF q, p, t
<1>4. OutOK(p.out) /\ Own(p) = {}
  BY <1>3 DEF OutOK, Own
<1>5. RequestOK(p)
  BY <1>1, <1>3, <1>4 DEF RequestOK
<1>6. ServerOK(t, {})
  <2>1. s.free \cap s.leaked = {} /\ Own(q) \cap (s.free \cup s.leaked) = {}
    BY DEF ServerOK, Accounted, q
  <2> QED
    BY <1>2, <1>4, <1>5, <2>1, Redistributed DEF q
<1> QED
  BY <1>1, <1>2, <1>3, <1>4, <1>6 DEF Kept, Changed, State, Covered, t, q

\* A request that is found in the state that is expected is moved.
LEMMA Moved ==
    ASSUME NEW s, ServerOK(s, {}), NEW r \in Requests, NEW new \in States
    PROVE  LET t == Move(s, r, State(s, r), new)
               p == t.req[r]
               q == s.req[r] IN
           /\ ServerOK(t, {}) /\ Changed(s, t, r) /\ State(t, r) = new
           /\ Used(p) = Used(q) /\ p.length = q.length /\ p.out = q.out /\ t.free = s.free
<1> DEFINE q == s.req[r]
<1> DEFINE p == [q EXCEPT !.state = new]
<1> DEFINE u == [s EXCEPT !.req[r] = p]
<1> DEFINE others == Only(s.order, Requests \ {r})
<1> DEFINE t == [u EXCEPT !.order = Append(others, r)]
<1>1. DOMAIN s = {"req", "order", "free", "leaked", "aborted", "defaults"} /\ DOMAIN s.req = Requests
      /\ RequestOK(q) /\ OrderOK(s.order)
  BY DEF ServerOK
<1>2. Move(s, r, State(s, r), new) = t
  BY <1>1 DEF Move
<1>3. RequestOK(p) /\ p.out = q.out /\ p.state = new /\ Used(p) = Used(q) /\ p.length = q.length
  BY <1>1 DEF RequestOK, Numbered, Used, RequestFields
<1>4. OrderOK(Append(others, r))
  <2>1. /\ others \in Seq(Requests)
        /\ \A k \in 1 .. Len(s.order) : s.order[k] \in Requests \ {r} => \E i \in 1 .. Len(others) : others[i] = s.order[k]
    <3>1. s.order \in Seq(Requests)
      BY <1>1 DEF OrderOK
    <3> QED
      BY <3>1, OnlyIs
  <2> HIDE DEF others
  <2> DEFINE o == Append(others, r)
  <2> DEFINE n == Len(others)
  <2>2. /\ o \in Seq(Requests) /\ n \in Nat /\ Len(o) = n + 1 /\ o[n + 1] = r
        /\ \A i \in 1 .. n : o[i] = others[i]
    BY <2>1
  <2> HIDE DEF o, n
  <2>3. \A x \in Requests : \E k \in 1 .. Len(o) : o[k] = x
    <3> TAKE x \in Requests
    <3>1. CASE x = r
      <4>1. n + 1 \in 1 .. Len(o)
        BY <2>2
      <4> QED
        BY <2>2, <3>1, <4>1
    <3>2. CASE x # r
      <4>1. PICK k \in 1 .. Len(s.order) : s.order[k] = x
        BY <1>1 DEF OrderOK
      <4>2. PICK i \in 1 .. n : others[i] = x
        BY <2>1, <3>2, <4>1 DEF n
      <4>3. i \in 1 .. Len(o)
        BY <2>2
      <4> QED
        BY <2>2, <4>2, <4>3
    <3> QED
      BY <3>1, <3>2
  <2> QED
    BY <2>2, <2>3 DEF OrderOK, o
<1> HIDE DEF p, others
<1>5. ServerOK(u, {}) /\ Changed(s, u, r) /\ u.req[r] = p /\ u.free = s.free
  BY <1>3, PutKeeps
<1> HIDE DEF u, q
<1>6. DOMAIN u = {"req", "order", "free", "leaked", "aborted", "defaults"}
  BY <1>5 DEF ServerOK
<1>7. /\ DOMAIN t = DOMAIN u /\ t.req = u.req /\ t.free = u.free /\ t.leaked = u.leaked /\ t.aborted = u.aborted
      /\ t.order = Append(others, r)
  BY <1>6
<1> HIDE DEF t
<1>8. ServerOK(t, {}) /\ Changed(s, t, r)
  BY <1>4, <1>5, <1>7 DEF ServerOK, Changed
<1> QED
  BY <1>2, <1>3, <1>5, <1>7, <1>8 DEF State, q

\* A request that is closed is free, and has nothing.
LEMMA CloseFrees ==
    ASSUME NEW s, ServerOK(s, {}), NEW r \in Requests
    PROVE  LET t == sxe_httpd_close(s, r) IN
           ServerOK(t, {}) /\ Changed(s, t, r) /\ State(t, r) = "FREE" /\ Own(t.req[r]) = {}
<1> DEFINE t == sxe_httpd_clear_request(s, r)
<1> DEFINE p == Closed(t.req[r])
<1> DEFINE u == [t EXCEPT !.req[r] = p]
<1>1. Kept(s, t, r, {}) /\ t.req[r].out = <<>> /\ Own(t.req[r]) = {}
  BY ClearRequestKept
<1>2. sxe_httpd_close(s, r) = Move(u, r, State(s, r), "FREE")
  BY DEF sxe_httpd_close
<1> HIDE DEF t
<1>3. ServerOK(t, {}) /\ Changed(s, t, r) /\ State(t, r) = State(s, r) /\ t.req[r].state \in States
  BY <1>1 DEF Kept, ServerOK, RequestOK
<1>4. RequestOK(p) /\ p.out = <<>> /\ p.state = t.req[r].state
  <2>1. DOMAIN p = RequestFields /\ p.out = <<>> /\ p.state = t.req[r].state /\ p.sending = "none" /\ Numbered(p)
    BY DEF Closed, Fresh, RequestFields, Numbered
  <2>2. OutOK(p.out)
    BY <2>1 DEF OutOK
  <2> HIDE DEF p
  <2> QED
    BY <1>3, <2>1, <2>2 DEF RequestOK, Kinds
<1> HIDE DEF p
<1>5. ServerOK(u, {}) /\ Changed(t, u, r) /\ u.req[r] = p
  BY <1>1, <1>3, <1>4, PutKeeps
<1> HIDE DEF u
<1>6. State(u, r) = State(s, r)
  BY <1>3, <1>4, <1>5 DEF State
<1> DEFINE v == Move(u, r, State(u, r), "FREE")
<1>7. ServerOK(v, {}) /\ Changed(u, v, r) /\ State(v, r) = "FREE" /\ v.req[r].out = <<>>
  BY <1>4, <1>5, Moved DEF States
<1> HIDE DEF v
<1>8. Own(v.req[r]) = {}
  BY <1>7 DEF Own
<1>9. sxe_httpd_close(s, r) = v
  BY <1>2, <1>6 DEF v
<1>10. Changed(s, v, r)
  BY <1>3, <1>5, <1>7 DEF Changed
<1> QED
  BY <1>7, <1>8, <1>9, <1>10
\* What has been sent leaves the list; no buffer of the pool is among it.
LEMMA DropKept ==
    ASSUME NEW s, ServerOK(s, {}), NEW r \in Requests
    PROVE  Kept(s, DropSent(s, r), r, {}) /\ Own(DropSent(s, r).req[r]) = Own(s.req[r])
<1> DEFINE q == s.req[r]
<1> DEFINE out == q.out
<1> DEFINE n == Len(out)
<1> DEFINE left == {k \in DOMAIN out : out[k].left}
<1> DEFINE o == IF left = {} THEN <<>> ELSE SubSeq(out, Min(left), Len(out))
<1> DEFINE p == [q EXCEPT !.out = o]
<1> DEFINE t == DropSent(s, r)
<1>1. DOMAIN s = {"req", "order", "free", "leaked", "aborted", "defaults"} /\ DOMAIN s.req = Requests /\ RequestOK(q)
  BY DEF ServerOK
<1>2. t = [s EXCEPT !.req[r].out = o]
  BY DEF DropSent
<1>3. /\ out \in Seq(Entries) /\ n \in Nat /\ DOMAIN out = 1 .. n
      /\ \A i \in 1 .. n : ~out[i].left => out[i].id = App
      /\ \A i, j \in 1 .. n : out[i].id = out[j].id => i = j \/ out[i].id = App
  BY <1>1 DEF RequestOK, OutOK
<1> HIDE DEF o
<1>4. /\ DOMAIN t = DOMAIN s /\ t.order = s.order /\ t.req = [s.req EXCEPT ![r] = p]
      /\ t.free = s.free /\ t.leaked = s.leaked /\ t.aborted = s.aborted
  BY <1>1, <1>2
<1>5. /\ DOMAIN p = RequestFields /\ p.state = q.state /\ p.sending = q.sending /\ p.out = o
      /\ Numbered(p) /\ Used(p) = Used(q) /\ p.length = q.length
  BY <1>1 DEF RequestOK, Numbered, Used, RequestFields
<1> HIDE DEF p, t, n, out
<1>6. OutOK(o) /\ Listed(o) = Listed(out)
  <2>1. CASE left = {}
    <3>1. o = <<>>
      BY <2>1 DEF o
    <3>2. \A i \in 1 .. n : out[i].id = App
      BY <1>3, <2>1
    <3>3. Listed(out) = {}
      BY <1>3, <3>2, BuffersAssumption DEF Listed
    <3> QED
      BY <3>1, <3>3 DEF OutOK, Listed
  <2>2. CASE left # {}
    <3> DEFINE m == Min(left)
    <3>1. left \subseteq 1 .. n
      BY <1>3
    <3>2. m \in left /\ \A y \in left : m <= y
      <4>1. left \subseteq Nat
        BY <3>1
      <4> HIDE DEF left
      <4>2. \E x \in left : \A y \in left : x <= y
        BY <2>2, <4>1, LeastNumber
      <4> QED
        BY <4>2 DEF Min
    <3>3. o = SubSeq(out, m, n)
      BY <2>2 DEF o, n
    <3>4. m \in 1 .. n
      BY <3>1, <3>2
    <3> HIDE DEF m
    <3>5. \A i \in 1 .. n : i < m => out[i].id = App
      <4> TAKE i \in 1 .. n
      <4> HAVE i < m
      <4>1. i \notin left
        <5> HIDE DEF left
        <5> QED
          BY <3>2, <3>4
      <4> QED
        BY <1>3, <4>1
    <3> HIDE DEF left, o
    <3>6. /\ o \in Seq(Entries) /\ Len(o) = n - m + 1 /\ DOMAIN o = 1 .. n - m + 1
          /\ \A i \in 1 .. n - m + 1 : o[i] = out[m + i - 1]
      <4>1. n = Len(out)
        BY DEF n
      <4>2. /\ o \in Seq(Entries) /\ Len(o) = n - m + 1
            /\ \A i \in 1 .. n - m + 1 : o[i] = out[m + i - 1]
        <5>1. /\ m \in Int /\ n \in Int /\ m <= n /\ \A i \in m .. n : out[i] \in Entries
          BY <1>3, <3>4, <4>1
        <5> QED
          BY <3>3, <5>1, SubSeqProperties
      <4> QED
        BY <1>3, <3>4, <4>2
    <3>7. \A i \in 1 .. n - m + 1 : m + i - 1 \in 1 .. n
      BY <1>3, <3>4
    <3>8. OutOK(o)
      <4>1. \A i \in 1 .. Len(o) : ~o[i].left => o[i].id = App
        BY <1>3, <3>6, <3>7
      <4>2. ASSUME NEW i \in 1 .. Len(o), NEW j \in 1 .. Len(o), o[i].id = o[j].id PROVE i = j \/ o[i].id = App
        <5>1. m + i - 1 \in 1 .. n /\ m + j - 1 \in 1 .. n /\ o[i] = out[m + i - 1] /\ o[j] = out[m + j - 1]
          BY <3>6, <3>7
        <5>2. m + i - 1 = m + j - 1 => i = j
          BY <3>4
        <5> QED
          BY <1>3, <4>2, <5>1, <5>2
      <4> QED
        BY <3>6, <4>1, <4>2 DEF OutOK
    <3>9. Listed(o) = Listed(out)
      <4>1. ASSUME NEW b \in Listed(o) PROVE b \in Listed(out)
        <5>1. PICK i \in 1 .. n - m + 1 : b = o[i].id
          BY <3>6 DEF Listed
        <5> QED
          BY <1>3, <3>6, <3>7, <5>1 DEF Listed
      <4>2. ASSUME NEW b \in Listed(out) PROVE b \in Listed(o)
        <5>1. PICK k \in 1 .. n : b = out[k].id
          BY <1>3 DEF Listed
        <5>2. b \in Buffers /\ b # App
          BY BuffersAssumption DEF Listed
        <5>3. ~(k < m)
          BY <3>5, <5>1, <5>2
        <5>4. k - m + 1 \in 1 .. n - m + 1 /\ m + (k - m + 1) - 1 = k
          BY <1>3, <3>4, <5>3
        <5>5. o[k - m + 1].id = b
          BY <3>6, <5>1, <5>4
        <5> QED
          BY <3>6, <5>2, <5>4, <5>5 DEF Listed
      <4> QED
        BY <4>1, <4>2
    <3> QED
      BY <3>8, <3>9
  <2> QED
    BY <2>1, <2>2
<1>7. Own(p) = Own(q)
  BY <1>5, <1>6 DEF Own, Listed, out
<1>8. RequestOK(p)
  BY <1>1, <1>5, <1>6 DEF RequestOK
<1> HIDE DEF q
<1>9. ServerOK(t, {})
  <2>1. s.free \cap s.leaked = {} /\ Own(q) \cap (s.free \cup s.leaked) = {}
    BY DEF ServerOK, Accounted, q
  <2>2. Own(p) \cap (t.free \cup t.leaked \cup {}) = {} /\ t.free \cap t.leaked = {} /\ {} \cap (t.free \cup t.leaked) = {}
    BY <1>4, <1>7, <2>1
  <2>3. Own(p) \cup t.free \cup t.leaked \cup {} = Own(s.req[r]) \cup s.free \cup s.leaked \cup {}
    BY <1>4, <1>7 DEF q
  <2> QED
    BY <1>4, <1>8, <2>2, <2>3, Redistributed
<1> QED
  BY <1>1, <1>4, <1>5, <1>7, <1>9 DEF Kept, Changed, State, Covered, t, q

\* A request whose response is done is idle, or stays free, and has no buffer.
LEMMA DoneIs ==
    ASSUME NEW s, ServerOK(s, {}), NEW r \in Requests
    PROVE  LET t == ResponseDone(s, r) IN
           /\ ServerOK(t, {}) /\ Changed(s, t, r) /\ Own(t.req[r]) = {}
           /\ State(t, r) = IF State(s, r) = "FREE" THEN "FREE" ELSE "IDLE"
<1> DEFINE t == sxe_httpd_clear_request(s, r)
<1> DEFINE u == Move(t, r, State(t, r), "IDLE")
<1> DEFINE p == sxe_buf_resume(u.req[r])
<1> DEFINE v == [u EXCEPT !.req[r] = p]
<1>1. ResponseDone(s, r) = IF State(t, r) = "FREE" THEN t ELSE v
  BY DEF ResponseDone
<1>2. ServerOK(t, {}) /\ Changed(s, t, r) /\ State(t, r) = State(s, r) /\ t.req[r].out = <<>> /\ Own(t.req[r]) = {}
  BY ClearRequestKept DEF Kept
<1> HIDE DEF t
<1>3. ServerOK(u, {}) /\ Changed(t, u, r) /\ State(u, r) = "IDLE" /\ u.req[r].out = <<>>
  BY <1>2, Moved DEF States
<1> HIDE DEF u
<1>4. Alike(p, u.req[r])
  <2>1. RequestOK(u.req[r])
    BY <1>3 DEF ServerOK
  <2> QED
    BY <2>1, ResumeKeeps
<1> HIDE DEF p
<1>5. ServerOK(v, {}) /\ Changed(u, v, r) /\ v.req[r] = p
  BY <1>3, <1>4, PutKeeps DEF Alike
<1> HIDE DEF v
<1>6. State(v, r) = "IDLE" /\ Own(v.req[r]) = {}
  BY <1>3, <1>4, <1>5 DEF State, Alike, Own
<1>7. Changed(s, v, r)
  BY <1>2, <1>3, <1>5 DEF Changed
<1> QED
  BY <1>1, <1>2, <1>5, <1>6, <1>7

\* The end of an event leaves the request's message and response alone.
LEMMA EarlyOutKept ==
    ASSUME NEW s, ServerOK(s, {}), NEW r \in Requests, NEW consumed, NEW kernel
    PROVE  Kept(s, EarlyOut(s, r, consumed, kernel), r, {}) /\ Own(EarlyOut(s, r, consumed, kernel).req[r]) = Own(s.req[r])
<1> DEFINE q == s.req[r]
<1> DEFINE p == IF consumed /\ ~q.paused /\ q.state # "FREE" THEN sxe_buf_resume(q) ELSE q
<1> DEFINE o == IF kernel THEN AfterRead(p) ELSE p
<1>1. RequestOK(q) /\ Alike(q, q)
  BY DEF ServerOK, Alike
<1>2. EarlyOut(s, r, consumed, kernel) = [s EXCEPT !.req[r] = o]
  BY DEF EarlyOut
<1> HIDE DEF q
<1>3. Alike(p, q) /\ Used(p) = Used(q) /\ p.length = q.length
  BY <1>1, ResumeKeeps
<1> HIDE DEF p
<1>4. Alike(o, q) /\ Used(o) = Used(q) /\ o.length = q.length
  <2>1. RequestOK(p)
    BY <1>3 DEF Alike
  <2>2. Alike(AfterRead(p), p) /\ Used(AfterRead(p)) = Used(p) /\ AfterRead(p).length = p.length
    BY <2>1, AfterReadKeeps
  <2> QED
    BY <1>3, <2>2 DEF Alike
<1> HIDE DEF o
<1>5. Kept(s, [s EXCEPT !.req[r] = o], r, {})
  BY <1>4, PutKept DEF q
<1>6. [s EXCEPT !.req[r] = o].req[r] = o
  BY DEF ServerOK
<1> QED
  BY <1>2, <1>4, <1>5, <1>6 DEF Alike, Own, q
-----------------------------------------------------------------------------
(* What follows for the server as a whole.                                 *)

SomeFree(s) == \E o \in Requests : State(s, o) = "FREE"

\* A handler of a request is running, and nothing has gone wrong.
Busy(s, r) == Sound(s) /\ s.aborted = "none" /\ SomeFree(s) /\ State(s, r) # "FREE"

\* What a change to one request must leave for the server to stay sound.
LEMMA SoundAfter ==
    ASSUME NEW s, Sound(s), NEW r \in Requests, NEW t, ServerOK(t, {}), Changed(s, t, r),
           s.aborted = "none" => Covered(t.req[r]),
           State(t, r) = "FREE" => Own(t.req[r]) = {}
    PROVE  Sound(t)
  BY DEF Sound, Changed, State

\* A response call on a request that has a client leaves the server sound.
LEMMA SoundKept ==
    ASSUME NEW s, Sound(s), NEW r \in Requests, NEW t, Kept(s, t, r, {}),
           State(s, r) # "FREE" \/ Own(t.req[r]) = Own(s.req[r])
    PROVE  Sound(t) /\ Changed(s, t, r) /\ State(t, r) = State(s, r)
<1>1. s.aborted = "none" => Covered(t.req[r])
  BY DEF Sound, Kept
<1>2. State(t, r) = "FREE" => Own(t.req[r]) = {}
  BY DEF Sound, Kept
<1> QED
  BY <1>1, <1>2, SoundAfter DEF Kept

\* What a change to a request in the read handler must leave for the handler to go on.
LEMMA BusyAfter ==
    ASSUME NEW s, NEW r \in Requests, Busy(s, r), NEW t, ServerOK(t, {}), Changed(s, t, r),
           State(t, r) # "FREE", Covered(t.req[r])
    PROVE  Busy(t, r)
<1>1. Sound(t)
  BY SoundAfter DEF Busy
<1>2. SomeFree(t)
  <2>1. PICK o \in Requests : State(s, o) = "FREE"
    BY DEF Busy, SomeFree
  <2>2. o # r
    BY <2>1 DEF Busy
  <2> QED
    BY <2>1, <2>2 DEF SomeFree, Changed, State
<1> QED
  BY <1>1, <1>2 DEF Busy, Changed

\* A response call in the read handler.
LEMMA BusyKept ==
    ASSUME NEW s, NEW r \in Requests, Busy(s, r), NEW t, Kept(s, t, r, {})
    PROVE  Busy(t, r) /\ State(t, r) = State(s, r)
<1>1. Covered(t.req[r])
  BY DEF Busy, Sound, Kept
<1> QED
  BY <1>1, BusyAfter DEF Kept, Busy

\* A change in the read handler that is not to the request's buffers or state.
LEMMA BusyPut ==
    ASSUME NEW s, NEW r \in Requests, Busy(s, r), NEW p, Alike(p, s.req[r]), Covered(p)
    PROVE  LET t == [s EXCEPT !.req[r] = p] IN Busy(t, r) /\ t.req[r] = p /\ State(t, r) = State(s, r)
<1> DEFINE t == [s EXCEPT !.req[r] = p]
<1>1. ServerOK(s, {}) /\ RequestOK(p) /\ p.out = s.req[r].out /\ p.state = State(s, r)
  BY DEF Busy, Sound, Alike, State
<1>2. ServerOK(t, {}) /\ Changed(s, t, r) /\ t.req[r] = p
  BY <1>1, PutKeeps
<1> HIDE DEF t
<1>3. State(t, r) = State(s, r) /\ State(t, r) # "FREE" /\ Covered(t.req[r])
  BY <1>1, <1>2 DEF State, Busy
<1> QED
  BY <1>2, <1>3, BusyAfter DEF t

\* A callback that the handler of an event makes is the only one.
LEMMA GoodAlone ==
    ASSUME NEW s, NEW r \in Requests, Busy(s, r), NEW f \in Frames, f.r = r, State(s, r) \in Awaits(f.cb)
    PROVE  Good(s, <<f>>)
<1> DEFINE stk == <<f>>
<1>1. stk \in Seq(Frames) /\ Len(stk) = 1 /\ \A i \in 1 .. Len(stk) : i = 1 /\ stk[i] = f
  OBVIOUS
<1> HIDE DEF stk
<1>2. StackOK(s, stk)
  BY <1>1 DEF StackOK
<1>3. OneFree(s, stk)
  BY DEF OneFree, Busy, SomeFree
<1> QED
  BY <1>2, <1>3 DEF Good, Busy, stk

\* All callbacks have returned.
LEMMA GoodEmpty == ASSUME NEW s, Sound(s), SomeFree(s) PROVE Good(s, <<>>)
<1>1. StackOK(s, <<>>)
  BY DEF StackOK
<1> QED
  BY <1>1 DEF Good, OneFree, SomeFree

\* Callbacks in which requests are responded to.
LEMMA OnlySends ==
    ASSUME NEW s, NEW stk, StackOK(s, stk), stk # <<>>, Len(stk) > 1 \/ Head(stk).cb \in Sends \cup {"respond"}
    PROVE  \A i \in 1 .. Len(stk) : stk[i].cb \in Sends \cup {"respond"}
<1>1. stk \in Seq(Frames) /\ Len(stk) \in Nat /\ Len(stk) >= 1
  BY DEF StackOK
<1> SUFFICES ASSUME NEW i \in 1 .. Len(stk), stk[i].cb \notin Sends \cup {"respond"} PROVE FALSE
  OBVIOUS
<1>2. Len(stk) = 1
  BY DEF StackOK
<1>3. i = 1 /\ Head(stk) = stk[1]
  BY <1>1, <1>2
<1> QED
  BY <1>2, <1>3

\* Such callbacks leave the request in any state.
LEMMA GoodSame ==
    ASSUME NEW s, NEW stk, Good(s, stk), NEW r \in Requests, NEW t, Sound(t), \A o \in Requests \ {r} : t.req[o] = s.req[o],
           State(s, r) = "FREE" => State(t, r) = "FREE",
           State(t, r) = State(s, r) \/ \A i \in 1 .. Len(stk) : stk[i].cb \in Sends \cup {"respond", "connect"}
    PROVE  Good(t, stk)
<1>1. OneFree(t, stk)
  BY DEF OneFree, Good, State
<1>2. ASSUME NEW i \in 1 .. Len(stk), stk[i].cb \notin Sends \cup {"respond"}
      PROVE  Len(stk) = 1 /\ State(t, stk[i].r) \in Awaits(stk[i].cb)
  <2>1. Len(stk) = 1 /\ State(s, stk[i].r) \in Awaits(stk[i].cb) /\ stk[i].r \in Requests
    <3>1. stk \in Seq(Frames) /\ Len(stk) = 1 /\ State(s, stk[i].r) \in Awaits(stk[i].cb)
      BY <1>2 DEF Good, StackOK
    <3>2. stk[i] \in Frames
      <4>1. stk \in Seq(Frames)
        BY <3>1
      <4> HIDE <1>2
      <4> QED
        BY <4>1
    <3> QED
      BY <3>1, <3>2 DEF Frames
  <2>2. CASE stk[i].r # r \/ State(t, r) = State(s, r)
    <3>1. State(t, stk[i].r) = State(s, stk[i].r)
      BY <2>1, <2>2 DEF State
    <3> QED
      BY <2>1, <3>1
  <2>3. CASE stk[i].cb = "connect"
    <3>1. State(t, stk[i].r) \in States
      BY <2>1 DEF Sound, ServerOK, RequestOK, State
    <3> QED
      BY <2>1, <2>3, <3>1 DEF Awaits
  <2> QED
    BY <1>2, <2>2, <2>3
<1>3. StackOK(t, stk)
  BY <1>2 DEF Good, StackOK
<1> QED
  BY <1>1, <1>3 DEF Good

\* A callback of a send is made, within one in which a request is responded to.
LEMMA GoodPush ==
    ASSUME NEW s, NEW stk, Good(s, stk), NEW r \in Requests, NEW t, Sound(t), \A o \in Requests \ {r} : t.req[o] = s.req[o],
           State(s, r) = "FREE" => State(t, r) = "FREE",
           stk # <<>> => Head(stk).r = r /\ Head(stk).cb \in Sends \cup {"respond"},
           NEW f \in Frames, f.r = r, f.cb \in Sends
    PROVE  Good(t, <<f>> \o stk)
<1> DEFINE new == <<f>> \o stk
<1> DEFINE n == Len(stk)
<1>1. StackOK(s, stk) /\ stk \in Seq(Frames) /\ n \in Nat
  BY DEF Good, StackOK
<1>2. \A i \in 1 .. n : stk[i].cb \in Sends \cup {"respond"} /\ stk[i].r = r
  <2>1. CASE stk = <<>>
    BY <2>1
  <2>2. CASE stk # <<>>
    <3>1. \A i \in 1 .. n : stk[i].cb \in Sends \cup {"respond"}
      BY <1>1, <2>2, OnlySends
    <3>2. 1 \in 1 .. n /\ Head(stk) = stk[1]
      BY <1>1, <2>2
    <3>3. \A i \in 1 .. n : stk[i].r = stk[1].r
      BY <1>1, <3>2 DEF StackOK
    <3> QED
      BY <2>2, <3>1, <3>2, <3>3
  <2> QED
    BY <2>1, <2>2
<1>3. new \in Seq(Frames) /\ Len(new) = n + 1 /\ new[1] = f /\ \A i \in 2 .. n + 1 : i - 1 \in 1 .. n /\ new[i] = stk[i - 1]
  <2>1. <<f>> \in Seq(Frames) /\ Len(<<f>>) = 1 /\ <<f>>[1] = f
    OBVIOUS
  <2> DEFINE one == <<f>>
  <2> HIDE DEF one
  <2>2. new \in Seq(Frames) /\ Len(new) = 1 + n /\ \A i \in 1 .. 1 + n : new[i] = IF i <= 1 THEN one[i] ELSE stk[i - 1]
    BY <1>1, <2>1, ConcatProperties DEF one
  <2> HIDE DEF new, n
  <2> QED
    BY <1>1, <2>1, <2>2 DEF one
<1> HIDE DEF new, n
<1>4. \A i \in 1 .. Len(new) : i = 1 \/ i \in 2 .. n + 1
  BY <1>1, <1>3
<1>5. \A i \in 1 .. Len(new) : new[i].cb \in Sends \cup {"respond"} /\ new[i].r = r
  BY <1>2, <1>3, <1>4
<1>6. \A i \in 1 .. Len(new) : new[i].cb \notin Sends => i = Len(new)
  <2> TAKE i \in 1 .. Len(new)
  <2> HAVE new[i].cb \notin Sends
  <2>1. i - 1 \in 1 .. n /\ new[i] = stk[i - 1]
    BY <1>3, <1>4
  <2>2. i - 1 = n
    BY <1>1, <2>1 DEF StackOK, n
  <2> QED
    BY <1>1, <1>3, <1>4, <2>2
<1>7. StackOK(t, new)
  BY <1>3, <1>5, <1>6 DEF StackOK
<1>8. OneFree(t, new)
  <2>1. \A i \in 1 .. n : stk[i].cb # "connect"
    BY <1>2 DEF Sends
  <2>2. PICK o \in Requests : State(s, o) = "FREE"
    BY <2>1 DEF Good, OneFree, n
  <2>3. State(t, o) = "FREE"
    BY <2>2 DEF State
  <2> QED
    BY <2>3 DEF OneFree
<1> QED
  BY <1>7, <1>8 DEF Good, new

\* A callback returns.
LEMMA GoodPop ==
    ASSUME NEW s, NEW stk, Good(s, stk), stk # <<>>, NEW r \in Requests, NEW t, Sound(t),
           \A o \in Requests \ {r} : t.req[o] = s.req[o],
           State(s, r) = "FREE" => State(t, r) = "FREE",
           Head(stk).cb = "connect" => SomeFree(t)
    PROVE  Good(t, Tail(stk))
<1> DEFINE new == Tail(stk)
<1> DEFINE n == Len(stk)
<1>1. StackOK(s, stk) /\ stk \in Seq(Frames) /\ n \in Nat /\ n >= 1
  BY DEF Good, StackOK
<1>2. new \in Seq(Frames) /\ Len(new) = n - 1 /\ \A i \in 1 .. n - 1 : i + 1 \in 1 .. n /\ new[i] = stk[i + 1]
  BY <1>1
<1> HIDE DEF new
<1>3. \A i \in 1 .. Len(new) : new[i].cb \in Sends \cup {"respond"}
  <2> TAKE i \in 1 .. Len(new)
  <2>1. Len(stk) > 1 /\ i + 1 \in 1 .. Len(stk)
    BY <1>1, <1>2
  <2> HIDE DEF n
  <2>2. stk[i + 1].cb \in Sends \cup {"respond"}
    BY <1>1, <2>1, OnlySends
  <2> QED
    BY <1>2, <2>2
<1>4. \A i \in 1 .. Len(new) : new[i].cb \notin Sends => i = Len(new)
  <2> TAKE i \in 1 .. Len(new)
  <2> HAVE new[i].cb \notin Sends
  <2>1. i + 1 \in 1 .. n /\ new[i] = stk[i + 1]
    BY <1>2
  <2>2. i + 1 = n
    BY <1>1, <2>1 DEF StackOK
  <2> QED
    BY <1>1, <1>2, <2>2
<1>5. \A i, j \in 1 .. Len(new) : new[i].r = new[j].r
  <2>1. \A i, j \in 1 .. n : stk[i].r = stk[j].r
    BY <1>1 DEF StackOK
  <2> HIDE DEF n
  <2> QED
    BY <1>2, <2>1
<1>6. StackOK(t, new)
  BY <1>2, <1>3, <1>4, <1>5 DEF StackOK
<1>7. SomeFree(t)
  <2>1. CASE \E o \in Requests : State(s, o) = "FREE"
    BY <2>1 DEF SomeFree, State
  <2>2. CASE \E i \in 1 .. n : stk[i].cb = "connect"
    <3>1. PICK i \in 1 .. n : stk[i].cb = "connect"
      BY <2>2
    <3>2. n = 1
      BY <1>1, <3>1 DEF StackOK, Sends
    <3>3. Head(stk) = stk[i]
      BY <1>1, <3>1, <3>2
    <3> QED
      BY <3>1, <3>3
  <2> QED
    BY <2>1, <2>2 DEF Good, OneFree
<1> QED
  BY <1>6, <1>7 DEF Good, OneFree, SomeFree, new
-----------------------------------------------------------------------------
(* The handler of reads.                                                   *)

\* What a handler keeps in its local variables.
Locals == [cb : Callbacks \cup {"read"}, r : Requests, consumed : BOOLEAN, kernel : BOOLEAN]

\* The handler returns into lib-sxe, at SXE_EARLY_OUT.
LEMMA EarlyGood ==
    ASSUME NEW s, Sound(s), SomeFree(s), NEW r \in Requests, NEW consumed, NEW kernel,
           Return(EarlyOut(s, r, consumed, kernel), <<>>)
    PROVE  Good(server', stack')
<1> DEFINE t == EarlyOut(s, r, consumed, kernel)
<1>1. Kept(s, t, r, {}) /\ Own(t.req[r]) = Own(s.req[r])
  BY EarlyOutKept DEF Sound
<1>2. server' = t /\ stack' = <<>>
  BY DEF Return
<1> HIDE DEF t
<1>3. Sound(t) /\ Changed(s, t, r) /\ State(t, r) = State(s, r)
  BY <1>1, SoundKept
<1>4. SomeFree(t)
  BY <1>3 DEF SomeFree, Changed, State
<1> QED
  BY <1>2, <1>3, <1>4, GoodEmpty

\* The handler calls the application back.
LEMMA CallbackGood ==
    ASSUME NEW s, NEW r \in Requests, Busy(s, r), NEW f \in Locals, f.r = r, NEW cb \in Callbacks,
           State(s, r) \in Awaits(cb), NEW units, Callback(s, f, cb, r, units, <<>>)
    PROVE  Good(server', stack')
<1> DEFINE q == s.req[r]
<1> DEFINE p == [q EXCEPT !.calls = @ \o units]
<1> DEFINE t == [s EXCEPT !.req[r] = p]
<1> DEFINE g == [f EXCEPT !.cb = cb]
<1>1. RequestOK(q) /\ Covered(q)
  BY DEF Busy, Sound, ServerOK
<1>2. Alike(p, q) /\ Covered(p)
  BY <1>1 DEF Alike, RequestOK, Numbered, Covered, Used, RequestFields
<1>3. server' = t
  BY DEF Callback
<1>4. stack' = <<g>>
  BY DEF Callback
<1>5. g \in Frames /\ g.r = r /\ g.cb = cb
  BY DEF Locals, Frames
<1> HIDE DEF q, p, g
<1>6. Busy(t, r) /\ State(t, r) = State(s, r)
  BY <1>2, BusyPut DEF q
<1> HIDE DEF t
<1>7. Good(t, <<g>>)
  BY <1>5, <1>6, GoodAlone
<1> QED
  BY <1>3, <1>4, <1>7

\* The error response is sent at once, or the server aborts.
LEMMA ErrorGood ==
    ASSUME NEW s, NEW r \in Requests, Busy(s, r), NEW f, ErrorOut(s, f, r, <<>>)
    PROVE  Good(server', stack')
<1> DEFINE p == sxe_buf_clear(s.req[r])
<1> DEFINE t == [s EXCEPT !.req[r] = p]
<1>1. PICK room \in BOOLEAN, blocked \in BOOLEAN :
        LET u == EnsureEoh(SimpleHead(t, r, room), r, room)
            v == ResponseDone(sxe_httpd_give_buffers(u, r), r)
            w == IF u.req[r].eoh /\ ~blocked THEN Move(v, r, "IDLE", "BAD") ELSE Abort(u, "bad") IN
        Return(EarlyOut(w, r, FALSE, f.kernel), <<>>)
  BY DEF ErrorOut
<1> DEFINE x == SimpleHead(t, r, room)
<1> DEFINE u == EnsureEoh(x, r, room)
<1> DEFINE y == sxe_httpd_give_buffers(u, r)
<1> DEFINE v == ResponseDone(y, r)
<1> DEFINE m == Move(v, r, "IDLE", "BAD")
<1> DEFINE w == IF u.req[r].eoh /\ ~blocked THEN m ELSE Abort(u, "bad")
<1>2. Return(EarlyOut(w, r, FALSE, f.kernel), <<>>)
  BY <1>1
<1>3. RequestOK(s.req[r]) /\ ServerOK(s, {})
  BY DEF Busy, Sound, ServerOK
<1>4. Alike(p, s.req[r])
  BY <1>3, ClearKeeps
<1> HIDE DEF p
<1>5. ServerOK(t, {}) /\ Changed(s, t, r) /\ State(t, r) = State(s, r)
  BY <1>3, <1>4, PutKeeps DEF Alike, State
<1> HIDE DEF t
<1>6. Kept(t, x, r, {})
  BY <1>5, SimpleHeadKept
<1> HIDE DEF x
<1>7. Kept(x, u, r, {})
  BY <1>6, EnsureKept DEF Kept
<1> HIDE DEF u
<1>8. ServerOK(u, {}) /\ Changed(s, u, r) /\ State(u, r) = State(s, r)
  BY <1>5, <1>6, <1>7 DEF Kept, Changed
<1>9. Kept(u, y, r, {})
  BY <1>8, GiveKept
<1> HIDE DEF y
<1>10. ServerOK(y, {}) /\ Changed(s, y, r) /\ State(y, r) # "FREE"
  BY <1>8, <1>9 DEF Kept, Changed, Busy
<1>11. ServerOK(v, {}) /\ Changed(y, v, r) /\ State(v, r) = "IDLE"
  BY <1>10, DoneIs
<1> HIDE DEF v
<1>12. ServerOK(m, {}) /\ Changed(v, m, r) /\ State(m, r) = "BAD"
  BY <1>11, Moved DEF States
<1> HIDE DEF m
<1>13. Busy(m, r)
  <2>1. Changed(s, m, r)
    BY <1>10, <1>11, <1>12 DEF Changed
  <2>2. Covered(m.req[r])
    BY <1>12 DEF Covered, State
  <2> QED
    BY <1>12, <2>1, <2>2, BusyAfter
<1>14. Sound(Abort(u, "bad")) /\ SomeFree(Abort(u, "bad"))
  <2> DEFINE a == Abort(u, "bad")
  <2>1. /\ DOMAIN a = DOMAIN u /\ a.req = u.req /\ a.order = u.order /\ a.free = u.free /\ a.leaked = u.leaked
        /\ a.aborted = "bad"
    BY <1>8 DEF Abort, ServerOK
  <2> HIDE DEF a
  <2>2. ServerOK(a, {})
    BY <1>8, <2>1 DEF ServerOK
  <2>3. \A o \in Requests : State(a, o) = "FREE" => Own(a.req[o]) = {}
    BY <1>8, <2>1 DEF Busy, Sound, Changed, State
  <2>4. SomeFree(a)
    BY <1>8, <2>1 DEF Busy, SomeFree, Changed, State
  <2> QED
    BY <2>1, <2>2, <2>3, <2>4 DEF Sound, a
<1>15. Sound(w) /\ SomeFree(w)
  BY <1>13, <1>14 DEF Busy
<1> HIDE DEF w
<1> QED
  BY <1>2, <1>15, EarlyGood
\* The handler reads headers until one is incomplete, its callback is made, or they end.
LEMMA ReadHeadersGood ==
    ASSUME NEW s, NEW r \in Requests, Busy(s, r), State(s, r) = "HEADERS", NEW f \in Locals, f.r = r,
           ReadHeaders(s, f, r, <<>>)
    PROVE  Good(server', stack')
<1> DEFINE q == [s.req[r] EXCEPT !.skewed = @ \/ Astray(s.req[r], s.req[r].base, s.req[r].length)]
<1> DEFINE x == ParseNextHeader(q)
<1> DEFINE With(p) == [s EXCEPT !.req[r] = p]
<1> DEFINE Early(p, consumed) == Return(EarlyOut(With(p), r, consumed, f.kernel), <<>>)
<1> DEFINE ignored == ShiftIgnored(sxe_buf_consume(x.q, x.ignored), x.ignored)
<1> DEFINE parsed == ConsumeParsed(x.q)
<1> DEFINE emptied == [sxe_buf_clear(x.q) EXCEPT !.length = 0, !.ignore = TRUE]
<1> DEFINE sized == [x.q EXCEPT !.content_length = BodyLength]
<1> DEFINE g == [f EXCEPT !.consumed = TRUE]
<1>1. \/ x.result = "bad" /\ ErrorOut(With(q), f, r, <<>>)
      \/ x.ignored # 0 /\ Early(ignored, TRUE)
      \/ x.ignored = 0 /\ (Early(x.q, FALSE) \/ Early(parsed, TRUE) \/ Early(emptied, FALSE))
      \/ x.result = "eof" /\ Callback(With(parsed), g, "eoh", r, <<"eoh">>, <<>>)
      \/ x.result = "header" /\ Callback(With(x.q), f, "header", r, <<"header">>, <<>>)
      \/ x.result = "length" /\ Callback(With(sized), f, "header", r, <<"length">>, <<>>)
      \/ x.result \notin {"block", "eof", "bad", "header", "length"}
  BY DEF ReadHeaders
<1>2. RequestOK(s.req[r]) /\ Covered(s.req[r]) /\ s.req[r].state = "HEADERS"
  BY DEF Busy, Sound, ServerOK, State
<1>3. Alike(q, s.req[r]) /\ Used(q) = Used(s.req[r]) /\ q.length = s.req[r].length
  BY <1>2 DEF Alike, RequestOK, Numbered, Used, RequestFields
<1> HIDE DEF q
<1>4. q.length <= Used(q) /\ RequestOK(q) /\ q.length \in Int /\ Used(q) \in Int
  BY <1>2, <1>3 DEF Covered, Alike, RequestOK, Numbered, Used
<1>5. /\ Alike(x.q, q) /\ Used(x.q) = Used(q) /\ x.ignored \in Int
      /\ x.q.length = q.length - x.ignored
      /\ x.result \in {"block", "eof", "bad", "header", "length"}
      /\ x.result # "block" => x.ignored = 0
  BY <1>4, ParseKeeps
<1> HIDE DEF x
<1>6. RequestOK(x.q)
  BY <1>5 DEF Alike
<1>7. ASSUME NEW p, Alike(p, q), p.length <= Used(p)
      PROVE  Busy(With(p), r) /\ State(With(p), r) = "HEADERS"
  <2>1. Alike(p, s.req[r]) /\ Covered(p)
    BY <1>3, <1>7 DEF Alike, Covered
  <2> QED
    BY <2>1, BusyPut
<1>8. ASSUME NEW p, Alike(p, q), p.length <= Used(p), NEW consumed, Early(p, consumed)
      PROVE  Good(server', stack')
  <2>1. Busy(With(p), r)
    BY <1>7, <1>8
  <2> HIDE DEF With
  <2> QED
    BY <1>8, <2>1, EarlyGood DEF Busy
<1>9. ASSUME NEW p, Alike(p, q), p.length <= Used(p), NEW h \in Locals, h.r = r, NEW cb \in {"header", "eoh"}, NEW units,
             Callback(With(p), h, cb, r, units, <<>>)
      PROVE  Good(server', stack')
  <2>1. Busy(With(p), r) /\ State(With(p), r) = "HEADERS"
    BY <1>7, <1>9
  <2> HIDE DEF With
  <2>2. cb \in Callbacks /\ State(With(p), r) \in Awaits(cb)
    BY <1>9, <2>1 DEF Callbacks, Awaits
  <2> QED
    BY <1>9, <2>1, <2>2, CallbackGood
<1>10. Alike(ignored, q) /\ (x.ignored # 0 => ignored.length <= Used(ignored))
  <2> DEFINE p == sxe_buf_consume(x.q, x.ignored)
  <2>1. Alike(p, x.q) /\ Used(p) = Used(x.q) - x.ignored /\ p.length = x.q.length
    BY <1>5, <1>6, ConsumeKeeps
  <2> HIDE DEF p
  <2>2. RequestOK(p)
    BY <2>1 DEF Alike
  <2>3. Alike(ShiftIgnored(p, x.ignored), p) /\ Used(ShiftIgnored(p, x.ignored)) = Used(p)
        /\ ShiftIgnored(p, x.ignored).length = p.length
    BY <2>2, ShiftKeeps
  <2> DEFINE o == ShiftIgnored(p, x.ignored)
  <2>4. ignored = o
    BY DEF p
  <2> HIDE DEF o, ignored
  <2>5. Alike(o, q)
    BY <1>5, <2>1, <2>3 DEF Alike, o
  <2>6. o.length <= Used(o)
    BY <1>4, <1>5, <2>1, <2>3 DEF o
  <2> QED
    BY <2>4, <2>5, <2>6
<1>11. x.ignored = 0 => /\ x.q.length <= Used(x.q)
                        /\ Alike(parsed, q) /\ parsed.length <= Used(parsed)
                        /\ Alike(sized, q) /\ sized.length <= Used(sized)
  <2> HAVE x.ignored = 0
  <2>1. x.q.length <= Used(x.q)
    BY <1>4, <1>5
  <2>2. Alike(parsed, x.q) /\ parsed.length <= Used(parsed)
    BY <1>6, <2>1, ConsumeParsedKeeps
  <2>3. Alike(sized, x.q) /\ Used(sized) = Used(x.q) /\ sized.length = x.q.length
    BY <1>6, BodyLengthAssumption DEF Alike, RequestOK, Numbered, Used, RequestFields
  <2> HIDE DEF parsed, sized
  <2> QED
    BY <1>5, <2>1, <2>2, <2>3 DEF Alike
<1>12. Alike(emptied, q) /\ emptied.length <= Used(emptied)
  <2> DEFINE p == sxe_buf_clear(x.q)
  <2>1. Alike(p, x.q) /\ Used(p) = 0 /\ p.length = x.q.length
    BY <1>6, ClearKeeps
  <2> HIDE DEF p
  <2>2. LET o == [p EXCEPT !.length = 0, !.ignore = TRUE] IN Alike(o, q) /\ Used(o) = 0 /\ o.length = 0
    BY <1>5, <2>1 DEF Alike, RequestOK, Numbered, Used, RequestFields
  <2> QED
    BY <2>2 DEF p
<1>13. g \in Locals /\ g.r = r
  BY DEF Locals
<1> HIDE DEF ignored, emptied, parsed, sized, g
<1>14. CASE x.result = "bad" /\ ErrorOut(With(q), f, r, <<>>)
  <2>1. Alike(q, q)
    BY <1>4 DEF Alike
  <2>2. Busy(With(q), r)
    BY <1>4, <1>7, <2>1
  <2> HIDE DEF With
  <2> QED
    BY <1>14, <2>2, ErrorGood
<1> HIDE DEF With
<1>15. CASE x.ignored # 0 /\ Early(ignored, TRUE)
  <2> HIDE DEF Early
  <2> QED
    BY <1>8, <1>10, <1>15
<1>16. CASE x.ignored = 0 /\ (Early(x.q, FALSE) \/ Early(parsed, TRUE) \/ Early(emptied, FALSE))
  <2> HIDE DEF Early
  <2> QED
    BY <1>5, <1>8, <1>11, <1>12, <1>16
<1>17. CASE x.result = "eof" /\ Callback(With(parsed), g, "eoh", r, <<"eoh">>, <<>>)
  BY <1>5, <1>9, <1>11, <1>13, <1>17
<1>18. CASE x.result = "header" /\ Callback(With(x.q), f, "header", r, <<"header">>, <<>>)
  BY <1>5, <1>9, <1>11, <1>18
<1>19. CASE x.result = "length" /\ Callback(With(sized), f, "header", r, <<"length">>, <<>>)
  BY <1>5, <1>9, <1>11, <1>19
<1> QED
  BY <1>1, <1>5, <1>14, <1>15, <1>16, <1>17, <1>18, <1>19

\* When the body is whole, the application is asked to respond.
LEMMA BodyGood ==
    ASSUME NEW s, NEW r \in Requests, Busy(s, r), State(s, r) = "BODY", NEW f \in Locals, f.r = r,
           Body(s, f, r, <<>>)
    PROVE  Good(server', stack')
<1> DEFINE t == Move(s, r, "BODY", "RESPONSE")
<1>1. ServerOK(t, {}) /\ Changed(s, t, r) /\ State(t, r) = "RESPONSE"
  BY Moved DEF Busy, Sound, States
<1>2. Callback(t, f, "respond", r, <<"respond">>, <<>>) \/ Return(EarlyOut(s, r, f.consumed, f.kernel), <<>>)
  BY DEF Body
<1> HIDE DEF t
<1>3. CASE Callback(t, f, "respond", r, <<"respond">>, <<>>)
  <2>1. Busy(t, r)
    BY <1>1, BusyAfter DEF Covered, State
  <2>2. "respond" \in Callbacks /\ State(t, r) \in Awaits("respond")
    BY <1>1 DEF Callbacks, Awaits, States
  <2> QED
    BY <1>3, <2>1, <2>2, CallbackGood
<1>4. CASE Return(EarlyOut(s, r, f.consumed, f.kernel), <<>>)
  BY <1>4, EarlyGood DEF Busy
<1> QED
  BY <1>2, <1>3, <1>4

\* The lesser of two numbers is a number.
LEMMA MinOfTwo == ASSUME NEW a \in Int, NEW b \in Int PROVE Min({a, b}) \in Int
<1>1. \E x \in {a, b} : \A y \in {a, b} : x <= y
  <2>1. CASE a <= b
    BY <2>1
  <2>2. CASE b <= a
    BY <2>2
  <2> QED
    BY <2>1, <2>2
<1>2. Min({a, b}) \in {a, b}
  BY <1>1 DEF Min
<1> QED
  BY <1>2

\* The handler reads as much of the body as there is.
LEMMA ReadBodyGood ==
    ASSUME NEW s, NEW r \in Requests, Busy(s, r), State(s, r) = "BODY", NEW f \in Locals, f.r = r,
           ReadBody(s, f, r, <<>>)
    PROVE  Good(server', stack')
<1> DEFINE q == [s.req[r] EXCEPT !.skewed = @ \/ Astray(s.req[r], s.req[r].in_consumed, Used(s.req[r]))]
<1> DEFINE n == Chunk(q)
<1> DEFINE o == [q EXCEPT !.content_seen = @ + n]
<1> DEFINE p == sxe_buf_consume(o, n)
<1> DEFINE g == [f EXCEPT !.consumed = @ \/ n # 0]
<1> DEFINE t == [s EXCEPT !.req[r] = p]
<1> DEFINE units == SubSeq(q.cell, q.in_consumed + 1, q.in_consumed + n)
<1>1. Callback(t, g, "body", r, units, <<>>) \/ Body(s, f, r, <<>>)
  BY DEF ReadBody
<1>2. RequestOK(s.req[r]) /\ s.req[r].state = "BODY"
  BY DEF Busy, Sound, ServerOK, State
<1>3. Alike(q, s.req[r])
  BY <1>2 DEF Alike, RequestOK, Numbered, RequestFields
<1>4. g \in Locals /\ g.r = r
  BY DEF Locals
<1> HIDE DEF q, g, units
<1>5. n \in Int
  <2>1. Used(q) \in Int /\ q.content_length - q.content_seen \in Int
    BY <1>3 DEF Alike, RequestOK, Numbered, Used
  <2> QED
    BY <2>1, MinOfTwo DEF Chunk, n
<1> HIDE DEF n
<1>6. Alike(o, s.req[r])
  BY <1>3, <1>5 DEF Alike, RequestOK, Numbered, RequestFields
<1> HIDE DEF o
<1>7. Alike(p, o)
  BY <1>5, <1>6, ConsumeKeeps DEF Alike
<1> HIDE DEF p
<1>8. Alike(p, s.req[r]) /\ Covered(p)
  BY <1>2, <1>6, <1>7 DEF Alike, Covered
<1>9. Busy(t, r) /\ State(t, r) = "BODY"
  BY <1>8, BusyPut
<1> HIDE DEF t
<1>10. CASE Callback(t, g, "body", r, units, <<>>)
  <2>1. "body" \in Callbacks /\ State(t, r) \in Awaits("body")
    BY <1>9 DEF Callbacks, Awaits
  <2> QED
    BY <1>4, <1>9, <1>10, <2>1, CallbackGood
<1> QED
  BY <1>1, <1>10, BodyGood

\* The handler reads the request line, or fails the request.
LEMMA ReadLineGood ==
    ASSUME NEW s, NEW r \in Requests, Busy(s, r), State(s, r) = "LINE", NEW f \in Locals, f.r = r,
           stack = <<>>, ReadLine(s, f, r)
    PROVE  Good(server', stack')
<1> DEFINE q == [s.req[r] EXCEPT !.length = Used(s.req[r])]
<1> DEFINE p == [q EXCEPT !.skewed = @ \/ Astray(q, q.base, q.length)]
<1> DEFINE t == [s EXCEPT !.req[r] = p]
<1> DEFINE o == [p EXCEPT !.next = Min(LineEnds(p))]
<1> DEFINE u == [t EXCEPT !.req[r] = o]
<1>1. RequestOK(s.req[r]) /\ s.req[r].state = "LINE" /\ ServerOK(s, {})
  BY DEF Busy, Sound, ServerOK, State
<1>2. Alike(q, s.req[r]) /\ q.length = Used(q)
  BY <1>1 DEF Alike, RequestOK, Numbered, Used, RequestFields
<1> HIDE DEF q
<1>3. Alike(p, s.req[r]) /\ p.length = Used(p)
  BY <1>2 DEF Alike, RequestOK, Numbered, Used, RequestFields
<1> HIDE DEF p
<1>4. p.next \in Int /\ p.length \in Int /\ Used(p) \in Int /\ Covered(p)
  BY <1>3 DEF Alike, RequestOK, Numbered, Used, Covered
<1>5. Busy(t, r) /\ t.req[r] = p /\ State(t, r) = "LINE"
  BY <1>3, <1>4, BusyPut
<1>6. \/ ErrorOut(t, f, r, stack)
      \/ Return(EarlyOut(t, r, FALSE, f.kernel), stack)
      \/ sxe_httpd_parse_request_line(p) /\ Callback([t EXCEPT !.req[r].next = Min(LineEnds(p))], f, "request", r, <<"line">>, stack)
  BY DEF ReadLine, p, q
<1> HIDE DEF t
<1>7. [t EXCEPT !.req[r].next = Min(LineEnds(p))] = u
  BY <1>5
<1>8. CASE ErrorOut(t, f, r, stack)
  BY <1>5, <1>8, ErrorGood
<1>9. CASE Return(EarlyOut(t, r, FALSE, f.kernel), stack)
  BY <1>5, <1>9, EarlyGood DEF Busy
<1>10. CASE sxe_httpd_parse_request_line(p) /\ Callback(u, f, "request", r, <<"line">>, stack)
  <2>1. LineEnds(p) # {}
    BY <1>10 DEF sxe_httpd_parse_request_line
  <2>2. Min(LineEnds(p)) \in Int
    BY <1>4, <2>1, MinLineEnds
  <2>3. Alike(o, p) /\ Covered(o)
    BY <1>3, <1>4, <2>2 DEF Alike, RequestOK, Numbered, Used, Covered, RequestFields
  <2> HIDE DEF o
  <2>4. Busy(u, r) /\ State(u, r) = "LINE"
    BY <1>5, <2>3, BusyPut
  <2> HIDE DEF u
  <2>5. "request" \in Callbacks /\ State(u, r) \in Awaits("request")
    BY <2>4 DEF Callbacks, Awaits
  <2> QED
    BY <1>10, <2>4, <2>5, CallbackGood
<1> QED
  BY <1>6, <1>7, <1>8, <1>9, <1>10

\* A message that is being parsed is told how much input there is.
LEMMA GrownBusy ==
    ASSUME NEW s, NEW r \in Requests, Busy(s, r), State(s, r) \in {"LINE", "HEADERS"}
    PROVE  Busy(Grown(s, r), r) /\ State(Grown(s, r), r) = State(s, r)
<1> DEFINE q == s.req[r]
<1> DEFINE p == [q EXCEPT !.length = Used(q)]
<1> DEFINE t == [s EXCEPT !.req[r] = p]
<1>1. RequestOK(q) /\ Covered(q) /\ q.state \in {"LINE", "HEADERS"}
  BY DEF Busy, Sound, ServerOK, State
<1>2. q.length <= Used(q) /\ q.length \in Int /\ Used(q) \in Int
  BY <1>1 DEF Covered, RequestOK, Numbered, Used
<1>3. Grown(s, r) = t
  BY <1>2 DEF Grown
<1>4. Alike(p, q) /\ Covered(p)
  BY <1>1, <1>2 DEF Alike, RequestOK, Numbered, Used, Covered, RequestFields
<1> HIDE DEF p
<1> QED
  BY <1>3, <1>4, BusyPut

\* sxe_httpd_event_read, in whatever state the request is.
LEMMA EventReadGood ==
    ASSUME NEW s, NEW r \in Requests, Busy(s, r), stack = <<>>, NEW kernel \in BOOLEAN,
           sxe_httpd_event_read(s, r, kernel)
    PROVE  Good(server', stack')
<1> DEFINE f == Frame("read", r, FALSE, kernel)
<1> DEFINE q == s.req[r]
<1> DEFINE p == [q EXCEPT !.base = q.in_consumed, !.length = Used(q), !.next = 0, !.late = FALSE, !.ignore = FALSE]
<1> DEFINE t == [s EXCEPT !.req[r] = p]
<1> DEFINE u == Move(t, r, "IDLE", "LINE")
<1>1. RequestOK(q) /\ ServerOK(s, {}) /\ s.aborted = "none" /\ q.state # "FREE" /\ q.state = State(s, r)
  BY DEF Busy, Sound, ServerOK, State
<1>2. \/ Return(EarlyOut(s, r, FALSE, kernel), <<>>)
      \/ q.state = "IDLE" /\ ReadLine(u, f, r)
      \/ q.state = "LINE" /\ ReadLine(Grown(s, r), f, r)
      \/ q.state = "HEADERS" /\ ReadHeaders(Grown(s, r), f, r, <<>>)
      \/ q.state = "BODY" /\ ReadBody(s, f, r, <<>>)
  <2>1. \/ q.paused \/ q.state \in {"BAD", "RESPONSE"}
        \/ ~q.paused /\ (q.state = "IDLE" \/ q.state = "LINE" \/ q.state = "HEADERS" \/ q.state = "BODY")
    BY <1>1 DEF RequestOK, States
  <2> QED
    BY <2>1 DEF sxe_httpd_event_read
<1>3. f \in Locals /\ f.r = r /\ f.kernel = kernel /\ f.consumed = FALSE
  BY DEF Locals, Frame
<1> HIDE DEF f
<1>4. CASE Return(EarlyOut(s, r, FALSE, kernel), <<>>)
  BY <1>4, EarlyGood DEF Busy
<1>5. CASE q.state = "IDLE" /\ ReadLine(u, f, r)
  <2>1. Alike(p, q) /\ Used(p) = p.length
    BY <1>1 DEF Alike, RequestOK, Numbered, Used, RequestFields
  <2> HIDE DEF p
  <2>2. ServerOK(t, {}) /\ Changed(s, t, r) /\ t.req[r] = p
    BY <1>1, <2>1, PutKeeps DEF Alike
  <2> HIDE DEF t
  <2>3. State(t, r) = "IDLE"
    BY <1>5, <2>1, <2>2 DEF State, Alike
  <2>4. ServerOK(u, {}) /\ Changed(t, u, r) /\ State(u, r) = "LINE" /\ Used(u.req[r]) = Used(p) /\ u.req[r].length = p.length
    <3>1. u = Move(t, r, State(t, r), "LINE")
      BY <2>3
    <3> HIDE DEF u
    <3>2. ServerOK(u, {}) /\ Changed(t, u, r) /\ State(u, r) = "LINE"
          /\ Used(u.req[r]) = Used(t.req[r]) /\ u.req[r].length = t.req[r].length
      BY <2>2, <3>1, Moved DEF States
    <3> QED
      BY <2>2, <3>2
  <2> HIDE DEF u
  <2>5. Changed(s, u, r)
    BY <2>2, <2>4 DEF Changed
  <2>6. Covered(u.req[r])
    BY <2>1, <2>4 DEF Covered, Alike, RequestOK, Numbered
  <2>7. Busy(u, r)
    BY <2>4, <2>5, <2>6, BusyAfter
  <2> QED
    BY <1>3, <1>5, <2>4, <2>7, ReadLineGood
<1>6. CASE q.state = "LINE" /\ ReadLine(Grown(s, r), f, r)
  <2>1. Busy(Grown(s, r), r) /\ State(Grown(s, r), r) = "LINE"
    BY <1>1, <1>6, GrownBusy
  <2> QED
    BY <1>3, <1>6, <2>1, ReadLineGood
<1>7. CASE q.state = "HEADERS" /\ ReadHeaders(Grown(s, r), f, r, <<>>)
  <2>1. Busy(Grown(s, r), r) /\ State(Grown(s, r), r) = "HEADERS"
    BY <1>1, <1>7, GrownBusy
  <2> QED
    BY <1>3, <1>7, <2>1, ReadHeadersGood
<1>8. CASE q.state = "BODY" /\ ReadBody(s, f, r, <<>>)
  BY <1>1, <1>3, <1>8, ReadBodyGood
<1> QED
  BY <1>2, <1>4, <1>5, <1>6, <1>7, <1>8
-----------------------------------------------------------------------------
(* Sends.                                                                  *)

\* What is being sent, and what the SXE is watched for, are no business of the buffers.
LEMMA SendingKept ==
    ASSUME NEW s, ServerOK(s, {}), NEW r \in Requests, NEW kind \in Kinds, NEW watch
    PROVE  Kept(s, [s EXCEPT !.req[r].sending = kind, !.req[r].watch = watch], r, {})
<1> DEFINE q == s.req[r]
<1> DEFINE p == [q EXCEPT !.sending = kind, !.watch = watch]
<1> DEFINE t == [s EXCEPT !.req[r] = p]
<1>1. DOMAIN s = {"req", "order", "free", "leaked", "aborted", "defaults"} /\ DOMAIN s.req = Requests /\ RequestOK(q)
  BY DEF ServerOK
<1>2. RequestOK(p) /\ p.out = q.out /\ p.state = q.state /\ Used(p) = Used(q) /\ p.length = q.length
  BY <1>1 DEF RequestOK, Numbered, Used, RequestFields
<1>3. [s EXCEPT !.req[r].sending = kind, !.req[r].watch = watch] = t
  BY <1>1
<1> HIDE DEF p
<1>4. ServerOK(t, {}) /\ Changed(s, t, r) /\ t.req[r] = p
  BY <1>2, PutKeeps
<1> HIDE DEF t
<1>5. Kept(s, t, r, {})
  BY <1>2, <1>4 DEF Kept, State, Covered
<1> QED
  BY <1>3, <1>5

\* A send is made within a callback in which its request is responded to.
Responding(r) == stack # <<>> => Head(stack).r = r /\ Head(stack).cb \in Sends \cup {"respond"}

\* A response is made only inside the callbacks of sends, and of the call to respond.
LEMMA RespondingAll ==
    ASSUME Good(server, stack), NEW r, Responding(r)
    PROVE  \A i \in 1 .. Len(stack) : stack[i].cb \in Sends \cup {"respond"}
<1>1. CASE stack = <<>>
  BY <1>1
<1>2. CASE stack # <<>>
  BY <1>2, OnlySends DEF Good, Responding
<1> QED
  BY <1>1, <1>2

\* A send is done at once: its callback is made inside the call.
LEMMA PushGood ==
    ASSUME Good(server, stack), NEW r \in Requests, Responding(r), NEW t, Sound(t), Changed(server, t, r),
           State(server, r) # "FREE", NEW cb \in Sends,
           server' = t, stack' = <<Frame(cb, r, FALSE, FALSE)>> \o stack
    PROVE  Good(server', stack')
<1> DEFINE f == Frame(cb, r, FALSE, FALSE)
<1>1. f \in Frames /\ f.r = r /\ f.cb \in Sends
  BY DEF Frames, Frame, Callbacks, Sends
<1> HIDE DEF f
<1>2. stack # <<>> => Head(stack).r = r /\ Head(stack).cb \in Sends \cup {"respond"}
  BY DEF Responding
<1>3. \A o \in Requests \ {r} : t.req[o] = server.req[o]
  BY DEF Changed
<1>4. Good(t, <<f>> \o stack)
  BY <1>1, <1>2, <1>3, GoodPush
<1> QED
  BY <1>4 DEF f

\* A send that is complete, or has failed.
LEMMA CompletedGood ==
    ASSUME Good(server, stack), NEW r \in Requests, Responding(r), State(server, r) # "FREE",
           NEW s, Kept(server, s, r, {}), NEW kind \in Kinds \ {"none"}, NEW ok \in BOOLEAN,
           Completed(s, r, kind, ok)
    PROVE  Good(server', stack')
<1> DEFINE t == IF kind = "file" THEN s ELSE sxe_httpd_give_buffers(IF ok THEN Emptied(s, r) ELSE s, r)
<1> DEFINE u == [t EXCEPT !.req[r].sending = "file", !.req[r].watch = "write"]
<1> DEFINE c == sxe_httpd_close(t, r)
<1>1. \/ kind # "ready" /\ server' = t /\ stack' = <<Frame(Sent(kind), r, FALSE, FALSE)>> \o stack
      \/ server' = c /\ UNCHANGED stack
      \/ server' = t /\ stack' = <<Frame(Sent("file"), r, FALSE, FALSE)>> \o stack
      \/ server' = u /\ UNCHANGED stack
  BY DEF Completed
<1>2. ServerOK(s, {})
  BY DEF Kept
<1>3. Kept(s, t, r, {})
  BY <1>2, KeptSelf, GiveKept
<1> HIDE DEF t
<1>4. Kept(server, t, r, {})
  BY <1>3, KeptTwice
<1>5. Sound(t) /\ Changed(server, t, r) /\ State(t, r) = State(server, r) /\ ServerOK(t, {})
  BY <1>4, SoundKept DEF Good, Kept
<1>6. Sound(u) /\ Changed(server, u, r) /\ State(u, r) = State(server, r)
  <2>1. Kept(t, u, r, {})
    BY <1>5, SendingKept DEF Kinds
  <2> HIDE DEF u
  <2>2. Kept(server, u, r, {})
    BY <1>4, <2>1, KeptTwice
  <2> QED
    BY <2>2, SoundKept DEF Good
<1> HIDE DEF u
<1>7. Sound(c) /\ Changed(server, c, r) /\ State(c, r) = "FREE"
  <2>1. ServerOK(c, {}) /\ Changed(t, c, r) /\ State(c, r) = "FREE" /\ Own(c.req[r]) = {}
    BY <1>5, CloseFrees
  <2> HIDE DEF c
  <2>2. Changed(server, c, r)
    BY <1>5, <2>1 DEF Changed
  <2>3. Sound(c)
    BY <1>5, <2>1, SoundAfter DEF Covered, State
  <2> QED
    BY <2>1, <2>2, <2>3
<1> HIDE DEF c
<1>8. Sent("file") \in Sends /\ (kind # "ready" => Sent(kind) \in Sends)
  BY DEF Sent, Sends, Kinds
<1>9. CASE kind # "ready" /\ server' = t /\ stack' = <<Frame(Sent(kind), r, FALSE, FALSE)>> \o stack
  BY <1>5, <1>8, <1>9, PushGood
<1>10. CASE server' = t /\ stack' = <<Frame(Sent("file"), r, FALSE, FALSE)>> \o stack
  BY <1>5, <1>8, <1>10, PushGood
<1>11. CASE server' = c /\ UNCHANGED stack
  <2>1. \A i \in 1 .. Len(stack) : stack[i].cb \in Sends \cup {"respond", "connect"}
    BY RespondingAll
  <2>2. \A o \in Requests \ {r} : c.req[o] = server.req[o]
    BY <1>7 DEF Changed
  <2>3. Good(c, stack)
    BY <1>7, <2>1, <2>2, GoodSame
  <2> QED
    BY <1>11, <2>3
<1>12. CASE server' = u /\ UNCHANGED stack
  <2>1. \A o \in Requests \ {r} : u.req[o] = server.req[o]
    BY <1>6 DEF Changed
  <2>2. Good(u, stack)
    BY <1>6, <2>1, GoodSame
  <2> QED
    BY <1>12, <2>2
<1> QED
  BY <1>1, <1>9, <1>10, <1>11, <1>12

\* A call that keeps the state of its request, in any callback.
LEMMA KeptGood ==
    ASSUME Good(server, stack), NEW r \in Requests, NEW t, Kept(server, t, r, {}),
           State(server, r) # "FREE" \/ Own(t.req[r]) = Own(server.req[r]), server' = t, UNCHANGED stack
    PROVE  Good(server', stack')
<1>1. Sound(t) /\ Changed(server, t, r) /\ State(t, r) = State(server, r)
  BY SoundKept DEF Good
<1>2. \A o \in Requests \ {r} : t.req[o] = server.req[o]
  BY <1>1 DEF Changed
<1>3. Good(t, stack)
  BY <1>1, <1>2, GoodSame
<1> QED
  BY <1>3

\* sxe_send_buffers writes all, fails, or waits for the socket to be writable.
LEMMA SendBuffersGood ==
    ASSUME Good(server, stack), NEW r \in Requests, Responding(r), State(server, r) # "FREE",
           NEW s, Kept(server, s, r, {}), NEW kind \in Kinds \ {"none"}, SendBuffers(s, r, kind)
    PROVE  Good(server', stack')
<1> DEFINE t == [s EXCEPT !.req[r].sending = kind, !.req[r].watch = "write"]
<1>1. \/ \E ok \in BOOLEAN : Completed(s, r, kind, ok)
      \/ server' = s /\ UNCHANGED stack
      \/ server' = t /\ UNCHANGED stack
  BY DEF SendBuffers
<1>2. Kept(s, t, r, {})
  BY SendingKept DEF Kept
<1> HIDE DEF t
<1>3. Kept(server, t, r, {})
  BY <1>2, KeptTwice
<1>4. CASE \E ok \in BOOLEAN : Completed(s, r, kind, ok)
  BY <1>4, CompletedGood
<1>5. CASE server' = s /\ UNCHANGED stack
  BY <1>5, KeptGood
<1>6. CASE server' = t /\ UNCHANGED stack
  BY <1>3, <1>6, KeptGood
<1> QED
  BY <1>1, <1>4, <1>5, <1>6
-----------------------------------------------------------------------------
(* Each action keeps the invariant.                                        *)

\* The loop has something to do, and no callback is running.
LEMMA IdleBusy ==
    ASSUME HttpdInv, Idle, NEW r \in Requests, Connected(r)
    PROVE  Busy(server, r) /\ stack = <<>> /\ Responding(r) /\ State(server, r) # "FREE"
  BY DEF HttpdInv, Idle, Connected, Busy, Good, OneFree, SomeFree, Responding, State

\* A read event.
LEMMA ReadKeeps ==
    ASSUME HttpdInv, NEW r \in Requests, Read(r)
    PROVE  Good(server', stack')
<1> DEFINE q == server.req[r]
<1> DEFINE p(n) == [q EXCEPT !.cell = [k \in 1 .. InputSize |-> IF k - q.in_total \in 1 .. n THEN q.script.units[q.got + k - q.in_total] ELSE @[k]],
                             !.in_total = @ + n, !.got = @ + n]
<1> DEFINE most == Min({InputSize - q.in_total, Len(q.script.units) - q.got})
<1>1. PICK n \in 1 .. most :
        LET s == [server EXCEPT !.req[r] = p(n)] IN
        IF p(n).held THEN server' = [s EXCEPT !.req[r] = AfterRead(p(n))] /\ UNCHANGED stack
        ELSE sxe_httpd_event_read(s, r, TRUE)
  BY DEF Read
<1>2. Busy(server, r) /\ stack = <<>> /\ UNCHANGED connects
  BY IdleBusy DEF Read
<1>3. RequestOK(q) /\ Covered(q)
  BY <1>2 DEF Busy, Sound, ServerOK
<1> HIDE DEF most
<1>4. n \in Int /\ n >= 0
  OBVIOUS
<1> DEFINE o == p(n)
<1>5. Alike(o, q) /\ Covered(o)
  BY <1>3, <1>4 DEF Alike, RequestOK, Numbered, Used, Covered, RequestFields
<1> DEFINE s == [server EXCEPT !.req[r] = o]
<1>6. \/ server' = [s EXCEPT !.req[r] = AfterRead(o)] /\ UNCHANGED stack
      \/ sxe_httpd_event_read(s, r, TRUE)
  BY <1>1
<1> HIDE DEF o, q
<1>7. Busy(s, r) /\ s.req[r] = o
  BY <1>2, <1>5, BusyPut DEF q
<1> HIDE DEF s
<1>8. CASE server' = [s EXCEPT !.req[r] = AfterRead(o)] /\ UNCHANGED stack
  <2> DEFINE a == AfterRead(o)
  <2> DEFINE t == [s EXCEPT !.req[r] = a]
  <2>1. Alike(a, o) /\ Used(a) = Used(o) /\ a.length = o.length
    BY <1>5, AfterReadKeeps DEF Alike
  <2>2. Covered(a)
    BY <1>5, <2>1 DEF Covered, Alike
  <2> HIDE DEF a
  <2>3. Busy(t, r)
    BY <1>7, <2>1, <2>2, BusyPut
  <2>4. server' = t /\ stack' = <<>>
    BY <1>2, <1>8 DEF a
  <2> HIDE DEF t
  <2>5. Good(t, <<>>)
    BY <2>3, GoodEmpty DEF Busy
  <2> QED
    BY <2>4, <2>5
<1>9. CASE sxe_httpd_event_read(s, r, TRUE)
  BY <1>2, <1>7, <1>9, EventReadGood
<1> QED
  BY <1>6, <1>8, <1>9

\* A deferred read event.
LEMMA ReadDeferredKeeps ==
    ASSUME HttpdInv, NEW r \in Requests, ReadDeferred(r)
    PROVE  Good(server', stack')
<1> DEFINE q == server.req[r]
<1> DEFINE p == [q EXCEPT !.deferred = FALSE]
<1> DEFINE s == [server EXCEPT !.req[r] = p]
<1>1. Busy(server, r) /\ stack = <<>>
  BY IdleBusy DEF ReadDeferred
<1>2. RequestOK(q) /\ Covered(q)
  BY <1>1 DEF Busy, Sound, ServerOK
<1>3. Alike(p, q) /\ Covered(p)
  BY <1>2 DEF Alike, RequestOK, Numbered, Used, Covered, RequestFields
<1>4. sxe_httpd_event_read(s, r, FALSE)
  BY DEF ReadDeferred
<1> HIDE DEF p, q
<1>5. Busy(s, r)
  BY <1>1, <1>3, BusyPut DEF q
<1> QED
  BY <1>1, <1>4, <1>5, EventReadGood

\* A request is closed from the loop, or in a callback that leaves it in any state.
LEMMA CloseGood ==
    ASSUME Good(server, stack), NEW r \in Requests, UNCHANGED stack, server' = sxe_httpd_close(server, r),
           \A i \in 1 .. Len(stack) : stack[i].cb \in Sends \cup {"respond", "connect"}
    PROVE  Good(server', stack')
<1> DEFINE t == sxe_httpd_close(server, r)
<1>1. ServerOK(t, {}) /\ Changed(server, t, r) /\ State(t, r) = "FREE" /\ Own(t.req[r]) = {}
  BY CloseFrees DEF Good, Sound
<1>2. server' = t
  OBVIOUS
<1> HIDE DEF t
<1>3. Sound(t)
  BY <1>1, SoundAfter DEF Covered, State, Good
<1>4. \A o \in Requests \ {r} : t.req[o] = server.req[o]
  BY <1>1 DEF Changed
<1>5. Good(t, stack)
  BY <1>1, <1>3, <1>4, GoodSame
<1> QED
  BY <1>2, <1>5

\* The client closes.
LEMMA EventCloseKeeps ==
    ASSUME HttpdInv, NEW r \in Requests, sxe_httpd_event_close(r)
    PROVE  Good(server', stack')
<1>1. stack = <<>> /\ UNCHANGED stack /\ server' = sxe_httpd_close(server, r)
  BY DEF sxe_httpd_event_close, Idle
<1>2. \A i \in 1 .. Len(stack) : stack[i].cb \in Sends \cup {"respond", "connect"}
  BY <1>1
<1> QED
  BY <1>1, <1>2, CloseGood DEF HttpdInv

\* The SXE is writable, and the rest of the buffers or of the file is sent.
LEMMA WrittenKeeps ==
    ASSUME HttpdInv, NEW r \in Requests, Written(r)
    PROVE  Good(server', stack')
<1> DEFINE kind == server.req[r].sending
<1> DEFINE watch == IF kind = "file" THEN "off" ELSE "read"
<1> DEFINE s == [server EXCEPT !.req[r].sending = "none", !.req[r].watch = watch]
<1>1. PICK ok \in BOOLEAN : Completed(s, r, kind, ok)
  BY DEF Written
<1>2. Good(server, stack) /\ Busy(server, r) /\ Responding(r) /\ State(server, r) # "FREE"
  BY IdleBusy DEF Written, HttpdInv
<1>3. kind \in Kinds \ {"none"}
  BY <1>2 DEF Written, Busy, Sound, ServerOK, RequestOK
<1> HIDE DEF kind, watch
<1>4. Kept(server, s, r, {})
  BY <1>2, SendingKept DEF Busy, Sound, Kinds
<1> HIDE DEF s
<1> QED
  BY <1>1, <1>2, <1>3, <1>4, CompletedGood

\* A request is free when a client connects.
LEMMA OldestIs ==
    ASSUME NEW s, ServerOK(s, {}), NEW states, NEW r \in Requests, State(s, r) \in states
    PROVE  /\ Oldest(s, states) \in Seq(Requests) /\ Oldest(s, states) # <<>>
           /\ Head(Oldest(s, states)) \in Requests /\ State(s, Head(Oldest(s, states))) \in states
<1> DEFINE S == {o \in Requests : State(s, o) \in states}
<1> DEFINE list == Only(s.order, S)
<1>1. s.order \in Seq(Requests) /\ \E k \in 1 .. Len(s.order) : s.order[k] = r
  BY DEF ServerOK, OrderOK
<1>2. r \in S
  OBVIOUS
<1>3. Oldest(s, states) = list
  BY DEF Oldest
<1> DEFINE order == s.order
<1>4. order \in Seq(Requests) /\ \E k \in 1 .. Len(order) : order[k] = r
  BY <1>1
<1>5. list = Only(order, S)
  OBVIOUS
<1> HIDE DEF S, list, order
<1>6. /\ list \in Seq(Requests) /\ \A i \in 1 .. Len(list) : list[i] \in S
      /\ \A k \in 1 .. Len(order) : order[k] \in S => \E i \in 1 .. Len(list) : list[i] = order[k]
  BY <1>4, <1>5, OnlyIs
<1>7. PICK i \in 1 .. Len(list) : list[i] = r
  BY <1>2, <1>4, <1>6
<1>8. list # <<>> /\ 1 \in 1 .. Len(list) /\ Head(list) = list[1]
  BY <1>6, <1>7
<1> QED
  BY <1>3, <1>6, <1>8 DEF S

\* A client connects, to a request that is free.
LEMMA ConnectKeeps ==
    ASSUME HttpdInv, sxe_httpd_event_connect
    PROVE  Good(server', stack')
<1> DEFINE r == Head(Oldest(server, {"FREE"}))
<1> DEFINE m == Move(server, r, "FREE", "IDLE")
<1>1. Sound(server) /\ stack = <<>> /\ SomeFree(server) /\ ServerOK(server, {})
  <2>1. stack = <<>> /\ Sound(server) /\ OneFree(server, stack)
    BY DEF HttpdInv, Good, sxe_httpd_event_connect, Idle
  <2>2. SomeFree(server)
    BY <2>1 DEF OneFree, SomeFree
  <2> QED
    BY <2>1, <2>2 DEF Sound
<1>2. Oldest(server, {"FREE"}) # <<>> /\ r \in Requests /\ State(server, r) = "FREE"
  BY <1>1, OldestIs DEF SomeFree
<1>3. PICK script \in Scripts[connects + 1] :
        server' = [m EXCEPT !.req[r] = Fresh(script)] /\ stack' = <<Frame("connect", r, FALSE, FALSE)>>
  BY <1>2 DEF sxe_httpd_event_connect
<1> HIDE DEF r
<1>4. ServerOK(m, {}) /\ Changed(server, m, r) /\ State(m, r) = "IDLE" /\ m.req[r].out = server.req[r].out
  <2>1. m = Move(server, r, State(server, r), "IDLE")
    BY <1>2
  <2> HIDE DEF m
  <2> QED
    BY <1>1, <1>2, <2>1, Moved DEF States
<1> DEFINE p == Fresh(script)
<1> DEFINE t == [m EXCEPT !.req[r] = p]
<1>5. RequestOK(p) /\ p.state = "IDLE" /\ Own(p) = {}
  <2>1. /\ DOMAIN p = RequestFields /\ p.out = <<>> /\ p.state = "IDLE" /\ p.sending = "none" /\ Numbered(p)
    BY DEF Fresh, RequestFields, Numbered
  <2> HIDE DEF p
  <2> QED
    BY <2>1 DEF RequestOK, OutOK, Own, States, Kinds
<1>6. Own(m.req[r]) = {}
  BY <1>1, <1>2, <1>4 DEF Own, Sound
<1> HIDE DEF p, m
<1>7. ServerOK(t, {}) /\ Changed(m, t, r) /\ t.req[r] = p
  <2>1. Own(p) = Own(m.req[r])
    BY <1>5, <1>6
  <2> QED
    BY <1>2, <1>4, <1>5, <2>1, PutSame
<1> HIDE DEF t
<1>8. Changed(server, t, r) /\ State(t, r) = "IDLE"
  BY <1>4, <1>5, <1>7 DEF Changed, State
<1>9. Sound(t)
  BY <1>1, <1>2, <1>7, <1>8, SoundAfter DEF Covered, State
<1> DEFINE f == Frame("connect", r, FALSE, FALSE)
<1>10. f \in Frames /\ f.cb = "connect" /\ f.r = r
  BY <1>2 DEF Frames, Frame, Callbacks
<1> HIDE DEF f
<1> DEFINE stk == <<f>>
<1>11. stk \in Seq(Frames) /\ Len(stk) = 1 /\ \A i \in 1 .. Len(stk) : i = 1 /\ stk[i] = f
  BY <1>10
<1>12. 1 \in 1 .. Len(stk)
  BY <1>11
<1> HIDE DEF stk
<1>13. StackOK(t, stk)
  BY <1>8, <1>10, <1>11 DEF StackOK, Awaits, States
<1>14. OneFree(t, stk)
  BY <1>10, <1>11, <1>12 DEF OneFree
<1>15. server' = t /\ stack' = stk
  BY <1>3 DEF t, p, stk, f
<1> QED
  BY <1>9, <1>13, <1>14, <1>15 DEF Good
\* The code after a callback of an event's handler, in the state that it left.
LEMMA SingleIs ==
    ASSUME HttpdInv, stack # <<>>, server.aborted = "none", Head(stack).cb \in {"request", "header", "eoh", "body"}
    PROVE  /\ Head(stack).r \in Requests /\ Head(stack) \in Locals /\ Tail(stack) = <<>>
           /\ State(server, Head(stack).r) \in Awaits(Head(stack).cb)
           /\ Busy(server, Head(stack).r)
<1> DEFINE f == Head(stack)
<1>1. /\ Sound(server) /\ stack \in Seq(Frames) /\ OneFree(server, stack)
      /\ \A i \in 1 .. Len(stack) : stack[i].cb \notin Sends \cup {"respond"} => Len(stack) = 1 /\ State(server, stack[i].r) \in Awaits(stack[i].cb)
  BY DEF HttpdInv, Good, StackOK
<1>2. 1 \in 1 .. Len(stack) /\ f = stack[1] /\ f \in Frames
  BY <1>1
<1>3. f.cb \notin Sends \cup {"respond"} /\ f.cb # "connect"
  BY DEF Sends
<1>4. Len(stack) = 1 /\ State(server, f.r) \in Awaits(f.cb)
  BY <1>1, <1>2, <1>3
<1>5. Tail(stack) = <<>>
  <2>1. stack \in Seq(Frames) /\ stack # <<>> /\ Len(stack) = 1
    BY <1>1, <1>4
  <2>2. Tail(stack) \in Seq(Frames) /\ Len(Tail(stack)) = 0
    BY <2>1
  <2> QED
    BY <2>2, EmptySeq
<1>6. \A i \in 1 .. Len(stack) : stack[i] = f
  BY <1>2, <1>4
<1> HIDE DEF f
<1>7. SomeFree(server)
  BY <1>1, <1>3, <1>6 DEF OneFree, SomeFree
<1>8. State(server, f.r) # "FREE"
  BY <1>4 DEF Awaits, f
<1>9. f \in Locals /\ f.r \in Requests
  BY <1>2 DEF Frames, Locals
<1> QED
  BY <1>1, <1>4, <1>5, <1>7, <1>8, <1>9 DEF Busy, f

\* The callback of the request line returns, and the headers are read.
LEMMA RequestReturns ==
    ASSUME HttpdInv, stack # <<>>, server.aborted = "none", NEW r, r = Head(stack).r,
           Head(stack).cb = "request",
           ReadHeaders(Grown(Move(server, r, "LINE", "HEADERS"), r), Head(stack), r, Tail(stack))
    PROVE  Good(server', stack')
<1> DEFINE f == Head(stack)
<1> DEFINE t == Move(server, r, "LINE", "HEADERS")
<1>1. r \in Requests /\ f \in Locals /\ f.r = r /\ Tail(stack) = <<>> /\ State(server, r) = "LINE" /\ Busy(server, r)
  BY SingleIs DEF Awaits
<1>2. ReadHeaders(Grown(t, r), f, r, <<>>)
  BY <1>1
<1>3. t = Move(server, r, State(server, r), "HEADERS")
  BY <1>1
<1>4. ServerOK(server, {}) /\ Covered(server.req[r]) /\ RequestOK(server.req[r])
  BY <1>1 DEF Busy, Sound, ServerOK
<1> HIDE DEF t, f
<1>5. ServerOK(t, {}) /\ Changed(server, t, r) /\ State(t, r) = "HEADERS" /\ Used(t.req[r]) = Used(server.req[r])
      /\ t.req[r].length = server.req[r].length
  BY <1>1, <1>3, <1>4, Moved DEF States
<1>6. Busy(t, r)
  <2>1. Covered(t.req[r])
    BY <1>1, <1>4, <1>5 DEF Covered, State
  <2> QED
    BY <1>1, <1>5, <2>1, BusyAfter
<1>7. Busy(Grown(t, r), r) /\ State(Grown(t, r), r) = "HEADERS"
  BY <1>1, <1>5, <1>6, GrownBusy
<1> QED
  BY <1>1, <1>2, <1>7, ReadHeadersGood

\* The callback of the end of the headers returns, and the body is read.
LEMMA EohReturns ==
    ASSUME HttpdInv, stack # <<>>, server.aborted = "none", NEW r, r = Head(stack).r,
           Head(stack).cb = "eoh",
           ReadBody(Move([server EXCEPT !.req[r].content_seen = 0], r, "HEADERS", "BODY"), Head(stack), r, Tail(stack))
    PROVE  Good(server', stack')
<1> DEFINE f == Head(stack)
<1> DEFINE q == server.req[r]
<1> DEFINE p == [q EXCEPT !.content_seen = 0]
<1> DEFINE s == [server EXCEPT !.req[r] = p]
<1> DEFINE t == Move(s, r, "HEADERS", "BODY")
<1>1. r \in Requests /\ f \in Locals /\ f.r = r /\ Tail(stack) = <<>> /\ State(server, r) = "HEADERS" /\ Busy(server, r)
  BY SingleIs DEF Awaits
<1>2. ReadBody(t, f, r, <<>>)
  BY <1>1
<1>3. RequestOK(q) /\ Covered(q)
  BY <1>1 DEF Busy, Sound, ServerOK
<1>4. Alike(p, q) /\ Covered(p)
  BY <1>3 DEF Alike, RequestOK, Numbered, Used, Covered, RequestFields
<1> HIDE DEF p, q, f
<1>5. Busy(s, r) /\ State(s, r) = "HEADERS"
  BY <1>1, <1>4, BusyPut DEF q
<1> HIDE DEF s
<1>6. t = Move(s, r, State(s, r), "BODY")
  BY <1>5
<1> HIDE DEF t
<1>7. ServerOK(t, {}) /\ Changed(s, t, r) /\ State(t, r) = "BODY"
  BY <1>1, <1>5, <1>6, Moved DEF States, Busy, Sound
<1>8. Busy(t, r)
  BY <1>1, <1>5, <1>7, BusyAfter DEF Covered, State
<1> QED
  BY <1>1, <1>2, <1>7, <1>8, ReadBodyGood

\* A callback returns that leaves its request in any state.
LEMMA PopGood ==
    ASSUME HttpdInv, stack # <<>>, NEW r \in Requests, NEW t, Sound(t), Changed(server, t, r),
           State(server, r) = "FREE" => State(t, r) = "FREE", Head(stack).cb = "connect" => SomeFree(t),
           Return(t, Tail(stack))
    PROVE  Good(server', stack')
<1>1. \A o \in Requests \ {r} : t.req[o] = server.req[o]
  BY DEF Changed
<1>2. Good(t, Tail(stack))
  BY <1>1, GoodPop DEF HttpdInv
<1> QED
  BY <1>2 DEF Return

\* The callback of a connect returns, and the oldest client goes if no request is free.
LEMMA ConnectReturns ==
    ASSUME HttpdInv, stack # <<>>, Head(stack).cb = "connect",
           Return(IF Oldest(server, {"FREE"}) = <<>> THEN sxe_httpd_reap_oldest_connection(server) ELSE server, Tail(stack))
    PROVE  Good(server', stack')
<1>1. Sound(server) /\ ServerOK(server, {})
  BY DEF HttpdInv, Good, Sound
<1>2. CASE Oldest(server, {"FREE"}) = <<>>
  <2> DEFINE r == Reaped(server)
  <2> DEFINE t == sxe_httpd_close(server, r)
  <2>1. r \in Requests
    <3> DEFINE bad == Oldest(server, {"BAD"})
    <3> DEFINE used == Oldest(server, States \ {"FREE"})
    <3>1. \A states : Oldest(server, states) \in Seq(Requests)
      <4> TAKE states
      <4> DEFINE order == server.order
      <4>1. order \in Seq(Requests)
        BY <1>1 DEF ServerOK, OrderOK
      <4> HIDE DEF order
      <4>2. Only(order, {o \in Requests : State(server, o) \in states}) \in Seq(Requests)
        BY <4>1, OnlyIs
      <4> QED
        BY <4>2 DEF Oldest, order
    <3>2. used # <<>>
      <4>1. Requests # {}
        BY RequestsAssumption, FS_EmptySet
      <4>2. PICK o \in Requests : TRUE
        BY <4>1
      <4>3. State(server, o) # "FREE"
        BY <1>1, <1>2, OldestIs
      <4>4. State(server, o) \in States \ {"FREE"}
        BY <1>1, <4>3 DEF ServerOK, RequestOK, State
      <4> QED
        BY <1>1, <4>4, OldestIs
    <3>3. bad \in Seq(Requests) /\ used \in Seq(Requests)
      BY <3>1
    <3>4. r = Head(bad \o used)
      BY DEF Reaped
    <3> HIDE DEF bad, used, r
    <3>5. bad \o used \in Seq(Requests) /\ bad \o used # <<>>
      BY <3>2, <3>3
    <3> QED
      BY <3>4, <3>5
  <2> HIDE DEF r
  <2>2. ServerOK(t, {}) /\ Changed(server, t, r) /\ State(t, r) = "FREE" /\ Own(t.req[r]) = {}
    BY <1>1, <2>1, CloseFrees
  <2>3. Return(t, Tail(stack))
    BY <1>2 DEF sxe_httpd_reap_oldest_connection, r
  <2> HIDE DEF t
  <2>4. Sound(t) /\ SomeFree(t)
    BY <1>1, <2>1, <2>2, SoundAfter DEF Covered, State, SomeFree
  <2> QED
    BY <2>1, <2>2, <2>3, <2>4, PopGood
<1>3. CASE Oldest(server, {"FREE"}) # <<>>
  <2> DEFINE order == server.order
  <2> DEFINE S == {o \in Requests : State(server, o) \in {"FREE"}}
  <2>1. order \in Seq(Requests)
    BY <1>1 DEF ServerOK, OrderOK
  <2> DEFINE list == Only(order, S)
  <2>2. list # <<>>
    BY <1>3 DEF Oldest
  <2> HIDE DEF order, S
  <2>3. list \in Seq(Requests) /\ \A i \in 1 .. Len(list) : list[i] \in S
    BY <2>1, OnlyIs
  <2> HIDE DEF list
  <2>4. 1 \in 1 .. Len(list) /\ list[1] \in S
    BY <2>2, <2>3
  <2>5. list[1] \in Requests /\ State(server, list[1]) = "FREE"
    BY <2>4 DEF S
  <2>6. SomeFree(server)
    BY <2>5 DEF SomeFree
  <2>7. Return(server, Tail(stack))
    BY <1>3
  <2>8. Changed(server, server, list[1])
    BY DEF Changed
  <2> QED
    BY <1>1, <2>5, <2>6, <2>7, <2>8, PopGood
<1> QED
  BY <1>2, <1>3

\* A callback returns, and the code after it runs.
LEMMA CallbackReturnsKeeps ==
    ASSUME HttpdInv, CallbackReturns
    PROVE  Good(server', stack')
<1> DEFINE f == Head(stack)
<1> DEFINE r == f.r
<1> DEFINE rest == Tail(stack)
<1> DEFINE early == EarlyOut(server, r, f.consumed, f.kernel)
<1> DEFINE done == ResponseDone(server, r)
<1> DEFINE drop == DropSent(server, r)
<1> DEFINE file == [drop EXCEPT !.req[r].watch = "read"]
<1>1. stack # <<>> /\ server.aborted = "none"
  BY DEF CallbackReturns
<1>2. /\ f.cb \in Callbacks /\ r \in Requests
      /\ Sound(server) /\ ServerOK(server, {})
  <2>1. stack \in Seq(Frames) /\ Sound(server)
    BY DEF HttpdInv, Good, StackOK
  <2>2. f \in Frames
    BY <1>1, <2>1
  <2> QED
    BY <2>1, <2>2 DEF Frames, Sound
<1>3. \/ f.cb = "connect" /\ Return(IF Oldest(server, {"FREE"}) = <<>> THEN sxe_httpd_reap_oldest_connection(server) ELSE server, rest)
      \/ f.cb = "request" /\ ReadHeaders(Grown(Move(server, r, "LINE", "HEADERS"), r), f, r, rest)
      \/ f.cb = "header" /\ ReadHeaders(server, f, r, rest)
      \/ f.cb = "eoh" /\ ReadBody(Move([server EXCEPT !.req[r].content_seen = 0], r, "HEADERS", "BODY"), f, r, rest)
      \/ f.cb = "body" /\ Body(server, f, r, rest)
      \/ f.cb = "respond" /\ Return(early, rest)
      \/ f.cb = "sent" /\ Return(done, rest)
      \/ f.cb = "sent_part" /\ Return(drop, rest)
      \/ f.cb = "sent_file" /\ Return(file, rest)
  BY <1>2 DEF CallbackReturns, Callbacks
<1>4. CASE f.cb = "connect" /\ Return(IF Oldest(server, {"FREE"}) = <<>> THEN sxe_httpd_reap_oldest_connection(server) ELSE server, rest)
  BY <1>1, <1>4, ConnectReturns
<1>5. CASE f.cb = "request" /\ ReadHeaders(Grown(Move(server, r, "LINE", "HEADERS"), r), f, r, rest)
  BY <1>1, <1>5, RequestReturns
<1>6. CASE f.cb = "header" /\ ReadHeaders(server, f, r, rest)
  <2>1. f \in Locals /\ rest = <<>> /\ State(server, r) = "HEADERS" /\ Busy(server, r)
    BY <1>1, <1>6, SingleIs DEF Awaits
  <2> QED
    BY <1>2, <1>6, <2>1, ReadHeadersGood
<1>7. CASE f.cb = "eoh" /\ ReadBody(Move([server EXCEPT !.req[r].content_seen = 0], r, "HEADERS", "BODY"), f, r, rest)
  BY <1>1, <1>7, EohReturns
<1>8. CASE f.cb = "body" /\ Body(server, f, r, rest)
  <2>1. f \in Locals /\ rest = <<>> /\ State(server, r) = "BODY" /\ Busy(server, r)
    BY <1>1, <1>8, SingleIs DEF Awaits
  <2> QED
    BY <1>2, <1>8, <2>1, BodyGood
<1>9. CASE f.cb = "respond" /\ Return(early, rest)
  <2>1. Kept(server, early, r, {}) /\ Own(early.req[r]) = Own(server.req[r])
    BY <1>2, EarlyOutKept
  <2> HIDE DEF early
  <2>2. Sound(early) /\ Changed(server, early, r) /\ State(early, r) = State(server, r)
    BY <1>2, <2>1, SoundKept
  <2> QED
    BY <1>1, <1>2, <1>9, <2>2, PopGood
<1>10. CASE f.cb = "sent" /\ Return(done, rest)
  <2>1. /\ ServerOK(done, {}) /\ Changed(server, done, r) /\ Own(done.req[r]) = {}
        /\ State(done, r) = IF State(server, r) = "FREE" THEN "FREE" ELSE "IDLE"
    BY <1>2, DoneIs
  <2> HIDE DEF done
  <2>2. Covered(done.req[r])
    BY <2>1 DEF Covered, State
  <2>3. Sound(done)
    BY <1>2, <2>1, <2>2, SoundAfter
  <2> QED
    BY <1>1, <1>2, <1>10, <2>1, <2>3, PopGood
<1>11. Kept(server, drop, r, {}) /\ Own(drop.req[r]) = Own(server.req[r])
  BY <1>2, DropKept
<1>12. CASE f.cb = "sent_part" /\ Return(drop, rest)
  <2> HIDE DEF drop
  <2>1. Sound(drop) /\ Changed(server, drop, r) /\ State(drop, r) = State(server, r)
    BY <1>2, <1>11, SoundKept
  <2> QED
    BY <1>1, <1>2, <1>12, <2>1, PopGood
<1>13. CASE f.cb = "sent_file" /\ Return(file, rest)
  <2> HIDE DEF drop
  <2>1. ServerOK(drop, {})
    BY <1>11 DEF Kept
  <2>2. Kept(drop, file, r, {})
    BY <1>2, <2>1, MarkKept
  <2>3. Own(file.req[r]) = Own(drop.req[r])
    BY <1>2, <2>1 DEF ServerOK, RequestOK, RequestFields, Own
  <2> HIDE DEF file
  <2>4. Kept(server, file, r, {}) /\ Own(file.req[r]) = Own(server.req[r])
    BY <1>11, <2>2, <2>3, KeptTwice
  <2>5. Sound(file) /\ Changed(server, file, r) /\ State(file, r) = State(server, r)
    BY <1>2, <2>4, SoundKept
  <2> QED
    BY <1>1, <1>2, <1>13, <2>5, PopGood
<1> QED
  BY <1>3, <1>4, <1>5, <1>6, <1>7, <1>8, <1>9, <1>10, <1>12, <1>13
-----------------------------------------------------------------------------
(* The application's calls.                                                *)

\* Where the application may make a response call.
LEMMA WritingIs ==
    ASSUME HttpdInv, NEW r \in Requests, NEW call, Writing(r, call)
    PROVE  /\ Good(server, stack) /\ Responding(r) /\ State(server, r) # "FREE" /\ ServerOK(server, {})
           /\ UNCHANGED connects
<1>1. State(server, r) # "FREE"
  BY DEF Writing
<1>2. stack # <<>> => Head(stack).r = r /\ Head(stack).cb \in {"respond", "sent_part", "sent_file"}
  BY DEF Writing, Calling, InCallback
<1>3. Responding(r)
  BY <1>2 DEF Responding, Sends
<1>4. UNCHANGED connects
  BY DEF Writing, Calling
<1> QED
  BY <1>1, <1>3, <1>4 DEF HttpdInv, Good, Sound

\* A response call that only queues.
LEMMA QueueGood ==
    ASSUME HttpdInv, NEW r \in Requests, NEW call, Writing(r, call), NEW t, Kept(server, t, r, {}), Queue(r, t)
    PROVE  Good(server', stack') /\ UNCHANGED connects
<1>1. server' = t /\ UNCHANGED stack
  BY DEF Queue
<1>2. Good(server, stack) /\ State(server, r) # "FREE" /\ UNCHANGED connects
  BY WritingIs
<1>3. Good(server', stack')
  BY <1>1, <1>2, KeptGood
<1> QED
  BY <1>2, <1>3

\* The application's calls that queue buffers.
LEMMA QueueCallsKeep ==
    ASSUME HttpdInv, NEW r \in Requests, CallStart(r) \/ CallHeader(r) \/ CallBody(r) \/ CallRaw(r)
    PROVE  Good(server', stack') /\ UNCHANGED connects
<1>1. ServerOK(server, {})
  BY DEF HttpdInv, Good, Sound
<1>2. CASE CallStart(r)
  <2>1. Writing(r, "start") /\ Queue(r, sxe_httpd_response_start(server, r))
    BY <1>2 DEF CallStart
  <2> QED
    BY <1>1, <2>1, StartKept, QueueGood
<1>3. CASE CallHeader(r)
  <2>1. PICK room \in BOOLEAN : Writing(r, "header") /\ Queue(r, sxe_httpd_response_header(server, r, room))
    BY <1>3 DEF CallHeader
  <2> QED
    BY <1>1, <2>1, HeaderKept, QueueGood
<1>4. CASE CallBody(r)
  <2>1. PICK room \in BOOLEAN :
          \/ \E n \in 1 .. 2 : Queue(r, sxe_httpd_response_copy_body_data(server, r, n, room))
          \/ Queue(r, sxe_httpd_response_add_body_data(server, r, room))
          \/ Queue(r, sxe_httpd_response_add_body_buffer(server, r, room))
    BY <1>4 DEF CallBody
  <2>2. Writing(r, "body")
    BY <1>4 DEF CallBody
  <2>3. CASE \E n \in 1 .. 2 : Queue(r, sxe_httpd_response_copy_body_data(server, r, n, room))
    BY <1>1, <2>2, <2>3, CopyBodyKept, QueueGood
  <2>4. CASE Queue(r, sxe_httpd_response_add_body_data(server, r, room))
    BY <1>1, <2>2, <2>4, AddBodyKept, QueueGood
  <2>5. CASE Queue(r, sxe_httpd_response_add_body_buffer(server, r, room))
    BY <1>1, <2>2, <2>5, AddBodyKept, QueueGood
  <2> QED
    BY <2>1, <2>3, <2>4, <2>5
<1>5. CASE CallRaw(r)
  <2>1. Writing(r, "raw")
    BY <1>5 DEF CallRaw
  <2>2. Queue(r, sxe_httpd_response_copy_raw_data(server, r, 1)) \/ Queue(r, sxe_httpd_response_add_raw_buffer(server, r))
    BY <1>5 DEF CallRaw
  <2>3. Kept(server, sxe_httpd_response_copy_raw_data(server, r, 1), r, {})
        /\ Kept(server, sxe_httpd_response_add_raw_buffer(server, r), r, {})
    BY <1>1, CopyRawKept, AddRawKept
  <2> QED
    BY <2>1, <2>2, <2>3, QueueGood
<1> QED
  BY <1>2, <1>3, <1>4, <1>5

\* The end of a response is sent, when its headers end.
LEMMA EndGood ==
    ASSUME Good(server, stack), NEW r \in Requests, Responding(r), State(server, r) # "FREE",
           NEW s, Kept(server, s, r, {}), NEW room,
           sxe_httpd_response_end(s, r, room) \/ sxe_httpd_response_sendfile(s, r, room)
    PROVE  Good(server', stack')
<1> DEFINE t == EnsureEoh(s, r, room)
<1>1. SendBuffers(t, r, "end") \/ SendBuffers(t, r, "ready") \/ (server' = t /\ UNCHANGED stack)
  BY DEF sxe_httpd_response_end, sxe_httpd_response_sendfile
<1>2. Kept(s, t, r, {})
  BY EnsureKept DEF Kept
<1> HIDE DEF t
<1>3. Kept(server, t, r, {})
  BY <1>2, KeptTwice
<1>4. "end" \in Kinds \ {"none"} /\ "ready" \in Kinds \ {"none"}
  BY DEF Kinds
<1>5. CASE SendBuffers(t, r, "end")
  BY <1>3, <1>4, <1>5, SendBuffersGood
<1>6. CASE SendBuffers(t, r, "ready")
  BY <1>3, <1>4, <1>6, SendBuffersGood
<1>7. CASE server' = t /\ UNCHANGED stack
  BY <1>3, <1>7, KeptGood
<1> QED
  BY <1>1, <1>5, <1>6, <1>7

\* The application's calls that send, or end the response.
LEMMA RespondKeeps ==
    ASSUME HttpdInv, NEW r \in Requests, CallRespond(r)
    PROVE  Good(server', stack') /\ UNCHANGED connects
<1>1. \/ Writing(r, "send") /\ SendBuffers(server, r, "send")
      \/ \E room \in BOOLEAN :
            \/ Writing(r, "end") /\ sxe_httpd_response_end(server, r, room)
            \/ Writing(r, "ready") /\ sxe_httpd_response_sendfile(server, r, room)
  BY DEF CallRespond, sxe_httpd_response_send
<1>2. Good(server, stack) /\ Responding(r) /\ State(server, r) # "FREE" /\ UNCHANGED connects
  BY <1>1, WritingIs
<1>3. Kept(server, server, r, {}) /\ "send" \in Kinds \ {"none"}
  BY <1>2, KeptSelf DEF Good, Sound, Kinds
<1>4. CASE SendBuffers(server, r, "send")
  BY <1>2, <1>3, <1>4, SendBuffersGood
<1>5. CASE \E room \in BOOLEAN : sxe_httpd_response_end(server, r, room) \/ sxe_httpd_response_sendfile(server, r, room)
  BY <1>2, <1>3, <1>5, EndGood
<1> QED
  BY <1>1, <1>2, <1>4, <1>5

\* The handler that responds if the application has none.
LEMMA DefaultKeeps ==
    ASSUME HttpdInv, NEW r \in Requests, sxe_httpd_default_respond_handler(r)
    PROVE  Good(server', stack') /\ UNCHANGED connects
<1>1. PICK room \in BOOLEAN : sxe_httpd_response_end(SimpleHead(server, r, room), r, room)
  BY DEF sxe_httpd_default_respond_handler
<1>2. Responding(r) /\ State(server, r) # "FREE" /\ UNCHANGED connects
  BY DEF sxe_httpd_default_respond_handler, Responding, InCallback
<1>3. Good(server, stack) /\ ServerOK(server, {})
  BY DEF HttpdInv, Good, Sound
<1>4. Kept(server, SimpleHead(server, r, room), r, {})
  BY <1>3, SimpleHeadKept
<1> QED
  BY <1>1, <1>2, <1>3, <1>4, EndGood

\* The application pauses or resumes a request.
LEMMA PauseKeeps ==
    ASSUME HttpdInv, NEW r \in Requests, sxe_httpd_pause(r) \/ sxe_httpd_resume(r)
    PROVE  Good(server', stack') /\ UNCHANGED connects
<1> DEFINE q == server.req[r]
<1> DEFINE p == [q EXCEPT !.paused = TRUE, !.held = TRUE]
<1> DEFINE o == [q EXCEPT !.paused = FALSE]
<1> DEFINE u == sxe_buf_resume(o)
<1>1. Good(server, stack) /\ ServerOK(server, {}) /\ RequestOK(q)
  BY DEF HttpdInv, Good, Sound, ServerOK
<1>2. DOMAIN server = {"req", "order", "free", "leaked", "aborted", "defaults"} /\ DOMAIN server.req = Requests
  BY <1>1 DEF ServerOK
<1>3. Alike(p, q) /\ Used(p) = Used(q) /\ p.length = q.length
  BY <1>1 DEF Alike, RequestOK, Numbered, Used, RequestFields
<1>4. Alike(o, q) /\ Used(o) = Used(q) /\ o.length = q.length
  BY <1>1 DEF Alike, RequestOK, Numbered, Used, RequestFields
<1>5. /\ UNCHANGED <<stack, connects>>
      /\ server' = [server EXCEPT !.req[r] = p] \/ server' = [server EXCEPT !.req[r] = u]
  <2>1. CASE sxe_httpd_pause(r)
    <3>1. server' = [server EXCEPT !.req[r].paused = TRUE, !.req[r].held = TRUE] /\ UNCHANGED <<stack, connects>>
      BY <2>1 DEF sxe_httpd_pause
    <3>2. [server EXCEPT !.req[r].paused = TRUE, !.req[r].held = TRUE] = [server EXCEPT !.req[r] = p]
      BY <1>2
    <3> HIDE DEF p
    <3> QED
      BY <3>1, <3>2
  <2>2. CASE sxe_httpd_resume(r)
    BY <2>2 DEF sxe_httpd_resume, Calling
  <2> QED
    BY <2>1, <2>2
<1> HIDE DEF p, o
<1>6. Alike(u, q) /\ Used(u) = Used(q) /\ u.length = q.length
  BY <1>4, ResumeKeeps DEF Alike
<1> HIDE DEF u
<1>7. ASSUME NEW a, Alike(a, q), Used(a) = Used(q), a.length = q.length, server' = [server EXCEPT !.req[r] = a]
      PROVE  Good(server', stack')
  <2> DEFINE t == [server EXCEPT !.req[r] = a]
  <2>1. Kept(server, t, r, {})
    BY <1>1, <1>7, PutKept
  <2>2. Own(t.req[r]) = Own(q)
    BY <1>2, <1>7 DEF Alike, Own
  <2>3. server' = t /\ UNCHANGED stack
    BY <1>5, <1>7
  <2> HIDE DEF t
  <2> QED
    BY <1>1, <2>1, <2>2, <2>3, KeptGood
<1> HIDE DEF q
<1> QED
  BY <1>3, <1>5, <1>6, <1>7

\* The application closes a request.
LEMMA CallCloseKeeps ==
    ASSUME HttpdInv, NEW r \in Requests, CallClose(r)
    PROVE  Good(server', stack') /\ UNCHANGED connects
<1>1. /\ UNCHANGED <<stack, connects>> /\ server' = sxe_httpd_close(server, r)
      /\ stack # <<>> => Head(stack).cb \in {"connect", "respond", "sent", "sent_part"}
  BY DEF CallClose, Calling, InCallback
<1>2. Good(server, stack) /\ StackOK(server, stack) /\ stack \in Seq(Frames)
  BY DEF HttpdInv, Good, StackOK
<1>3. \A i \in 1 .. Len(stack) : stack[i].cb \in Sends \cup {"respond", "connect"}
  <2>1. CASE stack = <<>>
    BY <2>1
  <2>2. CASE stack # <<>> /\ (Len(stack) > 1 \/ Head(stack).cb \in Sends \cup {"respond"})
    BY <1>2, <2>2, OnlySends
  <2>3. CASE stack # <<>> /\ Len(stack) = 1 /\ Head(stack).cb = "connect"
    <3>1. \A i \in 1 .. Len(stack) : stack[i] = Head(stack)
      BY <1>2, <2>3
    <3> QED
      BY <2>3, <3>1
  <2>4. stack # <<>> => Len(stack) > 1 \/ Len(stack) = 1
    BY <1>2
  <2> QED
    BY <1>1, <2>1, <2>2, <2>3, <2>4 DEF Sends
<1> QED
  BY <1>1, <1>2, <1>3, CloseGood
-----------------------------------------------------------------------------
(* The theorem.                                                            *)

\* The server as sxe_httpd_construct leaves it.
LEMMA InitSound == ASSUME HttpdInit PROVE HttpdInv
<1> DEFINE q == [Fresh(NoScript) EXCEPT !.state = "FREE", !.watch = "off"]
<1>1. /\ DOMAIN server = {"req", "order", "free", "leaked", "aborted", "defaults"}
      /\ server.req = [r \in Requests |-> q] /\ server.order = SetToSeq(Requests)
      /\ server.free = Buffers /\ server.leaked = {} /\ server.aborted = "none"
      /\ stack = <<>> /\ connects = 0
  BY DEF HttpdInit
<1>2. RequestOK(q) /\ q.state = "FREE" /\ Own(q) = {}
  <2>1. /\ DOMAIN q = RequestFields /\ q.out = <<>> /\ q.state = "FREE" /\ q.sending = "none" /\ Numbered(q)
    BY DEF Fresh, RequestFields, Numbered
  <2> HIDE DEF q
  <2> QED
    BY <2>1 DEF RequestOK, OutOK, Own, States, Kinds
<1> HIDE DEF q
<1>3. OrderOK(server.order)
  <2>1. IsFiniteSet(Requests)
    BY RequestsAssumption
  <2>2. SetToSeq(Requests) \in Seq(Requests) /\ \A r \in Requests : \E i \in 1 .. Len(SetToSeq(Requests)) : SetToSeq(Requests)[i] = r
    BY <2>1, SetToSeqIs
  <2> QED
    BY <1>1, <2>2 DEF OrderOK
<1>4. \A r \in Requests : server.req[r] = q
  BY <1>1
<1>5. Accounted(server.free, server.leaked, {}, [r \in Requests |-> Own(server.req[r])])
  BY <1>1, <1>2, <1>4 DEF Accounted
<1>6. ServerOK(server, {})
  BY <1>1, <1>2, <1>3, <1>4, <1>5 DEF ServerOK
<1>7. Sound(server)
  BY <1>1, <1>2, <1>4, <1>6 DEF Sound, Covered
<1>8. SomeFree(server)
  <2>1. Requests # {}
    BY RequestsAssumption, FS_EmptySet
  <2> QED
    BY <1>2, <1>4, <2>1 DEF SomeFree, State
<1> QED
  BY <1>1, <1>7, <1>8, GoodEmpty DEF HttpdInv

\* Every step keeps the invariant.
LEMMA NextKeeps == ASSUME HttpdInv, [HttpdNext]_httpdvars PROVE HttpdInv'
<1>1. CASE sxe_httpd_event_connect
  <2>1. connects' \in Nat
    BY <1>1 DEF sxe_httpd_event_connect, HttpdInv
  <2> QED
    BY <1>1, <2>1, ConnectKeeps DEF HttpdInv
<1>2. CASE CallbackReturns
  <2>1. connects' \in Nat
    BY <1>2 DEF CallbackReturns, HttpdInv
  <2> QED
    BY <1>2, <2>1, CallbackReturnsKeeps DEF HttpdInv
<1>3. ASSUME NEW r \in Requests, Events(r) PROVE HttpdInv'
  <2>1. connects' \in Nat
    BY <1>3 DEF Events, Read, ReadDeferred, sxe_httpd_event_close, Written, HttpdInv
  <2>2. Good(server', stack')
    BY <1>3, ReadKeeps, ReadDeferredKeeps, EventCloseKeeps, WrittenKeeps DEF Events
  <2> QED
    BY <2>1, <2>2 DEF HttpdInv
<1>4. ASSUME NEW r \in Requests, AppCalls(r) PROVE HttpdInv'
  <2>1. Good(server', stack') /\ UNCHANGED connects
    BY <1>4, QueueCallsKeep, RespondKeeps, DefaultKeeps, PauseKeeps, CallCloseKeeps DEF AppCalls
  <2> QED
    BY <2>1 DEF HttpdInv
<1>5. CASE UNCHANGED httpdvars
  BY <1>5 DEF httpdvars, HttpdInv, Good, Sound, StackOK, OneFree, ServerOK, State
<1> QED
  BY <1>1, <1>2, <1>3, <1>4, <1>5 DEF HttpdNext

\* A list has as many of the pool's buffers as it has places for them.
LEMMA OwnCounted ==
    ASSUME NEW q, OutOK(q.out)
    PROVE  Cardinality(Own(q)) = Cardinality({k \in DOMAIN q.out : q.out[k].id # App})
<1> DEFINE out == q.out
<1> DEFINE n == Len(out)
<1> DEFINE K == {k \in DOMAIN out : out[k].id # App}
<1> DEFINE f == [k \in K |-> out[k].id]
<1>1. /\ out \in Seq(Entries) /\ n \in Nat /\ DOMAIN out = 1 .. n
      /\ \A i, j \in 1 .. n : out[i].id = out[j].id => i = j \/ out[i].id = App
  BY DEF OutOK
<1>3. Own(q) = {out[k].id : k \in DOMAIN out} \cap Buffers
  BY DEF Own
<1>0. n = Len(out)
  OBVIOUS
<1> HIDE DEF out, n
<1>2. \A i \in 1 .. n : out[i].id \in Buffers \cup {App}
  <2>1. \A i \in 1 .. n : out[i] \in Entries
    BY <1>1, <1>0
  <2> QED
    BY <2>1 DEF Entries
<1>4. IsFiniteSet(K)
  <2>1. IsFiniteSet(1 .. n) /\ K \subseteq 1 .. n
    BY <1>1, FS_Interval
  <2> QED
    BY <2>1, FS_Subset
<1>5. f \in Injection(K, Own(q))
  <2>1. f \in [K -> Own(q)]
    BY <1>1, <1>2, <1>3
  <2>2. \A a, b \in K : f[a] = f[b] => a = b
    BY <1>1
  <2> HIDE DEF f, K
  <2> QED
    BY <2>1, <2>2 DEF Injection, IsInjective
<1>6. f \in Surjection(K, Own(q))
  <2>1. ASSUME NEW b \in Own(q) PROVE \E k \in K : f[k] = b
    <3>1. PICK k \in DOMAIN out : out[k].id = b
      BY <1>3
    <3>2. b # App
      BY <1>3, BuffersAssumption
    <3> QED
      BY <3>1, <3>2
  <2>2. f \in [K -> Own(q)]
    BY <1>5 DEF Injection
  <2> HIDE DEF f, K
  <2> QED
    BY <2>1, <2>2 DEF Surjection
<1> HIDE DEF f, K
<1>7. ExistsBijection(K, Own(q))
  BY <1>5, <1>6 DEF ExistsBijection, Bijection
<1>8. Cardinality(Own(q)) = Cardinality(K)
  BY <1>4, <1>7, FS_Bijection
<1> QED
  BY <1>8 DEF K, out

\* The invariant says no less than the property.
LEMMA InvSound == ASSUME HttpdInv PROVE HttpdSound
<1> DEFINE own == [r \in Requests |-> Own(server.req[r])]
<1>1. /\ \A r \in Requests : OutOK(server.req[r].out)
      /\ Accounted(server.free, server.leaked, {}, own) /\ server.aborted \in {"none", "bad"}
  BY DEF HttpdInv, Good, Sound, ServerOK, RequestOK
<1>2. \A r \in Requests : own[r] = Own(server.req[r]) /\ own[r] \subseteq Buffers
  BY DEF Own
<1>3. \A r \in Requests : Cardinality(Own(server.req[r])) = Cardinality({k \in DOMAIN server.req[r].out : server.req[r].out[k].id # App})
  BY <1>1, OwnCounted
<1> HIDE DEF own
<1>4. /\ \A r1, r2 \in Requests : r1 # r2 => Own(server.req[r1]) \cap Own(server.req[r2]) = {}
      /\ \A r \in Requests : server.leaked \cap Own(server.req[r]) = {}
  BY <1>1, <1>2 DEF Accounted
<1>5. Buffers \ server.free = server.leaked \cup UNION {Own(server.req[r]) : r \in Requests}
  <2>1. ASSUME NEW b \in Buffers \ server.free
        PROVE  b \in server.leaked \cup UNION {Own(server.req[r]) : r \in Requests}
    <3>1. b \in server.leaked \/ \E r \in Requests : b \in own[r]
      BY <1>1 DEF Accounted
    <3> QED
      BY <1>2, <3>1
  <2>2. ASSUME NEW b \in server.leaked \cup UNION {Own(server.req[r]) : r \in Requests}
        PROVE  b \in Buffers \ server.free
    <3>1. CASE b \in server.leaked
      BY <1>1, <3>1 DEF Accounted
    <3>2. CASE \E r \in Requests : b \in Own(server.req[r])
      BY <1>1, <1>2, <3>2 DEF Accounted
    <3> QED
      BY <3>1, <3>2
  <2> QED
    BY <2>1, <2>2
<1> QED
  BY <1>1, <1>3, <1>4, <1>5 DEF HttpdSound, BuffersAccounted, OnlyErrorResponsesAbort

\* The server's own resources are sound in every run, for any number of requests
\* and buffers, any clients, and any order in which requests are served, paused,
\* answered, reaped and closed (sxe-httpd.c): each buffer is free, on one
\* response, or leaked by a request that was cleared with output queued, and
\* nothing but the move to BAD after an error response aborts.
THEOREM HttpdAlwaysSound == HttpdSpec => []HttpdSound
<1>1. HttpdInit => HttpdInv
  BY InitSound
<1>2. HttpdInv /\ [HttpdNext]_httpdvars => HttpdInv'
  BY NextKeeps
<1>3. HttpdInv => HttpdSound
  BY InvSound
<1> QED
  BY <1>1, <1>2, <1>3, PTL DEF HttpdSpec
=============================================================================
