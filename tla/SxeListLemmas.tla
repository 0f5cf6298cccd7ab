---------------------------- MODULE SxeListLemmas ---------------------------
(***************************************************************************)
(* What the operations of sxe-list.c preserve, for any number of nodes and *)
(* of lists.                                                               *)
(***************************************************************************)
EXTENDS SxeList, FiniteSetTheorems, SequenceTheorems, WellFoundedInduction, TLAPS

\* The links and ids without the counts.
ListShape == LinkTypeOK /\ LinksInverse /\ SentinelsLinked /\ IdsConsistent

\* Addresses of nodes, of sentinels and NULL are different, and every list has
\* a sentinel of its own.
LEMMA CellFacts ==
    /\ Nodes \subseteq Cells
    /\ NULL \notin Cells
    /\ \A s \in Lists : Sentinel(s) \in Cells /\ Sentinel(s) \notin Nodes
    /\ \A s, t \in Lists : Sentinel(s) = Sentinel(t) => s = t
    /\ \A c \in Cells : c \in Nodes \/ \E s \in Lists : c = Sentinel(s)
<1> USE NumberAssumption, NListsAssumption DEF Nodes, Lists, NULL, Sentinel, Sentinels, Cells
<1>1. \A c \in Sentinels : -c - 1 \in Lists /\ c = Sentinel(-c - 1)
  OBVIOUS
<1> QED
  BY <1>1

\* Whoever is linked to has a link back, and the cell that follows or precedes
\* a cell of a list is a cell of that list.
LEMMA Neighbours ==
    ASSUME ListShape, NEW c \in Cells, next[c] # NULL
    PROVE  /\ next[c] \in Cells /\ prev[c] \in Cells
           /\ prev[next[c]] = c /\ next[prev[c]] = c
           /\ next[next[c]] # NULL /\ next[prev[c]] # NULL
           /\ id[next[c]] = id[c] /\ id[prev[c]] = id[c]
<1>1. next[c] \in Cells /\ prev[c] \in Cells /\ prev[c] # NULL
  BY CellFacts DEF ListShape, LinkTypeOK, LinksInverse
<1>2. prev[next[c]] = c /\ next[prev[c]] = c
  BY <1>1, CellFacts DEF ListShape, LinksInverse
<1>3. c # NULL
  BY CellFacts
<1> QED
  BY <1>1, <1>2, <1>3, CellFacts DEF ListShape, LinksInverse, IdsConsistent

\* sxe_list_push of a node on no list keeps the links inverse and the ids
\* constant along them.
LEMMA PushShape ==
    ASSUME ListShape, NEW s \in Lists, NEW n \in Nodes, ~Linked(n), sxe_list_push(s, n)
    PROVE  ListShape'
<1> DEFINE S == Sentinel(s)
<1> DEFINE T == prev[S]
<1>1. /\ S \in Cells /\ S \notin Nodes /\ n \in Cells /\ next[S] # NULL /\ id[S] = s
  BY CellFacts DEF ListShape, SentinelsLinked
<1>2. /\ T \in Cells /\ next[T] = S /\ id[T] = s /\ T # n /\ next[n] = NULL /\ prev[n] = NULL
  BY <1>1, Neighbours, CellFacts DEF ListShape, LinksInverse, Linked
<1>3. /\ next' = [next EXCEPT ![n] = S, ![T] = n]
      /\ prev' = [prev EXCEPT ![n] = T, ![S] = n]
      /\ id' = [id EXCEPT ![n] = s]
      /\ length' = [length EXCEPT ![s] = @ + 1]
  BY <1>1 DEF sxe_list_push, TAIL
<1> HIDE DEF S, T
<1>4. LinkTypeOK'
  BY <1>1, <1>2, <1>3 DEF ListShape, LinkTypeOK
<1>5. LinksInverse'
  BY <1>1, <1>2, <1>3, CellFacts DEF ListShape, LinkTypeOK, LinksInverse
<1>6. SentinelsLinked'
  BY <1>1, <1>2, <1>3, CellFacts DEF ListShape, LinkTypeOK, SentinelsLinked
<1>7. IdsConsistent'
  BY <1>1, <1>2, <1>3, CellFacts DEF ListShape, LinkTypeOK, LinksInverse, IdsConsistent
<1> QED
  BY <1>4, <1>5, <1>6, <1>7 DEF ListShape

\* sxe_list_unshift does the same at the other end.
LEMMA UnshiftShape ==
    ASSUME ListShape, NEW s \in Lists, NEW n \in Nodes, ~Linked(n), sxe_list_unshift(s, n)
    PROVE  ListShape'
<1> DEFINE S == Sentinel(s)
<1> DEFINE H == next[S]
<1>1. /\ S \in Cells /\ S \notin Nodes /\ n \in Cells /\ next[S] # NULL /\ id[S] = s
  BY CellFacts DEF ListShape, SentinelsLinked
<1>2. /\ H \in Cells /\ prev[H] = S /\ id[H] = s /\ H # n /\ next[n] = NULL /\ prev[n] = NULL
  BY <1>1, Neighbours, CellFacts DEF ListShape, LinksInverse, Linked
<1>3. /\ prev' = [prev EXCEPT ![n] = S, ![H] = n]
      /\ next' = [next EXCEPT ![n] = H, ![S] = n]
      /\ id' = [id EXCEPT ![n] = s]
      /\ length' = [length EXCEPT ![s] = @ + 1]
  BY <1>1 DEF sxe_list_unshift, HEAD
<1> HIDE DEF S, H
<1>4. LinkTypeOK'
  BY <1>1, <1>2, <1>3 DEF ListShape, LinkTypeOK
<1>5. LinksInverse'
  BY <1>1, <1>2, <1>3, CellFacts DEF ListShape, LinkTypeOK, LinksInverse
<1>6. SentinelsLinked'
  BY <1>1, <1>2, <1>3, CellFacts DEF ListShape, LinkTypeOK, SentinelsLinked
<1>7. IdsConsistent'
  BY <1>1, <1>2, <1>3, CellFacts DEF ListShape, LinkTypeOK, LinksInverse, IdsConsistent
<1> QED
  BY <1>4, <1>5, <1>6, <1>7 DEF ListShape

\* sxe_list_remove of a node from the list it is on joins its neighbours.
LEMMA RemoveShape ==
    ASSUME ListShape, NEW s \in Lists, NEW n \in Nodes, Linked(n), id[n] = s, sxe_list_remove(s, n)
    PROVE  ListShape'
<1> DEFINE A == prev[n]
<1> DEFINE B == next[n]
<1>1. n \in Cells /\ next[n] # NULL
  BY CellFacts DEF Linked
<1>2. /\ A \in Cells /\ B \in Cells /\ next[A] = n /\ prev[B] = n /\ id[A] = s /\ id[B] = s
      /\ next[B] # NULL
  BY <1>1, Neighbours
<1>3. /\ prev' = [prev EXCEPT ![B] = A, ![n] = NULL]
      /\ next' = [next EXCEPT ![A] = B, ![n] = NULL]
      /\ id' = id
      /\ length' = [length EXCEPT ![s] = @ - 1]
  BY DEF sxe_list_remove
<1>4. A = prev[n] /\ B = next[n] /\ (A = n <=> B = n)
  BY <1>1, <1>2
<1> HIDE DEF A, B
<1>5. LinkTypeOK'
  BY <1>1, <1>2, <1>3 DEF ListShape, LinkTypeOK
<1>6. LinksInverse'
  <2> DEFINE nx(c) == IF c = n THEN NULL ELSE IF c = A THEN B ELSE next[c]
  <2> DEFINE pv(c) == IF c = n THEN NULL ELSE IF c = B THEN A ELSE prev[c]
  <2>1. \A c \in Cells : next'[c] = nx(c) /\ prev'[c] = pv(c)
    BY <1>1, <1>2, <1>3 DEF ListShape, LinkTypeOK
  <2>2. \A c \in Cells : /\ next[c] = NULL <=> prev[c] = NULL
                         /\ next[c] # NULL => next[c] \in Cells /\ prev[next[c]] = c
                         /\ prev[c] # NULL => prev[c] \in Cells /\ next[prev[c]] = c
    BY CellFacts DEF ListShape, LinkTypeOK, LinksInverse
  <2>3. \A c \in Cells : nx(c) = NULL <=> pv(c) = NULL
    BY <1>1, <1>2, <1>4, <2>2, CellFacts
  <2>4. \A c \in Cells : nx(c) # NULL => nx(c) \in Cells /\ pv(nx(c)) = c
    BY <1>1, <1>2, <1>4, <2>2, CellFacts
  <2>5. \A c \in Cells : pv(c) # NULL => pv(c) \in Cells /\ nx(pv(c)) = c
    BY <1>1, <1>2, <1>4, <2>2, CellFacts
  <2> HIDE DEF nx, pv
  <2> QED
    BY <2>1, <2>3, <2>4, <2>5 DEF LinksInverse
<1>7. SentinelsLinked'
  BY <1>1, <1>2, <1>3, <1>4, CellFacts DEF ListShape, LinkTypeOK, SentinelsLinked
<1>8. IdsConsistent'
  BY <1>1, <1>2, <1>3, <1>4, CellFacts DEF ListShape, LinkTypeOK, LinksInverse, IdsConsistent
<1> QED
  BY <1>5, <1>6, <1>7, <1>8 DEF ListShape

-----------------------------------------------------------------------------
(* Counting.                                                               *)

LEMMA MembersFinite == \A s \in Lists : IsFiniteSet(Members(s)) /\ Cardinality(Members(s)) \in Nat
<1>1. IsFiniteSet(Nodes)
  BY NumberAssumption, FS_Interval DEF Nodes
<1> QED
  BY <1>1, FS_Subset, FS_CardinalityType DEF Members

\* A node that joins a list adds one to the list's members and changes no
\* other list.
LEMMA Joins ==
    ASSUME ListShape, LengthsCount, NEW s \in Lists, NEW n \in Nodes,
           \A t \in Lists : Members(t)' = IF t = s THEN Members(t) \cup {n} ELSE Members(t),
           n \notin Members(s),
           length' = [length EXCEPT ![s] = @ + 1]
    PROVE  LengthsCount'
<1>1. Cardinality(Members(s) \cup {n}) = Cardinality(Members(s)) + 1
  BY MembersFinite, FS_AddElement
<1>2. \A t \in Lists : length'[t] = IF t = s THEN length[t] + 1 ELSE length[t]
  BY DEF ListShape, LinkTypeOK
<1>3. ASSUME NEW t \in Lists PROVE length'[t] = Cardinality(Members(t)')
  BY <1>1, <1>2 DEF LengthsCount
<1> QED
  BY <1>3 DEF LengthsCount

LEMMA Leaves ==
    ASSUME ListShape, LengthsCount, NEW s \in Lists, NEW n \in Nodes,
           \A t \in Lists : Members(t)' = IF t = s THEN Members(t) \ {n} ELSE Members(t),
           n \in Members(s),
           length' = [length EXCEPT ![s] = @ - 1]
    PROVE  LengthsCount'
<1>1. Cardinality(Members(s) \ {n}) = Cardinality(Members(s)) - 1
  BY MembersFinite, FS_RemoveElement
<1>2. \A t \in Lists : length'[t] = IF t = s THEN length[t] - 1 ELSE length[t]
  BY DEF ListShape, LinkTypeOK
<1>3. ASSUME NEW t \in Lists PROVE length'[t] = Cardinality(Members(t)')
  BY <1>1, <1>2 DEF LengthsCount
<1> QED
  BY <1>3 DEF LengthsCount

\* After a push or an unshift the node is a member of its list, and nothing
\* else changes.
LEMMA AddMembers ==
    ASSUME ListShape, NEW s \in Lists, NEW n \in Nodes, ~Linked(n),
           sxe_list_push(s, n) \/ sxe_list_unshift(s, n)
    PROVE  /\ \A t \in Lists : Members(t)' = IF t = s THEN Members(t) \cup {n} ELSE Members(t)
           /\ n \notin Members(s)
<1> DEFINE S == Sentinel(s)
<1> DEFINE T == prev[S]
<1> DEFINE H == next[S]
<1>1. /\ S \in Cells /\ S \notin Nodes /\ n \in Cells /\ next[S] # NULL /\ id[S] = s
  BY CellFacts DEF ListShape, SentinelsLinked
<1>2. T \in Cells /\ H \in Cells /\ next[T] = S /\ T # n /\ H # n /\ next[T] # NULL
  BY <1>1, Neighbours, CellFacts DEF ListShape, LinksInverse, Linked
<1>3. id' = [id EXCEPT ![n] = s]
  BY <1>1 DEF sxe_list_push, sxe_list_unshift
<1>4. \/ next' = [next EXCEPT ![n] = S, ![T] = n]
      \/ next' = [next EXCEPT ![n] = H, ![S] = n]
  BY DEF sxe_list_push, sxe_list_unshift, TAIL, HEAD
<1> HIDE DEF S, T, H
<1>5. \A c \in Nodes : /\ id'[c] = IF c = n THEN s ELSE id[c]
                       /\ next'[c] # NULL <=> c = n \/ next[c] # NULL
  BY <1>1, <1>2, <1>3, <1>4, CellFacts DEF ListShape, LinkTypeOK
<1>6. n \notin Members(s) /\ next[n] = NULL
  BY DEF Members, Linked
<1>7. ASSUME NEW t \in Lists PROVE Members(t)' = IF t = s THEN Members(t) \cup {n} ELSE Members(t)
  <2>1. \A c : c \in Members(t)' <=> c \in Nodes /\ next'[c] # NULL /\ id'[c] = t
    BY DEF Members
  <2>2. \A c : c \in Members(t) <=> c \in Nodes /\ next[c] # NULL /\ id[c] = t
    BY DEF Members
  <2>3. \A c : c \in Members(t)' <=> c \in Members(t) \/ (t = s /\ c = n)
    BY <1>5, <1>6, <2>1, <2>2
  <2>4. CASE t = s
    BY <2>3, <2>4, Zenon
  <2>5. CASE t # s
    BY <2>3, <2>5, Zenon
  <2> QED
    BY <2>4, <2>5
<1> QED
  BY <1>6, <1>7

LEMMA RemoveMembers ==
    ASSUME ListShape, NEW s \in Lists, NEW n \in Nodes, Linked(n), id[n] = s, sxe_list_remove(s, n)
    PROVE  /\ \A t \in Lists : Members(t)' = IF t = s THEN Members(t) \ {n} ELSE Members(t)
           /\ n \in Members(s)
<1>1. n \in Cells /\ next[n] # NULL
  BY CellFacts DEF Linked
<1>2. prev[n] \in Cells /\ next[n] \in Cells /\ next[prev[n]] = n
  BY <1>1, Neighbours
<1>3. next' = [next EXCEPT ![prev[n]] = next[n], ![n] = NULL] /\ id' = id
  BY DEF sxe_list_remove
<1>4. \A c \in Nodes : next'[c] # NULL <=> c # n /\ next[c] # NULL
  BY <1>1, <1>2, <1>3, CellFacts DEF ListShape, LinkTypeOK
<1>5. ASSUME NEW t \in Lists PROVE Members(t)' = IF t = s THEN Members(t) \ {n} ELSE Members(t)
  BY <1>3, <1>4 DEF Members
<1> QED
  BY <1>1, <1>5 DEF Members

-----------------------------------------------------------------------------
\* sxe_list_push and sxe_list_unshift keep the list invariant.
LEMMA AddPreserves ==
    ASSUME ListInv, NEW s \in Lists, NEW n \in Nodes, ~Linked(n),
           sxe_list_push(s, n) \/ sxe_list_unshift(s, n)
    PROVE  ListInv'
<1>1. ListShape /\ LengthsCount
  BY DEF ListInv, ListShape
<1>2. ListShape'
  BY <1>1, PushShape, UnshiftShape
<1>3. length' = [length EXCEPT ![s] = @ + 1]
  BY DEF sxe_list_push, sxe_list_unshift
<1>4. LengthsCount'
  BY <1>1, <1>3, AddMembers, Joins
<1> QED
  BY <1>2, <1>4 DEF ListInv, ListShape

\* sxe_list_remove keeps it.
LEMMA RemovePreserves ==
    ASSUME ListInv, NEW s \in Lists, NEW n \in Nodes, Linked(n), id[n] = s, sxe_list_remove(s, n)
    PROVE  ListInv'
<1>1. ListShape /\ LengthsCount
  BY DEF ListInv, ListShape
<1>2. ListShape'
  BY <1>1, RemoveShape
<1>3. length' = [length EXCEPT ![s] = @ - 1]
  BY DEF sxe_list_remove
<1>4. LengthsCount'
  BY <1>1, <1>3, RemoveMembers, Leaves
<1> QED
  BY <1>2, <1>4 DEF ListInv, ListShape

\* The head and the tail of a list are nodes of that list or its sentinel.
LEMMA EndsOfLists ==
    ASSUME ListInv, NEW s \in Lists
    PROVE  /\ HEAD(s) \in Cells /\ TAIL(s) \in Cells
           /\ HEAD(s) = Sentinel(s) <=> TAIL(s) = Sentinel(s)
           /\ prev[HEAD(s)] = Sentinel(s) /\ next[TAIL(s)] = Sentinel(s)
           /\ id[HEAD(s)] = s /\ id[TAIL(s)] = s
           /\ HEAD(s) # Sentinel(s) => HEAD(s) \in Nodes /\ Linked(HEAD(s))
           /\ TAIL(s) # Sentinel(s) => TAIL(s) \in Nodes /\ Linked(TAIL(s))
<1>1. ListShape
  BY DEF ListInv, ListShape
<1>2. Sentinel(s) \in Cells /\ next[Sentinel(s)] # NULL /\ id[Sentinel(s)] = s
  BY <1>1, CellFacts DEF ListShape, SentinelsLinked
<1>3. /\ HEAD(s) \in Cells /\ TAIL(s) \in Cells
      /\ prev[HEAD(s)] = Sentinel(s) /\ next[TAIL(s)] = Sentinel(s)
      /\ id[HEAD(s)] = s /\ id[TAIL(s)] = s
      /\ next[HEAD(s)] # NULL /\ next[TAIL(s)] # NULL
  BY <1>1, <1>2, Neighbours, CellFacts DEF HEAD, TAIL
<1>4. HEAD(s) = Sentinel(s) <=> TAIL(s) = Sentinel(s)
  BY <1>2, <1>3 DEF HEAD, TAIL
<1>5. \A t \in Lists : id[Sentinel(t)] = t
  BY <1>1 DEF ListShape, SentinelsLinked
<1> QED
  BY <1>3, <1>4, <1>5, CellFacts DEF Linked

\* The assertions of peek, pop and shift follow from the list invariant.
LEMMA PeekAssertionsHold == ListInv => PeekAssertions
  BY EndsOfLists DEF PeekAssertions

-----------------------------------------------------------------------------
(* The lists as sequences.                                                 *)

\* The cells of a list: the sentinel, the nodes in order, the sentinel again.
CellAt(s, q, i) == IF i \in 1 .. Len(q) THEN q[i] ELSE Sentinel(s)

\* List s holds the nodes of q in the order of q and no others: next leads from
\* its sentinel through all of them and back.
ChainOf(s, q) == /\ q \in Seq(Nodes)
                 /\ \A i, j \in 1 .. Len(q) : q[i] = q[j] => i = j
                 /\ \A i \in 0 .. Len(q) : next[CellAt(s, q, i)] = CellAt(s, q, i + 1)
                 /\ Members(s) = {q[i] : i \in 1 .. Len(q)}

\* Every non-empty set of numbers has a least one.
LEMMA LeastNumber == ASSUME NEW T, T \subseteq Nat, T # {} PROVE \E x \in T : \A y \in T : x <= y
<1>1. PICK x \in T : \A y \in T : ~(<<y, x>> \in OpToRel(<, Nat))
  BY NatLessThanWellFounded, WFMin
<1>2. \A y \in T : ~(y < x)
  BY <1>1 DEF OpToRel
<1> QED
  BY <1>2

\* The sizes of intervals.
LEMMA Intervals ==
    ASSUME NEW n \in Nat
    PROVE  /\ IsFiniteSet(1 .. n) /\ Cardinality(1 .. n) = n
           /\ IsFiniteSet(0 .. n - 1) /\ Cardinality(0 .. n - 1) = n
<1>1. Cardinality(1 .. n) = IF 1 > n THEN 0 ELSE n - 1 + 1
  BY FS_Interval
<1>2. Cardinality(0 .. n - 1) = IF 0 > n - 1 THEN 0 ELSE (n - 1) - 0 + 1
  BY FS_Interval
<1>3. IsFiniteSet(1 .. n) /\ IsFiniteSet(0 .. n - 1)
  BY FS_Interval
<1> QED
  BY <1>1, <1>2, <1>3

\* A walk along next finds the sequence.
LEMMA WalkIsChain == \A s \in Lists : \A q : ChainOf(s, q) => Walk(s) = q
<1> SUFFICES ASSUME NEW s \in Lists, NEW q, ChainOf(s, q) PROVE Walk(s) = q
  OBVIOUS
<1> USE NumberAssumption
<1> DEFINE step(f) == [i \in 0 .. Number |-> IF i = 0 THEN HEAD(s)
                                             ELSE IF f[i - 1] \in Nodes THEN next[f[i - 1]] ELSE f[i - 1]]
<1> DEFINE at == CHOOSE at : at = step(at)
<1> DEFINE f == [i \in 0 .. Number |-> CellAt(s, q, i + 1)]
<1> DEFINE len == Cardinality({i \in 0 .. (Number - 1) : at[i] \in Nodes})
<1>1. Walk(s) = [i \in 1 .. len |-> at[i - 1]]
  BY DEF Walk
<1>2. q \in Seq(Nodes) /\ Len(q) \in Nat /\ Len(q) <= Number /\ q = [i \in 1 .. Len(q) |-> q[i]]
  <2>1. q \in Seq(Nodes)
    BY DEF ChainOf
  <2>2. Cardinality(1 .. Len(q)) = Len(q) /\ IsFiniteSet(Nodes) /\ Cardinality(Nodes) = Number
    <3>1. Len(q) \in Nat
      BY <2>1
    <3> QED
      BY <3>1, Intervals DEF Nodes
  <2>3. q \in Injection(1 .. Len(q), Nodes)
    BY <2>1 DEF ChainOf, Injection, IsInjective
  <2>4. Cardinality(1 .. Len(q)) <= Cardinality(Nodes)
    BY <2>2, <2>3, FS_Injection
  <2> QED
    BY <2>1, <2>2, <2>4
<1>3. \A i \in 0 .. Number : CellAt(s, q, i + 1) \in Nodes <=> i < Len(q)
  BY <1>2, CellFacts DEF CellAt
<1>4. f = step(f)
  <2>1. f[0] = HEAD(s)
    BY <1>2 DEF ChainOf, CellAt, HEAD
  <2>2. ASSUME NEW i \in 0 .. Number, i # 0 
        PROVE f[i] = IF f[i - 1] \in Nodes THEN next[f[i - 1]] ELSE f[i - 1]
    <3>1. f[i] = CellAt(s, q, i + 1) /\ f[i - 1] = CellAt(s, q, i) /\ (f[i - 1] \in Nodes <=> i - 1 < Len(q))
      BY <1>3, <2>2
    <3>2. CASE i - 1 < Len(q)
      BY <1>2, <2>2, <3>1, <3>2 DEF ChainOf
    <3>3. CASE ~(i - 1 < Len(q))
      BY <1>2, <2>2, <3>1, <3>3 DEF CellAt
    <3> QED
      BY <3>2, <3>3
  <2> QED
    BY <2>1, <2>2
<1>5. at = step(at)
  <2> HIDE DEF step
  <2> QED
    BY <1>4
<1>6. \A i \in 0 .. Number : at[i] = f[i]
  <2> DEFINE T == {i \in 0 .. Number : at[i] # f[i]}
  <2> SUFFICES ASSUME T # {} PROVE FALSE
    OBVIOUS
  <2> HIDE DEF at, f
  <2>1. PICK x \in T : \A y \in T : x <= y
    <3>1. T \subseteq Nat
      OBVIOUS
    <3> HIDE DEF T
    <3> QED
      BY <3>1, LeastNumber
  <2>2. x # 0
    BY <1>4, <1>5, <2>1
  <2>3. x - 1 \in 0 .. Number /\ at[x - 1] = f[x - 1]
    BY <2>1, <2>2
  <2>4. at[x] = f[x]
    BY <1>4, <1>5, <2>1, <2>2, <2>3
  <2> QED
    BY <2>1, <2>4
<1> HIDE DEF at
<1>7. len = Len(q)
  <2>1. {i \in 0 .. (Number - 1) : at[i] \in Nodes} = 0 .. Len(q) - 1
    BY <1>2, <1>3, <1>6
  <2> QED
    BY <1>2, <2>1, Intervals
<1> HIDE DEF len
<1>8. \A i \in 1 .. Len(q) : at[i - 1] = q[i]
  BY <1>2, <1>6 DEF CellAt
<1> QED
  BY <1>1, <1>2, <1>7, <1>8

LEMMA WalkIsChainNext == (\A s \in Lists : \A q : ChainOf(s, q) => Walk(s) = q)'
  BY WalkIsChain, PTL

\* The cells of a list are linked, carry its id and are all different.
LEMMA ChainCells ==
    ASSUME ListShape, NEW s \in Lists, NEW q, ChainOf(s, q)
    PROVE  /\ q \in Seq(Nodes) /\ Len(q) \in Nat
           /\ \A i \in 1 .. Len(q) : q[i] \in Nodes /\ q[i] \in Cells /\ next[q[i]] # NULL /\ id[q[i]] = s
           /\ \A i \in Int : /\ CellAt(s, q, i) \in Cells
                             /\ next[CellAt(s, q, i)] # NULL /\ id[CellAt(s, q, i)] = s
           /\ \A i, j \in 0 .. Len(q) : CellAt(s, q, i) = CellAt(s, q, j) => i = j
<1>1. q \in Seq(Nodes) /\ Len(q) \in Nat
  BY DEF ChainOf
<1>2. \A i \in 1 .. Len(q) : q[i] \in Nodes /\ q[i] \in Cells /\ next[q[i]] # NULL /\ id[q[i]] = s
  <2>1. \A i \in 1 .. Len(q) : q[i] \in Members(s)
    BY DEF ChainOf
  <2> QED
    BY <2>1, CellFacts DEF Members
<1>3. Sentinel(s) \in Cells /\ Sentinel(s) \notin Nodes /\ next[Sentinel(s)] # NULL /\ id[Sentinel(s)] = s
  BY CellFacts DEF ListShape, SentinelsLinked
<1>4. \A i \in Int : /\ CellAt(s, q, i) \in Cells
                     /\ next[CellAt(s, q, i)] # NULL /\ id[CellAt(s, q, i)] = s
  BY <1>1, <1>2, <1>3 DEF CellAt
<1>5. \A i, j \in 1 .. Len(q) : q[i] = q[j] => i = j
  BY DEF ChainOf
<1>6. \A i, j \in 0 .. Len(q) : CellAt(s, q, i) = CellAt(s, q, j) => i = j
  BY <1>1, <1>2, <1>3, <1>5 DEF CellAt
<1> QED
  BY <1>1, <1>2, <1>4, <1>6

\* A list is left as it is by what changes no next and no id of its cells.
LEMMA ChainElsewhere ==
    ASSUME ListShape, NEW s \in Lists, NEW q, ChainOf(s, q),
           Members(s)' = Members(s),
           \A c \in Cells : next[c] # NULL /\ id[c] = s => next'[c] = next[c]
    PROVE  ChainOf(s, q)'
<1>1. \A i \in 0 .. Len(q) : next'[CellAt(s, q, i)] = CellAt(s, q, i + 1)
  <2> SUFFICES ASSUME NEW i \in 0 .. Len(q) PROVE next'[CellAt(s, q, i)] = CellAt(s, q, i + 1)
    OBVIOUS
  <2>1. i \in Int
    BY ChainCells
  <2>2. CellAt(s, q, i) \in Cells /\ next[CellAt(s, q, i)] # NULL /\ id[CellAt(s, q, i)] = s
    BY <2>1, ChainCells
  <2>3. next[CellAt(s, q, i)] = CellAt(s, q, i + 1)
    BY DEF ChainOf
  <2> QED
    BY <2>2, <2>3
<1> QED
  BY <1>1 DEF ChainOf, CellAt

\* sxe_list_push adds the node at the end of the sequence.
LEMMA PushChain ==
    ASSUME ListShape, NEW s \in Lists, NEW n \in Nodes, ~Linked(n), sxe_list_push(s, n)
    PROVE  /\ \A q : ChainOf(s, q) => ChainOf(s, Append(q, n))'
           /\ \A t \in Lists \ {s} : \A q : ChainOf(t, q) => ChainOf(t, q)'
<1> DEFINE S == Sentinel(s)
<1> DEFINE T == prev[S]
<1>1. /\ S \in Cells /\ S \notin Nodes /\ n \in Cells /\ next[S] # NULL /\ id[S] = s
  BY CellFacts DEF ListShape, SentinelsLinked
<1>2. /\ T \in Cells /\ next[T] = S /\ id[T] = s /\ T # n /\ next[n] = NULL /\ prev[n] = NULL
  BY <1>1, Neighbours, CellFacts DEF ListShape, LinksInverse, Linked
<1>3. /\ next' = [next EXCEPT ![n] = S, ![T] = n]
      /\ id' = [id EXCEPT ![n] = s]
  BY <1>1 DEF sxe_list_push, TAIL
<1>4. T = prev[S] /\ S = Sentinel(s)
  OBVIOUS
<1> HIDE DEF S, T
<1>5. \A c \in Cells : /\ next'[c] = IF c = T THEN n ELSE IF c = n THEN S ELSE next[c]
                       /\ id'[c] = IF c = n THEN s ELSE id[c]
  BY <1>1, <1>2, <1>3 DEF ListShape, LinkTypeOK
<1>6. \A t \in Lists : Members(t)' = IF t = s THEN Members(t) \cup {n} ELSE Members(t)
  BY <1>1, <1>2, <1>5, CellFacts DEF Members
<1>7. ASSUME NEW t \in Lists \ {s}, NEW q, ChainOf(t, q) PROVE ChainOf(t, q)'
  <2>1. \A c \in Cells : next[c] # NULL /\ id[c] = t => next'[c] = next[c]
    BY <1>2, <1>5
  <2> QED
    BY <1>6, <1>7, <2>1, ChainElsewhere
<1>8. ASSUME NEW q, ChainOf(s, q) PROVE ChainOf(s, Append(q, n))'
  <2> DEFINE r == Append(q, n)
  <2> DEFINE L == Len(q)
  <2>1. /\ q \in Seq(Nodes) /\ L \in Nat
        /\ \A i \in 1 .. L : q[i] \in Cells /\ next[q[i]] # NULL /\ id[q[i]] = s
        /\ \A i \in Int : CellAt(s, q, i) \in Cells /\ next[CellAt(s, q, i)] # NULL
        /\ \A i, j \in 0 .. L : CellAt(s, q, i) = CellAt(s, q, j) => i = j
    BY <1>8, ChainCells
  <2>2. r \in Seq(Nodes) /\ Len(r) = L + 1 /\ \A i \in 1 .. L + 1 : r[i] = IF i = L + 1 THEN n ELSE q[i]
    BY <2>1
  <2>3. \A i, j \in 1 .. L : q[i] = q[j] => i = j
    BY <1>8 DEF ChainOf
  <2>4. \A i \in 0 .. L : next[CellAt(s, q, i)] = CellAt(s, q, i + 1)
    BY <1>8 DEF ChainOf
  <2>5. T = CellAt(s, q, L)
    <3>1. next[CellAt(s, q, L)] = S /\ CellAt(s, q, L) \in Cells
      <4>1. L \in 0 .. L /\ L + 1 \notin 1 .. L /\ L \in Int
        BY <2>1
      <4> QED
        BY <1>4, <2>1, <2>4, <4>1 DEF CellAt
    <3> QED
      BY <1>1, <1>4, <3>1, CellFacts DEF ListShape, LinksInverse
  <2>6. Members(s) = {q[i] : i \in 1 .. L}
    BY <1>8 DEF ChainOf
  <2> HIDE DEF r, L
  <2>7. \A i, j \in 1 .. Len(r) : r[i] = r[j] => i = j
    BY <1>2, <2>1, <2>2, <2>3
  <2>8. Members(s)' = {r[i] : i \in 1 .. Len(r)}
    <3>1. Members(s)' = Members(s) \cup {n}
      BY <1>6
    <3>2. {r[i] : i \in 1 .. Len(r)} = {q[i] : i \in 1 .. L} \cup {n}
      <4>1. L + 1 \in 1 .. L + 1 /\ \A i \in 1 .. L : i \in 1 .. L + 1 /\ i # L + 1
        BY <2>1
      <4>2. \A i \in 1 .. L + 1 : i = L + 1 \/ i \in 1 .. L
        BY <2>1
      <4> QED
        BY <2>2, <4>1, <4>2
    <3> QED
      BY <2>6, <3>1, <3>2
  <2>9. ASSUME NEW i \in 0 .. Len(r) PROVE next'[CellAt(s, r, i)] = CellAt(s, r, i + 1)
    <3>1. CASE i < L
      <4>1. /\ i \in Int /\ i \in 0 .. L /\ L \in 0 .. L /\ i # L
            /\ i + 1 \in 1 .. L /\ i + 1 \in 1 .. Len(r) /\ i + 1 # L + 1
            /\ i \in 1 .. L <=> i \in 1 .. Len(r)
        BY <2>1, <2>2, <3>1
      <4>2. CellAt(s, r, i) = CellAt(s, q, i) /\ CellAt(s, r, i + 1) = CellAt(s, q, i + 1)
        BY <2>2, <4>1 DEF CellAt, L
      <4>3. CellAt(s, q, i) # T /\ CellAt(s, q, i) # n
        BY <1>2, <2>1, <2>5, <4>1
      <4> QED
        BY <1>5, <2>1, <2>4, <4>1, <4>2, <4>3
    <3>2. CASE i = L
      <4>1. /\ i + 1 \in 1 .. Len(r) /\ i + 1 = L + 1
            /\ i \in 1 .. L <=> i \in 1 .. Len(r)
        BY <2>1, <2>2, <3>2
      <4>2. CellAt(s, r, i) = CellAt(s, q, i) /\ CellAt(s, r, i + 1) = n
        BY <2>1, <2>2, <3>2, <4>1 DEF CellAt, L
      <4> QED
        BY <1>2, <1>5, <2>5, <3>2, <4>2
    <3>3. CASE i = L + 1
      <4>1. i \in 1 .. Len(r) /\ i + 1 \notin 1 .. Len(r)
        BY <2>1, <2>2, <3>3
      <4>2. CellAt(s, r, i) = n /\ CellAt(s, r, i + 1) = S
        BY <1>4, <2>2, <3>3, <4>1 DEF CellAt
      <4> QED
        BY <1>1, <1>2, <1>5, <4>2
    <3> QED
      BY <2>1, <2>2, <2>9, <3>1, <3>2, <3>3
  <2>10. ChainOf(s, r)'
    BY <2>2, <2>7, <2>8, <2>9 DEF ChainOf, CellAt
  <2> QED
    BY <2>10 DEF r
<1> QED
  BY <1>7, <1>8

\* sxe_list_unshift adds it at the beginning.
LEMMA UnshiftChain ==
    ASSUME ListShape, NEW s \in Lists, NEW n \in Nodes, ~Linked(n), sxe_list_unshift(s, n)
    PROVE  /\ \A q : ChainOf(s, q) => ChainOf(s, <<n>> \o q)'
           /\ \A t \in Lists \ {s} : \A q : ChainOf(t, q) => ChainOf(t, q)'
<1> DEFINE S == Sentinel(s)
<1> DEFINE H == next[S]
<1>1. /\ S \in Cells /\ S \notin Nodes /\ n \in Cells /\ next[S] # NULL /\ id[S] = s
  BY CellFacts DEF ListShape, SentinelsLinked
<1>2. H \in Cells /\ id[H] = s /\ H # n /\ next[n] = NULL /\ S # n
  BY <1>1, Neighbours, CellFacts DEF ListShape, LinksInverse, Linked
<1>3. /\ next' = [next EXCEPT ![n] = H, ![S] = n]
      /\ id' = [id EXCEPT ![n] = s]
  BY <1>1 DEF sxe_list_unshift, HEAD
<1>4. H = next[S] /\ S = Sentinel(s)
  OBVIOUS
<1> HIDE DEF S, H
<1>5. \A c \in Cells : /\ next'[c] = IF c = S THEN n ELSE IF c = n THEN H ELSE next[c]
                       /\ id'[c] = IF c = n THEN s ELSE id[c]
  BY <1>1, <1>2, <1>3 DEF ListShape, LinkTypeOK
<1>6. \A t \in Lists : Members(t)' = IF t = s THEN Members(t) \cup {n} ELSE Members(t)
  BY <1>1, <1>2, <1>5, CellFacts DEF Members
<1>7. ASSUME NEW t \in Lists \ {s}, NEW q, ChainOf(t, q) PROVE ChainOf(t, q)'
  <2>1. \A c \in Cells : next[c] # NULL /\ id[c] = t => next'[c] = next[c]
    BY <1>1, <1>2, <1>5
  <2> QED
    BY <1>6, <1>7, <2>1, ChainElsewhere
<1>8. ASSUME NEW q, ChainOf(s, q) PROVE ChainOf(s, <<n>> \o q)'
  <2> DEFINE r == <<n>> \o q
  <2> DEFINE L == Len(q)
  <2>1. /\ q \in Seq(Nodes) /\ L \in Nat
        /\ \A i \in 1 .. L : q[i] \in Cells /\ next[q[i]] # NULL /\ id[q[i]] = s
        /\ \A i \in Int : CellAt(s, q, i) \in Cells /\ next[CellAt(s, q, i)] # NULL
        /\ \A i, j \in 0 .. L : CellAt(s, q, i) = CellAt(s, q, j) => i = j
    BY <1>8, ChainCells
  <2>2. r \in Seq(Nodes) /\ Len(r) = L + 1 /\ \A i \in 1 .. L + 1 : r[i] = IF i = 1 THEN n ELSE q[i - 1]
    BY <2>1
  <2>3. \A i, j \in 1 .. L : q[i] = q[j] => i = j
    BY <1>8 DEF ChainOf
  <2>4. \A i \in 0 .. L : next[CellAt(s, q, i)] = CellAt(s, q, i + 1)
    BY <1>8 DEF ChainOf
  <2>5. CellAt(s, q, 0) = S /\ H = CellAt(s, q, 1)
    <3>1. 0 \notin 1 .. L /\ 0 \in 0 .. L
      BY <2>1
    <3> QED
      BY <1>4, <2>4, <3>1 DEF CellAt
  <2>6. Members(s) = {q[i] : i \in 1 .. L}
    BY <1>8 DEF ChainOf
  <2> HIDE DEF r
  <2>7. \A i, j \in 1 .. Len(r) : r[i] = r[j] => i = j
    <3>1. \A i \in 1 .. L : q[i] # n
      BY <1>2, <2>1
    <3>2. \A i \in 1 .. L + 1 : i # 1 => i - 1 \in 1 .. L
      BY <2>1
    <3> SUFFICES ASSUME NEW i \in 1 .. L + 1, NEW j \in 1 .. L + 1, r[i] = r[j] PROVE i = j
      BY <2>2
    <3>3. i \in Int /\ j \in Int
      OBVIOUS
    <3> HIDE DEF L
    <3>4. CASE i = 1 \/ j = 1
      BY <2>2, <3>1, <3>2, <3>4
    <3>5. CASE i # 1 /\ j # 1
      <4>1. q[i - 1] = q[j - 1] /\ i - 1 \in 1 .. L /\ j - 1 \in 1 .. L
        BY <2>2, <3>2, <3>5
      <4>2. i - 1 = j - 1
        BY <2>3, <4>1
      <4> QED
        BY <3>3, <4>2
    <3> QED
      BY <3>4, <3>5
  <2>8. Members(s)' = {r[i] : i \in 1 .. Len(r)}
    <3>1. Members(s)' = Members(s) \cup {n}
      BY <1>6
    <3>2. {r[i] : i \in 1 .. Len(r)} = {q[i] : i \in 1 .. L} \cup {n}
      <4>1. 1 \in 1 .. L + 1 /\ \A i \in 1 .. L : i + 1 \in 1 .. L + 1 /\ r[i + 1] = q[i]
        BY <2>1, <2>2
      <4>2. \A i \in 1 .. L + 1 : i = 1 \/ i - 1 \in 1 .. L
        BY <2>1
      <4> HIDE DEF L
      <4>3. \A i \in 1 .. L + 1 : r[i] \in {q[k] : k \in 1 .. L} \cup {n}
        BY <2>2, <4>2
      <4>4. r[1] = n
        BY <2>2, <4>1
      <4>5. \A k \in 1 .. L : q[k] \in {r[i] : i \in 1 .. Len(r)}
        <5> SUFFICES ASSUME NEW k \in 1 .. L PROVE q[k] \in {r[i] : i \in 1 .. Len(r)}
          OBVIOUS
        <5>1. k + 1 \in 1 .. Len(r) /\ q[k] = r[k + 1]
          BY <2>2, <4>1
        <5> QED
          BY <5>1
      <4>6. n \in {r[i] : i \in 1 .. Len(r)}
        BY <2>2, <4>1, <4>4
      <4> QED
        BY <2>2, <4>3, <4>5, <4>6
    <3> QED
      BY <2>6, <3>1, <3>2
  <2>9. ASSUME NEW i \in 0 .. Len(r) PROVE next'[CellAt(s, r, i)] = CellAt(s, r, i + 1)
    <3>1. CASE i = 0
      <4>1. i \notin 1 .. Len(r) /\ i + 1 \in 1 .. Len(r) /\ i + 1 = 1
        BY <2>1, <2>2, <3>1
      <4>2. CellAt(s, r, i) = S /\ CellAt(s, r, i + 1) = n
        BY <1>4, <2>2, <4>1 DEF CellAt
      <4> QED
        BY <1>1, <1>5, <4>2
    <3>2. CASE i = 1
      <4>1. i \in 1 .. Len(r) /\ (i + 1 \in 1 .. Len(r) <=> 1 \in 1 .. L) /\ (i + 1) - 1 = 1 /\ i + 1 # 1
        BY <2>1, <2>2, <3>2
      <4>2. CellAt(s, r, i) = n /\ CellAt(s, r, i + 1) = CellAt(s, q, 1)
        BY <2>2, <3>2, <4>1 DEF CellAt
      <4> QED
        BY <1>1, <1>2, <1>5, <2>5, <4>2
    <3>3. CASE i > 1
      <4>1. /\ i \in 1 .. Len(r) /\ (i + 1 \in 1 .. Len(r) <=> i \in 1 .. L) /\ (i + 1) - 1 = i /\ i + 1 # 1
            /\ i - 1 \in 1 .. L /\ i # 1 /\ i - 1 \in 0 .. L /\ 0 \in 0 .. L /\ i - 1 # 0 /\ (i - 1) + 1 = i /\ i - 1 \in Int
        BY <2>1, <2>2, <3>3
      <4>2. CellAt(s, r, i) = CellAt(s, q, i - 1) /\ CellAt(s, r, i + 1) = CellAt(s, q, i)
        BY <2>2, <4>1 DEF CellAt
      <4>3. CellAt(s, q, i - 1) # S /\ CellAt(s, q, i - 1) # n /\ CellAt(s, q, i - 1) \in Cells
        BY <1>2, <2>1, <2>5, <4>1
      <4>4. next[CellAt(s, q, i - 1)] = CellAt(s, q, i)
        BY <2>4, <4>1
      <4> QED
        BY <1>5, <4>2, <4>3, <4>4
    <3> QED
      BY <2>1, <2>2, <2>9, <3>1, <3>2, <3>3
  <2>10. ChainOf(s, r)'
    BY <2>2, <2>7, <2>8, <2>9 DEF ChainOf, CellAt
  <2> QED
    BY <2>10 DEF r
<1> QED
  BY <1>7, <1>8

\* r is q without its element at k.
Shortened(q, k, r) == /\ r \in Seq(Nodes) /\ Len(r) = Len(q) - 1
                      /\ \A i \in 1 .. Len(q) - 1 : r[i] = IF i < k THEN q[i] ELSE q[i + 1]

\* sxe_list_remove takes the node out of the sequence, wherever it is.
LEMMA RemoveChain ==
    ASSUME ListShape, NEW s \in Lists, NEW n \in Nodes, Linked(n), id[n] = s, sxe_list_remove(s, n)
    PROVE  /\ \A q : ChainOf(s, q) => \A k \in 1 .. Len(q) : q[k] = n => \A r : Shortened(q, k, r) => ChainOf(s, r)'
           /\ \A t \in Lists \ {s} : \A q : ChainOf(t, q) => ChainOf(t, q)'
<1> DEFINE A == prev[n]
<1> DEFINE B == next[n]
<1>1. n \in Cells /\ next[n] # NULL
  BY CellFacts DEF Linked
<1>2. A \in Cells /\ B \in Cells /\ next[A] = n /\ id[A] = s
  BY <1>1, Neighbours
<1>3. next' = [next EXCEPT ![A] = B, ![n] = NULL] /\ id' = id
  BY DEF sxe_list_remove
<1>4. A = prev[n] /\ B = next[n]
  OBVIOUS
<1> HIDE DEF A, B
<1>5. \A c \in Cells : next'[c] = IF c = n THEN NULL ELSE IF c = A THEN B ELSE next[c]
  BY <1>1, <1>2, <1>3 DEF ListShape, LinkTypeOK
<1>6. \A t \in Lists : Members(t)' = IF t = s THEN Members(t) \ {n} ELSE Members(t)
  <2>1. \A c \in Nodes : next'[c] # NULL <=> c # n /\ next[c] # NULL
    BY <1>1, <1>2, <1>5, CellFacts
  <2> QED
    BY <1>3, <2>1 DEF Members
<1>7. ASSUME NEW t \in Lists \ {s}, NEW q, ChainOf(t, q) PROVE ChainOf(t, q)'
  <2>1. \A c \in Cells : next[c] # NULL /\ id[c] = t => next'[c] = next[c]
    BY <1>2, <1>5
  <2> QED
    BY <1>6, <1>7, <2>1, ChainElsewhere
<1>8. ASSUME NEW q, ChainOf(s, q), NEW k \in 1 .. Len(q), q[k] = n, NEW r, Shortened(q, k, r) PROVE ChainOf(s, r)'
  <2> DEFINE L == Len(q)
  <2>1. /\ q \in Seq(Nodes) /\ L \in Nat /\ k \in 1 .. L
        /\ \A i \in Int : CellAt(s, q, i) \in Cells /\ next[CellAt(s, q, i)] # NULL
        /\ \A i, j \in 0 .. L : CellAt(s, q, i) = CellAt(s, q, j) => i = j
    BY <1>8, ChainCells
  <2>2. r \in Seq(Nodes) /\ Len(r) = L - 1 /\ \A i \in 1 .. L - 1 : r[i] = IF i < k THEN q[i] ELSE q[i + 1]
    BY <1>8 DEF Shortened
  <2>3. \A i, j \in 1 .. L : q[i] = q[j] => i = j
    BY <1>8 DEF ChainOf
  <2>4. \A i \in 0 .. L : next[CellAt(s, q, i)] = CellAt(s, q, i + 1)
    BY <1>8 DEF ChainOf
  <2>5. CellAt(s, q, k) = n /\ CellAt(s, q, k + 1) = B /\ CellAt(s, q, k - 1) = A
    <3>1. CellAt(s, q, k) = n
      BY <1>8 DEF CellAt
    <3>2. k \in 0 .. L /\ k - 1 \in 0 .. L /\ (k - 1) + 1 = k /\ k - 1 \in Int
      BY <2>1
    <3>3. next[CellAt(s, q, k)] = CellAt(s, q, k + 1) /\ next[CellAt(s, q, k - 1)] = CellAt(s, q, k)
      BY <2>4, <3>2
    <3>4. CellAt(s, q, k - 1) \in Cells
      BY <2>1, <3>2
    <3> QED
      BY <1>1, <1>4, <3>1, <3>3, <3>4, CellFacts DEF ListShape, LinksInverse
  <2>6. Members(s) = {q[i] : i \in 1 .. L}
    BY <1>8 DEF ChainOf
  <2>7. \A i \in 0 .. L : CellAt(s, r, i) = IF i < k THEN CellAt(s, q, i) ELSE CellAt(s, q, i + 1)
    <3> SUFFICES ASSUME NEW i \in 0 .. L
                 PROVE  CellAt(s, r, i) = IF i < k THEN CellAt(s, q, i) ELSE CellAt(s, q, i + 1)
      OBVIOUS
    <3>1. CASE i < k
      <4>1. (i \in 1 .. L <=> i \in 1 .. L - 1) /\ i \in Int
        BY <2>1, <3>1
      <4> QED
        BY <2>2, <3>1, <4>1 DEF CellAt
    <3>2. CASE ~(i < k)
      <4>1. (i + 1 \in 1 .. L <=> i \in 1 .. L - 1) /\ i \in Int
        BY <2>1, <3>2
      <4> QED
        BY <2>2, <3>2, <4>1 DEF CellAt
    <3> QED
      BY <3>1, <3>2
  <2>8. q[k] = n
    BY <1>8
  <2> HIDE DEF L
  <2>9. \A i, j \in 1 .. Len(r) : r[i] = r[j] => i = j
    <3> SUFFICES ASSUME NEW i \in 1 .. L - 1, NEW j \in 1 .. L - 1, r[i] = r[j] PROVE i = j
      BY <2>2
    <3>1. i \in 1 .. L /\ i + 1 \in 1 .. L /\ j \in 1 .. L /\ j + 1 \in 1 .. L /\ i \in Int /\ j \in Int /\ k \in Int
      BY <2>1
    <3> QED
      BY <2>2, <2>3, <3>1
  <2>10. Members(s)' = {r[i] : i \in 1 .. Len(r)}
    <3>1. Members(s)' = {q[i] : i \in 1 .. L} \ {n}
      BY <1>6, <2>6
    <3>2. ASSUME NEW i \in 1 .. L - 1 PROVE r[i] \in {q[j] : j \in 1 .. L} \ {n}
      <4>1. i \in 1 .. L /\ i + 1 \in 1 .. L /\ (i < k => i # k) /\ (~(i < k) => i + 1 # k)
        BY <2>1
      <4> QED
        BY <2>1, <2>2, <2>3, <2>8, <4>1
    <3>3. ASSUME NEW j \in 1 .. L, q[j] # n PROVE q[j] \in {r[i] : i \in 1 .. L - 1}
      <4>1. j # k
        BY <2>8, <3>3
      <4>2. CASE j < k
        <5>1. j \in 1 .. L - 1
          BY <2>1, <4>2
        <5> QED
          BY <2>2, <4>2, <5>1
      <4>3. CASE ~(j < k)
        <5>1. j - 1 \in 1 .. L - 1 /\ ~(j - 1 < k) /\ (j - 1) + 1 = j
          BY <2>1, <4>1, <4>3
        <5>2. r[j - 1] = q[j]
          BY <2>2, <5>1
        <5> QED
          BY <5>1, <5>2
      <4> QED
        BY <4>2, <4>3
    <3> QED
      BY <2>2, <3>1, <3>2, <3>3
  <2>11. ASSUME NEW i \in 0 .. Len(r) PROVE next'[CellAt(s, r, i)] = CellAt(s, r, i + 1)
    <3>1. /\ i \in 0 .. L /\ i + 1 \in 0 .. L /\ i \in Int /\ k \in Int /\ L \in Int
      BY <2>1, <2>2
    <3>2. CASE i < k - 1
      <4>1. i < k /\ i + 1 < k /\ i # k /\ i # k - 1 /\ k \in 0 .. L /\ k - 1 \in 0 .. L
        BY <2>1, <3>1, <3>2
      <4>2. CellAt(s, r, i) = CellAt(s, q, i) /\ CellAt(s, r, i + 1) = CellAt(s, q, i + 1)
        BY <2>7, <3>1, <4>1
      <4>3. CellAt(s, q, i) # n /\ CellAt(s, q, i) # A /\ CellAt(s, q, i) \in Cells
        BY <2>1, <2>5, <3>1, <4>1
      <4> QED
        BY <1>5, <2>4, <3>1, <4>2, <4>3
    <3>3. CASE i = k - 1
      <4>1. i < k /\ ~(i + 1 < k) /\ i + 1 = k /\ k \in 0 .. L /\ i # k
        BY <2>1, <3>1, <3>3
      <4>2. CellAt(s, r, i) = A /\ CellAt(s, r, i + 1) = B
        BY <2>5, <2>7, <3>1, <3>3, <4>1
      <4>3. A # n
        BY <2>1, <2>5, <3>1, <3>3, <4>1
      <4> QED
        BY <1>2, <1>5, <4>2, <4>3
    <3>4. CASE i >= k
      <4>1. ~(i < k) /\ ~(i + 1 < k) /\ i + 1 # k /\ i + 1 # k - 1 /\ k \in 0 .. L /\ k - 1 \in 0 .. L /\ i + 1 \in Int
        BY <2>1, <3>1, <3>4
      <4>2. CellAt(s, r, i) = CellAt(s, q, i + 1) /\ CellAt(s, r, i + 1) = CellAt(s, q, (i + 1) + 1)
        BY <2>7, <3>1, <4>1
      <4>3. CellAt(s, q, i + 1) # n /\ CellAt(s, q, i + 1) # A /\ CellAt(s, q, i + 1) \in Cells
        BY <2>1, <2>5, <3>1, <4>1
      <4> QED
        BY <1>5, <2>4, <3>1, <4>2, <4>3
    <3> QED
      BY <3>1, <3>2, <3>3, <3>4
  <2> QED
    BY <2>2, <2>9, <2>10, <2>11 DEF ChainOf, CellAt
<1> QED
  BY <1>7, <1>8

\* The ends of the sequence are the list's head and tail.
LEMMA ChainEnds ==
    ASSUME ListShape, NEW s \in Lists, NEW q, ChainOf(s, q)
    PROVE  /\ HEAD(s) = IF q = <<>> THEN Sentinel(s) ELSE q[1]
           /\ TAIL(s) = IF q = <<>> THEN Sentinel(s) ELSE q[Len(q)]
           /\ HEAD(s) = Sentinel(s) <=> q = <<>>
           /\ TAIL(s) = Sentinel(s) <=> q = <<>>
<1>1. q \in Seq(Nodes) /\ Len(q) \in Nat /\ (q = <<>> <=> Len(q) = 0)
  BY ChainCells
<1>2. \A i \in 0 .. Len(q) : next[CellAt(s, q, i)] = CellAt(s, q, i + 1)
  BY DEF ChainOf
<1>3. Sentinel(s) \in Cells /\ Sentinel(s) \notin Nodes
  BY CellFacts
<1>4. HEAD(s) = CellAt(s, q, 1)
  <2>1. 0 \in 0 .. Len(q) /\ 0 \notin 1 .. Len(q) /\ 0 + 1 = 1
    BY <1>1
  <2>2. CellAt(s, q, 0) = Sentinel(s)
    BY <2>1 DEF CellAt
  <2> QED
    BY <1>2, <2>1, <2>2 DEF HEAD
<1>5. TAIL(s) = CellAt(s, q, Len(q))
  <2>1. Len(q) \in 0 .. Len(q) /\ Len(q) + 1 \notin 1 .. Len(q) /\ Len(q) \in Int
    BY <1>1
  <2>2. CellAt(s, q, Len(q) + 1) = Sentinel(s)
    BY <2>1 DEF CellAt
  <2>3. next[CellAt(s, q, Len(q))] = Sentinel(s) /\ CellAt(s, q, Len(q)) \in Cells
    BY <1>2, <2>1, <2>2, ChainCells
  <2> QED
    BY <1>3, <2>3, CellFacts DEF TAIL, ListShape, LinksInverse
<1>6. q # <<>> => q[1] \in Nodes /\ q[Len(q)] \in Nodes
  BY <1>1
<1> QED
  BY <1>1, <1>3, <1>4, <1>5, <1>6 DEF CellAt

\* What is removed from a sequence: at any place, at its head, at its tail.
LEMMA Shortenings ==
    ASSUME NEW q \in Seq(Nodes), NEW k \in 1 .. Len(q)
    PROVE  /\ Shortened(q, k, SubSeq(q, 1, k - 1) \o SubSeq(q, k + 1, Len(q)))
           /\ Shortened(q, 1, Tail(q))
           /\ Shortened(q, Len(q), SubSeq(q, 1, Len(q) - 1))
<1>1. Shortened(q, 1, Tail(q))
  BY DEF Shortened
<1>2. Shortened(q, Len(q), SubSeq(q, 1, Len(q) - 1))
  <2> DEFINE f == SubSeq(q, 1, Len(q) - 1)
  <2>1. Len(q) \in Nat /\ Len(q) >= 1
    OBVIOUS
  <2>2. f \in Seq(Nodes) /\ Len(f) = Len(q) - 1 /\ \A i \in 1 .. Len(q) - 1 : f[i] = q[i]
    <3>1. Len(q) - 1 \in Int /\ 1 \in Int /\ \A i \in 1 .. Len(q) - 1 : q[i] \in Nodes
      BY <2>1
    <3>2. /\ f \in Seq(Nodes) /\ Len(f) = IF 1 <= Len(q) - 1 THEN (Len(q) - 1) - 1 + 1 ELSE 0
          /\ \A i \in 1 .. (Len(q) - 1) - 1 + 1 : f[i] = q[1 + i - 1]
      BY <3>1, SubSeqProperties
    <3> HIDE DEF f
    <3>3. Len(f) = Len(q) - 1 /\ (Len(q) - 1) - 1 + 1 = Len(q) - 1
      <4> DEFINE top == Len(q) - 1
      <4>1. top \in Nat /\ top - 1 + 1 = top /\ Len(f) = IF 1 <= top THEN top - 1 + 1 ELSE 0
        BY <2>1, <3>2
      <4> HIDE DEF top
      <4>2. Len(f) = top
        BY <4>1
      <4> QED
        BY <4>1, <4>2 DEF top
    <3>4. \A i \in 1 .. Len(q) - 1 : 1 + i - 1 = i
      BY <2>1
    <3> QED
      BY <3>2, <3>3, <3>4
  <2>3. \A i \in 1 .. Len(q) - 1 : i < Len(q)
    BY <2>1
  <2> HIDE DEF f
  <2>4. Shortened(q, Len(q), f)
    BY <2>2, <2>3 DEF Shortened
  <2> QED
    BY <2>4 DEF f
<1>3. Shortened(q, k, SubSeq(q, 1, k - 1) \o SubSeq(q, k + 1, Len(q)))
  <2> DEFINE a == SubSeq(q, 1, k - 1)
  <2> DEFINE b == SubSeq(q, k + 1, Len(q))
  <2>1. a \in Seq(Nodes) /\ Len(a) = k - 1 /\ \A i \in 1 .. k - 1 : a[i] = q[i]
    OBVIOUS
  <2>2. b \in Seq(Nodes) /\ Len(b) = Len(q) - k /\ \A i \in 1 .. Len(q) - k : b[i] = q[k + i]
    OBVIOUS
  <2> HIDE DEF a, b
  <2>3. a \o b \in Seq(Nodes) /\ Len(a \o b) = Len(q) - 1
    <3>1. a \o b \in Seq(Nodes) /\ Len(a \o b) = Len(a) + Len(b)
      BY <2>1, <2>2, ConcatProperties
    <3>2. Len(q) \in Nat /\ k \in Int
      OBVIOUS
    <3> QED
      BY <2>1, <2>2, <3>1, <3>2
  <2>4. \A i \in 1 .. Len(q) - 1 : (a \o b)[i] = IF i < k THEN q[i] ELSE q[i + 1]
    BY <2>1, <2>2
  <2> QED
    BY <2>3, <2>4 DEF Shortened, a, b
<1> QED
  BY <1>1, <1>2, <1>3

\* Every list can be walked: its links are a chain from its sentinel back to
\* it.  ListInv alone would allow a ring of nodes beside the list.
ListsAreChains == \A s \in Lists : \E q : ChainOf(s, q)

\* A chain for every list, before and after a step, is what the walk finds.
LEMMA StepOnChains ==
    ASSUME NEW q, NEW r, \A s \in Lists : ChainOf(s, q[s]), \A s \in Lists : ChainOf(s, r[s])'
    PROVE  /\ ListsAreChains'
           /\ [s \in Lists |-> Walk(s)] = [s \in Lists |-> q[s]]
           /\ [s \in Lists |-> Walk(s)]' = [s \in Lists |-> r[s]]
<1>1. \A s \in Lists : Walk(s) = q[s]
  BY WalkIsChain
<1>2. \A s \in Lists : Walk(s)' = r[s]
  BY WalkIsChainNext
<1>3. ListsAreChains'
  BY DEF ListsAreChains
<1> QED
  BY <1>1, <1>2, <1>3
=============================================================================
