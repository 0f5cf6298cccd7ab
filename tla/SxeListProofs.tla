---------------------------- MODULE SxeListProofs ---------------------------
(***************************************************************************)
(* The lists stay sound under any sequence of calls, for any number of     *)
(* nodes and of lists.                                                     *)
(***************************************************************************)
EXTENDS SxeListSpec, SxeListLemmas

\* A list just constructed is sound.
LEMMA ConstructSound == sxe_list_construct => ListInv
<1> SUFFICES ASSUME sxe_list_construct PROVE ListInv
  OBVIOUS
<1> USE NumberAssumption, NListsAssumption
<1>1. LinkTypeOK
  BY DEF sxe_list_construct, LinkTypeOK, Cells, Nodes, Sentinels, Lists, NULL
<1>2. LinksInverse
  BY CellFacts DEF sxe_list_construct, LinksInverse
<1>3. SentinelsLinked
  BY CellFacts DEF sxe_list_construct, SentinelsLinked, Sentinel, Lists
<1>4. IdsConsistent
  BY CellFacts DEF sxe_list_construct, IdsConsistent
<1>5. LengthsCount
  <2>1. \A s \in Lists : Members(s) = {}
    BY CellFacts DEF sxe_list_construct, Members
  <2> QED
    BY <2>1, FS_EmptySet DEF sxe_list_construct, LengthsCount
<1> QED
  BY <1>1, <1>2, <1>3, <1>4, <1>5 DEF ListInv

\* Every call of sxe-list.c keeps the links inverse, the ids right and the
\* lengths exact.
THEOREM ListsSound == ListSpec => []ListInv
<1>1. ListInit => ListInv
  BY ConstructSound DEF ListInit
<1>2. ListInv /\ [ListNext]_vars => ListInv'
  <2> SUFFICES ASSUME ListInv, [ListNext]_vars PROVE ListInv'
    OBVIOUS
  <2>1. ASSUME UNCHANGED listvars PROVE ListInv'
    BY <2>1 DEF listvars, ListInv, LinkTypeOK, LinksInverse, SentinelsLinked, IdsConsistent, LengthsCount, Members
  <2>2. ASSUME NEW s \in Lists, PopEmpty(s) \/ ShiftEmpty(s) \/ Peek(s) PROVE ListInv'
    BY <2>1, <2>2 DEF PopEmpty, ShiftEmpty, Peek
  <2>3. ASSUME NEW s \in Lists, Pop(s) PROVE ListInv'
    BY <2>3, EndsOfLists, RemovePreserves DEF Pop
  <2>4. ASSUME NEW s \in Lists, Shift(s) PROVE ListInv'
    BY <2>4, EndsOfLists, RemovePreserves DEF Shift
  <2>5. ASSUME NEW s \in Lists, NEW n \in Nodes, Push(s, n) PROVE ListInv'
    BY <2>5, AddPreserves DEF Push
  <2>6. ASSUME NEW s \in Lists, NEW n \in Nodes, Unshift(s, n) PROVE ListInv'
    BY <2>6, AddPreserves DEF Unshift
  <2>7. ASSUME NEW s \in Lists, NEW n \in Nodes, Remove(s, n) PROVE ListInv'
    BY <2>7, RemovePreserves DEF Remove, RemoveAsserts, Linked
  <2>8. CASE UNCHANGED vars
    BY <2>1, <2>8 DEF vars, listvars
  <2> QED
    BY <2>2, <2>3, <2>4, <2>5, <2>6, <2>7, <2>8 DEF ListNext
<1> QED
  BY <1>1, <1>2, PTL DEF ListSpec

\* No assertion of sxe_list_peek_head, sxe_list_peek_tail, sxe_list_pop or
\* sxe_list_shift ever fires.
THEOREM PeeksSound == ListSpec => []PeekAssertions
  BY ListsSound, PeekAssertionsHold, PTL

-----------------------------------------------------------------------------
(* sxe-list.c implements sequences.                                        *)

\* Each call of sxe-list.c is the abstract call on the sequences.
LEMMA ListStepImplements ==
    ASSUME ListInv, ListsAreChains, [ListNext]_vars
    PROVE  ListsAreChains' /\ [Abs!AbsNext]_Abs!absvars
<1>1. PICK q : q = [s \in Lists |-> Walk(s)]
  OBVIOUS
<1>2. \A s \in Lists : ChainOf(s, q[s]) /\ q[s] \in Seq(Nodes)
  <2> SUFFICES ASSUME NEW s \in Lists PROVE ChainOf(s, q[s]) /\ q[s] \in Seq(Nodes)
    OBVIOUS
  <2>1. PICK p : ChainOf(s, p)
    BY DEF ListsAreChains
  <2>2. q[s] = p
    BY <1>1, <2>1, WalkIsChain
  <2> QED
    BY <2>1, <2>2 DEF ChainOf
<1>3. q = [s \in Lists |-> q[s]]
  BY <1>1
<1>4. ListShape
  BY DEF ListInv, ListShape
<1>5. ASSUME NEW s \in Lists, NEW p, ChainOf(s, p)', \A t \in Lists \ {s} : ChainOf(t, q[t])'
      PROVE  /\ ListsAreChains'
             /\ [t \in Lists |-> Walk(t)]' = [q EXCEPT ![s] = p]
  <2> DEFINE r == [q EXCEPT ![s] = p]
  <2>1. \A t \in Lists : r[t] = IF t = s THEN p ELSE q[t]
    BY <1>3
  <2>2. r = [t \in Lists |-> r[t]]
    BY <1>3
  <2> HIDE DEF r
  <2>3. \A t \in Lists : ChainOf(t, r[t])'
    <3> SUFFICES ASSUME NEW t \in Lists PROVE ChainOf(t, r[t])'
      OBVIOUS
    <3>1. CASE t = s
      BY <1>5, <2>1, <3>1
    <3>2. CASE t # s
      BY <1>5, <2>1, <3>2
    <3> QED
      BY <3>1, <3>2
  <2>4. ListsAreChains' /\ [t \in Lists |-> Walk(t)]' = [t \in Lists |-> r[t]]
    BY <1>2, <2>3, StepOnChains
  <2> QED
    BY <2>2, <2>4 DEF r
<1>6. ASSUME UNCHANGED listvars PROVE ListsAreChains' /\ UNCHANGED [t \in Lists |-> Walk(t)]
  <2>1. \A s \in Lists : ChainOf(s, q[s])'
    BY <1>2, <1>6 DEF listvars, ChainOf, CellAt, Members
  <2> QED
    BY <1>1, <1>2, <1>3, <2>1, StepOnChains
<1>7. ASSUME NEW n \in Nodes, ~Linked(n) PROVE ~\E s \in Lists : n \in Abs!ToSet(q[s])
  <2> SUFFICES ASSUME NEW s \in Lists, n \in Abs!ToSet(q[s]) PROVE FALSE
    OBVIOUS
  <2>1. PICK i \in 1 .. Len(q[s]) : q[s][i] = n
    BY <1>2 DEF Abs!ToSet
  <2> QED
    BY <1>2, <1>4, <1>7, <2>1, ChainCells DEF Linked
<1>8. ASSUME NEW s \in Lists, NEW n \in Nodes, Push(s, n) PROVE ListsAreChains' /\ Abs!AbsNext
  <2>1. ChainOf(s, Append(q[s], n))' /\ \A t \in Lists \ {s} : ChainOf(t, q[t])'
    BY <1>2, <1>4, <1>8, PushChain DEF Push
  <2>2. ListsAreChains' /\ [t \in Lists |-> Walk(t)]' = [q EXCEPT ![s] = Append(q[s], n)]
    BY <1>5, <2>1
  <2>3. Abs!AbsPush(s, n)
    BY <1>1, <1>7, <1>8, <2>2 DEF Abs!AbsPush, Abs!OnList, Abs!Call, Push, Call
  <2> QED
    BY <2>2, <2>3 DEF Abs!AbsNext
<1>9. ASSUME NEW s \in Lists, NEW n \in Nodes, Unshift(s, n) PROVE ListsAreChains' /\ Abs!AbsNext
  <2>1. ChainOf(s, <<n>> \o q[s])' /\ \A t \in Lists \ {s} : ChainOf(t, q[t])'
    BY <1>2, <1>4, <1>9, UnshiftChain DEF Unshift
  <2>2. ListsAreChains' /\ [t \in Lists |-> Walk(t)]' = [q EXCEPT ![s] = <<n>> \o q[s]]
    BY <1>5, <2>1
  <2>3. Abs!AbsUnshift(s, n)
    BY <1>1, <1>7, <1>9, <2>2 DEF Abs!AbsUnshift, Abs!OnList, Abs!Call, Unshift, Call
  <2> QED
    BY <2>2, <2>3 DEF Abs!AbsNext
<1>10. ASSUME NEW s \in Lists, NEW n \in Nodes, Linked(n), id[n] = s, sxe_list_remove(s, n),
              NEW k \in 1 .. Len(q[s]), q[s][k] = n, NEW r, Shortened(q[s], k, r)
       PROVE  ListsAreChains' /\ [t \in Lists |-> Walk(t)]' = [q EXCEPT ![s] = r]
  <2>1. ChainOf(s, r)' /\ \A t \in Lists \ {s} : ChainOf(t, q[t])'
    BY <1>2, <1>4, <1>10, RemoveChain
  <2> QED
    BY <1>5, <2>1
<1>11. ASSUME NEW s \in Lists, NEW n \in Nodes, Remove(s, n) PROVE ListsAreChains' /\ Abs!AbsNext
  <2>1. Linked(n) /\ id[n] = s /\ sxe_list_remove(s, n) /\ ret' = Call("remove", n)
    BY <1>11 DEF Remove, RemoveAsserts, Linked
  <2>2. PICK k \in 1 .. Len(q[s]) : q[s][k] = n
    BY <1>2, <2>1 DEF ChainOf, Members, Linked
  <2> DEFINE r == SubSeq(q[s], 1, k - 1) \o SubSeq(q[s], k + 1, Len(q[s]))
  <2>3. Shortened(q[s], k, r)
    BY <1>2, <2>2, Shortenings
  <2> HIDE DEF r
  <2>4. ListsAreChains' /\ [t \in Lists |-> Walk(t)]' = [q EXCEPT ![s] = r]
    BY <1>10, <2>1, <2>2, <2>3
  <2>5. k \in DOMAIN q[s] /\ Abs!RemoveAt(q[s], k) = r
    BY <1>2, <2>2 DEF Abs!RemoveAt, r
  <2>6. Abs!AbsRemove(s, n)
    BY <1>1, <2>1, <2>2, <2>4, <2>5 DEF Abs!AbsRemove, Abs!Call, Call
  <2> QED
    BY <2>4, <2>6 DEF Abs!AbsNext
<1>12. ASSUME NEW s \in Lists, Shift(s) PROVE ListsAreChains' /\ Abs!AbsNext
  <2>1. HEAD(s) # Sentinel(s) /\ sxe_list_remove(s, HEAD(s)) /\ ret' = Call("shift", HEAD(s))
    BY <1>12 DEF Shift
  <2>2. q[s] # <<>> /\ HEAD(s) = q[s][1] /\ HEAD(s) \in Nodes /\ Linked(HEAD(s)) /\ id[HEAD(s)] = s
    BY <1>2, <1>4, <2>1, ChainEnds, EndsOfLists
  <2>3. 1 \in 1 .. Len(q[s])
    BY <1>2, <2>2
  <2>4. Shortened(q[s], 1, Tail(q[s])) /\ Head(q[s]) = q[s][1]
    BY <1>2, <2>2, <2>3, Shortenings
  <2>5. ListsAreChains' /\ [t \in Lists |-> Walk(t)]' = [q EXCEPT ![s] = Tail(q[s])]
    BY <1>10, <2>1, <2>2, <2>3, <2>4
  <2>6. Abs!AbsShift(s)
    BY <1>1, <2>1, <2>2, <2>4, <2>5 DEF Abs!AbsShift, Abs!Call, Call
  <2> QED
    BY <2>5, <2>6 DEF Abs!AbsNext
<1>13. ASSUME NEW s \in Lists, Pop(s) PROVE ListsAreChains' /\ Abs!AbsNext
  <2>1. TAIL(s) # Sentinel(s) /\ sxe_list_remove(s, TAIL(s)) /\ ret' = Call("pop", TAIL(s))
    BY <1>13 DEF Pop
  <2>2. q[s] # <<>> /\ TAIL(s) = q[s][Len(q[s])] /\ TAIL(s) \in Nodes /\ Linked(TAIL(s)) /\ id[TAIL(s)] = s
    BY <1>2, <1>4, <2>1, ChainEnds, EndsOfLists
  <2>3. Len(q[s]) \in 1 .. Len(q[s])
    BY <1>2, <2>2
  <2>4. Shortened(q[s], Len(q[s]), Abs!Front(q[s])) /\ Abs!Last(q[s]) = q[s][Len(q[s])]
    BY <1>2, <2>3, Shortenings DEF Abs!Front, Abs!Last
  <2>5. ListsAreChains' /\ [t \in Lists |-> Walk(t)]' = [q EXCEPT ![s] = Abs!Front(q[s])]
    BY <1>10, <2>1, <2>2, <2>3, <2>4
  <2>6. Abs!AbsPop(s)
    BY <1>1, <2>1, <2>2, <2>4, <2>5 DEF Abs!AbsPop, Abs!Call, Call
  <2> QED
    BY <2>5, <2>6 DEF Abs!AbsNext
<1>14. ASSUME NEW s \in Lists, PopEmpty(s) \/ ShiftEmpty(s) PROVE ListsAreChains' /\ Abs!AbsNext
  <2>1. q[s] = <<>> /\ ret' \in {Call("pop", NULL), Call("shift", NULL)}
    BY <1>2, <1>4, <1>14, ChainEnds DEF PopEmpty, ShiftEmpty
  <2>2. ListsAreChains' /\ UNCHANGED [t \in Lists |-> Walk(t)]
    BY <1>6, <1>14 DEF PopEmpty, ShiftEmpty
  <2>3. Abs!AbsEmpty(s)
    BY <1>1, <2>1, <2>2 DEF Abs!AbsEmpty, Abs!Call, Call
  <2> QED
    BY <2>2, <2>3 DEF Abs!AbsNext
<1>15. ASSUME NEW s \in Lists, Peek(s) PROVE ListsAreChains' /\ Abs!AbsNext
  <2>1. ret' \in {Call("peek_head", sxe_list_peek_head(s)), Call("peek_tail", sxe_list_peek_tail(s))}
    BY <1>15 DEF Peek
  <2>2. ListsAreChains' /\ UNCHANGED [t \in Lists |-> Walk(t)]
    BY <1>6, <1>15 DEF Peek
  <2>3. CASE q[s] = <<>>
    <3>1. sxe_list_peek_head(s) = NULL /\ sxe_list_peek_tail(s) = NULL
      BY <1>2, <1>4, <2>3, ChainEnds DEF sxe_list_peek_head, sxe_list_peek_tail
    <3>2. Abs!AbsEmpty(s)
      BY <1>1, <2>1, <2>2, <2>3, <3>1 DEF Abs!AbsEmpty, Abs!Call, Call
    <3> QED
      BY <2>2, <3>2 DEF Abs!AbsNext
  <2>4. CASE q[s] # <<>>
    <3>1. sxe_list_peek_head(s) = q[s][1] /\ sxe_list_peek_tail(s) = q[s][Len(q[s])]
      BY <1>2, <1>4, <2>4, ChainEnds DEF sxe_list_peek_head, sxe_list_peek_tail
    <3>2. Head(q[s]) = q[s][1] /\ Abs!Last(q[s]) = q[s][Len(q[s])]
      BY <1>2, <2>4 DEF Abs!Last
    <3>3. Abs!AbsPeek(s)
      BY <1>1, <2>1, <2>2, <2>4, <3>1, <3>2 DEF Abs!AbsPeek, Abs!Call, Call
    <3> QED
      BY <2>2, <3>3 DEF Abs!AbsNext
  <2> QED
    BY <2>3, <2>4
<1>16. CASE UNCHANGED vars
  BY <1>6, <1>16 DEF vars, listvars, Abs!absvars
<1> QED
  BY <1>8, <1>9, <1>11, <1>12, <1>13, <1>14, <1>15, <1>16 DEF ListNext

\* The pointer manipulation of sxe-list.c implements sequences of objects, for
\* any number of lists and objects: each call changes and returns what the
\* abstract list does.
THEOREM ListImplementsSequences == ListSpec => AbsListSpec
<1>1. ListInit => ListsAreChains /\ Abs!AbsInit
  <2> SUFFICES ASSUME ListInit PROVE ListsAreChains /\ Abs!AbsInit
    OBVIOUS
  <2>1. ASSUME NEW s \in Lists PROVE ChainOf(s, <<>>)
    <3>1. <<>> \in Seq(Nodes) /\ Len(<<>>) = 0 /\ \A i : ~(i \in 1 .. 0)
      OBVIOUS
    <3>2. next[Sentinel(s)] = Sentinel(s) /\ Members(s) = {}
      BY CellFacts DEF ListInit, sxe_list_construct, Members
    <3>3. \A i \in 0 .. 0 : next[CellAt(s, <<>>, i)] = CellAt(s, <<>>, i + 1)
      BY <3>1, <3>2 DEF CellAt
    <3>4. Members(s) = {<<>>[i] : i \in 1 .. 0}
      BY <3>1, <3>2
    <3> QED
      BY <3>1, <3>3, <3>4 DEF ChainOf
  <2>2. \A s \in Lists : Walk(s) = <<>>
    BY <2>1, WalkIsChain
  <2> QED
    BY <2>1, <2>2 DEF ListsAreChains, Abs!AbsInit, ListInit, Abs!Call, Call
<1>2. ListInv /\ ListsAreChains /\ [ListNext]_vars => ListsAreChains' /\ [Abs!AbsNext]_Abs!absvars
  BY ListStepImplements
<1> QED
  BY <1>1, <1>2, ListsSound, PTL DEF ListSpec, AbsListSpec, Abs!AbsSpec
=============================================================================
