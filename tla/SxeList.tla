------------------------------ MODULE SxeList -------------------------------
(***************************************************************************)
(* lib-sxe-list: doubly linked lists threaded through nodes that live in   *)
(* the objects they link.  A list is a sentinel cell and a length; an      *)
(* object's node carries the id of the list it was last put on.  Cells     *)
(* are addresses: node n is the integer n, the sentinel of list s is       *)
(* -(s + 1), and NULL_REL, the pointer of a node on no list, is Number.    *)
(*                                                                         *)
(* A caller keeps one rule that the code does not check: it adds a node    *)
(* only while that node is on no list.                                     *)
(***************************************************************************)
EXTENDS Integers, FiniteSets, Sequences

CONSTANTS Number,    \* how many nodes there are
          NLists     \* how many lists there are

ASSUME NumberAssumption == Number \in Nat \ {0}
ASSUME NListsAssumption == NLists \in Nat \ {0}

VARIABLES next, prev,    \* the links of every cell
          id,            \* the list id kept in every cell
          length         \* SXE_LIST.length of every list

listvars == <<next, prev, id, length>>

Nodes == 0 .. (Number - 1)
Lists == 0 .. (NLists - 1)
NULL == Number
Sentinel(s) == -(s + 1)
Sentinels == (-NLists) .. (-1)
Cells == Nodes \cup Sentinels

HEAD(s) == next[Sentinel(s)]
TAIL(s) == prev[Sentinel(s)]
Linked(n) == next[n] # NULL

\* What sxe_list_construct leaves: every list empty, every node unlinked.
\* A node on no list yet has an arbitrary id; 0 stands for it.
sxe_list_construct ==
    /\ next = [c \in Cells |-> IF c \in Nodes THEN NULL ELSE c]
    /\ prev = [c \in Cells |-> IF c \in Nodes THEN NULL ELSE c]
    /\ id = [c \in Cells |-> IF c \in Nodes THEN 0 ELSE -c - 1]
    /\ length = [s \in Lists |-> 0]

\* Push with the length update lost: a mutant of sxe_list_push.
PushNoCount(s, n) ==
    /\ next' = [next EXCEPT ![n] = Sentinel(s), ![TAIL(s)] = n]
    /\ prev' = [prev EXCEPT ![n] = TAIL(s), ![Sentinel(s)] = n]
    /\ id' = [id EXCEPT ![n] = id[Sentinel(s)]]
    /\ UNCHANGED length

sxe_list_push(s, n) ==
    /\ next' = [next EXCEPT ![n] = Sentinel(s), ![TAIL(s)] = n]
    /\ prev' = [prev EXCEPT ![n] = TAIL(s), ![Sentinel(s)] = n]
    /\ id' = [id EXCEPT ![n] = id[Sentinel(s)]]
    /\ length' = [length EXCEPT ![s] = @ + 1]

sxe_list_unshift(s, n) ==
    /\ prev' = [prev EXCEPT ![n] = Sentinel(s), ![HEAD(s)] = n]
    /\ next' = [next EXCEPT ![n] = HEAD(s), ![Sentinel(s)] = n]
    /\ id' = [id EXCEPT ![n] = id[Sentinel(s)]]
    /\ length' = [length EXCEPT ![s] = @ + 1]

\* The SXEA1 assertions of sxe_list_remove; the call aborts when one fails.
RemoveAsserts(s, n) ==
    /\ HEAD(s) # Sentinel(s) /\ TAIL(s) # Sentinel(s)
    /\ next[n] # NULL /\ prev[n] # NULL

\* The id of a removed node stays what it was.
sxe_list_remove(s, n) ==
    /\ prev' = [prev EXCEPT ![next[n]] = prev[n], ![n] = NULL]
    /\ next' = [next EXCEPT ![prev[n]] = next[n], ![n] = NULL]
    /\ length' = [length EXCEPT ![s] = @ - 1]
    /\ UNCHANGED id

sxe_list_peek_head(s) == IF HEAD(s) = Sentinel(s) THEN NULL ELSE HEAD(s)
sxe_list_peek_tail(s) == IF TAIL(s) = Sentinel(s) THEN NULL ELSE TAIL(s)

-----------------------------------------------------------------------------
(* The list walker: node is the cell last stepped to, back the one before  *)
(* it, both the sentinel at first.  The operators give the walker after    *)
(* the call; the object returned is the node, or none for the sentinel.    *)

sxe_list_walker_construct(s) == [node |-> Sentinel(s), back |-> Sentinel(s)]

\* Stepping back finds an object only the first time.
sxe_list_walker_back(w, s) ==
    IF w.back # Sentinel(s) THEN [node |-> w.back, back |-> Sentinel(s)] ELSE w

sxe_list_walker_step(w) == [node |-> next[w.node], back |-> w.node]

-----------------------------------------------------------------------------
(* The lists from head to tail, as a walk along next finds them.           *)

Walk(s) ==
    LET at[i \in 0 .. Number] == IF i = 0 THEN HEAD(s)
                                 ELSE IF at[i - 1] \in Nodes THEN next[at[i - 1]]
                                 ELSE at[i - 1]
        len == Cardinality({i \in 0 .. (Number - 1) : at[i] \in Nodes})
    IN [i \in 1 .. len |-> at[i - 1]]

-----------------------------------------------------------------------------
(* Every list has one shape: next and prev are inverse on linked cells, a  *)
(* node is linked both ways or neither, ids are constant along the links,  *)
(* and the length counts the nodes with the list's id.                     *)

LinkTypeOK == /\ next \in [Cells -> Cells \cup {NULL}]
              /\ prev \in [Cells -> Cells \cup {NULL}]
              /\ id \in [Cells -> Lists]
              /\ length \in [Lists -> Int]

LinksInverse == \A c \in Cells : /\ next[c] = NULL <=> prev[c] = NULL
                                 /\ next[c] # NULL => prev[next[c]] = c
                                 /\ prev[c] # NULL => next[prev[c]] = c

SentinelsLinked == \A s \in Lists : /\ next[Sentinel(s)] # NULL
                                    /\ id[Sentinel(s)] = s

IdsConsistent == \A c \in Cells : next[c] # NULL => id[next[c]] = id[c]

Members(s) == {n \in Nodes : next[n] # NULL /\ id[n] = s}

LengthsCount == \A s \in Lists : length[s] = Cardinality(Members(s))

\* The lists' links are inverse, carry the id of their list and are counted
\* by length: what every operation of sxe-list.c relies on.
ListInv == LinkTypeOK /\ LinksInverse /\ SentinelsLinked /\ IdsConsistent /\ LengthsCount

\* The SXEA1 and SXEA6 assertions of peek, pop and shift never fire: the head
\* is the sentinel exactly when the tail is, the head's prev and the tail's
\* next are the sentinel, and both carry the list's id.
PeekAssertions ==
    \A s \in Lists :
        /\ HEAD(s) = Sentinel(s) <=> TAIL(s) = Sentinel(s)
        /\ prev[HEAD(s)] = Sentinel(s) /\ next[TAIL(s)] = Sentinel(s)
        /\ id[HEAD(s)] = s /\ id[TAIL(s)] = s
=============================================================================
