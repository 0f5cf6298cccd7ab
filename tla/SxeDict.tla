------------------------------- MODULE SxeDict -------------------------------
(***************************************************************************)
(* sxe-dict.c: a dictionary of buckets, each a chain of nodes, which grows *)
(* when a key meets a bucket that is in use and there are as many nodes as *)
(* buckets.  A key is added at the end of its chain whether or not it is   *)
(* there already; a resize takes every chain from its first node on and    *)
(* puts each node before the ones that are in its new bucket.              *)
(*                                                                         *)
(* A caller gives a key and a number of its bytes.  None stands for all of *)
(* a string: sxe_dict_add measures it then, sxe_dict_find does not.  The   *)
(* caller of sxe_dict_add stores a value in the node: here the number of   *)
(* the call.                                                               *)
(***************************************************************************)
EXTENDS Integers, Sequences, FiniteSets
LOCAL INSTANCE SequencesExt

CONSTANTS DictKeys, HashFunc,  \* strings of bytes, and the hash of each
          InitialSizes,        \* the sizes that a dictionary is made with
          MaxAdds              \* bound: keys added

ASSUME DictAssumption == /\ HashFunc \in [DictKeys -> Nat] /\ InitialSizes \subseteq Nat
                         /\ \A key \in DictKeys : \A keyn \in 0 .. Len(key) : SubSeq(key, 1, keyn) \in DictKeys

Load == 100
Growth == 2
NoValue == 0

VARIABLE dict   \* the dictionary, the next value, and the pairs that were added

Buckets(size) == 0 .. (size - 1)

\* No table is allocated for a size of 0.
sxe_dict_new(size) == [size |-> size, count |-> 0, table |-> [b \in Buckets(size) |-> <<>>]]

-----------------------------------------------------------------------------
\* A mutant of Reinsert that takes the place of the bucket's first node.
ReinsertAlone(table, size, node) ==
    [table EXCEPT ![HashFunc[node.key] % size] = <<node>> \o SubSeq(@, 2, Len(@))]

\* sxe_dict_reinsert_when_resizing.
Reinsert(table, size, node) == [table EXCEPT ![HashFunc[node.key] % size] = <<node>> \o @]

\* The nodes in the order in which a walk of the table meets them.
NodesInOrder(d) == FlattenSeq([i \in 1 .. d.size |-> d.table[i - 1]])

sxe_dict_resize(d, newsize) ==
    [d EXCEPT !.size = newsize,
              !.table = FoldLeft(LAMBDA t, node : Reinsert(t, newsize, node),
                                 [b \in Buckets(newsize) |-> <<>>], NodesInOrder(d))]

Allocated(d) == IF d.size = 0 THEN [sxe_dict_new(1) EXCEPT !.count = d.count] ELSE d

Grown(d, key) ==
    IF d.table[HashFunc[key] % d.size] # <<>> /\ (d.count * 100) \div d.size >= Load
    THEN sxe_dict_resize(d, d.size * Growth)
    ELSE d

Bytes(key, keyn) == SubSeq(key, 1, keyn)
Measured(key, keyn) == IF keyn = 0 THEN Len(key) ELSE keyn

sxe_dict_add(d, key, keyn, value) ==
    LET bytes == Bytes(key, Measured(key, keyn))
        g == Grown(Allocated(d), bytes)
    IN [g EXCEPT !.table[HashFunc[bytes] % g.size] = Append(@, [key |-> bytes, value |-> value]),
                 !.count = @ + 1]

\* A length of 0 is that of the empty key, although the comment on keyn says that it
\* is measured.
sxe_dict_find(d, key, keyn) ==
    LET bytes == Bytes(key, keyn) IN
    IF d.size = 0 THEN NoValue
    ELSE LET chain == d.table[HashFunc[bytes] % d.size]
             i == SelectInSeq(chain, LAMBDA node : node.key = bytes)
         IN IF i = 0 THEN NoValue ELSE chain[i].value

\* The nodes that the function is called with, until it says to stop at one of stops.
sxe_dict_forEach(d, stops) ==
    LET all == NodesInOrder(d)
        i == SelectInSeq(all, LAMBDA node : node.value \in stops)
    IN IF i = 0 THEN all ELSE SubSeq(all, 1, i)

-----------------------------------------------------------------------------
Fresh(size) == [d |-> sxe_dict_new(size), next |-> 1, added |-> {}]

DictInit == dict \in {Fresh(size) : size \in InitialSizes}

Add == \E key \in DictKeys : \E keyn \in 0 .. Len(key) :
    /\ dict.next <= MaxAdds
    /\ dict' = [d |-> sxe_dict_add(dict.d, key, keyn, dict.next), next |-> dict.next + 1,
                added |-> dict.added \cup {[key |-> Bytes(key, Measured(key, keyn)), value |-> dict.next]}]

\* sxe_dict_delete, and a new dictionary.
Delete == /\ dict.added # {}
          /\ dict' \in {Fresh(size) : size \in InitialSizes}

DictNext == Add \/ Delete

DictSpec == DictInit /\ [][DictNext]_dict

-----------------------------------------------------------------------------
ValuesOf(key) == {p.value : p \in {q \in dict.added : q.key = key}}

\* Through any number of resizes, and with keys that share buckets or begin with one
\* another, a lookup that gives a key's length finds a value that was added with that
\* key, and nothing when none was; the value, when the key was added once; and a walk
\* meets every pair that was added once, up to the one that it stops at.  Two things that
\* the code says of itself are not so.  A key that is added again is a second pair, of
\* which a lookup finds either as the table grows, where sxe-dict.c:128 and the README
\* of lib-sxe-dict say that its value is returned.  And a lookup with length 0 is one of
\* the empty key, where sxe-dict.c:169 says that the length is measured.
KeysKept ==
    /\ \A key \in DictKeys : \A keyn \in 0 .. Len(key) :
          LET sought == Bytes(key, keyn)
              found == sxe_dict_find(dict.d, key, keyn)
          IN IF ValuesOf(sought) = {} THEN found = NoValue ELSE found \in ValuesOf(sought)
    /\ ToSet(sxe_dict_forEach(dict.d, {})) = dict.added
    /\ dict.d.count = Cardinality(dict.added)
    /\ \A p \in dict.added :
          LET met == sxe_dict_forEach(dict.d, {p.value})
          IN met[Len(met)] = p /\ Cardinality(ToSet(met)) = Len(met)
=============================================================================
