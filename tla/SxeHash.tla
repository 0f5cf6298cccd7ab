------------------------------- MODULE SxeHash -------------------------------
(***************************************************************************)
(* sxe-hash.c and sxe-hash-classic.c: a hash of fixed elements that is a   *)
(* pool (SxePool) with the option SXE_POOL_OPTION_LOCKED.  The buckets are *)
(* states of the pool, next to a state for the unused elements and one for *)
(* the elements that are taken and not yet in a bucket.  The queue of a    *)
(* state is in the order of the stamps (StampsOrdered of SxePool), so an   *)
(* element has a state and a stamp here, and each move and each step of a  *)
(* walk is atomic, as SxePoolAbs and SxePoolWalker have it.  A look walks  *)
(* a bucket (its place is the element met last, the one before it and the  *)
(* stamp of the first), and reads the keys, and later the value, without   *)
(* the lock.  The threads go through the steps of sxe_hash_set,            *)
(* sxe_hash_get and sxe_hash_remove, which the classic hash itself, being  *)
(* unlocked, leaves to one thread.                                         *)
(***************************************************************************)
EXTENDS Integers

CONSTANTS HashThreads, HashKeys, Sum,   \* the hash_key of each key
          Elements,                        \* the number of elements, and of buckets
          MaxSets, MaxGets              \* bounds: calls of sxe_hash_set, and of get and remove

UNUSED == 0          \* SXE_HASH_UNUSED_BUCKET
NEWLY == 1           \* SXE_HASH_NEW_BUCKET
RESERVED == 2        \* SXE_HASH_BUCKETS_RESERVED
Ids == 1 .. Elements
States == 0 .. (Elements + RESERVED - 1)
NotFound == 0        \* SXE_HASH_KEY_NOT_FOUND, SXE_HASH_FULL and the sentinel of a state
NoKey == "none"

ASSUME HashAssumption == Sum \in [HashKeys -> Nat] /\ Elements \in Nat \ {0} /\ NoKey \notin HashKeys

VARIABLE hash

Ready == [todo |-> "ready", key |-> NoKey, id |-> NotFound, back |-> NotFound, last |-> 0, state |-> UNUSED,
          removes |-> FALSE, always |-> FALSE, reentered |-> FALSE, freed |-> FALSE, answer |-> NotFound]

\* History, for each thread: always, whether the key has been in the hash since its look
\* began; reentered, whether the element met last or the one before it was put at the
\* end of the bucket; freed, whether the element met last has left the bucket.  And
\* stolen: an element was given that a thread had taken and not yet added.
HashInit ==
    hash = [state |-> [e \in Ids |-> UNUSED], stamp |-> [e \in Ids |-> e], clock |-> Elements,
            key |-> [e \in Ids |-> NoKey], value |-> [e \in Ids |-> 0],
            thread |-> [t \in HashThreads |-> Ready], sets |-> 0, gets |-> 0, stored |-> {},
            aborted |-> FALSE, stolen |-> FALSE]

Bucket(k) == (Sum[k] % Elements) + RESERVED
Present(h, k) == \E e \in Ids : h.state[e] = Bucket(k) /\ h.key[e] = k

\* The queue of a state, and its head and tail.
Queue(s) == {e \in Ids : hash.state[e] = s}
Oldest(es) == IF es = {} THEN NotFound ELSE CHOOSE e \in es : \A d \in es : hash.stamp[e] <= hash.stamp[d]
Newest(es) == IF es = {} THEN NotFound ELSE CHOOSE e \in es : \A d \in es : hash.stamp[d] <= hash.stamp[e]

\* sxe_pool_set_indexed_element_state_unlocked: to the tail of the new state's queue.
Moved(h, e, new) == [h EXCEPT !.state[e] = new, !.clock = @ + 1, !.stamp[e] = h.clock + 1]

\* What a look that is going on remembers of the step.
Remembers(h, th) ==
    IF th.key = NoKey THEN th
    ELSE [th EXCEPT !.always = @ /\ Present(h, th.key),
                    !.reentered = @ \/ \E e \in {th.id, th.back} \ {NotFound} :
                                           h.state[e] = Bucket(th.key) /\ h.stamp[e] # hash.stamp[e],
                    !.freed = @ \/ (th.id # NotFound /\ h.state[th.id] # Bucket(th.key))]
Watched(h) == [h EXCEPT !.thread = [t \in HashThreads |-> Remembers(h, h.thread[t])]]

HashDoes(t, step) == ~hash.aborted /\ hash.thread[t].todo = step

-----------------------------------------------------------------------------
\* sxe_hash_set: take an element, write its key and value, add it.
sxe_hash_take(t) == \E k \in HashKeys :
    LET e == Oldest(Queue(UNUSED)) IN
    /\ HashDoes(t, "ready") /\ hash.sets < MaxSets /\ e # NotFound
    /\ hash' = Watched([Moved(hash, e, NEWLY) EXCEPT
                           !.sets = @ + 1, !.thread[t] = [Ready EXCEPT !.todo = "fill", !.id = e, !.key = k]])

sxe_hash_set(t) ==
    LET th == hash.thread[t] IN
    /\ HashDoes(t, "fill")
    /\ hash' = Watched([hash EXCEPT !.key[th.id] = th.key, !.value[th.id] = hash.sets,
                                    !.stored = @ \cup {<<th.key, hash.sets>>},
                                    !.thread[t].todo = "add"])

sxe_hash_add(t) ==
    LET e == hash.thread[t].id IN
    /\ HashDoes(t, "add")
    /\ hash' = IF hash.state[e] = NEWLY
               THEN Watched([Moved(hash, e, Bucket(hash.key[e])) EXCEPT !.thread[t] = Ready])
               ELSE [hash EXCEPT !.aborted = TRUE]

-----------------------------------------------------------------------------
\* sxe_hash_get and sxe_hash_remove look the key up.
sxe_hash_get(t) == \E k \in HashKeys, removes \in BOOLEAN :
    /\ HashDoes(t, "ready") /\ hash.gets < MaxGets
    /\ hash' = [hash EXCEPT !.gets = @ + 1,
                            !.thread[t] = [Ready EXCEPT !.todo = "step", !.key = k, !.removes = removes,
                                                          !.always = Present(hash, k)]]

After(bucket, e) == [id |-> Oldest({d \in bucket : hash.stamp[d] > hash.stamp[e]}), back |-> e]

\* A mutant of WalkerStep that ends when the element met last has left the bucket.
WalkerEnds(th) ==
    LET bucket == Queue(Bucket(th.key)) IN
    IF th.id = NotFound THEN [id |-> Oldest(bucket), back |-> NotFound]
    ELSE IF th.id \in bucket THEN After(bucket, th.id)
    ELSE [id |-> NotFound, back |-> NotFound]

\* sxe_pool_walker_step: on from the element met last; or from the one before it, if
\* the last one has left the bucket; or from the first stamped no earlier than it.
WalkerStep(th) ==
    LET bucket == Queue(Bucket(th.key))
        met == {e \in bucket : hash.stamp[e] < th.last}
    IN IF th.id = NotFound THEN [id |-> Oldest(bucket), back |-> NotFound]
       ELSE IF th.id \in bucket THEN After(bucket, th.id)
       ELSE IF th.back \in bucket THEN After(bucket, th.back)
       ELSE [id |-> Oldest(bucket \ met), back |-> Newest(met)]

sxe_hash_look(t) ==
    LET th == hash.thread[t]
        to == WalkerStep(th) IN
    /\ HashDoes(t, "step")
    /\ hash' = [hash EXCEPT !.thread[t] =
                   [th EXCEPT !.id = to.id, !.back = to.back,
                              !.freed = FALSE,
                              !.last = IF to.id = NotFound THEN @ ELSE hash.stamp[to.id],
                              !.todo = IF to.id = NotFound THEN "return" ELSE "compare"]]

Compare(t) ==
    LET th == hash.thread[t] IN
    /\ HashDoes(t, "compare")
    /\ hash' = [hash EXCEPT !.thread[t].todo = IF hash.key[th.id] = th.key THEN "value" ELSE "step"]

Value(t) ==
    LET th == hash.thread[t] IN
    /\ HashDoes(t, "value")
    /\ hash' = [hash EXCEPT !.thread[t] = [@ EXCEPT !.answer = hash.value[th.id],
                                                    !.todo = IF th.removes THEN "state" ELSE "return"]]

\* sxe_hash_give: the element's state is read before the lock is taken.
sxe_hash_give(t) ==
    LET th == hash.thread[t] IN
    /\ HashDoes(t, "state")
    /\ hash' = [hash EXCEPT !.thread[t] = [@ EXCEPT !.state = hash.state[th.id], !.todo = "give"]]

Give(t) ==
    LET th == hash.thread[t] IN
    /\ HashDoes(t, "give")
    /\ hash' = IF hash.state[th.id] = th.state
               THEN Watched([Moved(hash, th.id, UNUSED) EXCEPT !.thread[t].todo = "return",
                                                                !.stolen = @ \/ th.state = NEWLY])
               ELSE [hash EXCEPT !.aborted = TRUE]

Return(t) == /\ HashDoes(t, "return")
             /\ hash' = [hash EXCEPT !.thread[t] = Ready]

HashNext == \E t \in HashThreads :
               \/ sxe_hash_take(t) \/ sxe_hash_set(t) \/ sxe_hash_add(t)
               \/ sxe_hash_get(t) \/ sxe_hash_look(t) \/ Compare(t) \/ Value(t)
               \/ sxe_hash_give(t) \/ Give(t) \/ Return(t)

HashSpec == HashInit /\ [][HashNext]_hash

-----------------------------------------------------------------------------
\* A call that returns nothing had a moment when its key was not in the hash, whatever
\* the other threads added and removed, unless the element met last, or the one before
\* it, was given and added to the same bucket again.  One that returns a value found
\* a value that was stored under its key, unless the element was given meanwhile.  All
\* this until an element is stolen: of two removes of one key, the second gives the
\* element that a third thread has taken since, and still fills.
LooksRight ==
    ~hash.stolen => \A t \in HashThreads :
        LET th == hash.thread[t] IN
        th.todo = "return" =>
            IF th.answer = NotFound THEN th.always => th.reentered
            ELSE <<th.key, th.answer>> \in hash.stored \/ th.freed
=============================================================================
