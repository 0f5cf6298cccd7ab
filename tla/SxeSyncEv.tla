----------------------------- MODULE SxeSyncEv ------------------------------
(***************************************************************************)
(* Sync points (sxe-sync-ev.c): the thread of the event loop makes one,    *)
(* gives it to another thread and is told of it when that thread posts it. *)
(* A post sends the address of the sync point to a socket that the loop    *)
(* reads, in a datagram.  Only the thread of the loop makes and deletes    *)
(* sync points, for their pool is unlocked.                                *)
(***************************************************************************)
EXTENDS Naturals, Sequences, FiniteSets, SequencesExt

CONSTANTS Concurrency,          \* sync points in the pool
          Posters,              \* the other threads
          MaxNew,               \* bound: sync points made, each for an owner of its own
          MaxDatagrams          \* datagrams that the socket holds

ASSUME ConcurrencyAssumption == Concurrency \in Nat \ {0}
ASSUME MaxNewAssumption == MaxNew \in Nat /\ MaxDatagrams \in Nat

VARIABLE sync

Owners == 1 .. MaxNew
NoOwner == 0
NoPoint == [at |-> 0, owner |-> NoOwner]

\* sxe_sync_ev_init.  made, deleted and due are history: the owners in order, those
\* whose sync point was deleted, and those that are to hear of a post.
SyncInit == sync = [free |-> [k \in 1 .. Concurrency |-> k], user_data |-> [k \in 1 .. Concurrency |-> NoOwner], sockets |-> 1,
                    datagrams |-> <<>>, has |-> [t \in Posters |-> NoPoint], pc |-> "poll", told |-> NoPoint,
                    aborted |-> FALSE, made |-> 0, deleted |-> {}, due |-> {}]

\* A mutant of Made that keeps the user data of the sync point's last owner.
MadeAsItWas(k, owner) == [sync.user_data EXCEPT ![k] = IF @ = NoOwner THEN owner ELSE @]

Made(k, owner) == [sync.user_data EXCEPT ![k] = owner]

\* The loop's thread makes a sync point and gives it to another thread.
sxe_sync_ev_new(t) ==
    LET owner == sync.made + 1 IN
    /\ sync.has[t] = NoPoint /\ sync.made < MaxNew
    /\ sync' = IF sync.free = <<>> THEN [sync EXCEPT !.aborted = TRUE]
               ELSE LET k == Head(sync.free) IN
                    [sync EXCEPT !.free = Tail(@), !.sockets = @ + 1, !.user_data = Made(k, owner), !.made = owner, !.has[t] = [at |-> k, owner |-> owner]]

\* The datagram goes from the socket of the sync point, which stays open when the point
\* is deleted.  The kernel drops it, and says nothing, when the loop's socket is full.
sxe_sync_ev_post(t) ==
    LET p == sync.has[t]
        fits == Len(sync.datagrams) < MaxDatagrams IN
    /\ p # NoPoint
    /\ \E again \in BOOLEAN :
          sync' = [sync EXCEPT !.datagrams = IF fits THEN Append(@, p) ELSE @,
                               !.due = IF fits /\ p.owner \notin sync.deleted THEN @ \cup {p.owner} ELSE @,
                               !.has[t] = IF again THEN @ ELSE NoPoint]

\* The address is used as it comes; due is settled when the owner that it was posted
\* for is the one that is told.
sxe_sync_ev_read ==
    LET d == Head(sync.datagrams)
        owner == sync.user_data[d.at] IN
    /\ sync.pc \in {"poll", "read"} /\ sync.datagrams # <<>>
    /\ sync' = [sync EXCEPT !.datagrams = Tail(@), !.pc = "callback", !.told = [at |-> d.at, owner |-> owner],
                            !.due = IF owner = d.owner THEN @ \ {owner} ELSE @]

EventReturns == sync.pc = "callback" /\ sync' = [sync EXCEPT !.pc = "read", !.told = NoPoint]

\* The read that would block ends the loop.
WouldBlock == sync.pc = "read" /\ sync.datagrams = <<>> /\ sync' = [sync EXCEPT !.pc = "poll"]

\* The application deletes a sync point once, in the event that it is told.
sxe_sync_ev_delete ==
    LET p == sync.told IN
    /\ sync.pc = "callback" /\ p.owner \notin sync.deleted
    /\ sync' = [sync EXCEPT !.free = Append(@, p.at), !.deleted = @ \cup {p.owner}, !.due = @ \ {p.owner},
                            !.aborted = @ \/ p.at \in ToSet(sync.free)]

SyncLoop == sxe_sync_ev_read \/ EventReturns \/ WouldBlock

SyncNext == /\ ~sync.aborted
            /\ \/ SyncLoop \/ sxe_sync_ev_delete
               \/ \E t \in Posters : sxe_sync_ev_new(t) \/ sxe_sync_ev_post(t)

SyncFairness == WF_sync(~sync.aborted /\ SyncLoop)

SyncSpec == SyncInit /\ [][SyncNext]_sync /\ SyncFairness

-----------------------------------------------------------------------------
\* A post that the socket took is heard by the owner of the sync point, unless the
\* owner has deleted it: datagrams of sync points that had its place before, which are
\* taken for its own, do not keep it from that.  Only a pool that has run out of sync
\* points aborts, never the reuse of a place.
PostsHeard == \A o \in Owners : o \in sync.due ~> o \notin sync.due \/ (sync.aborted /\ sync.free = <<>>)
=============================================================================
