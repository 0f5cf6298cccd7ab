--------------------------- MODULE SxeCdbEnsemble ---------------------------
(***************************************************************************)
(* lib-sxe-cdb, ensembles: instances with a lock for each place, used by   *)
(* threads, rebooted, and swapped with those of another ensemble.  A call  *)
(* finds the instance of its key's place before it takes the place's lock. *)
(* What happens inside an instance is SxeCdb; here it only takes a while.  *)
(* The spinlocks are tried until they are taken.                           *)
(***************************************************************************)
EXTENDS Integers, FiniteSets

CONSTANTS CdbThreads,      \* threads
          Places,          \* 1 .. cdb_count
          Swaps,           \* pairs of ensembles that threads swap
          MaxCalls         \* bound: calls of each thread

VARIABLE ensemble

Ensembles == {"this", "that"}
Nobody == "nobody"

\* An ensemble has an instance: a key's place is its hash modulo their number.
ASSUME PlacesAssumption == IsFiniteSet(Places) /\ Places # {} /\ Places = 1 .. Cardinality(Places)
ASSUME CdbThreadsAssumption == Nobody \notin CdbThreads
ASSUME MaxCallsAssumption == MaxCalls \in Nat
ASSUME SwapsAssumption == Swaps \subseteq Ensembles \X Ensembles

Idle == [pc |-> "idle", op |-> "none", e |-> "this", other |-> "that", i |-> 1, instance |-> <<"this", 1>>, left |-> MaxCalls]

\* An instance is named for the place where it was made.
EnsembleInit ==
    ensemble = [instances |-> [e \in Ensembles |-> [i \in Places |-> <<e, i>>]],
                locks |-> [e \in Ensembles |-> [i \in Places |-> Nobody]],
                lock |-> Nobody,
                threads |-> [t \in CdbThreads |-> Idle]]

Thread(t) == ensemble.threads[t]
Doing(t, pc) == Thread(t).pc = pc
LockFree(e, i) == ensemble.locks[e][i] = Nobody
Becomes(t, new) == ensemble' = [ensemble EXCEPT !.threads[t] = new]
Begun(t, op) == [Thread(t) EXCEPT !.op = op, !.i = 1, !.left = @ - 1]
Begins(t) == Doing(t, "idle") /\ Thread(t).left > 0
Stops(t) == [Idle EXCEPT !.left = Thread(t).left]

-----------------------------------------------------------------------------
(* Calls that use one instance.  A key's hash, or a uid, gives the place.  *)

FindInstance(t, op) ==
    /\ Begins(t)
    /\ \E e \in Ensembles, i \in Places :
          Becomes(t, [Begun(t, op) EXCEPT !.pc = "lock", !.e = e, !.i = i, !.instance = ensemble.instances[e][i]])

\* sxe_cdb_ensemble_get_uid_hkv, _set_uid_hkv, _put_val, _inc and _get_uid.
UseInstance(t) == FindInstance(t, "use")

\* sxe_cdb_ensemble_get_hkv_raw_locked and _get_uid_hkv_raw_locked, which return
\* with the lock.
RawLocked(t) == FindInstance(t, "raw")

TakeInstanceLock(t) ==
    LET c == Thread(t) IN
    /\ Doing(t, "lock") /\ c.op \in {"use", "raw"} /\ LockFree(c.e, c.i)
    /\ ensemble' = [ensemble EXCEPT !.locks[c.e][c.i] = t, !.threads[t].pc = "in"]

Unlock1(t) ==
    LET c == Thread(t) IN ensemble' = [ensemble EXCEPT !.locks[c.e][c.i] = Nobody, !.threads[t] = Stops(t)]

InstanceUnlock(t) == Doing(t, "in") /\ Thread(t).op = "use" /\ Unlock1(t)

\* sxe_cdb_ensemble_get_hkv_raw_unlock and _get_uid_hkv_raw_unlock, with the same
\* key or uid: what the caller must do before it prepares another.
RawUnlock(t) == Doing(t, "in") /\ Thread(t).op = "raw" /\ Unlock1(t)

-----------------------------------------------------------------------------
(* sxe_cdb_ensemble_reboot: every lock, then every instance, then back.    *)

StartReboot(t) ==
    /\ Begins(t) /\ ensemble.lock = Nobody
    /\ \E e \in Ensembles : ensemble' = [ensemble EXCEPT !.lock = t, !.threads[t] = [Begun(t, "reboot") EXCEPT !.pc = "lock", !.e = e]]

\* A mutant of RebootLocks that gives each lock back before it takes the next.
RebootLocksOne(c, i) == [c EXCEPT ![i] = Nobody]

\* The locks that are held once the one at i is.
RebootLocks(c, i) == c

RebootLock(t) ==
    LET c == Thread(t)
        locks == [ensemble.locks EXCEPT ![c.e][c.i] = t] IN
    /\ Doing(t, "lock") /\ c.op = "reboot" /\ LockFree(c.e, c.i)
    /\ ensemble' = [ensemble EXCEPT !.locks = [locks EXCEPT ![c.e] = RebootLocks(@, c.i)],
                                    !.threads[t] = IF c.i + 1 \in Places THEN [c EXCEPT !.i = @ + 1] ELSE [c EXCEPT !.i = 1, !.pc = "in", !.instance = ensemble.instances[c.e][1]]]

\* sxe_cdb_instance_reboot of each instance.
RebootInstance(t) ==
    LET c == Thread(t) IN
    /\ Doing(t, "in") /\ c.op = "reboot"
    /\ Becomes(t, IF c.i + 1 \in Places THEN [c EXCEPT !.i = @ + 1, !.instance = ensemble.instances[c.e][c.i + 1]] ELSE [c EXCEPT !.pc = "unlock"])

RebootUnlock(t) ==
    LET c == Thread(t) IN
    /\ Doing(t, "unlock") /\ c.op = "reboot"
    /\ ensemble' = [ensemble EXCEPT !.locks[c.e] = [i \in Places |-> Nobody], !.lock = Nobody, !.threads[t] = Stops(t)]

-----------------------------------------------------------------------------
(* sxe_cdb_ensemble_swap_instances, a place at a time, under both locks.   *)

StartSwap(t) == /\ Begins(t)
                /\ \E s \in Swaps : Becomes(t, [Begun(t, "swap") EXCEPT !.pc = "lock", !.e = s[1], !.other = s[2]])

SwapLockThis(t) ==
    LET c == Thread(t) IN
    /\ Doing(t, "lock") /\ c.op = "swap" /\ LockFree(c.e, c.i)
    /\ ensemble' = [ensemble EXCEPT !.locks[c.e][c.i] = t, !.threads[t].pc = "second"]

SwapLockThat(t) ==
    LET c == Thread(t) IN
    /\ Doing(t, "second") /\ LockFree(c.other, c.i)
    /\ ensemble' = [ensemble EXCEPT !.locks[c.other][c.i] = t, !.threads[t].pc = "swap"]

\* A mutant of SwapUnlocks that forgets the first lock.
SwapUnlocksThat(locks, c) == [locks EXCEPT ![c.other][c.i] = Nobody]

SwapUnlocks(locks, c) == [locks EXCEPT ![c.other][c.i] = Nobody, ![c.e][c.i] = Nobody]

SwapInstances(t) ==
    LET c == Thread(t)
        here == ensemble.instances[c.e][c.i]
        there == ensemble.instances[c.other][c.i] IN
    /\ Doing(t, "swap")
    /\ ensemble' = [ensemble EXCEPT !.instances = [@ EXCEPT ![c.e][c.i] = there, ![c.other][c.i] = here],
                                    !.locks = SwapUnlocks(@, c),
                                    !.threads[t] = IF c.i + 1 \in Places THEN [c EXCEPT !.pc = "lock", !.i = @ + 1] ELSE Stops(t)]

-----------------------------------------------------------------------------
CallStep(t) == \/ TakeInstanceLock(t) \/ InstanceUnlock(t) \/ RawUnlock(t)
               \/ RebootLock(t) \/ RebootInstance(t) \/ RebootUnlock(t)
               \/ SwapLockThis(t) \/ SwapLockThat(t) \/ SwapInstances(t)

EnsembleNext == \E t \in CdbThreads : \/ UseInstance(t) \/ RawLocked(t)
                                      \/ StartReboot(t) \/ StartSwap(t) \/ CallStep(t)

\* A thread in a call goes on: it is running, and a lock that is free is taken by
\* the exchange that tries it.  A thread makes finitely many calls, so none waits
\* for a lock that others take for ever.
EnsembleFairness == \A t \in CdbThreads : WF_ensemble(CallStep(t))

EnsembleSpec == EnsembleInit /\ [][EnsembleNext]_ensemble /\ EnsembleFairness

-----------------------------------------------------------------------------
\* The thread's instance was swapped out of its place after the thread found it.
Stale(t) == Thread(t).op \in {"use", "raw"} /\ Thread(t).instance # ensemble.instances[Thread(t).e][Thread(t).i]

\* Two threads are never in the same instance, be it to use or to reboot it, unless
\* one of them found the instance before it was swapped to another ensemble.
InstancesExclusive ==
    \A t, u \in CdbThreads : (t # u /\ Doing(t, "in") /\ Doing(u, "in") /\ Thread(t).instance = Thread(u).instance) => Stale(t) \/ Stale(u)

\* Every call returns, when threads swap in one direction only: the locks of a
\* swap, a reboot and the other calls are never waited for in a circle.
EnsembleCallsReturn == \A t \in CdbThreads : ~Doing(t, "idle") ~> Doing(t, "idle")
=============================================================================
