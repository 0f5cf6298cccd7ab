----------------------------- MODULE SxeDirwatch -----------------------------
(***************************************************************************)
(* sxe-dirwatch.c: watchers of directories over one inotify descriptor.    *)
(* inotify has one watch per directory, so watchers of one directory share *)
(* its number and their masks are merged; an event goes to the first       *)
(* watcher on the list that has the number.  The kernel's queue of events  *)
(* is bounded: when it is full an overflow event, of no watch, ends it.    *)
(***************************************************************************)
EXTENDS Integers, Sequences, SequencesExt, FiniteSets

CONSTANTS Watchers, Directories,
          MaxQueued,   \* fs.inotify.max_queued_events
          ReadMost,    \* the events that fit in the buffer of sxe_dirwatch_event
          MaxEvents    \* bound: changes of the directories

CREATED == "created"
MODIFIED == "modified"
DELETED == "deleted"
Wants == {CREATED, MODIFIED, DELETED}                                    \* SXE_DIRWATCH flags
Masks == {"create", "moved_to", "modify", "delete", "moved_from"}        \* inotify flags
NoWatch == 0
Overflow == [wd |-> -1, mask |-> "overflow"]

VARIABLE dirwatch

\* wd and mask are the kernel's: watches end with their directories.  happened has the
\* changes that each watcher, if it is the first of its watch, asked to be told.
DirwatchInit ==
    dirwatch = [wd |-> [d \in Directories |-> NoWatch], mask |-> [d \in Directories |-> {}], nextwd |-> 1,
                list |-> <<>>, queue |-> <<>>, started |-> FALSE, events |-> 0, aborted |-> FALSE,
                happened |-> [w \in Watchers |-> <<>>], told |-> [w \in Watchers |-> <<>>], lost |-> FALSE]

InotifyFlags(flags) == (IF CREATED \in flags THEN {"create", "moved_to"} ELSE {})
                       \cup (IF MODIFIED \in flags THEN {"modify"} ELSE {})
                       \cup (IF DELETED \in flags THEN {"delete", "moved_from"} ELSE {})

FlagOf(mask) == CASE mask \in {"create", "moved_to"} -> CREATED
                [] mask = "modify" -> MODIFIED
                [] mask \in {"delete", "moved_from"} -> DELETED
                [] OTHER -> "none"

FirstOf(list, wd) == SelectInSeq(list, LAMBDA w : w.fd = wd)

-----------------------------------------------------------------------------
\* A mutant of MaskAdd: without IN_MASK_ADD the mask is replaced.
MaskSet(old, new) == new

MaskAdd(old, new) == old \cup new

sxe_dirwatch_add(w, d, flags) ==
    LET wd == IF dirwatch.wd[d] = NoWatch THEN dirwatch.nextwd ELSE dirwatch.wd[d] IN
    /\ ~dirwatch.aborted /\ \A i \in DOMAIN dirwatch.list : dirwatch.list[i].id # w
    /\ dirwatch' = [dirwatch EXCEPT !.wd[d] = wd, !.mask[d] = MaskAdd(@, InotifyFlags(flags)),
                                    !.nextwd = IF wd = @ THEN @ + 1 ELSE @,
                                    !.list = Append(@, [id |-> w, fd |-> wd, flags |-> flags])]

sxe_dirwatch_start == /\ ~dirwatch.aborted /\ ~dirwatch.started
                      /\ dirwatch' = [dirwatch EXCEPT !.started = TRUE]

sxe_dirwatch_stop == /\ ~dirwatch.aborted /\ dirwatch.started
                     /\ dirwatch' = [dirwatch EXCEPT !.started = FALSE]

-----------------------------------------------------------------------------
\* The kernel queues an event, unless it is the same as the last one queued: of the same
\* file too.
Merges(k, event, same) == same /\ k.queue # <<>> /\ Last(k.queue) = event
Queued(k, event, same) ==
    IF Merges(k, event, same) THEN k
    ELSE IF Len(k.queue) < MaxQueued THEN [k EXCEPT !.queue = Append(@, event)]
    ELSE [k EXCEPT !.lost = TRUE, !.queue = IF Last(@) = Overflow THEN @ ELSE Append(@, Overflow)]

Change(d) == \E mask \in Masks, same \in BOOLEAN :
    LET event == [wd |-> dirwatch.wd[d], mask |-> mask]
        k == IF mask \in dirwatch.mask[d] THEN Queued(dirwatch, event, same) ELSE dirwatch
        first == dirwatch.list[FirstOf(dirwatch.list, event.wd)]
        merged == Merges(dirwatch, event, same) IN
    /\ ~dirwatch.aborted /\ dirwatch.events < MaxEvents /\ dirwatch.wd[d] # NoWatch
    /\ dirwatch' = [k EXCEPT !.events = @ + 1,
                             !.happened[first.id] = IF FlagOf(mask) \in first.flags /\ ~merged
                                                    THEN Append(@, FlagOf(mask)) ELSE @]

\* The directory is removed, which ends the watch with an event of its own.
Removed(d) ==
    /\ ~dirwatch.aborted /\ dirwatch.events < MaxEvents /\ dirwatch.wd[d] # NoWatch
    /\ dirwatch' = [Queued(dirwatch, [wd |-> dirwatch.wd[d], mask |-> "ignored"], FALSE) EXCEPT
                       !.events = @ + 1, !.wd[d] = NoWatch, !.mask[d] = {}]

\* The event that is first in what was read goes to its watcher: whether or not it
\* asked for it, and also the end of the watch, which has no flag.
Notified(k, event) ==
    LET i == FirstOf(k.list, event.wd)
        w == k.list[i] IN
    IF k.aborted \/ i = 0 THEN [k EXCEPT !.aborted = TRUE]
    ELSE [k EXCEPT !.told[w.id] = Append(@, FlagOf(event.mask))]

sxe_dirwatch_event ==
    /\ ~dirwatch.aborted /\ dirwatch.started /\ dirwatch.queue # <<>>
    /\ LET n == IF Len(dirwatch.queue) < ReadMost THEN Len(dirwatch.queue) ELSE ReadMost
       IN dirwatch' = FoldLeft(Notified, [dirwatch EXCEPT !.queue = SubSeq(@, n + 1, Len(@))],
                               SubSeq(dirwatch.queue, 1, n))

DirwatchNext == \/ \E w \in Watchers, d \in Directories, flags \in (SUBSET Wants) \ {{}} : sxe_dirwatch_add(w, d, flags)
                \/ \E d \in Directories : Change(d) \/ Removed(d)
                \/ sxe_dirwatch_start \/ sxe_dirwatch_stop \/ sxe_dirwatch_event

DirwatchSpec == DirwatchInit /\ [][DirwatchNext]_dirwatch

-----------------------------------------------------------------------------
\* The events that wait for a watcher.
Waiting(w) == SelectSeq(dirwatch.queue,
                        LAMBDA e : LET i == FirstOf(dirwatch.list, e.wd) IN i # 0 /\ dirwatch.list[i].id = w)

\* The first watcher of a directory is told of every change that it asked for, once
\* and in order, also when other watchers of the directory ask for other changes, when
\* watching stops and starts, or when the directory is removed and made again: what
\* happened is what it was told and what still waits in the queue, less what only the
\* others asked for and the ends of watches, of which it is told too.  Only the event of
\* an overflow, which has no watcher, aborts.
FirstWatcherTold ==
    ~dirwatch.lost => /\ ~dirwatch.aborted
                      /\ \A i \in DOMAIN dirwatch.list :
                            LET w == dirwatch.list[i]
                                waiting == Waiting(w.id)
                                telling == dirwatch.told[w.id] \o [j \in DOMAIN waiting |-> FlagOf(waiting[j].mask)]
                            IN dirwatch.happened[w.id] = SelectSeq(telling, LAMBDA flag : flag \in w.flags)
=============================================================================
