------------------------------- MODULE SxeLog -------------------------------
(***************************************************************************)
(* sxe-log.c: the log level of each source file and the indentation of     *)
(* each thread's log.  A file's control caches its level.  The cache is    *)
(* filled when the file first logs, from the environment or the global     *)
(* level, and at that time the control is pushed, without a lock, on the   *)
(* list of controls through which a change of the global level makes every *)
(* file forget.  Each thread keeps a stack of frames, one per function     *)
(* entered, with the indent of each; it computes them again when the era   *)
(* of the level settings has moved on.                                     *)
(*                                                                         *)
(* A thread's calls are lists of steps, each one access to what the        *)
(* threads share.  The prefix and text of a line are left out.             *)
(***************************************************************************)
EXTENDS Integers, Sequences, FiniteSets

CONSTANTS LogThreads, Files,
          MaxLevel,      \* SXE_LOG_LEVEL_MAXIMUM, and the default level
          Environment,   \* for a file, the level that its environment variables set, or Unset
          GlobalSetting, \* the level that SXE_LOG_LEVEL sets, or Unset
          MaxLogCalls,   \* bound: the calls that each thread makes
          MaxDepth       \* bound: frames on a stack

Levels == 1 .. MaxLevel
Unknown == MaxLevel + 1                  \* SXE_LOG_LEVEL_OVER_MAXIMUM
Unset == 0
NoControl == "none"

ASSUME LogAssumption == /\ MaxLevel \in Nat \ {0} /\ NoControl \notin Files
                        /\ Environment \in [Files -> {Unset} \cup Levels]
                        /\ GlobalSetting \in {Unset} \cup Levels

VARIABLE log

Quiet == [todo |-> <<>>, file |-> NoControl, level |-> 1, found |-> 1, old |-> NoControl, at |-> NoControl,
          frames |-> <<>>, era |-> 0, depth |-> 0, most |-> 0]

\* raced is history: the level was changed while another thread was logging, or two
\* threads linked one control at the same time.
LogInit == log = [level |-> [f \in Files |-> Unknown], next |-> [f \in Files |-> NoControl], head |-> NoControl,
                  global |-> Unknown, era |-> 0, calls |-> [t \in LogThreads |-> 0], thread |-> [t \in LogThreads |-> Quiet],
                  aborted |-> FALSE, raced |-> FALSE]

LogDoes(t, step) == ~log.aborted /\ log.thread[t].todo # <<>> /\ Head(log.thread[t].todo) = step

\* Replaces the first step to do by steps.  A call that has returned keeps no locals.
Then(th, steps) == LET todo == steps \o Tail(th.todo)
                   IN IF todo = <<>> THEN [Quiet EXCEPT !.frames = th.frames, !.era = th.era, !.most = th.most]
                      ELSE [th EXCEPT !.todo = todo]
Abort(t) == log' = [log EXCEPT !.aborted = TRUE, !.thread[t].todo = <<>>]
NowKnows(t, level, steps) == Then([log.thread[t] EXCEPT !.found = level], steps)

Busy(t) == log.thread[t].todo # <<>>
MayCall(t) == ~log.aborted /\ ~Busy(t) /\ log.calls[t] < MaxLogCalls[t]
Linking(t) == LogDoes(t, "swap") \/ LogDoes(t, "link")
OthersBusy(t) == \E u \in LogThreads \ {t} : Busy(u)
OthersChange(t) == \E u \in LogThreads \ {t} : \E i \in DOMAIN log.thread[u].todo :
                      log.thread[u].todo[i] \in {"era", "forget", "wipe"}

-----------------------------------------------------------------------------
\* The level in the control, or the steps that find it.
Level(t) == LET l == log.level[log.thread[t].file]
            IN IF l <= MaxLevel THEN NowKnows(t, l, <<>>) ELSE Then(log.thread[t], <<"find">>)

\* sxe_log_control_learn_level: push the control on the list unless it has a next,
\* and make the old head its next; then return its level.
Learn(t) ==
    LET f == log.thread[t].file IN
    /\ LogDoes(t, "learn")
    /\ \/ /\ log.next[f] = NoControl
          /\ log' = [log EXCEPT !.raced = @ \/ \E u \in LogThreads \ {t} : log.thread[u].file = f /\ Linking(u),
                                !.thread[t] = Then(@, <<"swap", "link", "learn">>)]
       \/ /\ log.next[f] # NoControl
          /\ log' = [log EXCEPT !.thread[t] = Level(t)]

\* The head is read and swapped in a loop that ends when nobody else has swapped it.
SwapHead(t) == /\ LogDoes(t, "swap")
               /\ log' = [log EXCEPT !.head = log.thread[t].file,
                                     !.thread[t] = Then([@ EXCEPT !.old = log.head], <<>>)]

Link(t) ==
    LET th == log.thread[t] IN
    /\ LogDoes(t, "link")
    /\ log' = [log EXCEPT !.next[th.file] = IF th.old = NoControl THEN th.file ELSE th.old,
                          !.thread[t] = Then([@ EXCEPT !.old = NoControl], <<>>)]

\* The environment of the file, the global level, its environment, the default.
Find(t) ==
    LET f == log.thread[t].file IN
    /\ LogDoes(t, "find")
    /\ log' = [log EXCEPT !.thread[t] =
                  CASE Environment[f] # Unset -> NowKnows(t, Environment[f], <<"store">>)
                    [] Environment[f] = Unset /\ log.global <= MaxLevel -> NowKnows(t, log.global, <<"store">>)
                    [] Environment[f] = Unset /\ log.global > MaxLevel /\ GlobalSetting # Unset ->
                          NowKnows(t, GlobalSetting, <<"global", "store">>)
                    [] OTHER -> NowKnows(t, MaxLevel, <<"store">>)]

StoreGlobal(t) == /\ LogDoes(t, "global")
                  /\ log' = [log EXCEPT !.global = log.thread[t].found, !.thread[t] = Then(@, <<>>)]

Store(t) == /\ LogDoes(t, "store")
            /\ log' = [log EXCEPT !.level[log.thread[t].file] = log.thread[t].found, !.thread[t] = Then(@, <<>>)]

-----------------------------------------------------------------------------
\* A mutant of Wiped that goes by the last control.
WipedButLast(level, f, next) == IF next = f THEN level ELSE [level EXCEPT ![f] = Unknown]

Wiped(level, f, next) == [level EXCEPT ![f] = Unknown]

\* sxe_log_control_forget_all_levels.
Forget(t) == /\ LogDoes(t, "forget")
             /\ log' = [log EXCEPT !.thread[t] = Then([@ EXCEPT !.at = log.head], IF log.head = NoControl THEN <<>> ELSE <<"wipe">>)]

\* The last control is its own next.
Wipe(t) ==
    LET f == log.thread[t].at
        next == log.next[f] IN
    /\ LogDoes(t, "wipe")
    /\ \/ next = NoControl /\ Abort(t)
       \/ /\ next # NoControl
          /\ log' = [log EXCEPT !.level = Wiped(@, f, next),
                                !.thread[t] = Then([@ EXCEPT !.at = next], IF next = f THEN <<>> ELSE <<"wipe">>)]

ChangeLevel(t, level, steps) ==
    /\ MayCall(t)
    /\ log' = [log EXCEPT !.global = level, !.calls[t] = @ + 1, !.raced = @ \/ OthersBusy(t),
                          !.thread[t].todo = steps]

\* Unknown takes the setting back to that of the environment.
sxe_log_set_level(t) == \E level \in Levels \cup {Unknown} : ChangeLevel(t, level, <<"era", "forget">>)

\* Only downwards, and the era stays.
sxe_log_decrease_level(t) == \E level \in Levels : level < log.global /\ ChangeLevel(t, level, <<"forget">>)

NextEra(t) == /\ LogDoes(t, "era")
              /\ log' = [log EXCEPT !.era = @ + 1, !.thread[t] = Then(@, <<>>)]

-----------------------------------------------------------------------------
Top(th) == IF th.frames = <<>> THEN 0 ELSE th.frames[Len(th.frames)].indent
Exceeds(th) == Top(th) > th.most \/ Top(th) < 0

\* sxe_log_get_indent.  The indents are computed with the level of the file that logs
\* now, which is learned again for each pass over the frames.
GetIndent(t) ==
    LET th == log.thread[t] IN
    /\ LogDoes(t, "indent")
    /\ \/ /\ th.era < log.era
          /\ log' = [log EXCEPT !.thread[t] =
                        Then([@ EXCEPT !.era = log.era],
                             IF th.frames = <<>> THEN <<"indent">>
                             ELSE <<"learn", "count", "learn", "assign", "indent">>)]
       \/ /\ th.era >= log.era
          /\ IF Exceeds(th) THEN Abort(t) ELSE log' = [log EXCEPT !.thread[t] = Then([@ EXCEPT !.depth = 0], <<>>)]

Shown(th, from) == Cardinality({i \in from .. Len(th.frames) : th.frames[i].level <= th.found})

CountShown(t) ==
    LET th == log.thread[t]
        depth == th.depth + Shown(th, 1) IN
    /\ LogDoes(t, "count")
    /\ log' = [log EXCEPT !.thread[t] =
                  Then([th EXCEPT !.depth = depth, !.most = IF depth > th.most THEN depth ELSE th.most], <<>>)]

\* From the top of the stack down: the depth less the shown frames above.
Indents(th) ==
    [i \in DOMAIN th.frames |-> [th.frames[i] EXCEPT !.indent = th.depth - Shown(th, i + 1)]]

Assign(t) ==
    LET th == log.thread[t] IN
    /\ LogDoes(t, "assign")
    /\ log' = [log EXCEPT !.thread[t] = Then([@ EXCEPT !.frames = Indents(th), !.depth = th.depth - Shown(th, 1)], <<>>)]

\* sxe_log_frame_push and sxe_log_frame_pop.
Pushed(th, visible) ==
    LET indent == Top(th) + (IF visible THEN 1 ELSE 0) IN
    [th EXCEPT !.frames = Append(@, [file |-> th.file, level |-> th.level, indent |-> indent]),
               !.most = IF indent > @ THEN indent ELSE @]
Popped(th) == [th EXCEPT !.frames = SubSeq(@, 1, Len(@) - 1)]

\* SXEE: a frame is pushed whether or not the entry is logged.
sxe_log_entry(t) == \E f \in Files, level \in Levels :
    LET th == [log.thread[t] EXCEPT !.file = f, !.level = level]
        called(todo) == [th EXCEPT !.todo = todo] IN
    /\ MayCall(t) /\ Len(th.frames) < MaxDepth
    /\ \/ Exceeds(th) /\ Abort(t)
       \/ /\ ~Exceeds(th)
          /\ log' = [log EXCEPT !.calls[t] = @ + 1, !.raced = @ \/ OthersChange(t),
                                !.thread[t] = IF level <= log.level[f] THEN called(<<"learn", "enter">>)
                                              ELSE Then(Pushed(called(<<"push">>), FALSE), <<>>)]

Enter(t) ==
    LET th == log.thread[t]
        shown == th.level <= th.found IN
    /\ LogDoes(t, "enter")
    /\ log' = [log EXCEPT !.thread[t] = Then(Pushed(th, shown), IF shown THEN <<"indent", "indent">> ELSE <<>>)]

\* SXEL.
sxe_log(t) == \E f \in Files, level \in Levels :
    /\ MayCall(t) /\ level <= log.level[f]
    /\ log' = [log EXCEPT !.calls[t] = @ + 1, !.raced = @ \/ OthersChange(t),
                          !.thread[t] = [@ EXCEPT !.file = f, !.level = level, !.todo = <<"learn", "line">>]]

\* sxe_log and sxe_log_return print the line if its level is low enough.
Line(t) ==
    LET th == log.thread[t] IN
    /\ LogDoes(t, "line")
    /\ log' = [log EXCEPT !.thread[t] = Then(@, IF th.level <= th.found THEN <<"indent">> ELSE <<>>)]

\* SXER: the line that the function returns, and the end of its frame.
sxe_log_return(t) ==
    LET th == log.thread[t]
        frame == th.frames[Len(th.frames)] IN
    /\ MayCall(t) /\ th.frames # <<>>
    /\ log' = [log EXCEPT !.calls[t] = @ + 1, !.raced = @ \/ OthersChange(t),
                          !.thread[t] =
                  IF frame.level <= log.level[frame.file]
                  THEN [th EXCEPT !.file = frame.file, !.level = frame.level,
                                  !.todo = <<"learn", "line", "pop", "learn", "line">>]
                  ELSE Popped(th)]

Pop(t) == /\ LogDoes(t, "pop")
          /\ log' = [log EXCEPT !.thread[t] = Then(Popped(@), <<>>)]

LogStep(t) == \/ Learn(t) \/ SwapHead(t) \/ Link(t) \/ Find(t) \/ StoreGlobal(t) \/ Store(t)
              \/ Forget(t) \/ Wipe(t) \/ NextEra(t)
              \/ GetIndent(t) \/ CountShown(t) \/ Assign(t) \/ Enter(t) \/ Line(t) \/ Pop(t)

LogNext == \E t \in LogThreads : \/ LogStep(t)
                                 \/ sxe_log_entry(t) \/ sxe_log(t) \/ sxe_log_return(t)
                                 \/ sxe_log_set_level(t) \/ sxe_log_decrease_level(t)

LogSpec == LogInit /\ [][LogNext]_log

-----------------------------------------------------------------------------
Settled == \A t \in LogThreads : ~Busy(t)

\* The level that the file would learn now.
Current(f) == IF Environment[f] # Unset THEN Environment[f]
              ELSE IF log.global <= MaxLevel THEN log.global
              ELSE IF GlobalSetting # Unset THEN GlobalSetting
              ELSE MaxLevel

\* When no call is in progress, a file that has a level has the one that is set now.
LevelsForgotten == Settled => \A f \in Files : log.level[f] \in {Unknown, Current(f)}

\* A frame is indented as its caller is, or one more; and no thread aborts, for
\* an indent out of range or a control that is not linked.
IndentsSound == /\ ~log.aborted
                /\ \A t \in LogThreads : ~Busy(t) =>
                      \A i \in DOMAIN log.thread[t].frames :
                          log.thread[t].frames[i].indent
                             - (IF i = 1 THEN 0 ELSE log.thread[t].frames[i - 1].indent) \in {0, 1}

\* However many threads learn the levels of files, and however the level is set and
\* decreased meanwhile, no file keeps a level that was forgotten and every line is
\* indented by its depth; unless a change raced with a thread that was logging, or
\* two threads linked the same control.
LogSound == ~log.raced => LevelsForgotten /\ IndentsSound
=============================================================================
