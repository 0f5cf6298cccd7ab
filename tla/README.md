# libsxe in TLA+

libsxe is a C library for event driven network servers: connection objects (SXEs) on one libev loop, and below
and beside them pools of stateful elements, intrusive lists, a spinlock for shared memory, per-thread memory, a ring
buffer, hash tables, JSON values, a key and count database, an HTTP server and more. This directory holds TLA+ models
of the library's stateful parts, the TLC configurations that check them, and TLAPS proofs about them.

`PROJECT.json` maps every definition that models code to the lines it models, and lists the runs, a mutant for every
checked property, the hazards of the code and the theorems.

## 1. Inventory

| Component | State | Operations | Who shares or calls it | What is hard |
|---|---|---|---|---|
| `lib-sxe-list` | links, list id and length of intrusive doubly linked lists | push, unshift, remove, pop, shift, peek, walker | the pool keeps a list per state; the directory watcher its watches | a link that is wrong shows only in a later call |
| `lib-sxe-mmap` | the lock word of a spinlock in memory that processes may share | take (bounded spin), give, force; mapping a file | the pool, the database | races on the word; holders that die |
| `lib-sxe-pool` | an array of elements, each in one state; a list per state in order of last use; stamps | set indexed, try to set, set oldest, touch, get oldest, override lock, walk, check timeouts | `sxe.c` keeps its SXEs in one; hash, pool-tcp, sync-ev and httpd keep theirs | death between removing and pushing; walking while others move; callbacks out of a scan |
| `lib-ev` | pending queues, heaps of timers, watchers of descriptors, generations, flags shared with threads and handlers | start, stop, feed, loop, unloop, time jumps, send, signal, fork | everything that waits for events | callbacks that change what is pending; reused descriptors; wake-up races |
| `lib-sxe` | per SXE: input buffer, callbacks, pause and consume state, watcher; queue of deferred events | new, listen, connect, accept, read, consume, clear, pause, resume, send, notify writable, sendfile, close | the application calls from inside callbacks; libev calls back | reentrancy: a callback may close, and somebody allocate again, the SXE whose handler is still running |
| `lib-sxe-pool-tcp` | connections in five states; queued ready-to-write events | connect ramp, restart, initialized, event handlers, queue, unqueue, write, timeouts | sits on `sxe.c` and on a timed pool | failures while ramping; timeouts that race replies |
| `lib-sxe-http`, `lib-sxe-httpd` | incremental parser; request state and output buffers per connection | line, header, body and response events, pause, resume, reap, close | sits on `sxe.c` buffers | data split anywhere; responses that end after more input came, or after a close |
| `lib-sxe-thread` | a lock-free list of trackers of memory owned by threads | malloc, realloc, free what the dead left | all threads push, the main thread takes, reaps and puts back | compare-and-swap races, address and tid reuse, failed allocations |
| `lib-sxe-ring-buffer` | array, head, end of what was written, iteration; per reader: place and iteration | add, writable block, wrote block, force wrap, join, next block, consumed | one writer that never waits, many readers | lapping, forced wraps, exact fits |
| `lib-sxe-hash` | buckets that are pool states, and a free state | take, look, add, give; set, get, remove | locked pool calls | one hash operation is several locked ones |
| `lib-sxe-dict` | buckets of chained nodes | add, find, walk, grow | one thread | growth moves chains, duplicates among them |
| `lib-sxe-cdb` | sheets of rows of cells, packed records, sorted lists of counts; a lock per instance of an ensemble | put, get, increment, walk, reboot, swap | threads share ensembles | splitting; lists in arrays that grow; locks of two ensembles |
| `lib-sxe-jitson` | token stack; JSON values with indices made just in time; table of operators | parse, build, look up, copy, write, free; register, dispatch | threads share values that they index | the flag, the pointer and the links of an index are three stores; failed allocation half way |
| `lib-sxe-log` | cached level per file, list of controls, era; frames per thread | learn, set and decrease level, enter, log, return | every thread of every component | lock-free list, caches that must be forgotten |
| `lib-sxe-cstr`, `lib-sxe-buffer` | bytes in a fixed space, length, consumed, overflow flag | cat, memcpy, printf, ftime, get_str, consume, clear | one thread | exact fits |
| `lib-sxe-dirwatch` | list of watches, kernel event queue | add, start, stop, event | libev, inotify | shared watch numbers, overflow, removed directories |
| `lib-sxe-spawn` | descriptors of the parent and of every command | spawn, kill, close | fork and exec copy descriptors | a sibling that keeps an end open |
| `lib-sxe-sync-ev` | sync points in an unlocked pool, datagrams | new, post, read, delete | one loop thread, many posters | a datagram that outlives its sync point |
| `lib-sxe-util`, `lib-sxe-socket`, `lib-sxe-test`, `lib-mock`, `lib-tap`, `lib-port`, `lib-md5`, `lib-sha1`, `lib-lookup3`, `lib-murmurhash3` | none that other parts depend on, or vendored | | | not modelled, see section 7 |

## 2. The modules

```
SxeList -- SxeListSpec --(implements)--> SxeListAbs       SxeSpinlock
   |           '-- SxeListProofs <-- SxeListLemmas              ^
   |                                     |                      | INSTANCE
SxePool ---------------------------------|----------------------'
   '-- SxePoolWalker -- SxePoolProofs <--'        SxePool --(implements)--> SxePoolAbs

Sxe -- SxeProofs      SxePoolTcp -- SxePoolTcpProofs                            (runs of their own)
SxeHttpd -- SxeHttpdProofs
SxeRingBuffer, SxeThreadMemory, SxeStrings, SxeHash -- SxeContainersProofs
SxeSpinlock, SxePoolTimeouts,
SxeCdbEnsemble, SxeJitsonOper, SxeLog ------- SxeDataProofs

MCBasics     = SxeListSpec + SxeSpinlock + SxePoolTimeouts + SxeSpawn
MCHttp       = SxeHttpd + SxeHttpMessage + SxeHttpUrl
MCContainers = SxeThreadMemory + SxeRingBuffer + SxeDict + SxeHash + SxeStrings
MCData       = SxeJitson + SxeJitsonParse + SxeJitsonOper + SxeCdb + SxeCdbEnsemble
MCEvents     = LibEv + LibEvEpoll + LibEvAsync + SxeDirwatch + SxeLog + SxeSyncEv
```

An MC module checks several components in one run. Its variable `under` is chosen at the start and names the
component whose actions the behaviour takes; the others stay as constructed. So the states are the sum of the
components' states, not their product, and each component is checked as if alone.

### Pools and what they are made of

**SxeList** has the pointer manipulation of `sxe-list.c` as operators on `next`, `prev`, `id` and `length`. Cells
are integers: node *n* is *n*, the sentinel of list *s* is -(*s*+1), the null pointer is `Number`. Removal keeps
`id`, as the code does. **SxeListSpec** lets any caller make any call in any order, with one rule that the code
relies on and does not check: a node is added only while it is on no list. **SxeListAbs** is the promise:
sequences of distinct objects.

**SxeSpinlock** models `sxe-spinlock.h` at the grain of its compare and swap: `take_swap`, `take_spin`,
`take_fail`, `take_already`. Threads die at any step, and `sxe_spinlock_force` frees a dead thread's lock, as the
note at `sxe_pool_override_locked` asks. (With a live holder, forcing breaks mutual exclusion, by design.)

**SxePool** models a locked pool. A call is split where another thread, or death, can come between: it takes the
lock (the spinlock's own actions, through `INSTANCE`), takes its element off a list (`TakeOff`), stamps and pushes
it (`PutOn`), gives the lock. `owner` is a ghost: it holds the callers to what the assertions of `sxe-pool.c` ask
of them, that an element outside the shared states is moved by the thread that put it there.
**SxePoolAbs** is the promise: first-in first-out queues and calls that take effect at one moment or fail.

**SxePoolWalker** extends SxePool with a thread that walks one state, locking for each step only. `due` and
`reentered` are ghosts of the property.

**SxePoolTimeouts** models `sxe_pool_check_timeouts` on an unlocked, timed pool with one user. States are
sequences, which SxeListSpec's refinement justifies. The clock moves at any time; subtraction is modulo
`TimeModulus`, as it is for the unsigned `SXE_TIME`. A callback moves its element, or not, and may first take
another.

### The event loop and connections

**LibEv** models the loop of `ev.c`: pending queues by priority, the heap of timers and the one of periodics with the
code's own up, down and adjust, prepare, check and idle watchers, `ev_unloop`, and time that jumps. Callbacks start,
stop, restart and feed watchers between the events that are pending. **LibEvEpoll** models `fd_change`, `fd_reify` and
`ev_epoll.c` against a kernel that knows files, not descriptors: a file is closed behind the loop's back, its number
reused, or the file kept open by a child, and events are told apart by the generation in their upper half.
**LibEvAsync** has each access to memory that senders, signal handlers and the loop share as a step, with the event
descriptor that `loop_fork` replaces. Stores are seen in order, as on the machines the library is built for.

**Sxe** models the TCP half of `sxe.c`. There is one thread, so what interleaves is the order of the kernel's events
with what the application does inside each callback. The kernel has actions of its own: bytes and connections arrive,
and a peer accepts a connection (`PeerAccepts`) before the loop is told. `stack` holds the handlers that wait for a
callback to return, and the code after the call runs (in `Return` and `AcceptNext`) on whatever the callback left. Bytes
are numbered: `at` is the stream position of `in_buf[0]`, `net.got` and `net.ate` what was read and what the application
is done with.

**SxePoolTcp** models `sxe-pool-tcp.c`, pools to a peer and pools of spawned processes. Its connections are sequences
per state, as in SxePoolTimeouts, and its SXEs are those of Sxe seen from outside. Callbacks nest, so `stack` holds the
rest of each handler that is under way. The two orders of closing in `sxe.c` are kept apart: `Refused` closes after the
close event, `Disconnected` and the timeout before it. `pending` is a ghost, the requests that were written and neither
answered nor closed on. The application writes in a ready-to-write event (or when it sees that a connection is ready),
takes a reply when it is complete, calls `sxe_pool_tcp_initialized` after the greeting, and leaves closing to the pool.

**SxeHttpd** models `sxe-httpd.c` on an SXE's input buffer whose cells hold units of the stream: a line, a header, a
byte of body, a part of something longer. The message parser reads the cells through its own `base`, as the code's
pointer does, so that the two times an ignored header is moved are both there. `script` says what the client sends and
which callbacks that asks for; `skewed` (a ghost) marks a connection whose parser has read a cell that the stream did
not put there. **SxeHttpMessage** is the parser, byte class by byte class, on data that grows by any amount between
calls; the byte past the end, which the loops read before they compare, is chosen from `Leftovers`. `AllAtOnce` is what
the same operators give on the whole message. **SxeHttpUrl** is the URL parser; `IsUrl` is its grammar, stated apart.

**SxeSpawn** gives each process its descriptors; `fork` copies them all, `exec` closes what is flagged. **SxeDirwatch**
has the list of watches and the kernel's queue. **SxeSyncEv** has sync points, the datagrams with their addresses, and
threads that post at any time, also after the owner has deleted the sync point.

### Containers, data and the log

**SxeThreadMemory** models `sxe-thread-memory.c` at the grain of its atomic operations, with `malloc` that
reuses addresses or fails, threads that exit and tids that come back. **SxeRingBuffer** models the writer and one
reader (readers share nothing but the ring): a cell holds the number of its byte, so whether a block is the right one
is a comparison. Lengths are modulo `UInt`, for `data_block_len` is unsigned. `astray` is a ghost: a replay was placed
beyond what was written.

**SxeDict** has the table, its chains and their growth; keys are byte strings, given with their length or with 0.
**SxeHash** has threads that set, get and remove, each several locked calls: one step per pool call, and one per read of
an element without the lock. The queue of a bucket is the order of its elements' stamps (`StampsOrdered` of SxePool), so
an element is a state, a stamp, a key and a value; `stolen` is a ghost: an element was given that another thread had
taken and not yet added. **SxeStrings** has both kinds of string over an array with one byte after it that belongs to
somebody else.

**SxeJitson** has values as sequences of tokens with the union of the code (`word`) and its reuse: a size becomes an
index, a length becomes a link. Threads look members up in a value that they share; each store of the indexing is a
step. One allocation may fail. `lost` and `cleared` are ghosts: what a failed copy, and what a clearing of the stack after
a failed call, has forgotten. **SxeJitsonParse** chooses the input as it reads it, so that every input up to the bound
is parsed; `IsJson` is the grammar, stated apart. **SxeJitsonOper** has the operators' tables, with memory that realloc
left uninitialized as a value of its own.

**SxeCdb** is one instance with its sheets, splitting, records and lists of counts. **SxeCdbEnsemble** has the locks
only: threads use, keep raw, reboot and swap instances, and being inside an instance takes a while.

**SxeLog** has each thread's calls as lists of steps, one for each access to what threads share: testing whether a
control is linked, swapping the head, linking, learning a level, forgetting all, the era. `raced` is a ghost that marks
the two races described in section 4.

## 3. The runs

| Run | Bounds | What it shows |
|---|---|---|
| `basics` | 3 nodes, 2 lists; 3 threads, 2 spins; 2 timed elements, 4 states, clock to 5; 2 commands, 8 descriptors, parents with and without 0 to 2 | `ListInv`, and that the code implements sequences (`AbsListSpec`); `MutualExclusion` among live threads, across deaths and overrides; a check of timeouts times out what is due and nothing else (`TimeoutsRight`); a command and its SXE end together (`EndsTogether`) |
| `timeouts_retry` | the same, a callback may use a timed state | violated: section 4 |
| `pool` | 2 threads, 2 elements, 2 states, 4 stamps | Sound queues in order of use with every element accounted for (`PoolSound`), no abort for callers that keep the rules (`NoAbort`); linearizable (`AbsPoolSpec`); every call of a live thread returns (`CallsReturn`) |
| `walker` | 2 threads, 3 elements, 2 states, 7 stamps | A completed walk has returned all that stayed, unless the walker's own place was moved to the tail |
| `buffer` | 1 SXE, buffer of 2, 3 bytes, every call | The buffer is exactly the unread stream (`BufferIsStream`); an unwatched socket means a full buffer, and deferred SXEs are open and have an event (`ConnectionsSound`) |
| `accept` | 3 SXEs, 1 waiting connection, listen, connect, close | No connection waits for ever |
| `deferred_lost` | 1 SXE, limit of 1 | violated: section 4 |
| `pool_tcp` | 2 connections, 2 SXEs, 2 requests, replies of 2 segments, ramp of 2 | Connections, sockets, queued events and requests agree and no assertion fails (`TcpSound`); each request ends (`RequestsEnd`) |
| `http` | 3 requests, 3 connections, 2 output buffers, input buffer of 4 units; 4 messages in a buffer of 14 bytes; URLs of up to 6 characters, and of a scheme with its slashes and up to 6 more | `StreamHandled`, `HttpdSound`, `MessageAsWhole`, `UrlRight` |
| `containers` | 2 threads, 3 trackers; ring of 4, 9 written, 2 forced wraps; 4 keys, one of them empty and one the beginning of another, 5 adds; 2 threads on 2 elements and 2 keys, 4 sets, 2 gets and removes; strings of 1 and 3 | `MemorySound`, `DeadMemoryFreed`, `RingSound`, `KeysKept`, `LooksRight`, `TextKept` |
| `data` | values of 5 tokens, 2 allocations, 2 reading threads; 5 units, strings of 26 bytes; 2 operators, types 0 and 2; 3 keys, 3 records, 4 sheets of 2 rows of 1 cell; 3 threads, 2 places | `LookupsRight`, `JsonWhole`, `MemoryAccounted`, `ParseRight`, `DispatchRight`, `CdbSound`, `InstancesExclusive`, `EnsembleCallsReturn` |
| `events` | 6 timers, heap of 2 branches, 2 calls in callbacks; 2 watchers of a descriptor, 2 files, 7 calls; 1 async, 2 senders, 2 children; 2 watchers of a directory, 3 changes; 2 logging threads, 2 files; 2 sync points, 3 owners, 2 posters | `LoopSound`, `EpollSound`, `AsyncsDelivered`, `ChildrenReaped`, `FirstWatcherTold`, `LogSound`, `PostsHeard` |

Why the bounds are enough. Two lists and three nodes give empty, single and longer lists with a head, a middle and a
tail, and removal of each. Two threads are all that a pairwise race needs; a third, for the lock, lets one override
while two compete, and in an ensemble lets one swap while one reboots and one uses. Four stamps leave room for two moves
after the two stamps of construction; `walker` needs three elements for "node", "back" and one that is due, and enough
stamps to move both places away in one walk. The timeout clock passes both timeouts twice. A buffer of two bytes has
empty, partly consumed, full and consumed-and-full states, and three bytes make it shuffle and refill. The ring of four
has blocks short of the end, at it and over it, and nine written bytes lap it twice. In `pool_tcp` two connections are
one that fails and one that goes on; with as many SXEs as connections, as `sxe_pool_tcp_register` asks for, both the
ramp that finds no free SXE and the one that is handed the SXE just closed happen. In `http` an input buffer of four
units is exceeded by a long header and holds a request and the beginning of the next; two output buffers run out. Six
timers in a heap of two branches are the least in which the last entry can be sooner than the parent of the place it
moves to. Four sets and two removes are enough for an element to be stolen; that it is then overwritten in a bucket
takes four sets and three gets or removes. A string of 26 bytes passes the second edge of a token. The keys of the
database share rows and index entries, so that sheets split. `MaxBefore`, `MaxAllocs` and the calls of threads keep JSON
values small; two parts of an object are enough for one bucket with two names and for two buckets. After a copy has
failed, values are only freed; after a race in the log (`raced`) nothing more is explored; threads swap ensembles in one
direction. Counters that are unbounded in the code are capped by the constants whose comments say "bound". The theorems
of section 5 have no such caps except `MaxCount`, `MaxClock`, `MaxCalls`, `MaxLogCalls`, `MaxDepth`, `MaxWritten`,
`MaxIteration`, `MaxIn`, `MaxWaiting`, `MaxStack`, `MaxOpers`, `MaxSets` and `MaxGets`, which may be anything.

Deadlock is not checked, since every one of these systems may rest: an idle pool, a server without events, a full bound.

Fairness. `CallsReturn` assumes that the operating system runs every live thread that is inside a call (weak
fairness of `Progress`); not that the lock is ever freed: the bounded spin is what makes the property true.
`NoneLeftWaiting` assumes that callbacks return, that the loop goes on, and (strong fairness of `StartAccept`) that a
listener that is ready at poll after poll is called, as a level triggered poll reports every ready watcher; and it says
so only of executions in which the loop keeps polling, since one accept loop may go on as long as clients arrive.
`DeadMemoryFreed` assumes that threads finish their calls and that the main thread calls `sxe_thread_memory_free` again
and again, as a program that wants the memory back must (strong fairness, for it can do so only between its other calls).
`RequestsEnd` assumes that the pool was given a response timeout, that callbacks return, and that a connection that stays
overdue is found by `sxe_pool_check_timeouts`, which the library leaves to the application to call, as its tests do from a
timer (strong fairness, for the check runs only between handlers). `AsyncsDelivered` and `ChildrenReaped` assume that
the loop runs on and that a thread or handler in the middle of a send finishes it. `EndsTogether` assumes that commands
that are spawned are executed, read their input to the end and get scheduled, and that the parent's loop runs.
`EnsembleCallsReturn` assumes that threads run on (weak fairness: a spinlock that is free long enough is taken, and the
model's only starvation is by the bounded calls of others). `PostsHeard` assumes that the loop reads its socket and that
events return.

Every property of a passing run has a mutant: a change to one mapped definition, such as a dropped guard or a
missing reset, under which the same run fails. The mutated forms stand before the definitions they change and are
marked "mutant".

## 4. Where the code disagrees with what it says of itself

Two runs are expected to end in a counterexample.

- `deferred_lost`: `deferred_generic_invoke` moves an SXE from DEFERRED to USED before it looks at its counter, so
  the 65th event of an iteration is dropped with `deferred_event` still set, and the next deferral of that SXE fails
  the assertion in `deferred_generic_setup` (`sxe.c:131,160`).
- `timeouts_retry`: a callback that moves an element to a state with a timeout after the clock has advanced stamps
  it later than `time_now`; the unsigned difference wraps and the element times out at once (`sxe-pool.c:365`).

Met while modelling. The models have these steps, and the properties except exactly them:

- `sxe.c`: `sxe_sendfile` starts the read watcher after its callback, which may have closed the SXE (1814); a retry that
  fails leaves its watcher on with the callback cleared (1786); a refused connection gets its close event before it is
  closed, all others after (1095); a completed write starts the read watcher on a full buffer, and the zero byte read
  that follows is taken for a disconnect (1831).
- Walker: one whose own element was touched, or left and came back, skips what lies between (`sxe-pool-walker.c:82`).
- Thread memory: `sxe_thread_malloc` reads its result through the tracker also when none was allocated
  (`sxe-thread-memory.c:66`).
- Ring: a reader that had read everything can be told that it has fallen behind (`sxe-ring-buffer.c:198`), a false alarm,
  never a missed one; a join with replay after a forced wrap can place the reader beyond what was written (182, 266).
- TCP pool: with as many SXEs as connections, the ramp of a refused connection finds none free although the log says
  "retrying" (`sxe-pool-tcp.c:389`); a node whose `sxe_connect` fails at once stays CONNECTING (135); user data cleared
  after the close callback may be another node's (400; reached with `InitializesInClose = TRUE`).
- HTTP server: closing in the middle of a response leaks the pool's buffers that were queued on it (`sxe-httpd.c:256`); an
  error response that is not sent at once makes the move to BAD abort (805); an ignored header is moved once by
  `sxe-http.h:146` and once by `sxe.c:905`, so the parser reads bytes that were not sent there.
- Message parser: when fewer than two bytes follow a complete field, `next_field` is cleared and the next call does not
  look for the end of the headers, so that a complete message is refused (`sxe-http-message.c:242`); a line element that
  arrives in parts loses its beginning (172); loops read a byte before they compare its offset with the length.
- Hash: `sxe_hash_give` reads the bucket without the lock (197), so a concurrent remove aborts; a look misses keys when
  the element that it stands on was given and added again; a found element may be given before its value is read. Of two
  removes of one key, the second may read the state of an element that a third thread has taken since, give it away while
  it is filled (the note at `sxe_hash_take` says that it stays in the new queue until the caller adds it), and let a fourth
  take it as well: an add aborts, or a bucket's element is overwritten. `LooksRight` says nothing after that (`stolen`).
- Strings: the NUL of `strncat` may land one past the space of a cstr, which appends after stale bytes when its end is not
  marked; printf on a full buffer drops the last byte; clear does not reset `consumed`; a time that does not fit is
  dropped and never flagged, only the result says so, and `strftime` may leave a part of it after the string
  (`sxe-buffer.c:121`): of a time, `TextKept` says that it is there whole or not at all, and nothing of the flag.
- Dictionary: adding a key that is present makes a second pair (`sxe-dict.c:156`), where the note at `sxe_dict_add` (128)
  and `lib-sxe-dict/README.md:80` have the value of the first returned; which of the two a lookup finds changes as the table
  grows. A lookup with a length of 0 compares with 0 (191), where the note at `sxe_dict_find` (169) says that the length is
  measured, as `sxe_dict_add` does (137). `KeysKept` states what the code does in both.
- JSON: the flag, the pointer and the links of an index are stored one after the other while other threads test the flag
  without the lock (`sxe-jitson.c:200`); the members of an indexed object are copied with links for lengths; the test
  for growth is wrong near the edge of a token (`sxe-jitson-stack.c:315`); a buffer that ends after '[' aborts. There are two
  leaks, and `MemoryAccounted` excepts each by a ghost of its own. A failed copy forgets what its parts had allocated
  (`sxe-jitson-type.c:436`; `lost`). And any call that fails half way leaves the stack with part of its work, of which
  `sxe_jitson_stack_clear` (`sxe-jitson-stack.c:132`) forgets the owned strings and indices: it only resets the count
  (`cleared`). Until it is cleared they can still be reached.
- Database: the instance is read before the lock is taken (1091, 1126, 1213, 1233), and stale after a swap; swaps in opposite
  directions wait for each other for ever (1308); an increment of a key under another list of counts corrupts both (801).
- libev: the first event after a watcher is restarted is taken for a stale one and the kernel's set is made anew
  (`ev_epoll.c:172`), so a ready descriptor may be missed once, never twice.
- Log: two threads that log first in one file at the same time may both link its control (`sxe-log.c:521`); a level
  stored after another thread had all files forget is stale (609); decreasing the level does not advance the era.
- Directory watcher: the second watcher of a directory is never told (80); the event of an overflow aborts (85);
  the first is told of every event of the shared watch number, also one that only another asked for, and with no flag of
  the end of the watch (93).
- Spawn: a parent without descriptors 0 and 1 fails the assertion on `dup2` (`sxe-spawn.c:143`).
- Sync points: the socket of each is never closed (`sxe-sync-ev.c:132`); a datagram that outlives its sync point is taken
  for the next owner's (50).

## 5. Proofs

For every value of the constants that the named assumptions allow:

| Module | Theorems |
|---|---|
| `SxeListProofs` (lemmas in `SxeListLemmas`) | `ListsSound`, `PeeksSound`; the refinement `ListImplementsSequences` |
| `SxePoolProofs` | `PoolInvHolds` and its parts `PoolTypeCorrect`, `PoolStampsOrdered`, `PoolLockHeld`, `PoolConservesElements`; `PoolIsSound` and `PoolNeverAborts`, the invariants of the `pool` run; the refinement `PoolImplementsQueues`; walker: `WalkAlwaysComplete` |
| `SxeProofs` | `BufferIsAlwaysStream`, `ConnectionsAlwaysSound` |
| `SxeContainersProofs` | ring: `RingInvHolds`, `RingIsSound`; thread memory: `MemoryInvHolds`, `MemoryIsSound`; strings: `TextAlwaysKept`; hash: `LooksAlwaysRight` |
| `SxePoolTcpProofs` | `TcpAlwaysSound` |
| `SxeHttpdProofs` | `HttpdAlwaysSound` |
| `SxeDataProofs` | spinlock: `SpinTypeCorrect`, `SpinMutualExclusion`; timeouts: `TimedInvHolds`, `TimeoutsAreRight`; ensemble: `EnsembleIsSound`, `EnsembleExclusive`; operators: `DispatchAlwaysRight`; log: `LogAlwaysSound` |

TLC has checked every inductive invariant on the bounds of section 3 before it was proved.

*Spinlock.* `MutualExclusion` is inductive beside the type: a swap needs the word to be 0, so no live thread holds;
an override needs the word to name a dead thread.

*Lists.* `ListInv` is inductive. Its parts are local: next and prev are inverse, sentinels are linked, ids agree along
links, and a length is the cardinality of the nodes with that id. The lemmas give the shape of the links after push,
unshift and remove (`PushShape`, `UnshiftShape`, `RemoveShape`), then that adding to and removing from any list keeps
each part (`AddPreserves`, `RemovePreserves`), and the end facts from which the peek assertions follow
(`EndsOfLists`, `PeekAssertionsHold`).

*Pool.* The inductive invariant is

    PoolInv == PoolTypeOK /\ ListInv /\ StampsOrdered /\ LockHeld /\ ElementsConserved /\ CallsNameNodes

No part stands alone. That a push keeps `ListInv` needs its element to be on no list, which is
`ElementsConserved`; that a removal keeps `ElementsConserved` needs the hand of the thread to be empty, and that no
other thread holds the element, which comes from the element being linked; `StampsOrdered` needs the pushed stamp to
exceed every other, so `next_count` bounds them all; `CallsNameNodes` says that a call that names an element names a
node, so that `TakeOff` acts on one. `LockHeld` keeps the "body" steps of live threads apart; a dead thread
keeps its element in `hand` for ever, which is how the invariant survives overriding. There is a lemma for each kind of
step, and `PoolStepsKeep` combines them. `PoolIsSound` then needs no step of its own: the peek assertions follow from
`ListInv` by `PeekAssertionsHold`.

`PoolNeverAborts` (no assertion fails unless an overridden lock has lost an element) adds the ghost `owner` to the
invariant:

    RulesKept == OwnersPrivate /\ HandsOwned /\ SettersOwn /\ NoAbort

An owned element is in no shared state, the element in a thread's hand is nobody else's unless the call is a touch, and
the element that a pending `sxe_pool_set_indexed_element_state` names stays the caller's, in the state the caller named,
however long the caller waits for the lock. That the list an element is taken from is not empty does not follow from the
links alone (a ring of nodes beside an empty list has the same local shape): the stamps, which grow along the links,
exclude it (`LinkedListNotEmpty`).

*Refinements.* What the links of a list spell is a recursive walk, and induction over data is beyond the provers as the
library states it. It is replaced by a least counterexample: every non-empty set of numbers has a least member
(`LeastNumber`, from the well-foundedness of <). With it, `WalkIsChain` shows that a sequence is what the walk returns
if it is a chain, which is said without recursion: each element's next is the following one, and the ends are the
sentinel. `ListsAreChains` (each list has a chain) is not implied by `ListInv`, and is proved inductive beside it: push
appends to the chain, unshift prepends, removal drops one index. So each call of `SxeListSpec` is the step of
`SxeListAbs` of the same name. For the pool, `PoolImplementsQueues` maps `queue` to the walked lists with the element
that the holder of the lock has in hand put where it is going, and `status` to the phase of the call. `TakeOff` is then
the moment when a mover takes effect, and `PutOn` a stutter. The element of a holder that died stays where it was going
until somebody overrides the lock, which is the abstract step `Lose`. The two abstract modules take an element out by
its index (`RemoveAt`), which says the same as filtering it out and needs no recursion.

*Walker.* A walk is other threads' moves between locked steps, so the invariant stands on the pool's:

    WalkerSound == PoolInv /\ ListsAreChains /\ WalkInv
    WalkInv     == PushersLive /\ WalkerTypeOK /\ (~reentered => PlaceKept)

`PlaceKept` relates the elements still `due` to the walker's two remembered places by their stamps: what is due is
stamped later than what was last returned (`wlast`), the element the walker stands on carries that very stamp while it
stays, and the one before it no later one. A move by another thread stamps its element last of all, so it joins behind
everything due (`OthersKeepPlace`). `StampsAlong` turns the local order of stamps into the order of a whole chain by a
least counterexample, and so "the next element of the chain" into "the earliest of those due". `reentered`, the case
that `WalkComplete` excepts, is the only step that breaks it.

*Connections.* The invariant of `Sxe` is

    IInv == SxeTypeOK /\ QueuesOK(queue) /\ AllOK /\ ReadOutermost

`QueuesOK`: every SXE is in one place of one queue of its pool. `AllOK` says of each SXE, given the state of the pool
that it is in, that buffer and stream agree (`Streams`), that a socket with room is watched by a callback that its
state allows (`Watched`), and that a free SXE has no socket, a deferred one a connection and an event (`StateRight`).
`ReadOutermost` is about the handlers that wait on `stack`: a read event is always the outermost, and if its SXE was not
closed under it, it is still watched, which is what `sxe_private_handle_read_data` counts on when it goes on after the
callback. Without it `Return` of a read could leave a buffer with room and no watcher. The parts are predicates of one
SXE's fields (`OneOK`), so each operation has a lemma about one record and the queues have theirs; a step combines the
two. The invariant holds whatever calls the application makes (`Calls`), however the handlers nest.

*Timeouts.* Both theorems have the hypothesis `TargetsUntimed`: the callbacks put elements only in states without a
timeout. It is what the pool of the `basics` run does, and `timeouts_retry` is the counterexample without it. The
invariant is

    TimedInv == TimedTypeOK /\ PlacedOnce /\ OldestFirst /\ NoneAhead /\ PassedAreDone /\ CallbackDue

`OldestFirst` is why looking at the head of a state is enough; `NoneAhead`, that nothing in a timed state is stamped after
the check began, is why the unsigned subtraction does not wrap; `PassedAreDone` is why the check need not go back; and
`CallbackDue` says that the callback's element stays the oldest of its state while the callback moves another one.

*Ensemble.* `InstancesExclusive` speaks of instances and the code locks places, so the invariant ties the two:

    EnsembleInv == EnsembleTypeOK /\ StepsRight /\ LocksRight /\ InstancesApart /\ RebootsCurrent

`LocksRight` says that a lock's word names a thread if and only if what the thread is doing implies it, with the partly
taken locks of a reboot and the two of a swap; `InstancesApart` that an instance is at one place, which a swap keeps
since it holds both locks; `RebootsCurrent` that a reboot's instance is the one at its place, since nobody can swap it.
Two threads in one instance that neither found it before a swap then hold the lock of one place.

*Ring.* The invariant is

    RingInv == RingTypeOK /\ LapsHold /\ ReaderFound /\ RingAssertionsHold

`LapsHold` says which byte of the stream each cell holds: below the head those of this iteration, from the head to
`writen_end` those of the one before. `ReaderFound` is the point of the overrun test: a reader is either in step, with
`pos` the byte its place holds, or the test finds it behind, or a replay put it astray. The property alone is not
inductive, since it says nothing of a reader between two calls.

*Operators.* A registry is sound (`OperInv`) if, unless a failed allocation left the tables dangling, every entry is the
function that was given for its operator and type, and null where none was (`EntriesRight`): growing a table must
clear what `realloc` left, also in the rows it skips. `CallRight` then says of the last call that it used the function of
the operand that its kind selects, or the default. Nothing here is about a bounded set of operators or types.

*Strings.* Per string: `StrOK == SpaceOK /\ (~misplaced => BytesKept)`. The length stays within the space and within what
was written, only a cstr can spill its NUL, and until a NUL was misplaced the bytes up to `length` are the first ones
written and the overflow flag is set exactly if something of a copied or printed text was lost (`lost`; a time sets
neither). A copy of any text is cut to what fits (`IsPutIn`), for every size and every set of texts.

*Hash.* The invariant is

    HashInv(hash) == types /\ Stamped /\ every call Called
                     /\ (~stolen => Valued /\ InBuckets /\ every thread's Filling and Looking)

`Looking` has the argument. While a walk goes on, every element with its key is ahead of its place: stamped later than
what was met last, or, when that element has left, than the one before it (`PlaceKept`); if the key has been there all
the time (`always`), a walk that reaches the end has thus passed it, which is a contradiction. A move by another thread
gets the last stamp of all and so joins ahead of every walk (`Advances`, `LookingKept`), and only a move of one of the
walk's own two elements can upset this, which is `reentered`. `Filling` says that an element between take and add is new
and nobody else's, so that what is written to it is not in a bucket (`InBuckets`). A give of a stolen element breaks
`Filling`, and nothing that follows can be relied on. An earlier form of `LooksRight` had no exception for it, and TLC
agreed on its bounds; it was the proof of `Filling` that failed.

*Log.* The invariant is

    LogInv == the record's fields /\ (~raced => types /\ ~aborted /\ ListRight /\ LevelsRight /\ LinkersApart
                                                /\ every thread's Own)

A call's steps are data, so `Own` begins with their `Shape`: which step may follow which (`Follows`), and that a learned
level is used two steps after a count or a pop. It then says what each step relies on: a level that was found is the one
that is set now (`Setting`), the depth that was counted is the number of frames shown at that level, and every indent is
its caller's or one more. That a control is not linked is tested in one step (`Learn`), it is pushed in two more, head
first (`SwapHead`, `Link`), and between these the list is cut in two. `Links` therefore counts a link as there when it
is made or when a thread is about to make it, `Reaches` is being in every set that is closed under those links (as for
thread memory, without a recursion), and `ListRight` says that every linked control is reached from the head.
`LevelsRight` is the property, and why it survives a walk: once no thread is about to begin one, a level is unknown, or
the one that is set, or still ahead of a thread that wipes. A wipe reads a link only when it is made, for `LinkersApart`
has nobody log while the level changes. It also keeps two threads from linking one control; these two are the races that
set `raced`, and after either the list may lose its tail.

*Thread memory.*

    MemoryInv == MemoryTypeOK /\ ListsRight /\ HandsRight /\ BlocksRight /\ HoldersRight /\ Placed

The trackers reachable from a head are computed by a recursion; `ChainIsLeast` shows, by a least counterexample and by
counting, that by the number of trackers it has become the least set closed under the links. The other lemmas speak of
closed sets only: a chain unfolds, is the same under links that agree on it, grows at its head (`ChainGrows`), and is
joined to another at its end (`ChainLinked`). `ListsRight` says that no list loops, that `last` is the end of the keepers,
and that what the main thread read from the head into `last->next` is still on the list, although others have pushed
since. That is why a failed compare and swap of `PutBack` can simply be repeated. `Placed` is `TrackersConserved` without
the indices. `BlocksRight` and `HoldersRight` give each tracker an allocated block of its own and each user of a block a
tracker with its tid; `ReapedIsUnused` then shows that what `Reap` allows to be freed is used by no live thread, since
the tid is dead or is the main thread's own and all is freed.

*TCP pool.* The theorem is `InitializesInClose = FALSE /\ Spec => []TcpSound`. Its hypothesis is a rule for the
application that no assertion checks: not to finish one connection's initialization inside the close callback of another.
`SocketsMatch` is false without it (section 4). The properties that make up `TcpSound` speak of the moments between
events; `TcpInv` says what holds in the middle of a handler, and for that it needs the shape of `stack`:

    Alive == \E p, k, m, b : StackIs(stack, p, k, m, b) /\ Live(..., p, b, ...)

The stack is, from the top, what must run to its end before the application goes on (`p`: a ramp with `k` turns left, a
ramp and then a dispatch, a dispatch, or a ready-to-write event), then `m` ready-to-write events that have not returned,
then the one handler at the bottom (`b`, for a refused connection with its close). However deep events nest, only `p`
and `b` matter to the rest:

    Live == LinksOK /\ Apart /\ OwnersOK /\ FreeOK /\ BaseOK /\ PendingOK /\ ReadyOK /\ RampApart

`LinksOK` and `Apart` give each connected node an SXE of its own in the way its state says; while a reply is read that
SXE has the application's user data instead of the node. `OwnersOK` says that an open SXE is a node's, or that of a
refused connection that `b` is about to close. `BaseOK` says what the rest of `b` relies on: that the node it reads is
still in use, that the node that timed out is still connected, that the SXE whose close event is running is free (or
connecting and nobody's, if refused). `PendingOK` is `RequestsTracked` but for a reply that is complete and whose callback
has not returned. `ReadyOK` is why no ready-to-write event asserts: while one is on its way, or a dispatch is still to
come, a connection is ready, and while events are queued it is the only one. `RampApart` is the hypothesis at work: no ramp
runs above a close callback, so an SXE is not handed out before the close event has cleared its user data. Each operation
has a lemma about `Live` (`LiveConnects`, `LiveWrites`, `LiveCloses` and so on) that does not mention the variables, and
a lemma that its action is that operation on the state and on the stack.

*HTTP server.* The invariant is

    HttpdInv == Sound(server) /\ StackOK(server, stack) /\ OneFree(server, stack) /\ connects \in Nat
    Sound(s) == ServerOK(s, {}) /\ only the abort "bad" /\ (not aborted => all Covered) /\ free requests have no buffers

`ServerOK(s, hand)` is the types and the accounts: every buffer of the pool is in exactly one of the free ones, the leaked
ones, one response's list (once), and the `hand` of a call that copies data before it puts them on the response. The two
aborts that the property denies need more than the accounts. That a message's length never exceeds the input
(`sxe_http_message_increase_buffer_length`) is `Covered`, and holds at the end of every event only because what is
consumed from the input is taken off the length in the same step. That a client that connects finds a free request is
`OneFree`: one is free except inside the connect callback, after which the oldest client is reaped if none is. `StackOK`
says how callbacks nest: all are of one request, only those of sends are inside others, and only inside the call to
respond; any other is alone and its request is in the state that it `Awaits`, so the move after the callback does not
fail, whatever the application did meanwhile.

The lemmas follow the code. `Kept` says what every response call keeps: the other requests, the request's state, input
and length. So each call is one lemma however it is composed of others. `Busy` is what the read handler relies on
between two callbacks, and each part of the handler has a lemma that ends in `Good` of the next state. What remains is
one lemma per action.

Assumptions: `NumberAssumption`, `NListsAssumption` (at least one element and one state), `SharedAssumption` (state 0 is
shared), `PoolThreadsAssumption`, `ThreadsAssumption`, `SpinMaxAssumption` (ids are not 0, at least one spin),
`MaxCountAssumption`; for timeouts `TimedNumberAssumption`, `TimeoutsAssumption`, `ClockAssumption` and
`TimeModulusAssumption` (the clock and a timeout together fit in a time); for the ensemble `PlacesAssumption` (at least
one place, numbered from 1), `CdbThreadsAssumption`, `SwapsAssumption`, `MaxCallsAssumption`; for the ring
`SizeAssumption` (not empty) and `UIntAssumption` (an unsigned holds twice the size, or else lengths would wrap); for
thread memory `MainAssumption`, `NullAssumption`, `AddressesAssumption` (finitely many addresses, trackers and blocks
apart) and `TidsAssumption` (-1 is no tid); for the walker `WalkerAssumption` (it is one of the threads and walks one of
the states); for `Sxe` its `NumberAssumption`, `BufSizeAssumption` (neither is 0), `DeferredMaxAssumption`,
`CallsAssumption` and `BoundsAssumption`; for the TCP pool `ConcurrencyAssumption` and `LimitsAssumption` (no number of
connections, SXEs, turns, failures or segments is 0), `ApplicationAssumption` and `RequestsAssumption`; for the HTTP
server its `RequestsAssumption` (at least two requests, for the oldest is reaped when the last is taken),
`InputSizeAssumption`, `BodyLengthAssumption`, `BuffersAssumption` (finitely many, and none is the application's) and
`BoundsAssumption`; `OperTypesAssumption` and `StringsAssumption` (types are numbers, spaces are not empty);
`HashAssumption` (at least one element, and sums for all keys); `LogAssumption` (there is a level, no file is NULL, and
the environment sets levels or nothing). TLC evaluates all of them in the runs.

## 6. Only model-checked

- Liveness: `CallsReturn`, `NoneLeftWaiting`, `DeadMemoryFreed`, `RequestsEnd`, `EndsTogether`, `EnsembleCallsReturn`,
  `AsyncsDelivered`, `ChildrenReaped`, `PostsHeard`.
- What recursive operators compute: the parsers, heaps, dictionary, database and JSON values (`MessageAsWhole`,
  `UrlRight`, `ParseRight`, `LoopSound`, `KeysKept`, `CdbSound`, `JsonWhole`, `LookupsRight`, `MemoryAccounted`).
  Modules with RECURSIVE operators (`LibEv`, `LibEvEpoll`, `SxeCdb`, `SxeHttpMessage`, `SxeJitson`, `SxeJitsonParse`) are
  out of the prover's reach as they stand.
- `StreamHandled`: its invariant must say which cells of the buffer the message parser reads through a pointer that
  others move, and relate the callbacks made to the client's script, which is data the model is given.
- `KeysKept` and `FirstWatcherTold`: what the dictionary's resize and walk and the watcher's reads compute is a fold or a
  filter of a sequence by the libraries' operators, so their values need induction over data. In `SxeHttpd` the lists of
  requests and buffers are filtered by `Only`, a recursive function of its own, about which a least counterexample can be
  used instead.

## 7. Not modelled, and why

In `lib-sxe`: UDP, pipes and descriptor passing, socket pairs, and SSL. In `lib-ev`: the backends other than epoll, stat,
embed and fork watchers, the C++ wrapper and the libevent interface, none of which the library uses. In the pool: name
functions and address arithmetic. In the HTTP server: listening and the setters of handlers. In JSON: comparison, the
built-in operators and `sxe-factory.c`. In the database: `set_uid_hkv`, copies to and from thread storage, the mapping of
memory. In the hash: delete, reconstruct and the hash functions. In the log: formatting, output, the system log and dumps.
`sxe-mmap.c`, `sxe-thread.c` and `lib-sxe-socket` wrap system calls. `lib-sxe-util` is a set of unrelated pure functions.
`lib-lookup3`, `lib-murmurhash3`, `lib-sha1` and `lib-md5` are vendored or wrap vendored code, and mix bits. `lib-mock`,
`lib-tap`, `lib-sxe-test` and `lib-port` are test support and shims.

## 8. Plan

Done, in this order: list, spinlock, pool and its promise, walker, timeouts, SXEs, thread memory, ring buffer, TCP
pool; the proofs of the spinlock, the list and the pool; then the HTTP server and its parsers, JSON values, the database,
the event loop, hash, dictionary, strings, log, directories, spawning and sync points; then the proofs of the two
refinements, of `NoAbort`, timeouts, the ensemble's locks, the ring and thread memory; then of the walker, of `Sxe`'s two
invariants, the strings, the operators, the TCP pool, the hash, the log and the HTTP server's buffers.

Next, most important first:

1. Theorems: `KeysKept` and `FirstWatcherTold`, with their folds written as recursive functions as in `SxeHttpd`;
   `StreamHandled`.
2. Socket pairs, UDP and descriptor passing in `Sxe`.
3. `set_uid_hkv` and the walk of an ensemble, which take no lock, in `SxeCdbEnsemble`.
