# misaka: a TLA+ model of the server

misaka (under `src/misaka/`) is a small event-driven server in C. One main
thread runs an event loop (libev): it reads packets from peers, routes them to
the message queue of their event type and sends replies. A pool of threads runs
`worker()`, which takes queues from a global list and gives their messages to
handlers (C, Lua or Python). This directory models the server in TLA+ (its
concurrent core, the life of its connections and the data structures below them),
checks the models with TLC on small instances and proves the most important
properties with TLAPS for all instances.

    tlc -config MCDispatch_echo.cfg MCDispatch      # any run of PROJECT.json
    tlapm Dispatch_proofs.tla                       # any *_proofs module

`PROJECT.json` lists the runs, the lines each definition models, the hazards, the
findings and the theorems.

## The parts of the system

| part | source | state | operations | model |
|---|---|---|---|---|
| message queues | `lib/skynet_mq.c` | per queue: messages, `in_global`, `next`; global list `Q` | push, pop, list push and pop | `SkynetMq` |
| ring buffer | `lib/skynet_mq.c` | `cap`, `head`, `tail`, array, overload monitor | push, `expand_queue`, pop, overload | `MqRing` |
| task dispatch | `lib/core.c` | each thread's place in `worker()`, the loop's place in its callbacks | worker, process, route functions, route and timer loops | `Dispatch` |
| thread pool | `lib/thpool.c` | job queue, binary semaphore, counters, hold flag | init, add, wait, pause, resume, destroy, `thread_do` | `Thpool` |
| timer wheel | `lib/timer.c` | `near`, four levels, `time` | timeout, update, shift, execute | `TimerWheel` |
| timer pass | `lib/core.c`, `lib/timer.c` | requests queued and armed, the clock | `misaka_packet_loop_timer`, `server_timer_updatetime` | `TimerLoop` |
| peers | `lib/core.c`, `link/` | peers, their status, watchers, descriptors and ids | new, register, start, connect timer, read, write, reconnect, stop, delete | `Peer` |
| ids, hash table | `lib/idmaker.c`, `lib/hash.c` | `curr`, returned ids; chains | get, put; get, release, iterate, clean | `IdMaker`, `HashTable`, `HashChains` |
| framing | `parser/`, `link/tcp_link.c`, `lib/core.c` | `ibuf`, `body_size`, `packet_size` | `misaka_read`, `tcp_read`, unpack | `Framing` |
| sending | `link/`, `parser/`, `lib/core.c` | `obuf`, what the kernel took | pack, the write callbacks | `Sending` |
| stream buffer, send queue | `lib/stream.c` | `getp`, `endp`, `size`, bytes; `head`, `tail`, `next` | get, put, read, resize, clone; push, pop | `Stream`, `StreamFifo` |
| list, vector, memory pool | `lib/linklist.c`, `lib/vector.c`, `lib/kmem.c` | nodes; slots; caches | insert, delete; set, unset; alloc, free | `LinkList`, `Vector`, `Kmem` |
| read-write lock | `include/rwlock.h` | `write`, `read` | rlock, wlock, unlock | `Rwlock` |
| sockets, loading, logging, helpers | the other files | | | not modelled, see the end |

How they interact: `read_io_action` pushes a packet to a queue and adds a job to
the pool; a pool thread runs `worker()`, drains a queue and calls handlers; a
handler's message goes to another task queue (with a new job), to the EVENT_NET
queue, which the main thread empties every millisecond, or to the EVENT_SYS queue,
whose messages the main thread puts into the timer wheel every second; an expired
timer is pushed to a task queue again.

What is hard in it: `in_global` has to say at every moment whether a push must
list the queue, and is written under the queue's lock in two places and without
it in a third; the list is intrusive and not checked for duplicates; the pool
counts jobs with one binary semaphore, reads `len` and the counters without their
locks, and pauses threads with a signal wherever they are; the ring and the wheel
wrap. A peer is reached from a timer, two watchers, a list and a hash table, all of
which have to be undone together when it is closed; the parser's two counters have
to stay in step with a byte stream that comes in pieces; and the timer pass arms
its requests before it looks at the clock.

## Modules

**`SkynetMq`** has one operator per critical section of `skynet_mq.c`. The lock of
a queue and the lock of the list are mutexes in this build (`spinlock.h`).
`skynet_mq_push` takes the second inside the first; since every other user of the
list takes only the second, the nested section can be merged into the push. The
store of `skynet_mq_global` has no lock and is a step of its own. Pointers are
queue handles; `next` is kept as the code keeps it, so that a queue that is
listed twice makes the cycles and broken lists it makes in memory. A queue's
messages are a sequence, which `MqRing` justifies.

**`Dispatch`** puts the threads on top: `worker()` step by step (`wpc`, `wq`,
`wmsg`, `sands`), `misaka_packet_process` with a handler that may choose any type
of `Returns`, and the main thread's callbacks (`mpc`), which run one at a time. The
pool is a count of pending jobs, which `JobPool` and `Thpool` justify. The
wheel is the set of armed messages, any of which may expire at a tick; which one
does is the subject of `TimerWheel`. `fate` records what became of a message and
is read by no action but the choice of a fresh message. `sys_route` is left out:
it is called for peers with `sys` set, and nothing sets it.

**`Thpool`** has a step for each critical section of `thread_do` and of the
users' calls. Where a thread can be seen inside a section the section is two steps:
in `jobqueue_pull`, because a paused thread keeps `rwmutex`, and at the end of
`thread_do`, because `thpool_destroy` reads the counter without its lock. Pausing
is a pending signal per thread (`signalled`) delivered at any later step (`held`).
`pthread_cond_wait` may wake up spuriously. The sections of the semaphore are
atomic: a thread paused inside the semaphore's own mutex is not modelled.
`thpool_destroy` is called for a pool that nobody waits for and that is not paused.

**`JobPool`** is what the pool promises: jobs start in the order they were added,
in one thread, once; and start if a thread is free (`Progress`).

**`MqRing`** is the array with `head`, `tail` and `cap`; `Garbage` is what `malloc`
leaves in it. **`Fifo`** is its abstract specification.

**`TimerWheel`** has the lists `near` and `t`, filled, moved and dispatched as in
`timer.c`, with the two shifts as parameters; `time` has as many bits as they give
(32 in the code). Only the event loop uses the wheel, so `timer_update` is one step.
**`Alarm`** is its abstract specification: a timer armed with d ticks fires at the
d-th, once, and timers of a tick fire in the order they were armed.

**`TimerLoop`** is the pass that feeds the wheel, against the clock: requests are
armed first, at most `MISAKA_TIMER_SANDS` of them, and the wheel catches up afterwards.
The wheel is what `Alarm` says of it.

**`Peer`** has one state record, `sys`: the peers by address, `peer_list`, `peer_hash`,
the id maker, the open descriptors. A C function is an operator from a state to the
set of the states it may return in, because the functions call each other;
a callback of the event loop is one action. `peer_new` does not initialise the two io
watchers of a peer, so what `malloc` returned decides what `ev_is_active` reads in them:
a watcher is `"junk"` if that is 1 and `"new"` if not, until it is started (`Malloced` has the
possible pairs). The `ret` of `tcp_accept` that was never set and the ids that
`idmaker_put` never stores are choices too. A use of freed memory, of a null
callback or of a null `disparser` is recorded in `crashed` and ends the behaviour.
**`IdMaker`** and **`HashTable`** are the operators it uses; **`HashChains`** has the
table as it is stored, chain by chain, with the walk of `hash_iterate` and a callback
that releases backets, beside the table of `HashTable`.

**`Framing`** is one TCP connection between the socket and the tasks. A byte is its
place in what was sent, so a frame is where it begins and how long its body is, and a
packet where its bytes begin and how many they are.
**`Sending`** is the other direction: what the kernel was given of which packet, for
the write callbacks of all links. **`Stream`** has the calls on one buffer, with
integers as bytes; `items` is a history of what was put where. An
operation outside the bounds ends in `assert(0)` (`aborted`). The assertion is real
in this build: `zebra.h` defines `assert` away, but `misaka.h` includes `Python.h`, and
with it `<assert.h>`, after it. **`StreamFifo`**, **`LinkList`** and **`Vector`** keep
pointers and slots as the code does, with the sequence or function they stand for as a
history. **`Kmem`** has the layout of the caches in bytes. **`Rwlock`** has a step
for every atomic access of the lock, in the branch of `rwlock.h` without
`USE_PTHREAD_LOCK`. No file includes `rwlock.h`, and `spinlock.h` (line 9) defines that macro, so
a file that included `misaka.h` first would get the branch with `pthread_rwlock_t`. The model
is sequentially consistent. GCC promises that of the `__sync_` additions, but of
`__sync_lock_test_and_set`, with which a writer sets `write`, only that it is an acquire
barrier; the model is the code on x86, where it is a locked exchange.

`MCDispatch`, `MCThpool` and `MCTimerWheel` add symmetry sets; `MCPeer` gives the
links of the application; `MCParts` puts the modules that stand on their own side by
side: a behaviour is one of the component `which`, the others stay as they start. Definitions marked
"A mutant" are wrong variants of the definition below them, used to see that a
property would notice the error; no specification uses them.

## What the runs check

Dispatch. In all runs handlers exist for EVENT_ECHO, and the two loops of the main
thread have 2 sands.

| run | instance | shows |
|---|---|---|
| `safe` | 3 messages, 2 workers, handlers free, reply or arm timers, 1 sand | `SerialHandlers`, `TaskListedOnce`, `NonemptyFlagged`, `OneOwner` |
| `echo` | 3 messages, 3 workers, handlers free or reply, 4 sands | `TaskFlagSet`, `NoAbort` |
| `live` | 2 messages, 2 workers, handlers free or reply, 3 sands, fair | `WorkScheduled`, `Handled`, `Replied` |

Two workers are enough for a queue to be drained, listed and pushed to at once;
the third lets two workers give back queues while one pops. One sand makes
every job end early; more sands than messages, none. With 3 messages a queue refills while it is drained. `MaxJobs`
only stops a message from being sent round for ever. Symmetry is over workers and
in safety runs only.

Thread pool: `pool_safe` (3 threads, 3 jobs, a waiter, a pause, the end of the
pool) and `pool_live` (3 threads, 2 jobs, a waiter, the end of the pool). Three
threads are the least for which one thread posts for the next while a third
sleeps. `pool_live` assumes nothing about jobs; `WaitReturns` and `DestroyReturns`
have the assumption that jobs return in their statement.

Timers: `timers` has two slots per list, so time has 5 bits, wraps, and
every level is used and ended together with those below it; the intervals reach
from 1 to the largest positive value of the width. Intervals are not negative:
`timer_add` takes a negative one for a time more than half a turn ahead, where the
wheel's lists do not tell the past from the future.

`parts` has one instance of each of these (`MCParts.cfg`):

| component | instance | shows |
|---|---|---|
| message ring | 2 slots, expanded to 4 and 8, from every position of the head | `ImplementsFifo`, `ThresholdCovers` |
| stream | sizes up to 4, integers of one and two bytes, bytes of one bit | `StreamOK`, `RoundTrip` |
| send queue | 4 streams, single or chained, recycled | `FifoOK` |
| list | 4 nodes, two values, so that equal ones meet | `ListOK` |
| vector | indexes up to 3, one slot doubled twice | `VectorMap` |
| hash chains | 2 chains, 3 keys of which two share a chain, keys that change | `ChainsAgree`, `WalkComplete` |
| memory pool | up to three caches, objects with and without padding | `KmemOK` |
| read-write lock | 3 threads | `RwExclusion`, `WriterEnters` |
| framing | 3 frames; bodies empty, short, as long as `ibuf` allows and too long | `AsksForTheRest`, `WholeBodies`, `BodyDelivered` |
| timer pass | 2 requests, one per pass; intervals below and above the gap of 2 | `FiresNear` |
| sending | 3 packets, 4 writes that take any part or fail, 2 packets per call | `WireInOrder` |

`peers` has two links of the application, one of them TCP and the other a listener, UDP or
serial (`ludp_connect` does what `udp_connect` does), and room for an accepted peer;
watchers as `malloc` returns them, at most one of a peer's two reading as active; descriptor 0 and three others, so that a stale number is
soon used again; and ids that run out after three registrations. It shows `OneWait`,
`NoPacketWaits`, `OwnDescriptor`, `Routable` and `PassiveGone`. A crash ends a behaviour,
so this run does not look for deadlocks.

### Fairness

`Dispatch!FairSpec`: pool threads are scheduled; the main thread finishes the
callback it is in; the two periodic callbacks start again and again (strong
fairness: libev runs all pending watchers of an iteration, so neither callback is
starved by the other or by reads). Nothing says that packets arrive.
`Thpool!FairSpec`: threads are scheduled, signals are delivered, a held thread
polls its flag, a caller inside a blocking call goes on. Neither a user's call nor
a spurious wakeup nor the end of a job is promised. The mutexes are fair enough for weak fairness, because no section is held
for ever except by a paused thread, which the fair runs of the passing kind leave
out. `Rwlock` and `Framing` have weak fairness of a thread inside the lock's functions and
of the read callback, which libev calls as long as the descriptor is readable; nothing
promises that a thread asks for the lock, that frames are sent or that reads are not
interrupted.

## Findings

Four runs end in a violation; each is a disagreement of the code with a comment
or with a header.

* `flag_set`: `misaka_packet_net_route` marks the EVENT_NET queue as listed without
  its lock. If the main thread's pop of the empty queue comes between the mark and
  the push, the push lists the queue (a worker that takes it throws replies away).
  Once EVENT_NET is in the list, listing it again overwrites the link to a task
  queue behind it. That queue keeps `in_global = 1`, is in no list, and is never
  drained again. As long as no job runs out of sands (`echo`) this does
  not happen.
* `stranded`: a worker that runs out of sands lists its queue again but adds no job.
  The jobs of the other messages may be used up already, by workers that found the
  list empty. With sands to spare (`live`) this does not happen.
* `pool_freed`: `thpool_destroy` can free the pool before the last thread has
  unlocked `thcount_lock`. It is the only use after the loop (`FreedAfterLoop`).
* `eof`: when the other end closes a TCP connection, `read` returns 0, which `tcp_read`
  takes for a part of a packet. The peer is never closed, and its callback runs for
  as long as the process does.

Variants of the configurations, which are not kept as runs, show four more: if
handlers reply and arm timers (`safe` with 2 sands and `NoAbort`), two queues can
be listed twice and `assert(mq == q->tail)` fails; a thread paused inside
`jobqueue_pull` (`rwmutex \in held`) blocks `thpool_add_work`; a pause signal
delivered after `thpool_resume` holds its thread for good, because `thread_hold`
itself sets the flag; and `pthread_cond_signal` wakes one of two callers of
`thpool_wait` (`pool_live` with two waiters). The server itself neither pauses nor
destroys its pool nor waits for it.

Some properties name the case they leave out, which the model has and the code
does not handle:

* `WireInOrder`: after a short write `tcp_write` leaves `getp` where it is and sends the
  packet again from its first byte, so the other end sees the part twice. And
  `normal_parser_pack` puts the header behind the body, where the comment above the
  parser has it in front.
* `BodyDelivered`: after a header that announces an empty body the next read asks
  for 0 bytes, for ever. A body too long for `ibuf` ends the process in `assert(0)`.
* `WholeBodies`: when a read in the middle of a body is interrupted (-2), the unpack
  callback is called with what is there, and the packet is delivered without its end.
* `WalkComplete`: a callback of `hash_iterate` that releases data whose key has changed
  may free the backet the walk goes to next.
* `Routable`: when the ids are used up, `idmaker_get` returns 0 and sets a flag that
  `peer_register` ignores; ids that come back are not the ones given back.
* `NoPacketWaits`: when `t_write` as `malloc` returned it reads as active (`"junk"`),
  `misaka_packet_route` and `misaka_start_success` take it for a started watcher. Nothing ever
  starts it, and a packet of the established peer stays in `obuf` for good.
* `OneWait`: the same of `t_read`, for a peer that is then never read; and a peer that
  `tcp_accept` has made but not started waits for nothing.
* `PassiveGone`: `tcp_accept` tests a variable it has not set and may return
  IO_PASSIVE_CLOSE, which deletes the listener.
* `crashed` in `Peer`: `misaka_stop` calls `disparser` without a test, and `ev_io_stop` for a
  watcher that only reads as active; the first data on a
  connection in progress starts the write watcher with a null callback.

## Proofs

The theorems are in eight modules, each of them about modules that stand together:

| proof module | about |
|---|---|
| `Dispatch_proofs` | `Dispatch`, `SkynetMq` |
| `Threads_proofs` | `Thpool`, `Rwlock` |
| `Link_proofs` | `Stream`, `Framing`, `Sending` |
| `Parts_proofs` | `MqRing`, `TimerLoop`, `Kmem` |
| `PeerSteps_proofs`, `PeerTables_proofs`, `PeerActions_proofs`, `Peer_proofs` | `Peer`, each extending the one before |

All theorems hold for every value of the constants allowed by the named
assumptions (`NullAssumption`, `DispatchAssumption`, `ThpoolAssumption`,
`RingAssumption`, `StreamAssumption`, `RwlockAssumption`, `FramingAssumption`,
`TimerLoopAssumption`, `SendingAssumption`, `KmemAssumption`, `PeerAssumption`):
distinct null values, at least one thread and finitely many, positive sands and sizes,
an alignment that is a power of two, event types in range, ids and descriptors that are natural numbers. Two theorems about
`Peer` have a hypothesis besides, named below.

* Dispatch: `SerialHandlers`, `TaskFlagClear` and `TaskListedOnce` are
  not inductive one by one: that a worker does not meet another at a queue rests on
  the queue not being listed while it is held, which rests on the flag being set
  while it is held. `OneDrainer(q)` joins the three for one queue; `DrainerInv` is
  `TypeOK` and `OneDrainer` for every task queue. It holds whatever happens to the
  EVENT_NET and EVENT_SYS queues: a push appends the pushed queue behind the tail, so
  it never creates a second reference to another queue, and a pop removes one.
  `NonemptyFlagged` is inductive with `TypeOK`, the unlocked store included, because
  that store only sets flags.
  `OneOwner` counts the places of a message. `Own(m)` says the same without counting
  (two places of m are the same place, and there is one exactly while m is live) and is
  what every step is shown to keep; the count follows from it at the end. It does not
  rest on `DrainerInv`: two threads at one queue would still pop different messages.
* Thread pool: `NoLostWakeup` follows from `WakeInv`: queued jobs mean a posted
  semaphore or a thread between `bsem_wait` and `jobqueue_pull`; and a posted
  semaphore with sleepers means a thread awake to take it. `CountersExact` is proved
  with the cardinality theorems, together with `LifeInv` (how far the threads can be
  in each phase of the pool), and gives `FreedAfterLoop` and `WaitMeansIdle`.
  `JobPoolCorrect` shows every step of the pool to be a step of `JobPool` or a stutter.
* Message ring: `RingOK` is inductive; with it `Contents`, the ring unrolled from
  `head`, is appended to by a push, unchanged by the move in `expand_queue`, and loses
  its first element by a pop, which is the refinement of `Fifo`.
* Read-write lock: exclusion alone is not inductive. `RwInv` adds that `read` is the number of
  threads between their increment and their decrement, and that `write` is set exactly
  while one thread waits or writes: a writer that reads 0 then knows that no reader is past
  its check.
* Stream: `StreamOK` (positions in order, buffer as large as `size`), call by
  call; the truncation of `CHECK_SIZE` and the shrinking of `stream_resize` are the
  cases that need arithmetic.
* Framing: `AsksForTheRest` is inductive with the types: what is in `ibuf` and
  what is asked for always add up to the header, or to header and body. `WholeBodies`
  needs to know which frame `ibuf` is in: `InFrame` says that the first byte of `ibuf` is
  the first byte of the frame after the last one delivered, and that `body_size` is the
  length of its body once the header is read; `FramesInOrder`, that frames do not overlap.
  `BodyInv` joins them. After an interruption inside a body (`cut`) it claims nothing,
  as the property does.
* Timer pass: `FiresNear` speaks of timers that fire, so the invariant carries the
  same bounds for those that wait: `QueuedBound` (a queued request is as old as the gap
  and the passes that skipped it) and `ArmedBound` (age and ticks left against the
  interval).
* Sending: `WireInOrder` with `PiecesUpToHead`, that every piece is of a packet
  already out of `obuf` or of its first one; otherwise a write could complete a packet
  out of turn.
* Memory pool: `KmemOK` follows from `KmemInv`: the caches follow each other up to
  `used_size`, which stays below the size of the region, and the objects of a cache
  are the chained ones and those handed out (`ObjectOnce`). That objects of one cache
  do not overlap is arithmetic: the stride of `kmem_cache_create` is not less than an object.
* Peers: `PeerInv` joins, for a state S, what a live peer waits for (`AllWait`), what is left of
  a freed one (`AllGone`), `peer_list` (`ListedLive`, `AllListed`), `peer_hash`
  (`HashCore`), the ids (`IdsOK`) and the descriptors (`AllOwn`). None is inductive
  alone. A packet finds its peer because no two backets have the same key, which
  holds because every key is below `curr` while the ids last. A closed descriptor is not used again
  because a peer that has closed its own waits for its timer, and the timer gets a
  new one before anything is read. And a freed peer is in no table because
  `peer_delete` finds the backet under the peer's present id, which is the
  first of its key (`HashPassive`). The part `Always` also holds after a crash.
  `PeerSteps_proofs` says of each C function which fields it may change;
  `PeerTables_proofs` has the invariant and what keeps the tables; `PeerActions_proofs`
  takes the callbacks one by one; `Peer_proofs` concludes. `OwnDescriptorCorrect` and `PassiveGoneCorrect`
  assume `DefaultUnpack`: the unpack callback of an accepted peer never asks
  for a close. An accepted peer inherits the callback of its listener, and the listener of
  the echo server keeps the default one, which answers IO_PACKET; the run `peers` has the
  same. A listener with `normal_parser_unpack`, which answers IO_CLOSE to a wrong magic, is
  outside these two theorems: the close goes through `misaka_reconnect` and not through
  `peer_delete`. The hypothesis is needed: with an `Unpack` that lets accepted peers answer
  a close (the configuration of `peers` otherwise, not kept as a run) TLC finds
  `OwnDescriptor` and `PassiveGone` violated. The other theorems about `Peer` have no such
  hypothesis.

Proved and not listed in a run, because the properties above rest on them: `TypeOK`,
`TaskFlagClear`, `CountersExact`, `RingOK`, `RwInv`, `KmemInv` and `PeerInv`.

Only model-checked:

* all liveness (`Handled`, `Replied`, `StartsQueuedJobs`, `WaitReturns`,
  `DestroyReturns`, `WriterEnters`, `BodyDelivered`), which is out of the prover's reach;
* `TaskFlagSet`, `NoAbort` and `WorkScheduled`, which do not hold for all handlers and
  sands: `flag_set` and `stranded` show how they fail;
* what needs induction over data: `ThresholdCovers` (repeated doubling), `RoundTrip` (what
  a decoder makes of a sequence of bytes), `VectorMap` (the doubling of
  `vector_ensure`), and the chains of pointers of `FifoOK`, `ListOK`, `ChainsAgree` and
  `WalkComplete`, whose contents are defined by following links;
* the timer wheel (`InPlace`, `ImplementsAlarm`), whose lists are folded over and whose
  arithmetic has powers with variable exponents.

No property speaks of the comment in `stream.c` (lines 30 and 31) that the
`stream_put..._at` functions may write anywhere within the size of a stream. The code allows
less: `PUT_AT_VALID` is `GETP_VALID`, so writing behind `endp` ends in `assert(0)`. The model has
what the code does.

No property speaks of the order `listnode_add_sort` keeps: the other insertions of the
same list ignore it. `ListOK` covers the links it makes.

## Not modelled

* `misaka_load_event` and the plugin code: they run once, before the loop, and open
  libraries, Lua states and Python modules. `Dispatch` takes their result, the event
  types that have a handler, as a constant. What a handler does to the payload is left
  out; so are the handlers' connect and disconnect callbacks.
* The reads of the datagram and serial links: one system call per packet and no state
  between two calls. Their result is a choice in `Peer`.
* `sockunion.c`, `network.c` (but for `set_nonblocking`), `memory.c`, `shm.c`, `log.c`,
  `common.c`, `pub.c`: wrappers of system calls, formatting and parsing of text.
* Functions that nothing calls and that have no protocol of their own: `stream_forward`,
  `reverse_stream`, `list_add_list` (which does not end when a list is added to itself),
  `hash_free`, the copy and the free of vectors, `skynet_mq_release`.
* Allocation failures, except where a function's callers test for them.
* `Dispatch` counts jobs where the code calls the pool; `JobPool` is what `Thpool` shows
  the pool to promise, and the two are not composed in one run.
