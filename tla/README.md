# A TLA+ model of C Collections

C Collections is a C library of containers, queues, a thread pool, a cache, a logger,
JSON/YAML and an HTTP client and server. Most of its containers are sequential and well
reached by tests. What is hard is what runs concurrently: the lock-free table that every
opaque handle is resolved through, the thread pool with its futures, the queues of
`cthreadcomm` with `cselect` and the event loop, the cache that calls out to a remote store
without its lock, the per-thread magazines of the memory pool, the logger's rotation and its
writer thread, and the HTTP client and server on top of all of them. This project models
those parts, one module per component, checks them with TLC and proves the safety of the
parts every other part rests on with TLAPS.

Line numbers below and in the modules' comments refer to `src/src/` and `src/include/`.

## Inventory

| Component | State | Operations | Interacts with | Hard behaviour | Correct when |
|---|---|---|---|---|---|
| pin table and slot tables (`cpintable.c`, the slot table of `cthreadpool.c`) | per index: generation and live bit in one word, pointer, one counter per stripe; free list, `lost_indices` | publish, retire, pin, unpin, scan of the pins, release, exit-time dispose | every call of thread pool, logger, cache and HTTP client starts with a pin | pins and the scan of the stripes run without a lock; indices are recycled | a resolved pointer stays valid until its unpin; an old handle never reaches a new object; no index is lost or given out twice |
| thread pool (`cthreadpool.c`) | task queue, `active_count`, four shutdown flags, four condition variables | submit (blocking, trying, timed), worker loop, wait, drain and immediate shutdown, destroy | futures, user callbacks, handle table | submit drops the lock to allocate; shutdowns overlap and escalate; tasks submit tasks | each accepted task is completed or discarded exactly once; a finished shutdown is final; nobody sleeps on what has come; destroy frees an unused pool |
| futures (`cthreadpool.c`) | reference count, `done`, `cancelled`, result | submit_future, create, fulfil, get, free | pool workers and shutdowns are producers | owner, producer and gets leave in any order | block freed once, after the last user; one result |
| circular queue (`cthreadcomm.c`, `ccircq`) | ring, two indices, count, switch, two waiter counters | three sends, owner sends, three receives, enable/disable, destroy | select and event loop waiters, channels | conditional signals; timeouts racing signals; the switch | bounded FIFO; no wake-up lost |
| dynamic queue (`cdynmq`) | doubly linked list, count, switch, waiter counter | sends, three receives, enable/disable, destroy | as above | list edges, refusals, timeouts | bounded FIFO; links and count agree |
| select (`cselect`, `cselect_timed`) | waiter lists with rotor per queue direction; flag, condition variable or epoll set per call | scan, register, wait, deregister and forward, return | locks queues and its own mutex; queues notify it | wake of one waiter among many; nodes on a caller's stack; two kinds of wait | no wake lost, no dangling node |
| channels (`cchan`) | two circular queues | delegate by thread id | circular queue | none of their own | as the two queues |
| event loop (`ceventloop`) | registrations with generation and pending resolves, entries shared by two directions, waiter nodes in queues, reclamation lists | add, modify, pause, resume, remove, run, shutdown, destroy | queues, sockets, dispatch pool, HTTP engines | removal during dispatch, deferred free, one wake per message among several listeners | `on_removed` once and last; nothing used is freed; no event forgotten |
| fork handling (`common.c` and every module's atfork handlers) | all module locks | prepare, parent, child | all | lock order, state repair in the child | no deadlock at fork |
| LRU cache (`clrucache.c`) | per segment: map, entries, use-order list, size | get, get_into, set, evict, destroy | remote getter and setter | remote calls without the lock; waiters on evicted entries | no entry freed in use or leaked; one remote call per key; fresh answers |
| memory pool (`cmempool.c`) | free lists, per-thread magazines with a registry, size classes, set of dynamic entries | alloc, free, refill, flush, reap, thread exit, create, destroy | all containers | pops without a lock, thread exit racing destroy, the reserve behind other threads' magazines | each entry has one owner; the advertised count can be had; no dangling magazine |
| logger (`clogger.c`) | live file and rotated names in a directory; queue, batch buffer, owed bytes and loss markers | log, flush, rotate, compress, delete, recover, close | file system, compressor thread, queue | crash between two renames, listing under a renaming thread, clock steps, writes that stop anywhere | newest records kept, bounded number of files; every record delivered once or named as lost, in order |
| HTTP client (`chttpclient.c`) | chains (one per request), ctxs (one per connection), idle pool, deadline list | submit, connect, handshake, write, read, retry, redirect, sweep, destroy | event loop, futures, TLS | an idle connection is taken while its callback runs; deadlines; stale connections | every request ends once; nothing executed twice that may not be; no stale bytes |
| HTTP server (`chttpserver.c`) | connections in lists, body memory counters and wait list, pools, registrations | accept, read, dispatch, admit, respond, park, linger, refuse, sweep, stop, destroy | event loop, thread pools | a connection changes hands; waiting for memory without a thread; destruction under load | one holder; memory bounded and nobody forgotten; server outlives its users |
| HTTP/1 parser, TLS wrapper | bytes of one message; external library | parse, serialise; handshake, read, write | client and server | framing | agree with the grammar |
| hash map, ordered map, sort, vector, string, JSON, YAML | sequential data | as named | – | resize, probing, rebalancing | agree with a map, a sorted set, a sequence |

`PROJECT.json` lists the same components with their status and, under `hazards`, where in
the code each of the hard behaviours bites and which property watches it.

## Modules and code

Every module takes one section under a mutex as one step, a condition wait as leaving the
set `asleep` (`waiting` of a future; by signal, broadcast, timeout or spuriously) followed by a step that has the
mutex again, and user code, remote calls and allocations that the code makes without the
lock as points where other threads move. Payloads are model values. A definition named
`X_Something` directly above a definition `X` is a mutant: `X` with a plausible mistake,
which must break the property it is listed with.

* **HandleTable** – `ccol_pintable_*` and the slot table. Here a step is one atomic access,
  because readers take no lock: `ResolveCall`, `PinLookup`, `PinAdd`, `PinRecheck`,
  `PinLoad`, `Unpin`/`PinBackout` are the accesses of a resolve; `DestroyRetire`,
  `ScanStripe`, `ScanAgain`, `ScanDone`, `FreeObject`, `ReleaseSlot` those of a destroy;
  `AcquireSlot`, `AcquireFails`, `PublishState`, `Abandon` those of a create with its error
  paths. The four accesses that race are `seq_cst` in the code, so interleaving is its
  semantics. `ExitCleanup` is the library's destructor; `QuietExit` says whether the caller
  keeps the rule of `cpintable.h` that nothing is in flight then.
  `DisposedTableUnused` is that rule's consequence and holds only with it.
* **ThreadPool** – one pool. `SubmitCall` .. `SubmitEnqueues` are the submit with its
  unlocked allocation and the re-check after it, `Worker` the loop, `Wait`,
  `ShutdownDrain`, `ShutdownImmediate`, `Discard`, `Join`, `MarkComplete`, `DestroyFrees`
  the calls. Task functions may submit to their own pool (`Nesting`). The free list of task
  nodes is reduced to whether it has one.
* **Future** – the reference count shared by owner, producer and gets. `kind` is task-backed
  or detached. `ClaimFirst` restricts the owner to freeing when no get is between its call
  and its increment.
* **BoundedFIFO** – what a queue promises: `Put`, `Take`, `Switch`.
* **CircQueue**, **DynQueue** – the ring and the linked list. Both map to BoundedFIFO by
  `Contents`, the messages read off the ring from `read_index`, or off the list from `head`.
* **WaiterList** – the list of waiter nodes a queue keeps per direction, with its rotor:
  shared by Select and EventLoop, as `notify_one_sel_waiter` is in the code.
* **Select** – `cselect` with waiter lists, rotor, notification (`Mark`, `NotifyOne`,
  `NotifySignal`: the signal is sent after the waiter's own mutex was released and before
  the queue's is), condition-variable and epoll waits, `Deregister` with the forwarding of
  an unused wake, and the second look. The contents of a queue are its count.
* **LRUCache** – one segment. Segments share nothing and a key always hashes to the same
  one. `GetMiss`, `RemoteGet`, `FetchDone` are a fetch, `SetEntry`, `RemoteSet`, `SetDone` a
  set, `WaitForEntry`, `GetWakes`, `SetWakes`, `LookAgain` the waiting on an entry. The
  remote store is a variable that remote calls read and write or fail to.
* **EventLoop** – one loop, one descriptor and one queue. `reg` and `entry` are the
  registrations and the epoll entries two directions of a descriptor share; `ex` is what the
  poller or a pool worker is in the middle of; `batch` holds the events `epoll_wait` returned.
  Removal only marks: registrations and entries go to `pendingRegs` and `pendingEntries` and
  the poller frees them between batches, once no resolve, job or batch refers to them. The
  pass-on of a wake among the listeners of a queue, the refusal of a job by a full pool, the
  shutdown and destroy of the loop, and the destroy of the watched queue with its wait for
  dispatches are actions of their own.
* **AddressSet**, **MemPool** – the open-addressing set of dynamic entries (no tombstones: a
  removal moves later keys back), and the pools. A pop or push of a magazine is a step without
  a lock; the pool lock guards the free list and the list of magazines; the registry lock
  orders thread exit against destroy. A pool may be created anew where a destroyed one was.
* **LogRotation** – a directory that survives crashes. Each system call that changes it is a
  step, so a crash may fall between any two; the process then starts again with recovery. The
  compressor thread works on the same directory and takes the mutex only for its deletion
  pass. A rotated name is a pair (stamp, sequence number).
* **LogWriter** – records are three units (half a line, its end, a continuation line), so a
  short write can stop in a line, between lines or between records. What the code does under
  `shared->mutex` is one step, an operator from the guarded state to its possible results.
* **HttpAsync** – a request is a chain, a hop runs on a ctx. Submitters, the callbacks of each
  ctx (one at a time, as the event loop guarantees), the sweep and the destroyer are the
  actors; the peer and the network are the environment, with a budget for each kind of
  surprise (a failing call, a stray byte, a close, a refused connect, a redirect, a new TLS
  configuration, a connection the peer does not keep, a stale event: one dispatched although
  there is nothing left to read).
* **BodyMemory** – the memory limit of the server as an abstract specification of its own
  (`MemSpec`): reserve, join the wait list, admit, go ahead past the limit, release, expire,
  flush, close the admission.
* **HttpServer** – EXTENDS BodyMemory: connections from accept to `on_removed`, with reactor
  threads, the two pools, the sweep, the destroyer, and the admission loop as a thread whose
  caller stands still meanwhile. What the peer does and whether a call fails is chosen where
  the code looks. A body of declared length that came whole with its head passes no gate and
  asks for its size at once.
* **MC...** modules give the instances. A record `scenario` (or `sc`) chosen by `Init` holds
  what an instance may do and its budgets, so that one run covers several instances.
  MCQueues explores the ring or the list, one at a time, and MCHandles the handle table or a
  future.

Components meet where the code has them meet. ThreadPool and LRUCache rely on what
HandleTable shows (destroy waits for the pins of running calls), Future on ThreadPool's
`CompletesOnce` (a task-backed future has one producer). EventLoop is composed with the
queue: it has its counter, its waiter lists and its destroy. HttpAsync and HttpServer use of
the event loop what EventLoop shows: callbacks of a registration do not overlap,
`on_removed` is the last of them and comes once. HttpServer is composed with BodyMemory,
which it extends and implements.

## Runs

| Run | Instance | Shows |
|---|---|---|
| `handles` | the table: 2 threads on 2 stripes, 2 objects, 2 indices; the future: 3 gets, 2 producers, owner | `PinnedObjectAlive`, `IndicesSound` (no old handle reaches a recycled index, none leaks or is given out twice), `NoUseAfterFree`, `SameResult`; `DestroyReturns` and `FutureSettles` under fairness |
| `pool` | 2 workers, 2 clients, 3 submits (try and timed), queue of 1, nesting | `CompletesOnce`, `ShutdownIsFinal`, `NobodyStranded`, `WaitIsBarrier` |
| `queues` | ring of 2 with 2 senders, owner, 2 receivers; list of at most 3 with 3 receivers | `ImplementsFIFO`, `ListImplementsFIFO` (refinements), `NoWakeupLost`, `WaitersCounted` |
| `select` | 2 selects that share the write direction of one queue, one of them in epoll with a descriptor, the other also reading a second queue | `NoDanglingNode`, `NoLostNotify` |
| `lru` | 3 threads, 2 keys, room for 1, 4 calls, with both callbacks and with none | `EntriesIntact`, `OneWorksForAll`, `GetsFresh` |
| `eventloop` | 7 instances: both directions of a descriptor, two listeners of a queue, reader and writer, the queue's end; with and without pool | `NoUseAfterFree`, `CallbacksInTurn`; `LoopProgresses` under fairness |
| `mempool` | 3 threads; one cached pool, two pools that come and go, a ranged pool with each fallback | `EntryPlacedOnce`, `DynamicEntriesFound`, `NoDanglingMagazine`, `RefusedOnlyWhenFull` |
| `rotation` | crashes with each way of publishing a name, a clock that steps both ways, failing calls | `RetentionKept`, `CleanClose` |
| `rotation_names` | a rotation that fails in its second rename and in the rollback, then a clock that steps back | expected violation of `NewNameIsNewest`: the next name sorts below one on disk |
| `logwriter` | 2 threads; refused writes with and without rotation, records that cannot be queued or allocated | `RecordsKept` (with `LinesIntact`, `EveryRecordAccounted`, `DirectKeepsOrder`), `NoSleepOnWork` |
| `httpasync` | 11 scenarios of one or two requests | `LiveWhileUsed`, `TimeoutIsOwn`, `AtMostOnce`, `ReuseIsSound`; `RequestsSettle` under fairness |
| `server` | 7 scenarios of up to three connections | `OneHolder`, `ServerLives`, `MemoryBounded`, `NoLostAdmission`, `ImplementsBodyMemory` (refinement) |

A definition may gather the parts of one promise (`NoWakeupLost` is about both queues,
`RetentionKept` about which records and which files are left); its comment says which.

The bounds make the interesting cases happen. Two stripes let a scan pass one stripe and
then miss a pin that arrives there; two objects over two indices recycle an index under an
old handle; a queue of one with three submits has one task running, one queued and one
submitter blocked; a ring of two wraps; four calls in a segment of one entry let one key be
cached, set, waited for and evicted by another key at the same time. Two listeners of one
queue of which one takes no message make the wake go round; three threads over two
magazines leave one without; dynamic addresses collide and wrap round the table's end;
crashes come twice, so that recovery is itself interrupted; two connections on three units
of body each over the limit make all holders wait, and a third makes one of them exempt
while another is at the head. `MaxTasks`, `MaxEvents`, `MaxCalls`, `GenMod` and the budgets
in a scenario bound calls, events, generations, faults and clock ticks. A blocking submit is
a timed one whose deadline never comes, and nothing forces a timeout, so the pool's run uses
the timed mode for both. Data values are interchangeable, so one or two are enough to tell
messages apart. Symmetry is used for safety only, over threads, connections, keys and values
the modules do not tell apart. A cfg says `CHECK_DEADLOCK FALSE` only where all calls may
have been made and returned.

**Fairness** is weak and only on steps inside a call that was started, or inside the loop or
role a thread has: a runnable thread is scheduled, a free mutex is eventually obtained, and
callbacks return. That is what the scheduler and POSIX mutexes give; nothing stronger is
used. Nothing is assumed of timeouts of waits, spurious wake-ups, failures, or of anybody
starting a call. In `httpasync` time passes (deadlines and the wait for a 100-continue come
to their end), the sweep thread keeps coming round, and the peer is assumed to answer only where some request has no deadline: a request with one ends without the peer.

**Disagreements with comments.** While modelling, the code was found to do other than a
comment or header says in these places. The first, second and fourth can be reproduced with TLC by
changing what is named.

* `cthreadpool.c:2978-2986`, exit-time release: the scan of the pins does not see a resolve
  that has looked the slot up and has no pin yet. With `QuietExit = FALSE` TLC violates
  `DisposedTableUnused`. A rule the caller keeps (`cpintable.h`).
* `cthreadpool.h:536-538`: a free that overtakes a get before its increment. With
  `ClaimFirst = FALSE` TLC violates `NoUseAfterFree`. A rule the caller keeps.
* `cthreadcomm.c:148-153` describes flag and eventfd as changing in one critical section;
  at 2352 and 3378 there are two. `NoLostNotify` shows nothing is lost by it.
* `clogger.c:9414-9417`: earlier records of the thread "go out first [...] so this direct
  write never lands ahead of them". When the target refuses the write of that flush, the
  records stay in the batch, the flush returns, and the direct write may succeed ahead of
  them. `DirectKeepsOrder` is about the instances with `ordered`; with `ordered = TRUE` in
  `Unallocated` of MCLogWriter TLC shows the overtaking.
* `clogger.c:5507-5509`: "every new name must sort above every name this shared target made
  before". When the second rename of a rotation (5595) fails and so does the rollback (5599,
  result ignored), the rotated name stays on disk and `rot_last_stamp` is not brought up to
  date (5618); when the clock then steps back, the next name sorts below it, and the deletion
  pass takes newer records for older ones. The run `rotation_names` shows it. It needs
  a rotation before the failing one, two failing calls and a clock step; no instance of
  `rotation` has all of them, and the theorems about LogRotation exclude it by name.
* `chttpserver.c:3193-3196` says the server is unregistered before its connections are drained;
  the destroy does it after (14315). `ServerLives` and `OneHolder` hold for the order of the
  code.
* `chttpserver.c`: a `_task_resume` that runs after the destroyer's poll deadline may enter
  the memory-wait list after its last flush; that connection, and with it the server, is then
  never freed. Only when the destroyer gives up waiting, which it logs; `ServerLives` is about
  use after free and is not touched.
* `mem_admit_again` never decides anything: whoever sets it finds the loop at a point where
  it looks at the list again anyway.

## Proofs

Each theorem holds for every value of the constants that meets the assumptions stated where
they are declared (finite sets of threads, positive sizes, disjoint roles, arguments that the
code's own checks let through). Every inductive invariant below was checked by TLC on the
run of its module before it was proved.

* **SequenceLemmas** – what appending, pushing, taking the head or the last, removing,
  splitting, joining, reversing and waking by `Without` do to a sequence and to the set of its
  elements, and induction over the naturals stated for a set instead of a predicate (`NatSetInduction`), so that it can be
  cited: a bound on a recursive function is the set of the numbers for which it holds.
* **ContainerProofs**, about the queues – the ring: `TypeCorrect`, `CountersExact` (`WaitersCounted`), `Refinement`
  (`Spec => ImplementsFIFO`), `RingLosesNoWakeup`; the list: `ListRefinement`
  (`ListImplementsFIFO`); both: `NoQueueLosesAWakeup` (`NoWakeupLost`). The ring's invariant is
  `TypeOK /\ RingInv /\ CallInv /\ WaitersCounted`; `RingInv` is
  `write_index = read_index + msg_count` modulo the size, with which a put appends to
  `Contents` (`PutAppends`) and a take removes its head (`TakeRemovesHead`). The wake-up
  argument counts: a sender that sleeps while there is room is matched by a thread that has
  been signalled and has not looked yet, and a signal is skipped only when the waiter
  counter says that nobody is there. What the list holds is defined by following the links,
  which cannot be unfolded for every length; the invariant says instead that some sequence of
  nodes without repetition witnesses the links, from head to tail and back, and that its
  messages are the contents. A freed node must not look like a node in use
  (`Nothing \notin NodeRecords`). `MCQueues` runs both queues side by side, and its
  specification implies each one's own.
* **ThreadPoolProofs** – `QueueStaysBounded`, `TasksCompleteOnce` (`CompletesOnce`),
  `ShutdownsAreFinal` (`ShutdownIsFinal`), `WaitReturnsAfterTheTasks` (`WaitIsBarrier`),
  `NobodyIsStranded` (`NobodyStranded`). None is inductive. `PcInv` and `SubInv` say what each
  thread is in the middle of, `PlaceInv` that a task is in one place, `ActiveInv` that
  `active_count` is the number of workers that hold one, `FlagInv` how the four shutdown
  flags follow from each other, `DestroyInv` what a destroyer has already waited for, and
  `WakeInv` that whoever sleeps on a condition that holds has somebody who will signal it.
  About futures: `FutureSafety` (`NoUseAfterFree`), `GetsAgree`
  (`SameResult`), `DeliveredOnce` (`ResultStable`), each under `ClaimFirst`, without which the
  first is false. The count is exactly the outstanding claims, and only a thread that saw it
  reach zero destroys.
* **ThreadPoolProofs**, about HandleTable – `TypeCorrect`, `PinSafety` (`PinnedObjectAlive`),
  `DestroyExclusive`, `HandlesAndIndicesSound` (`IndicesSound`). `PinnedObjectAlive` is not
  inductive: that a destroyer may free depends on which stripes its scan has passed. The
  inductive invariant is
  `HandleTypeOK /\ CountInv /\ SlotInv /\ FreeInv /\ CreatorInv /\ DestroyerInv /\ UserInv`. `CountInv`
  says that a counter is the number of threads between their increment and decrement on
  that stripe; `SlotInv` and `FreeInv` tie state words, objects and free list together;
  `CreatorInv` and `DestroyerInv` give an index one creator or one destroyer; `UserInv` is the
  heart: a granted pin is on a slot still in use, or its destroyer's scan has already read
  something or has not passed the pin's stripe, so the sum cannot come out zero.
  `IndicesSound` needs `GenInv` and `AccountInv` besides: the object in a slot carries the
  slot's generation, and every index is in use, free once, held by one creator or destroyer,
  or counted in `lost_indices`. That a resolved object carries the very handle that was
  asked for holds when generations wrap too; that the handle then means another object than
  it did once is what the wrap gives away.
* **HttpServerProofs** – `ServerOneHolder` (`OneHolder`), `ServerOutlivesUsers`
  (`ServerLives`), the refinement `ServerImplementsBodyMemory` (`ImplementsBodyMemory`), and with
  it `ServerMemoryBounded` and `ServerAdmitsAll` for the whole server. The invariant `SInv` has
  eleven parts. `PcInv` says at which program counters a thread has a connection and where it
  goes back to. `HoldInv` is the heart: the hands of the threads and the seven spots (lists,
  wait list, batch, the two task queues, what the sweep and the destroyer have unlinked) are
  pairwise disjoint and together are exactly the open connections; `OnceInv` says that no
  queue has one twice. `RefInv` and `SrvRefInv` make the reference counts exact: the
  registrations that have not had their `on_removed`, and the holder. `EvInv` ties a callback
  to a registration that is not gone, so a late event cannot reach freed memory. `StageInv`,
  `RestInv` and `AdmitterInv` say what the destroyer has already waited for at each stage, and
  who may still call `_mem_admit`: no pool thread after its join, no sweep after the pins.
  `NeedInv` is what the refinement needs of a thread about to enqueue. The two invariants are
  proved together: a step of the server is a step of BodyMemory because the connection is in
  its thread's hands and hence not in the wait list (`HandAlone`), and `SInv` is kept because
  the wait list has no repetition, which is BodyMemory's. There is a lemma per action, over
  a few for the shapes a step can have (a thread works on its connection, gives it away,
  takes one up; a registration changes). `HttpServerAssumption` asks that threads have one
  role each and that `MaxNeed` covers the old and the new buffer of a body of `MaxBody`.
  Before the server come the theorems of the account alone, `MemoryIsBounded`
  (`MemoryBounded`) and `NoAdmissionIsLost` (`NoLostAdmission`). What is left of the wait list
  when `_mem_wait_unlink_locked` has taken connections out of it is a recursive function;
  `UnlinkedProperties` says what the proofs need of it. The second theorem rests on
  `mem_admitting`: while it is set somebody will look at the list again, and it is cleared
  only where the head was just refused.
* **ContainerProofs**, about LRUCache – `EntriesStayIntact` (`EntriesIntact`), `OneCallWorks`
  (`OneWorksForAll`), `GetsAnswerFresh` (`GetsFresh`). None is inductive; the invariant is
  `LRUInv /\ FreshInv`. `SegOK`: the list orders distinct entries, `size` counts them, and the
  map points at live entries of its keys. `HeldOK`: `waiters` is the number of calls that hold
  the entry, exactly one of them works for it when it is fetching or setting and none
  otherwise, and whoever is asleep on it is one of its waiting calls. `PlaceOK`: an entry is
  free, or evicted and held by somebody, or in the map under its key; it is in the list just
  if it has a value, and calls sleep on it only while somebody works for it. From these no
  call can be left with a pointer to a freed entry: it is counted in `waiters`, and the free
  happens where the count reaches zero. `FreshInv` relates the cached value to the store's:
  they agree, or a setter that is back from the store is about to overwrite it; and the value
  a call may still read is one of those it has `seen` the store hold. `make_room` evicts until
  there is room, a recursive function; since a list is never longer than the capacity, one
  eviction is all it does (`MakeRoomIs`). `clrucache_destroy` empties the list by a function of
  its length, by `NatSetInduction` (`EmptiesAll`). That a fetch or set finds a free record
  (`FreshExists`) needs counting: there are as many records as keys and calls, and each live
  one is in the map or held. `LRUAssumption` asks for finite sets of keys and threads and for
  a null pointer that is neither an entry nor a value.
* **MemPoolProofs** – `MagazinesStayReachable` (`NoDanglingMagazine`); **MemPoolEntryProofs**,
  which extends it – `EntriesStayPlaced` (`EntryPlacedOnce`), `RefusalsAreRight`
  (`RefusedOnlyWhenFull`): three layers of one invariant. `SInv` is about control: `OwnInv`, a magazine is on the list of one thread or on its way through one
  exit; `PoolInv`, a pool's list holds exactly its live magazines but for the one that is being
  orphaned; `LockInv`, the registry lock keeps an exit's flush and a destruction apart, and the
  pool's lock keeps the list still while somebody counts; `AloneInv`, a call never meets a
  destruction of its pools; and for each thread `CallOK` and `HandOK`, what its call has in
  hand. So a looked-up pool cannot go away before the flush, and a magazine taken off a dead
  pool's list is not freed before it has been marked. `EntryInv` adds where the entries are:
  for a pool in use each of its numbers is on the free list, in one magazine or taken
  (`Stored`), and the taken ones are those handed out or on their way back (`HoldAt`); a few
  lemmas say how entries may move between the three (`StoreMoves`, `StoreFlushes`,
  `StoreGrows`), and every action is one of these or leaves the pool alone (`EntriesStay`).
  `CountInv` is about `mempool_live_count_locked`, which reads the magazines one by one while
  others pop and push: what the counting thread still takes for live is no more than the
  entries that are taken or in magazines it has yet to look at, plus the pushes since it
  began. A pop moves an entry from a magazine to the taken ones and cannot lower that bound, a
  push lowers it by one and is counted. When the list is empty the magazines hold at most the
  reserve (`UnionCard`), and so callers hold the rest. `MemPoolAssumption` asks that the
  element counts are natural numbers, that only a ranged pool has the policy "last", and that
  the null pointer is neither a thread, a magazine nor an entry.
* **LogRotationProofs** – `FilesRetained` (`RetentionKept`), `ClosesClean` (`CleanClose`) and
  `NamesInOrder` (`NewNameIsNewest`), each from `Spec /\ []ClockTrusted`. `ClockTrusted` asks two
  things of the environment: no name on disk is past the clock by more than the tolerance of
  `_clog_gen_filter_init` (such a name is a foreign file that the logger must leave alone, so
  nothing can be promised of it), and a rotation that could not be undone is not followed by
  a step back of the clock (the finding above). `SteadyClockRetains` needs no such condition: where
  the clock never steps back `ClockTrusted` follows (`StampInv`: no stamp is past the clock),
  so all three hold through any number of crashes, failing calls and failed rollbacks.
  The invariant `LogInv` has seventeen parts. `MonoInv` is the heart: the order of the names
  is the order of the files they hold, so the newest names hold the newest records. A
  rotation may still take its name back, so the counting is over `Settled` names.
  `HeldInv`: a file with records has a name, unless as many later ones as are kept outlive it;
  `CopyInv`: what only a ".gz" file holds is whole, or need not be. `DoomedInv` and `KeepInv`: what a deletion
  pass has marked is outlived, though its listing may have missed the running compression.
  `KeyInv`, `LastInv`, `TmpInv` and `FdInv` say what a rotation in progress has in hand,
  `PhantomInv` and `BusyInv` which generations the compressor's queue may name, and `CleanInv`
  (with `UpClean`, `QueueClean`) which debris is still somebody's work. TLC checked the parts in
  the states that satisfy `ClockTrusted`, over seven instances with a longer clock and a
  smaller tolerance than the run's. `LogAssumption` gives the constants their types and asks
  that `max_rotated_files` is positive.
* **SelectProofs** – `NoNodeDangles` (`NoDanglingNode`) and `NoNotifyLost` (`NoLostNotify`),
  for any number of calls, queues and notifiers. `CallInv` and `ListInv` say where a call's
  nodes are: lists are without repetition, hold nodes of calls in progress only (during a
  scan, only those it has visited), and a rotor is in its list. `SignalInv`: what a notifier
  still has to signal is linked in the queue that it has locked, so the call cannot
  deregister and return under it. `WakeInv`: a set flag comes with a signal on its way or a
  written eventfd. `LookInv`: a ready queue with waiters has one whose flag is set or that is
  about to deregister, and forwards. `SelectAssumption` is what `_sel_validate_args` lets
  through: no empty set of items, directions that exist.

Only model-checked: EventLoop, LogWriter and HttpAsync; of MemPool,
`DynamicEntriesFound` (the address set is recursive); and all liveness
(`DestroyReturns`, `FutureSettles`, `LoopProgresses`, `RequestsSettle`), which is out of the
prover's reach, as is what folds and recursive operators compute for every input (`Grown`,
`SetRemove`, `WritePieces`; LogWriter uses the last, so nothing in it can be proved). No
liveness is claimed of select: a selector may for ever prefer another ready item.

## Not modelled

The TLS wrapper is a binding to an external library. Vectors, strings, iterators, hash map,
ordered map, sorting, the HTTP parser, JSON and YAML are sequential data manipulation, more
than half of the library's lines, that tests and fuzzing reach better than a small finite
instance; a model of their byte-level code would repeat it. Channels delegate to CircQueue
and have no state of their own. The fork handlers' order is a table over all locks of the
library; no module here has them all.

Of the modelled components:

* handles, pool: pin counts and locks in a fork child; create failures of the pool (threads
  that cannot be started). 32-bit generations wrap after 2^32 reuses of one index; the design
  accepts that and the model stays below `GenMod`.
* cache: the choice of a segment by hash.
* event loop: timers, the listing of registrations, failures of `epoll_ctl` other than at add.
* memory pool: pools in caller memory, alignment and size arithmetic, diagnostics.
* logger: formatting, derived loggers, syslog and socket targets, FATAL records and the exit
  drain; in the directory, foreign entries and the owner filter, and the third fallback for
  publishing a name.
* HTTP client: the synchronous tier, the race of addresses in a connect (12366-12590),
  partial uploads, streaming sinks, the age of pooled connections, the engine's reaper, TLS
  records without data, deadlines merged from several options.
* HTTP server: streaming routes and their queue, restart with retired pools, TLS,
  `max_connections` and resource pressure at the listener, routing, the engine's reaper.

## Plan

1. Done: all modules above, with their runs; theorems about handles, futures, both queues,
   the thread pool, select, the cache, the memory pool, the log rotation, the account of body
   memory and the server.
2. Proofs next: HttpAsync's `AtMostOnce` and the event loop's `NoUseAfterFree`.
3. Then: streaming routes of the server, the synchronous tier of the client, timers of the
   event loop.
