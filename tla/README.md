# EngineRace in TLA+

TLA+ models of the key-value engine in `src/engine_race`, of the lock-free queues
and the hash table that come with it and of the sample engine in
`src/engine_example`; the TLC runs that check them on small instances; and TLAPS
proofs, for every instance, about the durable part, what the index reads back, the
Range pipeline, the components by which threads wait for each other, the sample
engine, and the lock-free queue's lists, hash of producers, sub-queue indices and the
blocks of its implicit sub-queues.

## 1. The system

EngineRace stores 8-byte keys with 4 KB values. It is written for one contest:
64 threads write, the process is killed with `kill -9` at any moment, the
database is opened again and read at random (`Read`) or traversed in key order
(`Range`, twice).

### Components

| component | state | operations | module |
|---|---|---|---|
| layout of the files | none: arithmetic on keys, buckets, offsets | `get_par_bucket_id`, `get_key_fid_foff`, `get_value_fid_foff` | `Layout` |
| write path, flush, recovery | meta file (counters), two mmap-ed buffer files, key and value logs; per bucket a mutex | constructor, `Write`, destructor, `FlushTmpFiles`, `ParallelFlushTmp` | `RaceLog`, `RaceLogInv`, `DurableLog` |
| index and search | `index_`: per bucket a sorted array of (key, 16-bit offset) | `BuildIndex`, `branchfree_search`, what `Read` and `Range` find | `RaceStore` |
| barrier | count, generation, condition variable | `Barrier::Wait` | `Barrier`, `BarrierSpec` |
| blocking queue | deque, mutex, condition variable | `push`, `pop` | `BlockingQueue` |
| Range pipeline | futures and promises per bucket, free buffers, cached buffers, visit counters, barrier | `InitForRange`, `Range`, the coordinator, the destructor's shutdown | `RangePipeline`, `RangePipelineInv` |
| Range IO workers | task queue and status word per worker | `ReadBucketToBuffer`, the worker loop, shutdown | `ReadBucket` |
| Read pacing | four token queues, a barrier, thread-local round counters | `Read`'s first call, `NotifyRandomReader` | `ReadSync` |
| thread pool | task queue, stop flag, condition variable | `enqueue`, the worker loop, `~ThreadPool` | `ThreadPool` |
| sample engine | META file (a mapped hash table), data files, LOCK, one mutex | `Open`, `Write`, `Read`, `Range` of `engine_example` | `EngineExample` |
| ConcurrentQueue: sub-queues | four wrapping indices, blocks, an index of blocks | `enqueue(_bulk)`, `dequeue(_bulk)`, destructors of both producers | `DequeueCounts`, `ImplicitProducer`, `ExplicitProducer`, `SubQueue` |
| ConcurrentQueue: blocks | initial pool, lock-free list | `requisition_block`, `add`, `try_get` | `FreeList` |
| ConcurrentQueue: producers | a hash from threads to producers; a list with tokens | `get_or_add_implicit_producer`; `recycle_or_create_producer`, `add_producer`, tokens | `ProducerHash`, `ProducerList` |
| ConcurrentQueue: consumers | a consumer token, the global offset | `try_dequeue(_bulk)` with and without a token, rotation | `ConsumerScan` |
| BlockingConcurrentQueue | `m_count`, a kernel semaphore, the inner queue | `enqueue`, `wait_dequeue`, timed and bulk forms, `swap` | `BlockingConcurrentQueue`, `CountingSemaphore` |
| sparsetable | groups of packed items under bitmaps | `set`, `erase`, `resize`, iterators, `serialize` | `SparseTable` |
| sparse_hashtable | buckets, `num_deleted`, thresholds | insert, erase, rehash, copy, move, swap, load | `SparseHashtable` |
| spp's allocator and helpers, write start barrier, PolarString, logging, clients | - | compiled out, or without state | not modelled |

### How they interact

A client thread's `Write` locks the mutex of the key's bucket, copies the value
into the bucket's mmap-ed value buffer, pwrites the buffer to the log when it is
full, does the same for the key, increments the bucket's mmap-ed counter (the
commit point) and unlocks. The destructor, and the constructor when it finds
buffer files with a size, start flush workers that write every partial buffer to
the logs, join them, and truncate the buffer files; then the constructor builds
the index from counters and logs. `Read` searches the index and preads one
value; tokens passed between two groups of threads keep the threads within a few
reads of each other. `Range` is entered by all threads; thread 0 starts a
coordinator that fills buffers bucket by bucket (cut into blocks by
`ReadBucketToBuffer` for the IO workers) and hands each to the visitors through
a future; the last visitor of a bucket gives the buffer back through a blocking
queue; a barrier separates the buckets.

The engine's token and task queues are `BlockingConcurrentQueue`s: a semaphore
that counts items, around a `ConcurrentQueue`. That one keeps a sub-queue per
producer. A thread without a token finds its producer in a hash; producers stand
in a list that consumers walk; a sub-queue takes its blocks from a shared pool
and free list. `sparse_hashtable` keeps its buckets in a `sparsetable`.

Shared state between components: the counters and logs (writers, flush workers,
recovery), the free-buffer queue (visitors, coordinator), the futures
(coordinator, visitors), the status words (coordinator, IO workers).

### What is hard

* Crash: a kill between any two stores of `Write`, of the flush and of the
  truncation; a memcpy or a pwrite cut short. Recovery itself can be killed.
* Interleaving: writers of neighbouring buckets whose regions touch; a fast
  thread in the next barrier round while a slow one is still waking; a visitor
  that frees a buffer while others are leaving the bucket.
* Lock-free code: a value read before a compare-and-swap is stale after it;
  indices wrap; a table is replaced under its readers; a call that fails has to
  undo what others may have seen.
* Long sequences of legal calls: a hash table that fills up with erased buckets,
  a copy or a file that forgets them.
* Failing steps: an append that fails half way in the sample engine.
* Ordering: values truncated before keys; status set before the task is queued;
  newest first among equal keys.
* Waiting: tokens, futures, free buffers, joins - each a possible deadlock.
* Boundaries: a full bucket, an empty bucket, a last short block, 16-bit offsets.

What makes each component correct: a counted record is never lost or changed
(log), a call appends its own pair once (log), a lookup finds the newest value
(index), nobody leaves a barrier round before all have entered it (barrier),
each item is taken once and no wakeup is lost (queue), a visitor sees the bucket
it asked for and a buffer has one owner (pipeline), every value of a bucket is
read once (IO workers), tokens are conserved (pacing), each task is run once
(pool), what is claimed from a sub-queue is delivered once and in order
(queues), a wake-up comes for each waiter that has one due (semaphore), a lookup
finds what was inserted (maps) - and every call returns.

## 2. The modules and the code

The name of an action is that of the function, or of the step of it, that it
stands for; a primed variable is the member or file it assigns. `PROJECT.json`
gives the lines of every definition.

* **Layout** - offsets are counted in slots (8 bytes of a key file, 4 KB of a
  value file). `Pwrite` replaces consecutive slots of a log. The assumption that
  a region is a whole number of buffers is a fact of the constants in
  `engine_race.h`.
* **RaceLog** - files are persistent variables, everything else is lost in
  `Kill`. `Write` is eight to ten actions: what happens under the bucket mutex
  is cut wherever a kill can leave a different file, so a memcpy and a pwrite
  are a `Begin` (destination `Torn`) and an `End`. The 8-byte key store and the
  4-byte counter store are atomic. The creation of the five files is one action
  per visible state (`absent`, `empty`, `sized`); files created together are one
  variable. `ParallelFlushTmp` is two actions per bucket and per kind; a worker
  takes its buckets in order and its values before its keys, as the two loops
  of the code do. `mode` is the place of the process in its life.
* **RaceLogInv** - the inductive invariant `IInv` (section 5).
* **DurableLog** - the promise to the client: append-only logs per bucket, one
  atomic append between call and return; a kill forgets unfinished calls.
* **RaceStore** - RaceLog with `index`. `ReadOutcomes` is a set because the
  search in an empty bucket reads a word nobody wrote. `OffsetSpan` is 2^16.
  `SortedEntries` is `std::sort` by its result: the entry of rank `r` comes `r`-th.
* **Barrier** - `Wait` from the call to the sleep is one step under `mMutex`;
  waking, spurious or notified, and testing the predicate are others.
  **BarrierSpec** is what the callers rely on.
* **BlockingQueue** - `push` is the locked push and, separately, `notify_one`.
* **RangePipeline** - one action per step of a visitor between two shared
  accesses; a future is identified by its bucket number over both traversals;
  buffers hold the number of the bucket they were filled with. The barrier is
  BarrierSpec's, the free-buffer queue a sequence. A third traversal,
  which only a wrong count of the visitors lets begin, reads past the end of
  `futures_`: a crash (`GetInvalidFuture`).
* **RangePipelineInv** - the inductive invariant (section 5).
* **ReadBucket** - the coordinator's polling loop visits workers in turn;
  `NextWorker`, `Peek`, `Submit`, `Enqueue` are its steps, `Dequeue`,
  `ReadBlock`, `Complete` the worker's.
* **ReadSync** - a token queue is a number; `Factor` is SHRINK_SYNC_FACTOR.
* **ThreadPool** - a critical section of `queue_mutex` is a step, and so are
  `notify_one`, `notify_all` and a task, which are outside it. An `enqueue` on a
  stopped pool throws and is no step. A pool has at least one worker; one of none runs
  nothing.
* **EngineExample** - `mu_` makes each call atomic for others, so calls matter
  when they stop half way: every store to a file or to the mapped table is a
  step, and `Kill` may come between any two. The bytes of a key arrive in any order
  (`CopyByte`, a `memcpy`), then its size, `in_use`, and the three words of the
  location in the order of the struct's members (`LocateWord`; a word that stays
  the same is no step). `Read` and `Range` change nothing and are operators. A
  value is one or more cells; a slot of the table is probed linearly as
  `CalcIndex` does. `allowed` remembers what `Read` may return, `interrupted` the
  keys whose Write was killed before it had taken its item.
* **DequeueCounts** - the indices of a sub-queue and a consumer's way from
  `LoadTail` to `Claim`, common to both kinds of producer. `Wrap` is 2^w; a
  behaviour begins with indices near the wrap (`Starts`), as after earlier use.
  `CountsInv` is the inductive invariant, in distances from the start, which do
  not wrap; a sum over consumers is the cardinality of a set of units.
* **ImplicitProducer**, **ExplicitProducer** - the enqueuing thread and the
  consumers after their claim, one access to shared memory a step where another
  thread can tell. `enqueue` is `enqueue_bulk` of one, `dequeue` is
  `dequeue_bulk` of one. The implicit one takes its index back when a call
  fails; the explicit one keeps its blocks in a ring. **SubQueue** is the FIFO
  queue that both implement. `BlocksAssumption`: the block size is at least two and
  divides the range of the indices and every value of `Starts`, and the items of a
  behaviour and the blocks of the first table stay below half of that range. The
  traits are powers of two (`concurrentqueue.h:711`), so blocks end where the
  indices come round; a sub-queue that has been used begins a behaviour at a block's
  end, because the model's tail block has no room left at first.
* **FreeList** - reference counts, `SHOULD_BE_ON_FREELIST` and next pointers; a
  block is its number. `OnList` is the smallest set that the list's links keep
  within it, so that proofs need no induction. `IInv` is its inductive invariant,
  as it is in the next two.
* **ProducerHash** - probing through the chain of tables, the resize flag, the
  count that is taken before and given back after a failure.
* **ProducerList** - recycling an inactive producer or adding a new one; token
  creation, destruction, and swaps. `Listed` is what the links reach.
* **ConsumerScan** - which sub-queues a dequeue asks, in which order; a sub-queue
  is the number of its items. A sub-queue's dequeue loads the tail, the overcommit
  and the optimistic count one after the other and may give a reservation back, so
  it may give fewer items than there are, and none although it was never empty
  (`Gives`); `size_approx` loads tail and head separately and may say any size
  (`Size`). DequeueCounts has these steps one by one. Producers are numbered in the order in which they
  were linked, so the one after `p` is `p - 1` and the loops that go `n` producers
  further are arithmetic (`Further`). Other threads add producers, enqueue,
  dequeue and rotate at any step.
* **BlockingConcurrentQueue** - the semaphore's two counters, the spinning (as
  one choice: it may stop at any time), timeouts, bulk waits. The inner queue is a
  number of items; its `try_dequeue` may miss but is called again.
  **CountingSemaphore** is what the two counters implement together: a call of
  `signal(n)` adds n permits at one moment, and a waiter that passes takes one.
* **SparseTable** - a group is its bitmap, its bitmap of erased buckets and its
  packed items with the number of allocated slots; `array` is what the calls so
  far stored. A walk is an iterator that may erase or destroy on its way.
* **SparseHashtable** - a table is a function from buckets to items, `Empty` or
  `Erased`, with `num_deleted` and the thresholds; one operator per private
  function, one action per call of the maps.

Three MC modules hold several components. **MCStores**, **MCSync** and
**MCQueues** are sums: a behaviour belongs to one component, which a variable
(`store`, `component`, `kind`) names; the variables of the others keep a constant
value. Properties are those of the component, restricted to its behaviours. The
state spaces add up; they do not multiply.

A definition whose comment begins *Wrong on purpose* is a variant with a
plausible bug in it. It is used by no specification; it is there to show that a
property would notice.

## 3. The runs

| run | instance | shows |
|---|---|---|
| `MCRaceLog` | 2 threads, 2 buckets of 2 records in one file, 2 values, 2 flush workers, any number of kills | `IInv`, recoverability and stability of counted records, refinement of DurableLog, release of mutexes, end of every Open and Close |
| `MCStores`: race | 2 buckets, 2 keys each, up to 3 records per bucket | `Read` returns the newest value, `Range` each key once, in order, with its newest value |
| `MCStores`: example | 1 process, 2 kills, 3 keys of one or two bytes with one hash on 2 slots, values of 1 and 2 cells, 2 files of 2 cells | `Read` returns the last value or that of a killed Write, but for what two kills leave mixed; `Range` agrees with `Read` |
| `MCStores`: table | groups of 16, tables of 16 and 40 buckets, 4 used ones in different groups | packed groups hold what was stored and remember what was erased; walks that erase or destroy miss nothing |
| `MCStores`: map | 2 tables of 4 or 8 buckets, 4 keys, 2 of them colliding | searches end, find exactly what was inserted, and `num_deleted` is right |
| `MCSync`: barrier | 4 threads, 3 rounds, spurious wakeups | the counting invariant, lock step, refinement of BarrierSpec, every `Wait` returns |
| `MCSync`: queue | 2 producers with 2 items, 2 consumers | each item once and in order, no lost wakeup, items are taken |
| `MCSync`: read | 4 threads, 6 reads in rounds of 2 | the inductive invariant with the tokens' conservation, every read returns |
| `MCSync`: bucket | 2 workers, blocks of 2, up to 7 values, 2 calls | the inductive invariant, buckets are complete, blocks in flight disjoint, call and shutdown return |
| `MCSync`: pool | 2 workers, 2 callers with 2 tasks, the destructor at any time | the inductive invariant, each accepted task is run once; tasks and destructor end |
| `MCSync`: semaphore | 2 producers, 2 consumers, bulks of up to 2, 3 items | one wake-up per waiter that is due one, a permit has an item, refinement of CountingSemaphore, calls return |
| `MCRangePipeline` | 2 visitors, 5 buckets, 2 kept and 2 recycled buffers, 2 traversals | visitors see their bucket, the inductive invariant, a buffer has one owner, traversals and the destructor end |
| `MCQueues`: implicit, explicit | 2 consumers, indices of 6 bits that begin at 60, blocks of 2, bulks of up to 3, 3 blocks; implicit: 4 items, an index of 1 entry; explicit: 6 items, an index of 2 | the inductive invariant of the indices, counts settle, refinement of SubQueue, the index leads to the right block, blocks are conserved |
| `MCQueues`: freeList | 3 threads, 2 blocks, 1 of them in the pool | the inductive invariant, a block has one user, none is lost |
| `MCQueues`: hash | 3 threads, 2 of them with the same hash, tables from 2 slots on, 1 failure | a slot stays free, the count is right, one producer per thread |
| `MCQueues`: list | 3 users, 3 producers | the inductive invariant, one enqueuer per producer, none leaves the list |
| `MCQueues`: scan | up to 3 producers with 0 or 1 items, offsets modulo 2 | the inductive invariant, a dequeue that comes back short has asked everyone, and everyone appeared empty |
| `MCQueues`: ring | 1 bucket of 8 records, value buffer 2, key buffer 4, 2 writers | `IInv` again (`LogRingInv`); the buffers go round, with stale keys behind the counted ones |
| `MCRaceLogKill`, `MCRaceStoreWrap`, `MCRaceStoreEmpty`, `MCRangePipelineLate`, `MCExplicitUndo`, `MCExampleFailure`, `MCSparseSaved` | see section 6 | seven statements of the repository that the code does not keep |

Why the bounds are enough. In the log the cases are: buffer not full, full, and
refilled; block within and at the end of a region; one and two writers on a
bucket; neighbouring buckets; value and key buffers of different length. The
instances have them all, and the proofs cover the rest. Three records per
bucket give the index runs of one, two and three equal keys and all odd and even
sizes for the search. Three barrier rounds let a fast thread lap a slow
sleeper. Five buckets with four buffers make every buffer change hands and the
second traversal pass from cached to refilled ones. Seven values in blocks of
two give an empty, a short and a full last block with more blocks than workers.

In an implicit sub-queue of four items in blocks of two a block is emptied, given
back and used again, the index is used up and doubled, calls take one block or two,
and the indices pass 2^w. In an explicit one of six items a block that is empty is
taken again while the next one still has items, with the index of two slots full and
coming round (`concurrentqueue.h:1796`), and three blocks in use make the index grow.
Two consumers are enough for one to hold stale locals while
the other empties and recycles its block; the third party is the enqueuer. Two
blocks and three threads are the classic ABA case of the free list: one reads the
head, two take and put back. Three threads make the hash grow while one inserts
and one looks. In the hash table four buckets with two colliding keys fill up
with erased buckets in a few calls; it doubles once. A table of 40 buckets in
groups of 16 has a full, a middle and a short group. In the sample engine a
file of two cells takes one value of two or two of one, so that offsets and file
numbers both change; two slots for three keys make the table overflow, and two
kills leave a key or a location made of two.

Deadlock is checked except where the system really stops: a pipeline built for
the wrong number of visitors may stop (section 6), and so does a sub-queue after
its destructor. In `MCSync` consumers of an empty queue and idle workers may wait
for ever (`MayStop`), and in `MCStores` a killed process may be the last one
(`Stopped`); these are stuttering steps, so they hide no deadlock of the other
components.

In `MCRangePipeline` the properties are about runs in which thread 0 counted the
visitors right (`RightCount`); the other runs are `MCRangePipelineLate`'s.

### Fairness

Only threads of a live process are fair, weakly: they are scheduled, system
calls return, sleepers that were notified wake up. Nobody has to call `Write`,
to open, close or kill. `std::mutex` promises nothing to a waiter, so taking a
bucket mutex is only weakly fair and no property says that a call gets it;
`LockReleased` says that the holder lets go. In the barrier, the pipeline and
the pacing the callers' loops are fair as well, because each waits for all
others to come: the clients in `playground/test_engine.cpp` run their loops to
the end. In the pool and the semaphore only threads inside a call are fair;
nobody has to enqueue, to dequeue or to destroy. `MCSync` states the same
fairness as the components' own `FairSpec`s, restricted to behaviours of the
component. The lock-free loops of `ConcurrentQueue` have no liveness property:
lock-freedom lets one thread lose every race. `ReadReturns` needs no fairness of the token queue because the number
of reads is finite.

## 4. Assumptions about the environment

* The client never writes more records into a bucket than its region holds: the
  guard of `WriteCall`. `Write` itself does not check.
* System calls succeed in the race engine; the code ignores their results. In
  the sample engine `AppendFails` is a failing write; `ShortWrites` says whether
  it may fail after a part (only in `MCExampleFailure`).
* Memory is sequentially consistent in the models of the lock-free code: the
  orders that `memory_order_relaxed` would add are not explored.
* Allocation may fail wherever `ConcurrentQueue` handles it. In an explicit
  producer's bulk call it fails only before the call has taken a block, unless
  `LateFailures` (only in `MCExplicitUndo`).
* A sparse hash table is not assigned to when `erase` has emptied it
  (`AssignToEmptied`), and not written when it has erased buckets (`SaveErased`,
  only in `MCSparseSaved`).
* One process uses the sample engine at a time (`Overlap` lifts it; no run does).
* The page cache survives the kill of the process (no power failure): the code
  never calls fsync.
* All NUM_THREADS threads call `Range` and `Read`, and the number of reads of a
  thread is a multiple of the pacing factor (`engine_race.h:53`).
* There are more buckets than buffers.

## 5. What is proved

Every theorem is for all values of the constants that satisfy the named
assumptions of the component's module. Eight modules hold proofs.

**The log** (`StoresProofs`; `LayoutAssumption`: sizes positive, regions whole
numbers of buffers; `RaceLogAssumption`: a finite set of threads, the special cells
are no keys or values).

* Layout: division, slots of different records differ (`SlotInjective`), blocks stay
  in their region, what a pwrite changes and leaves; and the theory of a *buffered
  log* (`Buffered`), which values and keys both are: storing into the next place
  (`BufferedStore`), a pwrite of the last block (`BufferedPwrite`), counting one
  more (`BufferedNext`), giving the buffer up (`BufferedOff`).
* `TypeCorrect` - `Spec => []TypeOK`. It needs the calls in flight: a counter stays
  within the region because `RoomInv` reserves a place for each call from its entry
  on.
* `Invariant` - `Spec => []IInv`, and from it `Intact` (`[]RecoverableIntact`) and
  `Stays` (`CommittedStays`).
* `Refinement` - `Spec => ImplementsDurableLog`.

Why `RecoverableIntact` is not inductive by itself. The recoverable value of a
record is in the buffer until the counter passes a multiple of the buffer size
and in the log from then on; the switch happens in `Publish`, which touches
neither. So `CopyInv` says of each call how much of the block it has copied by
the time it publishes, `LockInv` that no other call works on that bucket,
`FlushInv` what the flush has copied when it says so, and `FileInv` which
buffer files each mode can find: the flush is right to ignore absent files
because then nothing is counted. The proof of a step has three parts: other
buckets are untouched (`WriteOthers`, `FlushOthers`), the step's own bucket
keeps its records (`Own...`, `FlushKeeps`, `TruncValKeeps`), and the new record
of `Publish` is intact (`WriteIntact`).

**What is read back** (`StoresProofs`, on `IInv` of the log and `Induction`).

* `ReadsNewest` - `StoresSpec => [](OffsetsFit => RaceReadLatest)`;
  `TraversalsExact` - the same for `RaceRangeExact`. `OffsetsFit` says that no bucket
  holds more records than a position of 16 bits tells apart; `MCRaceStoreWrap` shows
  that the code does not ensure it and what happens then.
* The proof: `Rank` is a bijection from the entries to the places, so the sorted
  index has each entry once and in order; positions fit, so no two entries are equal
  and among those of one key the newest is first; the halving search keeps "everything
  before the base is smaller, and the answer is within the half that is left", and
  ends. Since the index was built from recoverable records, which `IInv` makes those
  that were committed, the value at its position is the newest.
* `ExampleReadsLatest` (`[]ExampleReadLatest`) and `ExampleRangeReads`
  (`[]ExampleRangeAgrees`) carry the results of `ExampleProofs` over to the runs'
  module.

**The sample engine** (`ExampleProofs`; `Settings`: keys of at least one byte that fit
an item, sizes within a file, hashes within the table, `null` no key and no byte, one
process at a time, and a failing append has written nothing - `MCExampleFailure` shows
that the engine is wrong without the last).
`ReadsLatest` and `RangeAgreesWithRead`, for any table, keys, values and number of
kills. The invariant `IInv` of `EngineExample`: `AppendInv` says how much of a value
the file has at each place of a call and that the recorded location is where the rest
goes; `PathInv` that the item of a key is the one its own probing finds, for a key that
is in place and for one being placed; `FreeInv` that each byte and the size in an item
not in use come from keys of interrupted Writes; `AllowedInv` that what table and file
say of a key is in `allowed`, wherever a Write stopped. The two exceptions in
`ReadLatest` are the code's (section 6): a location of which a kill left some words new
and some old, and a key composed of interrupted ones. Free slots fill up and are never freed,
which is why probing stays right without a tombstone.

**Threads that wait for each other** (`SyncProofs`, each component for every value of
its constants; `SyncAssumption` collects what they assume: finite sets of threads,
positive sizes, an even number of reading threads, at least one pool worker).

* Barrier, any number of rounds and any spurious wakeups: `Counting` (`[]BarrierInv`),
  `InLockstep` (`[]Lockstep`) and `BarrierRefined` (`ImplementsBarrier`), the contract
  `RangePipeline` relies on. `BarrierInv` is inductive; its heart is `LastArrival`: the
  count is one exactly when every other thread is asleep or waking in this very
  generation.
* `QueueHandsOutOnce`, `EveryTaskRuns`, `TokensComeOutEven`, `BucketIsReadOnce`,
  `PermitsComeOutEven`, and `SemaphoreRefined`, that the semaphore implements
  CountingSemaphore: the permits that a call of `signal` adds appear at one moment,
  as many as it was asked for, although they are posted one by one.

**The Range pipeline** (`RangePipelineProofs`, any numbers of visitors, buckets, kept
and recycled buffers): `PipelineTypeCorrect`, `VisitorsSeeTheirBucket`
(`[]VisitIntact`) and `EveryBufferHasOneOwner` (`[]OwnedOnce`), which is also that
`IInv` of `RangePipelineInv` is inductive.

**ConcurrentQueue** (`QueuesProofs`, with `HashProofs` for the hash and
`ImplicitProofs` for the blocks; any finite set of threads and any numbers of
producers, blocks and items): `EverySubQueueAsked`
(`[]EveryoneAsked`: every sub-queue in the list at the call was asked and appeared
empty; that it was empty is not so, for the reasons given at ConsumerScan above), `ProducersStayListed` (`[]ListExact`), `BlocksHaveOnePlace`
(`[]FreeListExact`), `ReservationsComeOutEven` (`[]CountsSettle`, for both kinds of
sub-queue), `ConsumersFindTheirBlock` (`[]EntryFound`) and `BlocksComeBackOnce`
(`[]BlocksConserved`), both of implicit sub-queues and from `BlocksKept`, and
`ThreadsKeepProducers` (`[]HashExact`, from `HashProofs!ProducerTables`). `QueuesAssumption` says that the numbers are natural, that
the modulus of the rotation's offset is positive, that the pool does not exceed the
blocks there may be, that the hash is a number and the first table has a slot, and
(`CountsAssumption`) that what is published, reserved and given back in a behaviour
stays below half of the range of an index; `BlocksAssumption` adds the block size and
the first table. `circular_less_than` decides nothing beyond
that. The indices themselves may come round.

**Induction** - the library's induction theorems take operators, which the provers
cannot instantiate. `Induction` states them of sets and functions instead
(`LeastElement`, `SetInduction`) and proves that a function written as a loop exists
(`LoopFunction`), a tool of `StoresProofs` and `HashProofs`; the recursive functions of `RaceStore` and `ProducerHash` are such
loops.

Why these need more than what they state:

* *Range pipeline.* A buffer must not be refilled while a visitor is in it. The
  coordinator knows only what came through the free-buffer queue; the last visitor
  of a bucket put it there, and it was the last because all threads had counted
  themselves (`CountInv`) and are between the same two barriers (`InStep`). So a
  future has a buffer of its own from its promise until the last visitor is done
  with it (`Pending`, `LentNow`), a cached buffer until the second traversal has
  left it (`KeptNow`), and the four places of a buffer are apart (`ApartInv`) and
  exhaustive (`PlaceInv`). `PromiseInv` says that nobody is ahead of the
  coordinator. All but the first four conjuncts hold when thread 0 counted the
  visitors right.
* *IO workers.* `WorkerInv` ties the status word, which is all that the coordinator
  sees, to where the worker's block is: marked before it is queued, completed
  after it is read. `CoordinatorInv` counts: completed blocks and busy workers
  make up the submitted ones, so that when all are completed nobody is busy.
  `FillInv`: the buffer holds exactly the submitted blocks that no worker has.
* *Tokens.* The count holds from the moment the barrier opens; before that it is
  thread 0's to put the tokens out, which `StartInv` says it has done.
* *Pool.* A task is in one place (`Place`), a queued one only once; a worker
  returns only from an empty queue of a stopped pool, which stays so (`EndInv`).
* *Queue.* Items are in order along what a consumer got followed by what is still
  queued (`Stream`).
* *Semaphore.* `CallInv` says what a call in progress still has to signal or to
  take; sums over threads are cardinalities of sets of units (`Units`), because a
  recursive sum is out of the prover's reach.
* *A consumer's way.* `Owes` says, at each place of a call, which sub-queues may
  still be owed a look: those from here to the end of the list, or, with a token,
  round to the one before the current producer (`Ahead`). New producers go in
  front and are not owed.
* *Producers.* `Alone`: no two users own a producer, or are both about to link one.
  A producer is linked before anyone can own it, and what is linked stays linked
  because only the head of the list changes.
* *Indices of a sub-queue.* That the counts meet at the head when nobody dequeues is
  the sum `Reserved = GivenBack + Claimed + Sum(Pending)`. That nothing is claimed
  before it is published is harder: a consumer compares the tail, which it reads
  after its reservation, with its place among the reservations less what it saw
  given back before. `Covered(top)`: the reservations below `top` may all be
  claimed in full and the published items suffice; each one above leaves, in front
  of its place, room for all that those before it may claim and what it saw given
  back. When a consumer above `top` finds items, `top` moves down to its place;
  those between have not looked yet and are counted in full from then on only if
  they find items too.
* *Blocks of an implicit sub-queue.* An item is known by its distance from `start`, a
  block by the number that follows (`BlockNo`); these do not wrap, the indices do. A
  consumer computes the place of its block's entry from the tail and the key of a
  table that may have been replaced, and from values that it read before the
  producer went on. `Ring(v, w)`: the entries of the newest table stand for
  consecutive blocks that end with `w`. `PhaseInv`: in an older table each block is
  still at its place modulo the capacity, because tables share their entries and
  capacities divide each other. So a tail or key that is stale, as long as it
  came from the same table, leads to the right place (`InPhase`, in `ConsumerInv`).
  That this place still has the block is `HeldInv`: exactly those blocks are in the
  index that have an item not counted as taken, or belong to the call in progress and
  are not taken back yet (`Want`). A block's count and its items not counted make up
  its size, and its contents are the items that nobody read (`BlockInv`); consumers
  never share items, so only one of them sees the count reach the size and gives the
  block back (`SharesInv`). `HandInv`, `AllocatedInv` and `TailInv` say where the
  producer's blocks are between its steps, which its undo relies on. What the proof
  needs of the indices (`Fit`) is the theorem on `CountsInv`.
* *Free list.* `Placed` lists the six places of a block, with what its reference
  count holds in each: fresh, on the list, used, with the thread that takes it off
  or puts it on, with the thread that is adding it, or left to the last thread
  that refers to it. The count is the number of threads that refer to it
  (`Referrers`), plus one for the list or plus the flag. Why an exchange of the
  head that finds the same head again may trust the next pointer it read
  before (the ABA problem): a thread that refers to a block keeps it from being
  linked, hence `Sound` (`next` is still the block's). No two blocks of the list
  have the same successor (`ListInv`), so taking the head off takes off nothing
  else.

* *Hash of producers.* Searches and insertions end because every table keeps a free
  slot (`RoomLeft`). A thread tests the number it drew from the count against the
  capacity, then inserts; meanwhile others insert too, failures give numbers back, so
  that two threads can hold the same one, and the table may be replaced. `RoomInv`:
  for every `n`, fewer than `n` threads are in tables that admit numbers below `n`
  (`Limit`) or hold a number below `n` and may still get there. A thread that draws
  `n - 1` or less found a count that is the number of threads counted so far
  (`CountInv`), and all those of `Below` are among them. That a thread has one
  producer needs `PathInv`: a search passes no free slot on its way to the entry of its
  thread, which insertions by others keep true because entries are never taken out;
  and `OwnInv`, that nobody else owns, or is about to insert, the same producer.

Only model-checked: all liveness and what needs ENABLED (out of the prover's reach);
the packed groups of SparseTable, its walks and the rehashing of SparseHashtable
(`TableExact`, `WalkExact`, `MapExact`), whose definitions fold over sequences, which is
induction over data without a function to state it of; the explicit producer's ring of
blocks (`RingExact`) and the refinement of SubQueue by both kinds of sub-queue.
`LogRingInv` is `IInv` of one more instance of RaceLog, with other constants:
`StoresProofs!Invariant` is about all of them, and no theorem repeats it for that
instance.

## 6. Where code and documents differ

* A kill between creating and sizing the meta file makes every later Open fault
  (`MCRaceLogKill`).
* Offsets are 16 bits wide, a region has room for 69632 records
  (`MCRaceStoreWrap`).
* The search reads an entry of an empty bucket (`MCRaceStoreEmpty`).
* Thread 0 counts the visitors of a Range while they may still be arriving
  (`MCRangePipelineLate`).
* A failed bulk enqueue with a producer token leaves more blocks in the ring than
  the index counts (`MCExplicitUndo`).
* A failed append of the sample engine shifts what is written later
  (`MCExampleFailure`).
* A sparse hash table is not compacted before it is written (`MCSparseSaved`).

Seen while modelling, without a run: `Write` on an engine opened on existing
files locks a mutex at a null address (`WriteAfterReopen`); a third traversal
asks a promise for its future twice and throws (`GetInvalidFuture` of
`RangePipeline` and `Setup`); the tokens bound no difference in progress between
any two threads; `Range` ignores its bounds, which `include/engine.h` describes.
`operator=` of `sparse_hashtable` copies `num_deleted` before it clears the table
(`AssignedFrom`): one that `erase` has emptied keeps its erased buckets and not
their number, and the next insertion there fails the assertion of `spp.h:3168`.
`set_resizing_parameters` accepts a factor of one, with which a full table makes
every search endless; `Factors` stays below. `min_buckets` is asked the same
question twice in `_resize_delta`, so one of its branches is dead. The sample
engine's `Read` past the end of a file never ends (`data_store.cc:95`; the value
`Other` of `ValueAt`). A kill between two words of `iptr->location = l`
(`door_plate.cc:125`) leaves the place of one value with the length of another, and
`Read` returns bytes that nobody wrote as a value until the key is written again
(`Mixed`); the first Write of a key is safe, its length is stored last. A kill between
the `memcpy` of the key and `in_use` (`door_plate.cc:121-123`) leaves the key in a
free item, and `Find` does not ask `in_use`: such a key, or one made of the bytes of
one interrupted Write and the size of another (`Composed`), reads as empty, while
`Range` does not show it.

## 7. What is not modelled, and the plan

Not modelled: failing system calls of the race engine, power failure, logging and
statistics, the write start barrier (compiled out), `PolarString`, the clients
(`test`, `playground`, with the skip list study, which the engine does not use).
Of `concurrentqueue.h`: moving and swapping whole queues, the queue's own
destructor, `size_approx`, `MAX_SUBQUEUE_SIZE` (unlimited here), exceptions of the
element type, weak memory. Of `sparsepp`: `spp_dlalloc.h` (a general-purpose
malloc for MSVC builds), configuration, hash functions, tables with different
allocators, the bytes of the serialized form.

Order of the work, most important first; the first sixteen are done:

1. `Layout`, `RaceLog`, `DurableLog`: durability under concurrency and kills.
2. `RaceStore`: what is read back.
3. `Barrier`, `BlockingQueue`: the primitives.
4. `RangePipeline`, `ReadBucket`: the traversal.
5. `ReadSync`: pacing.
6. Proofs about the log: type, invariant, stability, refinement.
7. Proofs about the barrier: invariant, lock step, refinement.
8. `ThreadPool`, `EngineExample`: the pool, and the sample engine under failure.
9. `ConcurrentQueue` in its parts, `BlockingConcurrentQueue`, `SparseTable`,
   `SparseHashtable`.
10. Proofs about the Range pipeline: content and ownership of the buffers.
11. Proofs about the rest of `MCSync`: queue, pool, pacing, IO workers, semaphore.
12. Proofs about `ConcurrentQueue`'s list of producers, a consumer's way through
    it, and the free list.
13. Proof about the indices of a sub-queue, with the invariant it needs.
14. Proofs about what is read back: the index of the race engine, the sample engine.
15. Proof about the hash of producers.
16. Proofs about the blocks of an implicit sub-queue and their index.
17. Proofs about the explicit producer's ring (`RingExact`) and that both kinds of
    sub-queue implement SubQueue.
