--------------------------- MODULE RangePipeline ----------------------------
(***************************************************************************)
(* Range: NumThreads visitors traverse the buckets in lock step, sharing the *)
(* buffer of the current bucket, while a coordinator thread reads the next   *)
(* buckets into free buffers.  A pipeline serves two traversals: the first   *)
(* keeps the buffers of its first buckets, the second reuses them.  Thread 0 *)
(* initialises everything at the first call; the destructor stops it.        *)
(*                                                                         *)
(* The barrier is BarrierSpec's (Barrier implements it): the last to arrive  *)
(* releases all.  free_buffers_ is a FIFO (BlockingQueue).                  *)
(***************************************************************************)
EXTENDS Integers, Sequences, FiniteSets

CONSTANTS
  NumThreads,    \* NUM_THREADS, of which all call Range
  BucketNum,     \* BUCKET_NUM
  Keep, Recycle, \* KEEP_REUSE_BUFFER_NUM, RECYCLE_BUFFER_NUM
  Calls,         \* bound: Range calls per thread
  Null           \* nullptr, a promise not yet set

ASSUME RangePipelineAssumption ==
  /\ NumThreads \in Nat \ {0}
  /\ Keep \in Nat \ {0} /\ Recycle \in Nat \ {0}
  \* The last bucket needs a buffer that was recycled after all kept ones.
  /\ BucketNum \in Nat /\ BucketNum > Keep + Recycle
  /\ Calls \in Nat
  /\ Null \notin Int

Thread == 0 .. NumThreads - 1
Buffer == 0 .. Keep + Recycle - 1       \* value_shared_buffers_
FutureId == 0 .. 2 * BucketNum - 1

\* What a buffer holds besides a bucket: nothing yet, or a read in progress.
Blank == 0 - 1
Filling == 0 - 2

VARIABLES
  started,         \* range_num_threads_count + 1
  is_range_init_,
  total_range_num_threads_,
  waiting,         \* threads inside the current wait of range_barrier_ptr_
  futuresTaken,    \* get_future was called on every promise
  promise,         \* value of each promise, per future id
  free_buffers_,
  cached_front_buffers_,
  bucket_consumed_num_,
  content,         \* bucket each buffer holds
  cstate, cnext, cbuf,    \* the coordinator, single_range_io_worker_
  pc, bucket, beg, buf,   \* each visitor: bucket_id, bucket_future_id_beg, shared_buffer
  phase            \* of the engine: "open", "joining" in the destructor, "closed", "crashed"

init == << started, is_range_init_, total_range_num_threads_ >>
data == << promise, free_buffers_, cached_front_buffers_, bucket_consumed_num_, content >>
coordinator == << cstate, cnext, cbuf >>
locals == << bucket, beg, buf >>
vars == << init, waiting, futuresTaken, data, coordinator, pc, locals, phase >>

Init ==
  /\ started = 0
  /\ is_range_init_ = FALSE
  /\ total_range_num_threads_ = 0
  /\ waiting = {}
  /\ futuresTaken = FALSE
  /\ promise = [f \in FutureId |-> Null]
  /\ free_buffers_ = << >>
  /\ cached_front_buffers_ = [i \in 0 .. Keep - 1 |-> Null]
  /\ bucket_consumed_num_ = [f \in FutureId |-> 0]
  /\ content = [x \in Buffer |-> Blank]
  /\ cstate = "none" /\ cnext = 0 /\ cbuf = Null
  /\ pc = [t \in Thread |-> "idle"]
  /\ bucket = [t \in Thread |-> 0]
  /\ beg = [t \in Thread |-> 0]
  /\ buf = [t \in Thread |-> Null]
  /\ phase = "open"

Goto(t, to) == pc' = [pc EXCEPT ![t] = to]

-----------------------------------------------------------------------------
(* Calls, InitForRange and the barrier.                                     *)

\* Thread ids are handed out in the order of the first calls.
Call(t) ==
  /\ phase = "open"
  /\ pc[t] = "idle"
  /\ beg[t] < Calls * BucketNum
  /\ IF beg[t] # 0 THEN UNCHANGED started
     ELSE started = t /\ started' = t + 1
  /\ Goto(t, IF beg[t] % (2 * BucketNum) = 0 THEN "init" ELSE "waitBucket")
  /\ bucket' = [bucket EXCEPT ![t] = 0]
  /\ UNCHANGED << is_range_init_, total_range_num_threads_, waiting, futuresTaken,
                  data, coordinator, beg, buf, phase >>

\* Thread 0 creates the buffers, counts the threads and publishes the barrier; a
\* count of one is taken to be a single-threaded run, any other to be NUM_THREADS.
InitForAll ==
  /\ pc[0] = "init"
  /\ ~ is_range_init_
  /\ total_range_num_threads_' = IF started > 1 THEN NumThreads ELSE started
  /\ is_range_init_' = TRUE
  /\ Goto(0, "populate")
  /\ UNCHANGED << started, waiting, futuresTaken, data, coordinator, locals, phase >>

\* The others wait for range_init_cond_ or find the flag set.
AwaitInit(t) ==
  /\ pc[t] = "init"
  /\ is_range_init_
  /\ Goto(t, IF beg[t] = 0 THEN "populate" ELSE "waitInit")
  /\ UNCHANGED << init, waiting, futuresTaken, data, coordinator, locals, phase >>

\* The first threads write into a buffer each, to populate its memory.
Populate(t) ==
  /\ pc[t] = "populate"
  /\ Goto(t, "waitInit")
  /\ content' = IF t \in Buffer THEN [content EXCEPT ![t] = Blank] ELSE content
  /\ UNCHANGED << init, waiting, futuresTaken, promise, free_buffers_,
                  cached_front_buffers_, bucket_consumed_num_, coordinator, locals, phase >>

\* Where each Wait returns to.
AfterWait ==
  [waitInit |-> "setup", waitSetup |-> "waitBucket", waitBucket |-> "get", waitEnd |-> "idle"]

BarrierWait(t) ==
  LET here == waiting \cup {t} IN
  /\ pc[t] \in DOMAIN AfterWait
  /\ t \notin waiting
  /\ IF Cardinality(here) = total_range_num_threads_
     THEN /\ waiting' = {}
          /\ pc' = [u \in Thread |-> IF u \in here THEN AfterWait[pc[u]] ELSE pc[u]]
     ELSE waiting' = here /\ UNCHANGED pc
  /\ UNCHANGED << init, futuresTaken, data, coordinator, locals, phase >>

\* Thread 0 takes the futures, starts the coordinator and hands it all buffers.
\* Taking the future of a promise twice throws, which nobody catches.
Setup ==
  /\ pc[0] = "setup"
  /\ IF futuresTaken
     THEN /\ phase' = "crashed"
          /\ UNCHANGED << futuresTaken, data, coordinator, pc >>
     ELSE /\ futuresTaken' = TRUE
          /\ cstate' = "pop"
          /\ cnext' = 0
          /\ cbuf' = Null
          /\ free_buffers_' = free_buffers_ \o [i \in 1 .. Keep + Recycle |-> i - 1]
          /\ bucket_consumed_num_' = [f \in FutureId |-> 0]
          /\ Goto(0, "waitSetup")
          /\ UNCHANGED << promise, cached_front_buffers_, content, phase >>
  /\ UNCHANGED << init, waiting, locals >>

SkipSetup(t) ==
  /\ t # 0
  /\ pc[t] = "setup"
  /\ Goto(t, "waitSetup")
  /\ UNCHANGED << init, waiting, futuresTaken, data, coordinator, locals, phase >>

-----------------------------------------------------------------------------
(* The loop of Range over the buckets.                                      *)

FutureOf(t) == bucket[t] + beg[t]

\* The second traversal takes its first buffers from the cache.
UsesCache(f) == f % (2 * BucketNum) \in BucketNum .. BucketNum + Keep - 1

\* futures_[future_id].get(), or the cache without waiting for anything.
GetBuffer(t) ==
  /\ pc[t] = "get"
  /\ \/ UsesCache(FutureOf(t))
     \/ futuresTaken /\ FutureOf(t) \in FutureId /\ promise[FutureOf(t)] # Null
  /\ buf' = [buf EXCEPT ![t] = IF UsesCache(FutureOf(t))
                               THEN cached_front_buffers_[bucket[t]]
                               ELSE promise[FutureOf(t)]]
  /\ Goto(t, "visit")
  /\ UNCHANGED << init, waiting, futuresTaken, data, coordinator, bucket, beg, phase >>

\* get on a future that has no promise throws, which nobody catches; a third
\* traversal, which only a wrong count lets begin, reads past the end of futures_.
GetInvalidFuture(t) ==
  /\ pc[t] = "get"
  /\ ~ UsesCache(FutureOf(t))
  /\ ~ futuresTaken \/ FutureOf(t) \notin FutureId
  /\ phase' = "crashed"
  /\ UNCHANGED << init, waiting, futuresTaken, data, coordinator, pc, locals >>

\* On to the next bucket, or after the last one to the end of the call.
NextBucket(t) ==
  IF bucket[t] = BucketNum - 1
  THEN /\ Goto(t, "waitEnd")
       /\ beg' = [beg EXCEPT ![t] = @ + BucketNum]
       /\ UNCHANGED << bucket, buf >>
  ELSE /\ Goto(t, "waitBucket")
       /\ bucket' = [bucket EXCEPT ![t] = @ + 1]
       /\ UNCHANGED << beg, buf >>

\* Wrong on purpose: the first to finish takes the buffer away.
EndVisitFirst(t) ==
  /\ pc[t] = "visit"
  /\ bucket_consumed_num_' = [bucket_consumed_num_ EXCEPT ![FutureOf(t)] = @ + 1]
  /\ IF bucket_consumed_num_[FutureOf(t)] = 0
     THEN Goto(t, "release") /\ UNCHANGED locals
     ELSE NextBucket(t)
  /\ UNCHANGED << init, waiting, futuresTaken, promise, free_buffers_,
                  cached_front_buffers_, content, coordinator, phase >>

\* All entries of the bucket are visited; the thread counts itself, and the last
\* one owns the buffer.
EndVisit(t) ==
  /\ pc[t] = "visit"
  /\ bucket_consumed_num_' = [bucket_consumed_num_ EXCEPT ![FutureOf(t)] = @ + 1]
  /\ IF bucket_consumed_num_[FutureOf(t)] + 1 = total_range_num_threads_
     THEN Goto(t, "release") /\ UNCHANGED locals
     ELSE NextBucket(t)
  /\ UNCHANGED << init, waiting, futuresTaken, promise, free_buffers_,
                  cached_front_buffers_, content, coordinator, phase >>

\* Wrong on purpose: a cached buffer is freed as well.
ReleaseAlsoCached(t) ==
  /\ pc[t] = "release"
  /\ free_buffers_' = Append(free_buffers_, buf[t])
  /\ cached_front_buffers_' = IF FutureOf(t) % (2 * BucketNum) < Keep
                              THEN [cached_front_buffers_ EXCEPT ![FutureOf(t)] = buf[t]]
                              ELSE cached_front_buffers_
  /\ NextBucket(t)
  /\ UNCHANGED << init, waiting, futuresTaken, promise, bucket_consumed_num_, content,
                  coordinator, phase >>

\* The first buffers of the first traversal are cached, any other is free again.
Release(t) ==
  /\ pc[t] = "release"
  /\ IF FutureOf(t) % (2 * BucketNum) < Keep
     THEN /\ cached_front_buffers_' = [cached_front_buffers_ EXCEPT ![FutureOf(t)] = buf[t]]
          /\ UNCHANGED free_buffers_
     ELSE /\ free_buffers_' = Append(free_buffers_, buf[t])
          /\ UNCHANGED cached_front_buffers_
  /\ NextBucket(t)
  /\ UNCHANGED << init, waiting, futuresTaken, promise, bucket_consumed_num_, content,
                  coordinator, phase >>

-----------------------------------------------------------------------------
(* The coordinator.                                                         *)

\* Takes a free buffer and starts to read the next bucket into it, unless it is
\* one of the destructor's null pointers.
PopBuffer ==
  /\ cstate = "pop" /\ ~ UsesCache(cnext)
  /\ free_buffers_ # << >>
  /\ cbuf' = Head(free_buffers_)
  /\ free_buffers_' = Tail(free_buffers_)
  /\ content' = IF cbuf' = Null THEN content ELSE [content EXCEPT ![cbuf'] = Filling]
  /\ cstate' = "read"
  /\ UNCHANGED << init, waiting, futuresTaken, promise, cached_front_buffers_,
                  bucket_consumed_num_, cnext, pc, locals, phase >>

\* ReadBucketToBuffer returns when the whole bucket is in the buffer (ReadBucket).
EndRead ==
  /\ cstate = "read"
  /\ content' = IF cbuf = Null THEN content ELSE [content EXCEPT ![cbuf] = cnext % BucketNum]
  /\ cstate' = "set"
  /\ UNCHANGED << init, waiting, futuresTaken, promise, free_buffers_, cached_front_buffers_,
                  bucket_consumed_num_, cnext, cbuf, pc, locals, phase >>

TakeCached ==
  /\ cstate = "pop" /\ UsesCache(cnext)
  /\ cbuf' = cached_front_buffers_[cnext - BucketNum]
  /\ cstate' = "set"
  /\ UNCHANGED << init, waiting, futuresTaken, data, cnext, pc, locals, phase >>

SetPromise ==
  /\ cstate = "set"
  /\ promise' = [promise EXCEPT ![cnext] = cbuf]
  /\ cstate' = IF cnext = 2 * BucketNum - 1 THEN "done" ELSE "pop"
  /\ cnext' = cnext + 1
  /\ UNCHANGED << init, waiting, futuresTaken, free_buffers_, cached_front_buffers_,
                  bucket_consumed_num_, content, cbuf, pc, locals, phase >>

-----------------------------------------------------------------------------
(* The destructor.                                                          *)

\* Wrong on purpose: no null pointers.
BeginDestroySilently ==
  /\ phase = "open"
  /\ \A t \in Thread : pc[t] = "idle" /\ beg[t] = beg[0] /\ beg[t] > 0
  /\ phase' = "joining"
  /\ UNCHANGED << init, waiting, futuresTaken, data, coordinator, pc, locals >>

\* No Range is in progress and all threads have made the same number of calls.
\* Null pointers let a coordinator in the middle of the second traversal run on.
BeginDestroy ==
  /\ phase = "open"
  /\ \A t \in Thread : pc[t] = "idle" /\ beg[t] = beg[0] /\ beg[t] > 0
  /\ phase' = "joining"
  /\ free_buffers_' = free_buffers_ \o [i \in 1 .. 2 * BucketNum |-> Null]
  /\ UNCHANGED << init, waiting, futuresTaken, promise, cached_front_buffers_,
                  bucket_consumed_num_, content, coordinator, pc, locals >>

JoinCoordinator ==
  /\ phase = "joining"
  /\ cstate = "done"
  /\ phase' = "closed"
  /\ UNCHANGED << init, waiting, futuresTaken, data, coordinator, pc, locals >>

Closed == phase \in {"closed", "crashed"} /\ UNCHANGED vars

VisitorStep(t) ==
  \/ AwaitInit(t) \/ Populate(t) \/ BarrierWait(t) \/ SkipSetup(t)
  \/ GetBuffer(t) \/ GetInvalidFuture(t) \/ EndVisit(t) \/ Release(t)

CoordinatorStep == PopBuffer \/ EndRead \/ TakeCached \/ SetPromise

Next ==
  \/ /\ phase # "crashed"
     /\ \/ InitForAll \/ Setup \/ CoordinatorStep \/ BeginDestroy \/ JoinCoordinator
        \/ \E t \in Thread : Call(t) \/ VisitorStep(t)
  \/ Closed

Spec == Init /\ [][Next]_vars

\* Threads are scheduled, and every client thread makes its calls; the destructor,
\* once called, is scheduled too.
Fairness ==
  /\ WF_vars(InitForAll) /\ WF_vars(Setup) /\ WF_vars(CoordinatorStep)
  /\ WF_vars(JoinCoordinator)
  /\ \A t \in Thread : WF_vars(Call(t)) /\ WF_vars(VisitorStep(t))

FairSpec == Spec /\ Fairness

-----------------------------------------------------------------------------
TypeOK ==
  /\ started \in 0 .. NumThreads
  /\ is_range_init_ \in BOOLEAN /\ futuresTaken \in BOOLEAN
  /\ total_range_num_threads_ \in 0 .. NumThreads
  /\ waiting \subseteq Thread
  /\ promise \in [FutureId -> Buffer \cup {Null}]
  /\ free_buffers_ \in Seq(Buffer \cup {Null})
  /\ cached_front_buffers_ \in [0 .. Keep - 1 -> Buffer \cup {Null}]
  /\ bucket_consumed_num_ \in [FutureId -> 0 .. NumThreads]
  /\ content \in [Buffer -> 0 .. BucketNum - 1 \cup {Blank, Filling}]
  /\ cstate \in {"none", "pop", "read", "set", "done"}
  /\ cnext \in 0 .. 2 * BucketNum
  /\ cbuf \in Buffer \cup {Null}
  /\ pc \in [Thread -> {"idle", "init", "populate", "setup", "get", "visit", "release"}
                        \cup DOMAIN AfterWait]
  /\ bucket \in [Thread -> 0 .. BucketNum - 1]
  /\ beg \in [Thread -> 0 .. Calls * BucketNum]
  /\ buf \in [Thread -> Buffer \cup {Null}]
  /\ phase \in {"open", "joining", "closed", "crashed"}

\* The barrier was not built for a wrong number of threads.
RightCount == total_range_num_threads_ \in {0, NumThreads}

\* While any visitor is in a bucket, its buffer holds that bucket, however late the
\* threads come, once the barrier was built for all of them: the coordinator never
\* refills a buffer somebody still reads, nor is a cached buffer reused before the
\* second traversal is past it (Range 751-815, coordinator 666-710).
VisitIntact ==
  RightCount =>
    \A t \in Thread : pc[t] = "visit" =>
      buf[t] \in Buffer /\ content[buf[t]] = bucket[t]

\* A promised buffer not yet given back.  In the second traversal the promises of
\* the first buckets only repeat the cache.
Lent(f) ==
  /\ promise[f] # Null
  /\ ~ UsesCache(f)
  /\ \/ bucket_consumed_num_[f] < total_range_num_threads_
     \/ \E t \in Thread : pc[t] = "release" /\ FutureOf(t) = f

\* A cached buffer the second traversal has not given back yet.
Kept(i) ==
  /\ cached_front_buffers_[i] # Null
  /\ \/ bucket_consumed_num_[BucketNum + i] < total_range_num_threads_
     \/ \E t \in Thread : pc[t] = "release" /\ FutureOf(t) = BucketNum + i

Owners(x) ==
  {<< "free", i >> : i \in {i \in 1 .. Len(free_buffers_) : free_buffers_[i] = x}}
    \cup {<< "lent", f >> : f \in {f \in FutureId : promise[f] = x /\ Lent(f)}}
    \cup {<< "kept", i >> : i \in {i \in 0 .. Keep - 1 : cached_front_buffers_[i] = x /\ Kept(i)}}
    \cup (IF cstate \in {"read", "set"} /\ ~ UsesCache(cnext) /\ cbuf = x
          THEN {<< "coordinator", 0 >>} ELSE {})

\* Each of the buffers has exactly one owner at any time: none leaks, which would
\* starve the pipeline, and none is free twice.
OneOwner ==
  futuresTaken /\ RightCount => \A x \in Buffer : Cardinality(Owners(x)) = 1

\* Every Range call returns, when every thread makes its calls.
RangeReturns == \A t \in Thread : pc[t] # "idle" ~> pc[t] = "idle" \/ ~ RightCount

\* The destructor stops the coordinator wherever it is.
DestroyReturns == phase = "joining" ~> phase = "closed" \/ ~ RightCount

\* contest_summary_toc.md:13: 64 threads traverse concurrently; the buffer a thread
\* visits holds its bucket, even if thread 0 counted itself only.
LateVisitIntact ==
  \A t \in Thread : pc[t] = "visit" =>
    buf[t] \in Buffer /\ content[buf[t]] = bucket[t]
=============================================================================
