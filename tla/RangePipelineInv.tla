-------------------------- MODULE RangePipelineInv --------------------------
(***************************************************************************)
(* The inductive invariant behind VisitIntact and OneOwner: the visitors go  *)
(* from barrier to barrier in step, and each buffer is in one place.         *)
(***************************************************************************)
EXTENDS RangePipeline

\* How far a thread has got by itself, whatever the others do.
LocalInv(t) ==
  /\ beg[t] \in {0, BucketNum, 2 * BucketNum}
  /\ pc[t] \in {"init", "populate", "waitInit", "setup", "waitSetup"} =>
       bucket[t] = 0 /\ beg[t] # BucketNum
  /\ pc[t] = "populate" => beg[t] = 0
  /\ pc[t] = "idle" /\ beg[t] = 0 => bucket[t] = 0
  /\ pc[t] = "waitEnd" => bucket[t] = BucketNum - 1 /\ beg[t] # 0
  /\ pc[t] \in {"waitBucket", "get"} /\ beg[t] = 2 * BucketNum => bucket[t] = 0
  /\ pc[t] \in {"visit", "release"} => beg[t] # 2 * BucketNum
  /\ pc[t] \notin {"idle", "waitEnd"} => beg[t] < Calls * BucketNum
  /\ t \in waiting => pc[t] \in DOMAIN AfterWait

\* What has been initialised when.
InitInv ==
  /\ started = 0 => pc[0] = "idle" /\ beg[0] = 0
  /\ ~ is_range_init_ =>
       /\ total_range_num_threads_ = 0 /\ ~ futuresTaken
       /\ \A t \in Thread : pc[t] \in {"idle", "init"}
  /\ is_range_init_ => total_range_num_threads_ > 0 /\ started > 0
  /\ ~ futuresTaken =>
       /\ \A t \in Thread :
            beg[t] = 0 /\ bucket[t] = 0 /\ pc[t] \notin {"visit", "release", "waitEnd"}
       /\ free_buffers_ = << >>
       /\ \A f \in FutureId : promise[f] = Null
       /\ \A i \in 0 .. Keep - 1 : cached_front_buffers_[i] = Null
  /\ cstate = "none" <=> ~ futuresTaken
  /\ cstate \in {"pop", "read", "set"} => cnext < 2 * BucketNum
  /\ cstate = "read" => ~ UsesCache(cnext)
  /\ phase \in {"joining", "closed"} => \A t \in Thread : pc[t] = "idle"

\* The futures a thread has counted itself at are those below this one.
Counted(t) ==
  IF pc[t] \in {"idle", "waitEnd"} THEN beg[t]
  ELSE IF pc[t] = "release" THEN FutureOf(t) + 1
  ELSE FutureOf(t)

Past(f) == {t \in Thread : Counted(t) > f}

CountInv == \A f \in FutureId : bucket_consumed_num_[f] = Cardinality(Past(f))

-----------------------------------------------------------------------------
(* The rest holds when the barrier was built for all threads.               *)

\* The traversal a thread is in, and the wait it has last returned from: that at
\* the end of a call, of the two of InitForRange, or before a bucket.
Traversal(t) == IF pc[t] = "waitEnd" THEN beg[t] - BucketNum ELSE beg[t]

Stage(t) ==
  IF pc[t] \in {"idle", "init", "populate", "waitInit"} THEN -3
  ELSE IF pc[t] \in {"setup", "waitSetup"} THEN -2
  ELSE IF pc[t] # "waitBucket" THEN bucket[t]
  ELSE IF bucket[t] > 0 THEN bucket[t] - 1
  ELSE IF beg[t] = BucketNum THEN -3 ELSE -1

\* All threads have returned from the same waits.
InStep == \A t, u \in Thread : Traversal(t) = Traversal(u) /\ Stage(t) = Stage(u)

\* The futures are made when all threads have come, so that nobody is still to
\* populate a buffer.
SetupInv ==
  futuresTaken => \A t \in Thread :
    beg[t] = 0 => pc[t] \notin {"idle", "init", "populate", "waitInit"}

\* The last to finish a bucket is one thread, and everybody has counted himself.
LastInv ==
  /\ \A t \in Thread :
       pc[t] = "release" => bucket_consumed_num_[FutureOf(t)] = NumThreads
  /\ \A t, u \in Thread : pc[t] = "release" /\ pc[u] = "release" => t = u

\* Nobody is past a future without its promise, unless the cache serves it.
PromiseInv ==
  \A f \in FutureId : futuresTaken /\ f >= cnext =>
    /\ promise[f] = Null
    /\ ~ UsesCache(f) =>
         \A t \in Thread : Counted(t) <= f /\ ~ (pc[t] = "visit" /\ FutureOf(t) = f)

\* Where the buffer of a future comes from.
Source(f) == IF UsesCache(f) THEN cached_front_buffers_[f - BucketNum] ELSE promise[f]

VisitorInv ==
  \A t \in Thread : pc[t] \in {"visit", "release"} =>
    buf[t] \in Buffer /\ buf[t] = Source(FutureOf(t))

\* A future that some thread is still to count itself at or to give back.
Pending(f) ==
  \/ bucket_consumed_num_[f] < NumThreads
  \/ \E t \in Thread : pc[t] = "release" /\ FutureOf(t) = f

\* A buffer is cached when all have visited it in the first traversal.
CacheInv ==
  \A i \in 0 .. Keep - 1 : cached_front_buffers_[i] = Null <=> Pending(i)

\* The places where a buffer can be, as in Owners, and what it holds there.
LentNow == {f \in FutureId : promise[f] # Null /\ ~ UsesCache(f) /\ Pending(f)}
KeptNow ==
  {i \in 0 .. Keep - 1 : cached_front_buffers_[i] # Null /\ Pending(BucketNum + i)}
ReadNow == {x \in Buffer : cstate \in {"read", "set"} /\ ~ UsesCache(cnext) /\ cbuf = x}
FreeNow == {i \in 1 .. Len(free_buffers_) : free_buffers_[i] \in Buffer}

\* No buffer is in two places ...
ApartInv ==
  /\ \A i, j \in FreeNow : free_buffers_[i] = free_buffers_[j] => i = j
  /\ \A f, g \in LentNow : promise[f] = promise[g] => f = g
  /\ \A i, j \in KeptNow : cached_front_buffers_[i] = cached_front_buffers_[j] => i = j
  /\ \A i \in FreeNow, f \in LentNow : free_buffers_[i] # promise[f]
  /\ \A i \in FreeNow, k \in KeptNow : free_buffers_[i] # cached_front_buffers_[k]
  /\ \A f \in LentNow, k \in KeptNow : promise[f] # cached_front_buffers_[k]
  /\ \A i \in FreeNow : free_buffers_[i] \notin ReadNow
  /\ \A f \in LentNow : promise[f] \notin ReadNow
  /\ \A k \in KeptNow : cached_front_buffers_[k] \notin ReadNow

\* ... and each is in one.
PlaceInv ==
  futuresTaken =>
    \A x \in Buffer :
      \/ \E i \in FreeNow : free_buffers_[i] = x
      \/ \E f \in LentNow : promise[f] = x
      \/ \E k \in KeptNow : cached_front_buffers_[k] = x
      \/ x \in ReadNow

ContentInv ==
  /\ \A f \in LentNow : content[promise[f]] = f % BucketNum
  /\ \A k \in KeptNow : content[cached_front_buffers_[k]] = k
  /\ cstate = "set" => \A x \in ReadNow : content[x] = cnext % BucketNum

\* Every step of a visitor, of the coordinator and of the destructor keeps it.
IInv ==
  /\ TypeOK
  /\ \A t \in Thread : LocalInv(t)
  /\ InitInv
  /\ CountInv
  /\ RightCount =>
       /\ InStep /\ SetupInv /\ LastInv /\ PromiseInv /\ VisitorInv /\ CacheInv
       /\ ApartInv /\ PlaceInv /\ ContentInv
=============================================================================
