------------------------ MODULE RangePipelineProofs -------------------------
(***************************************************************************)
(* Proofs about the pipeline of Range, for any number of threads, buckets,   *)
(* buffers and calls: the state is well-formed, a visited buffer holds its   *)
(* bucket, and every buffer has exactly one owner.                          *)
(***************************************************************************)
EXTENDS MCRangePipeline, FiniteSetTheorems, TLAPS

\* Futures are numbered bucket by bucket through the two traversals.
LEMMA Numbers ==
  /\ NumThreads \in Nat \ {0} /\ BucketNum \in Nat \ {0} /\ BucketNum > Keep + Recycle
  /\ Keep \in Nat \ {0} /\ Recycle \in Nat \ {0} /\ Calls \in Nat
  /\ 0 \in Thread /\ Thread \subseteq Nat
  /\ Null \notin Buffer
  /\ Calls * BucketNum \in Nat
BY RangePipelineAssumption DEF Thread, Buffer

LEMMA Waits ==
  /\ DOMAIN AfterWait = {"waitInit", "waitSetup", "waitBucket", "waitEnd"}
  /\ AfterWait["waitInit"] = "setup" /\ AfterWait["waitSetup"] = "waitBucket"
  /\ AfterWait["waitBucket"] = "get" /\ AfterWait["waitEnd"] = "idle"
BY DEF AfterWait

LEMMA FutureNumbers ==
  ASSUME NEW f \in FutureId
  PROVE  /\ f % (2 * BucketNum) = f
         /\ UsesCache(f) <=> BucketNum <= f /\ f < BucketNum + Keep
         /\ f % BucketNum = IF f < BucketNum THEN f ELSE f - BucketNum
         /\ f % BucketNum \in 0 .. BucketNum - 1
<1>1. f % (2 * BucketNum) = f
  BY Numbers DEF FutureId
<1>2. f % BucketNum = IF f < BucketNum THEN f ELSE f - BucketNum
  BY Numbers DEF FutureId
<1> QED
  BY <1>1, <1>2, Numbers DEF FutureId, UsesCache

\* The bases of the traversals a thread has not begun too late.
LEMMA CallBound ==
  ASSUME NEW b \in {0, BucketNum, 2 * BucketNum}, b < Calls * BucketNum
  PROVE  /\ b + BucketNum <= Calls * BucketNum
         /\ b = 2 * BucketNum => b + BucketNum > 2 * BucketNum
<1>1. CASE Calls = 0
  BY <1>1, Numbers
<1>2. CASE Calls = 1
  BY <1>2, Numbers
<1>3. CASE Calls = 2
  BY <1>3, Numbers
<1>4. CASE Calls > 2
  BY <1>4, Numbers
<1> QED
  BY <1>1, <1>2, <1>3, <1>4, Numbers

-----------------------------------------------------------------------------
(* What holds however many threads the barrier was built for.               *)

Base == TypeOK /\ (\A t \in Thread : LocalInv(t)) /\ InitInv /\ CountInv

\* The counts change only where a thread counts itself.
LEMMA CountKept ==
  ASSUME CountInv, UNCHANGED bucket_consumed_num_,
         \A t \in Thread : Counted(t)' = Counted(t)
  PROVE  CountInv'
<1>1. \A f \in FutureId : Past(f)' = Past(f)
  BY DEF Past
<1> QED
  BY <1>1 DEF CountInv

LEMMA BaseInit == Init => Base
<1> SUFFICES ASSUME Init PROVE Base
  OBVIOUS
<1>1. TypeOK
  BY Numbers, Waits DEF Init, TypeOK, Blank
<1>2. \A t \in Thread : LocalInv(t)
  BY Numbers DEF Init, LocalInv
<1>3. InitInv
  BY Numbers DEF Init, InitInv
<1>4. CountInv
  <2>1. \A t \in Thread : Counted(t) = 0
    BY DEF Init, Counted
  <2>2. \A f \in FutureId : Past(f) = {}
    BY <2>1 DEF Past, FutureId
  <2> QED
    BY <2>2, FS_EmptySet DEF Init, CountInv
<1> QED
  BY <1>1, <1>2, <1>3, <1>4 DEF Base

LEMMA CallBase ==
  ASSUME Base, NEW t \in Thread, Call(t)
  PROVE  Base'
<1> USE DEF Base
<1>0. /\ pc[t] = "idle" /\ LocalInv(t) /\ beg[t] < Calls * BucketNum
      /\ pc' = [pc EXCEPT ![t] = IF beg[t] % (2 * BucketNum) = 0 THEN "init" ELSE "waitBucket"]
      /\ bucket' = [bucket EXCEPT ![t] = 0]
      /\ beg[t] \in {0, BucketNum, 2 * BucketNum}
      /\ beg[t] % (2 * BucketNum) = 0 <=> beg[t] # BucketNum
      /\ UNCHANGED << is_range_init_, total_range_num_threads_, waiting, futuresTaken,
                      data, coordinator, beg, buf, phase >>
  BY Numbers DEF Call, Goto, LocalInv
<1>1. TypeOK'
  <2>1. started' \in 0 .. NumThreads
    <3>1. started' \in {started, t + 1}
      BY DEF Call
    <3>2. started \in 0 .. NumThreads /\ t \in 0 .. NumThreads - 1 /\ NumThreads \in Nat
      BY Numbers DEF TypeOK, Thread
    <3> QED
      BY <3>1, <3>2
  <2>2. pc'[t] \in {"init", "waitBucket"}
    BY <1>0 DEF TypeOK
  <2>3. pc' \in [Thread -> {"idle", "init", "populate", "setup", "get", "visit", "release"}
                            \cup DOMAIN AfterWait]
    BY <1>0, <2>2, Waits DEF TypeOK
  <2>4. bucket' \in [Thread -> 0 .. BucketNum - 1]
    BY <1>0, Numbers DEF TypeOK
  <2> QED
    BY <1>0, <2>1, <2>3, <2>4 DEF TypeOK, data, coordinator
<1>2. \A u \in Thread : LocalInv(u)'
  BY <1>0, Numbers, Waits DEF TypeOK, LocalInv
<1> DEFINE from == IF beg[t] = BucketNum THEN "waitBucket" ELSE "init"
<1>3. /\ \A u \in Thread : /\ pc'[u] = IF u = t THEN from ELSE pc[u]
                           /\ bucket'[u] = IF u = t THEN 0 ELSE bucket[u]
                           /\ beg'[u] = beg[u]
      /\ BucketNum # 0
  BY <1>0, Numbers DEF TypeOK
<1>4. InitInv'
  <2>1. started' \in {started, t + 1} /\ (beg[t] = 0 => started' = t + 1) /\ t \in Nat
        /\ started \in Nat
    BY Numbers DEF Call, TypeOK
  <2>2. started' = 0 => pc'[0] = "idle" /\ beg'[0] = 0
    <3> SUFFICES ASSUME started' = 0 PROVE pc'[0] = "idle" /\ beg'[0] = 0
      OBVIOUS
    <3>1. started = 0 /\ beg[t] # 0
      BY <2>1
    <3>2. pc[0] = "idle" /\ beg[0] = 0 /\ 0 \in Thread
      BY <3>1, Numbers DEF InitInv
    <3> QED
      BY <1>3, <3>1, <3>2
  <2>3. ~ is_range_init_ => \A u \in Thread : pc'[u] \in {"idle", "init"}
    BY <1>3 DEF InitInv
  <2>4. is_range_init_ => started' > 0
    BY <2>1 DEF InitInv
  <2>5. ~ futuresTaken => \A u \in Thread : beg'[u] = 0 /\ bucket'[u] = 0
                                            /\ pc'[u] \notin {"visit", "release", "waitEnd"}
    BY <1>3 DEF InitInv
  <2> QED
    BY <1>0, <2>2, <2>3, <2>4, <2>5 DEF Call, InitInv, data, coordinator, UsesCache
<1>5. CountInv'
  <2>1. \A u \in Thread : Counted(u)' = Counted(u)
    <3>1. ASSUME NEW u \in Thread, u # t PROVE Counted(u)' = Counted(u)
      BY <1>3, <3>1 DEF Counted, FutureOf
    <3>2. Counted(t) = beg[t] /\ Counted(t)' = 0 + beg[t]
      BY <1>0, <1>3 DEF Counted, FutureOf
    <3>3. 0 + beg[t] = beg[t]
      BY <1>0, Numbers
    <3> QED
      BY <3>1, <3>2, <3>3
  <2> QED
    BY <1>0, <2>1, CountKept DEF data
<1> QED
  BY <1>1, <1>2, <1>4, <1>5

Places == {"idle", "init", "populate", "setup", "get", "visit", "release"} \cup DOMAIN AfterWait

LEMMA PcType ==
  ASSUME TypeOK, NEW t \in Thread, NEW to \in Places, pc' = [pc EXCEPT ![t] = to]
  PROVE  pc' \in [Thread -> Places]
BY DEF TypeOK, Places

LEMMA BeforeBucketsBase ==
  ASSUME Base,
         \/ InitForAll
         \/ \E t \in Thread : AwaitInit(t) \/ Populate(t) \/ SkipSetup(t)
  PROVE  Base'
<1> USE DEF Base
<1>1. CASE InitForAll
  <2>1. /\ pc[0] = "init" /\ ~ is_range_init_ /\ is_range_init_' = TRUE
        /\ total_range_num_threads_' \in 1 .. NumThreads
        /\ pc' = [pc EXCEPT ![0] = "populate"]
        /\ UNCHANGED << started, waiting, futuresTaken, data, coordinator, locals, phase >>
    BY <1>1, Numbers DEF InitForAll, Goto, TypeOK, InitInv
  <2>2. pc' \in [Thread -> Places]
    BY <2>1, PcType, Numbers DEF Places
  <2>3. TypeOK'
    <3>1. total_range_num_threads_' \in 0 .. NumThreads /\ is_range_init_' \in BOOLEAN
      BY <2>1, Numbers
    <3>2. UNCHANGED << started, waiting, futuresTaken, promise, free_buffers_, cached_front_buffers_,
                       bucket_consumed_num_, content, cstate, cnext, cbuf, bucket, beg, buf, phase >>
      BY <2>1 DEF data, coordinator, locals
    <3> QED
      BY <2>2, <3>1, <3>2 DEF TypeOK, Places
  <2>4. \A u \in Thread : LocalInv(u)'
    BY <2>1, Numbers, Waits DEF TypeOK, LocalInv, InitInv, locals
  <2>5. InitInv'
    BY <2>1, Numbers DEF TypeOK, InitInv, data, coordinator, locals, UsesCache
  <2>6. \A u \in Thread : Counted(u)' = Counted(u)
    BY <2>1, Numbers DEF TypeOK, Counted, FutureOf, locals
  <2> QED
    BY <2>1, <2>3, <2>4, <2>5, <2>6, CountKept DEF data
<1>2. ASSUME NEW t \in Thread, AwaitInit(t)
      PROVE  Base'
  <2>1. /\ pc[t] = "init" /\ is_range_init_
        /\ pc' = [pc EXCEPT ![t] = IF beg[t] = 0 THEN "populate" ELSE "waitInit"]
        /\ UNCHANGED << init, waiting, futuresTaken, data, coordinator, locals, phase >>
    BY <1>2 DEF AwaitInit, Goto
  <2>2. pc' \in [Thread -> Places]
    BY <2>1, PcType, Waits DEF Places
  <2>3. TypeOK'
    BY <2>1, <2>2 DEF TypeOK, Places, init, data, coordinator, locals
  <2>4. \A u \in Thread : LocalInv(u)'
    BY <2>1, Waits DEF TypeOK, LocalInv, locals
  <2>5. InitInv'
    BY <2>1, Numbers DEF TypeOK, InitInv, init, data, coordinator, locals, UsesCache
  <2>6. \A u \in Thread : Counted(u)' = Counted(u)
    BY <2>1 DEF TypeOK, Counted, FutureOf, locals
  <2> QED
    BY <2>1, <2>3, <2>4, <2>5, <2>6, CountKept DEF data
<1>3. ASSUME NEW t \in Thread, Populate(t)
      PROVE  Base'
  <2>1. /\ pc[t] = "populate"
        /\ pc' = [pc EXCEPT ![t] = "waitInit"]
        /\ content' = IF t \in Buffer THEN [content EXCEPT ![t] = Blank] ELSE content
        /\ UNCHANGED << init, waiting, futuresTaken, promise, free_buffers_,
                        cached_front_buffers_, bucket_consumed_num_, coordinator, locals, phase >>
    BY <1>3 DEF Populate, Goto
  <2>2. pc' \in [Thread -> Places]
    BY <2>1, PcType, Waits DEF Places
  <2>3. TypeOK'
    BY <2>1, <2>2 DEF TypeOK, Places, init, coordinator, locals
  <2>4. \A u \in Thread : LocalInv(u)'
    BY <2>1, Waits DEF TypeOK, LocalInv, locals
  <2>5. InitInv'
    BY <2>1, Numbers DEF TypeOK, InitInv, init, coordinator, locals, UsesCache
  <2>6. \A u \in Thread : Counted(u)' = Counted(u)
    BY <2>1 DEF TypeOK, Counted, FutureOf, locals
  <2> QED
    BY <2>1, <2>3, <2>4, <2>5, <2>6, CountKept
<1>4. ASSUME NEW t \in Thread, SkipSetup(t)
      PROVE  Base'
  <2>1. /\ pc[t] = "setup"
        /\ pc' = [pc EXCEPT ![t] = "waitSetup"]
        /\ UNCHANGED << init, waiting, futuresTaken, data, coordinator, locals, phase >>
    BY <1>4 DEF SkipSetup, Goto
  <2>2. pc' \in [Thread -> Places]
    BY <2>1, PcType, Waits DEF Places
  <2>3. TypeOK'
    BY <2>1, <2>2 DEF TypeOK, Places, init, data, coordinator, locals
  <2>4. \A u \in Thread : LocalInv(u)'
    BY <2>1, Waits DEF TypeOK, LocalInv, locals
  <2>5. InitInv'
    BY <2>1, Numbers DEF TypeOK, InitInv, init, data, coordinator, locals, UsesCache
  <2>6. \A u \in Thread : Counted(u)' = Counted(u)
    BY <2>1 DEF TypeOK, Counted, FutureOf, locals
  <2> QED
    BY <2>1, <2>3, <2>4, <2>5, <2>6, CountKept DEF data
<1> QED
  BY <1>1, <1>2, <1>3, <1>4

LEMMA BarrierWaitBase ==
  ASSUME Base, NEW t \in Thread, BarrierWait(t)
  PROVE  Base'
<1> USE DEF Base
<1> DEFINE here == waiting \cup {t}
<1>0. /\ pc[t] \in DOMAIN AfterWait /\ t \notin waiting
      /\ UNCHANGED << init, futuresTaken, data, coordinator, locals, phase >>
  BY DEF BarrierWait
<1>1. CASE waiting' = here /\ UNCHANGED pc
  <2>1. TypeOK'
    BY <1>0, <1>1 DEF TypeOK, init, data, coordinator, locals
  <2>2. \A u \in Thread : LocalInv(u)'
    BY <1>0, <1>1 DEF LocalInv, locals
  <2>3. InitInv'
    BY <1>0, <1>1 DEF InitInv, init, data, coordinator, locals, UsesCache
  <2>4. \A u \in Thread : Counted(u)' = Counted(u)
    BY <1>0, <1>1 DEF Counted, FutureOf, locals
  <2> QED
    BY <1>0, <2>1, <2>2, <2>3, <2>4, CountKept DEF data
<1>2. CASE /\ waiting' = {}
           /\ pc' = [u \in Thread |-> IF u \in here THEN AfterWait[pc[u]] ELSE pc[u]]
  <2>1. \A u \in here : u \in Thread /\ pc[u] \in DOMAIN AfterWait
    BY <1>0 DEF TypeOK, LocalInv
  <2>2. \A u \in Thread :
          \/ pc'[u] = pc[u]
          \/ pc[u] = "waitInit" /\ pc'[u] = "setup"
          \/ pc[u] = "waitSetup" /\ pc'[u] = "waitBucket"
          \/ pc[u] = "waitBucket" /\ pc'[u] = "get"
          \/ pc[u] = "waitEnd" /\ pc'[u] = "idle"
    BY <1>2, <2>1, Waits
  <2>3. pc' \in [Thread -> Places]
    BY <1>2, <2>2, Waits DEF TypeOK, Places
  <2>4. TypeOK'
    BY <1>0, <1>2, <2>3 DEF TypeOK, Places, init, data, coordinator, locals
  <2>5. \A u \in Thread : LocalInv(u)'
    BY <1>0, <1>2, <2>2, Waits, Numbers DEF LocalInv, locals
  <2>6. InitInv'
    BY <1>0, <2>2, Numbers DEF InitInv, init, data, coordinator, locals, UsesCache
  <2>7. \A u \in Thread : Counted(u)' = Counted(u)
    BY <1>0, <2>2 DEF Counted, FutureOf, locals
  <2> QED
    BY <1>0, <2>4, <2>5, <2>6, <2>7, CountKept DEF data
<1> QED
  BY <1>1, <1>2 DEF BarrierWait

LEMMA SetupBase ==
  ASSUME Base, Setup
  PROVE  Base'
<1> USE DEF Base
<1>0. pc[0] = "setup" /\ UNCHANGED << init, waiting, locals >>
  BY DEF Setup
<1>1. CASE futuresTaken
  <2>1. phase' = "crashed" /\ UNCHANGED << futuresTaken, data, coordinator, pc >>
    BY <1>1 DEF Setup
  <2>2. TypeOK'
    BY <1>0, <2>1 DEF TypeOK, init, data, coordinator, locals
  <2>3. \A u \in Thread : LocalInv(u)'
    BY <1>0, <2>1 DEF LocalInv, locals
  <2>4. InitInv'
    BY <1>0, <2>1 DEF InitInv, init, data, coordinator, locals, UsesCache
  <2>5. \A u \in Thread : Counted(u)' = Counted(u)
    BY <1>0, <2>1 DEF Counted, FutureOf, locals
  <2> QED
    BY <2>1, <2>2, <2>3, <2>4, <2>5, CountKept DEF data
<1>2. CASE ~ futuresTaken
  <2> DEFINE all == [i \in 1 .. Keep + Recycle |-> i - 1]
  <2>1. /\ futuresTaken' = TRUE /\ cstate' = "pop" /\ cnext' = 0 /\ cbuf' = Null
        /\ free_buffers_' = free_buffers_ \o all
        /\ bucket_consumed_num_' = [f \in FutureId |-> 0]
        /\ pc' = [pc EXCEPT ![0] = "waitSetup"]
        /\ UNCHANGED << promise, cached_front_buffers_, content, phase >>
    BY <1>2 DEF Setup, Goto
  <2>2. pc' \in [Thread -> Places]
    BY <2>1, PcType, Numbers, Waits DEF Places
  <2>3. free_buffers_' \in Seq(Buffer \cup {Null})
    <3>1. all \in Seq(Buffer \cup {Null})
      BY Numbers DEF Buffer
    <3> HIDE DEF all
    <3> QED
      BY <2>1, <3>1 DEF TypeOK
  <2>4. TypeOK'
    BY <1>0, <2>1, <2>2, <2>3, Numbers DEF TypeOK, Places, init, locals
  <2>5. \A u \in Thread : LocalInv(u)'
    BY <1>0, <2>1, Waits, Numbers DEF TypeOK, LocalInv, locals
  <2>6. InitInv'
    <3>1. is_range_init_ /\ started # 0 /\ phase \notin {"joining", "closed"}
      BY <1>0, Numbers DEF InitInv
    <3> QED
      BY <1>0, <2>1, <3>1, Numbers DEF InitInv, init
  <2>7. CountInv'
    <3>1. \A u \in Thread : Counted(u)' = 0
      BY <1>0, <1>2, <2>1, Numbers DEF TypeOK, InitInv, Counted, FutureOf, locals
    <3>2. \A f \in FutureId : Past(f)' = {}
      BY <3>1 DEF Past, FutureId
    <3> QED
      BY <2>1, <3>2, FS_EmptySet DEF CountInv
  <2> QED
    BY <2>4, <2>5, <2>6, <2>7
<1> QED
  BY <1>1, <1>2

\* The future a visitor gets is one of the two traversals'.
LEMMA GetFuture ==
  ASSUME Base, NEW t \in Thread, GetBuffer(t)
  PROVE  /\ FutureOf(t) \in FutureId /\ futuresTaken
         /\ bucket[t] \in 0 .. BucketNum - 1
         /\ beg[t] = IF FutureOf(t) < BucketNum THEN 0 ELSE BucketNum
<1> DEFINE f == FutureOf(t)
<1>1. pc[t] = "get" /\ LocalInv(t) /\ InitInv
  BY DEF GetBuffer, Base
<1>2. beg[t] \in {0, BucketNum, 2 * BucketNum} /\ bucket[t] \in 0 .. BucketNum - 1
  BY DEF Base, TypeOK, LocalInv
<1>3. beg[t] # 2 * BucketNum
  <2>1. ASSUME beg[t] = 2 * BucketNum PROVE FALSE
    <3>1. f = 2 * BucketNum /\ f \notin FutureId
      BY <1>1, <1>2, <2>1, Numbers DEF LocalInv, FutureOf, FutureId
    <3>2. f % (2 * BucketNum) = 0
      BY <3>1, Numbers
    <3> QED
      BY <3>1, <3>2, Numbers DEF UsesCache, GetBuffer
  <2> QED
    BY <2>1
<1>4. f \in FutureId
  BY <1>2, <1>3, Numbers DEF FutureOf, FutureId
<1>5. futuresTaken
  <2>1. UsesCache(f) => f >= BucketNum
    BY <1>4, FutureNumbers
  <2>2. beg[t] = 0 /\ bucket[t] = 0 => ~ UsesCache(f)
    BY <2>1, Numbers DEF FutureOf
  <2> QED
    BY <1>1, <2>2 DEF GetBuffer, InitInv
<1> QED
  BY <1>2, <1>3, <1>4, <1>5, Numbers DEF FutureOf

LEMMA GetBase ==
  ASSUME Base, NEW t \in Thread, GetBuffer(t) \/ GetInvalidFuture(t)
  PROVE  Base'
<1> USE DEF Base
<1>1. CASE GetBuffer(t)
  <2> DEFINE f == FutureOf(t)
  <2>1. /\ pc[t] = "get" /\ pc' = [pc EXCEPT ![t] = "visit"]
        /\ UNCHANGED << init, waiting, futuresTaken, data, coordinator, bucket, beg, phase >>
    BY <1>1 DEF GetBuffer, Goto
  <2>0. beg[t] \in {0, BucketNum, 2 * BucketNum} /\ bucket[t] \in 0 .. BucketNum - 1
    BY DEF TypeOK, LocalInv
  <2>2. beg[t] # 2 * BucketNum /\ f \in FutureId /\ futuresTaken
    BY <1>1, GetFuture, Numbers
  <2>3. buf' \in [Thread -> Buffer \cup {Null}]
    <3>1. UsesCache(f) => bucket[t] \in 0 .. Keep - 1
      <4> SUFFICES ASSUME UsesCache(f) PROVE bucket[t] \in 0 .. Keep - 1
        OBVIOUS
      <4>1. BucketNum <= f /\ f < BucketNum + Keep
        BY <2>2, FutureNumbers
      <4> QED
        BY <2>0, <2>2, <4>1, Numbers DEF FutureOf
    <3>2. UsesCache(f) => cached_front_buffers_[bucket[t]] \in Buffer \cup {Null}
      BY <3>1 DEF TypeOK
    <3>3. promise[f] \in Buffer \cup {Null}
      BY <2>2 DEF TypeOK
    <3> QED
      BY <1>1, <3>2, <3>3 DEF GetBuffer, TypeOK
  <2>4. pc' \in [Thread -> Places]
    BY <2>1, PcType DEF Places
  <2>5. TypeOK'
    BY <2>1, <2>3, <2>4 DEF TypeOK, Places, init, data, coordinator
  <2>6. \A u \in Thread : LocalInv(u)'
    BY <2>1, <2>2, Waits DEF TypeOK, LocalInv
  <2>7. InitInv'
    BY <2>1, <2>2, Numbers DEF TypeOK, InitInv, init, data, coordinator, UsesCache
  <2>8. \A u \in Thread : Counted(u)' = Counted(u)
    BY <2>1 DEF TypeOK, Counted, FutureOf
  <2> QED
    BY <2>1, <2>5, <2>6, <2>7, <2>8, CountKept DEF data
<1>2. CASE GetInvalidFuture(t)
  <2>1. /\ pc[t] = "get" /\ phase' = "crashed"
        /\ UNCHANGED << init, waiting, futuresTaken, data, coordinator, pc, locals >>
    BY <1>2 DEF GetInvalidFuture
  <2>2. TypeOK'
    BY <2>1 DEF TypeOK, init, data, coordinator, locals
  <2>3. \A u \in Thread : LocalInv(u)'
    BY <2>1 DEF LocalInv, locals
  <2>4. InitInv'
    BY <2>1 DEF InitInv, init, data, coordinator, locals, UsesCache
  <2>5. \A u \in Thread : Counted(u)' = Counted(u)
    BY <2>1 DEF Counted, FutureOf, locals
  <2> QED
    BY <2>1, <2>2, <2>3, <2>4, <2>5, CountKept DEF data
<1> QED
  BY <1>1, <1>2

\* A visitor's future, and where the thread is when it goes on.
LEMMA VisitorFuture ==
  ASSUME Base, NEW t \in Thread, pc[t] \in {"visit", "release"}
  PROVE  /\ FutureOf(t) \in FutureId
         /\ bucket[t] \in 0 .. BucketNum - 1
         /\ beg[t] = IF FutureOf(t) < BucketNum THEN 0 ELSE BucketNum
         /\ FutureOf(t) % BucketNum = bucket[t]
         /\ futuresTaken
<1>1. beg[t] \in {0, BucketNum} /\ bucket[t] \in 0 .. BucketNum - 1 /\ futuresTaken
  BY DEF Base, TypeOK, LocalInv, InitInv
<1>2. FutureOf(t) \in FutureId
  BY <1>1, Numbers DEF FutureOf, FutureId
<1> QED
  BY <1>1, <1>2, FutureNumbers, Numbers DEF FutureOf

LEMMA NextBucketBase ==
  ASSUME Base, NEW t \in Thread, pc[t] \in {"visit", "release"}, NextBucket(t)
  PROVE  /\ pc' \in [Thread -> Places] /\ pc'[t] \in {"waitBucket", "waitEnd"}
         /\ bucket' \in [Thread -> 0 .. BucketNum - 1]
         /\ beg' \in [Thread -> 0 .. Calls * BucketNum]
         /\ LocalInv(t)' <=> (t \in waiting' => pc'[t] \in DOMAIN AfterWait)
         /\ Counted(t)' = FutureOf(t) + 1
         /\ buf' = buf
         /\ \A u \in Thread \ {t} : pc'[u] = pc[u] /\ bucket'[u] = bucket[u] /\ beg'[u] = beg[u]
<1> USE DEF Base
<1>0. beg[t] \in {0, BucketNum} /\ bucket[t] \in 0 .. BucketNum - 1 /\ beg[t] < Calls * BucketNum
  BY DEF TypeOK, LocalInv
<1>1. CASE bucket[t] = BucketNum - 1
  <2>1. /\ pc' = [pc EXCEPT ![t] = "waitEnd"] /\ beg' = [beg EXCEPT ![t] = @ + BucketNum]
        /\ UNCHANGED << bucket, buf >>
    BY <1>1 DEF NextBucket, Goto
  <2>2. beg[t] + BucketNum \in 0 .. Calls * BucketNum
    BY <1>0, CallBound, Numbers
  <2>3. pc' \in [Thread -> Places]
    BY <2>1, PcType, Waits DEF Places
  <2>4. /\ beg' \in [Thread -> 0 .. Calls * BucketNum] /\ bucket' = bucket /\ buf' = buf
        /\ beg'[t] = beg[t] + BucketNum /\ pc'[t] = "waitEnd" /\ beg'[t] \in {BucketNum, 2 * BucketNum}
        /\ \A u \in Thread \ {t} : pc'[u] = pc[u] /\ bucket'[u] = bucket[u] /\ beg'[u] = beg[u]
    <3>1. beg \in [Thread -> 0 .. Calls * BucketNum] /\ pc \in [Thread -> Places]
      BY DEF TypeOK, Places
    <3>2. beg'[t] = beg[t] + BucketNum /\ pc'[t] = "waitEnd"
      BY <2>1, <3>1
    <3>3. beg[t] + BucketNum \in {BucketNum, 2 * BucketNum}
      BY <1>0, Numbers
    <3>4. beg' \in [Thread -> 0 .. Calls * BucketNum]
      BY <2>1, <2>2, <3>1
    <3> QED
      BY <2>1, <3>1, <3>2, <3>3, <3>4
  <2>5. Counted(t)' = FutureOf(t) + 1
    BY <1>0, <1>1, <2>4, Numbers DEF Counted, FutureOf
  <2>6. LocalInv(t)' <=> (t \in waiting' => pc'[t] \in DOMAIN AfterWait)
    BY <1>0, <1>1, <2>4, Numbers DEF LocalInv
  <2> QED
    BY <2>3, <2>4, <2>5, <2>6 DEF TypeOK
<1>2. CASE bucket[t] # BucketNum - 1
  <2>1. /\ pc' = [pc EXCEPT ![t] = "waitBucket"] /\ bucket' = [bucket EXCEPT ![t] = @ + 1]
        /\ UNCHANGED << beg, buf >>
    BY <1>2 DEF NextBucket, Goto
  <2>2. pc' \in [Thread -> Places]
    BY <2>1, PcType, Waits DEF Places
  <2>4. /\ bucket' \in [Thread -> 0 .. BucketNum - 1] /\ beg' = beg /\ buf' = buf
        /\ bucket'[t] = bucket[t] + 1 /\ pc'[t] = "waitBucket"
        /\ \A u \in Thread \ {t} : pc'[u] = pc[u] /\ bucket'[u] = bucket[u] /\ beg'[u] = beg[u]
    <3>1. bucket \in [Thread -> 0 .. BucketNum - 1] /\ pc \in [Thread -> Places]
      BY DEF TypeOK, Places
    <3>2. bucket[t] + 1 \in 0 .. BucketNum - 1
      BY <1>0, <1>2, Numbers
    <3> QED
      BY <2>1, <3>1, <3>2
  <2>5. Counted(t)' = FutureOf(t) + 1
    BY <1>0, <2>4, Numbers DEF Counted, FutureOf
  <2>6. LocalInv(t)' <=> (t \in waiting' => pc'[t] \in DOMAIN AfterWait)
    BY <1>0, <2>4, Numbers DEF LocalInv
  <2> QED
    BY <2>2, <2>4, <2>5, <2>6 DEF TypeOK
<1> QED
  BY <1>1, <1>2

\* The threads past a future can be counted.
LEMMA PastFinite ==
  ASSUME NEW S \in SUBSET Thread
  PROVE  /\ IsFiniteSet(S) /\ Cardinality(S) \in 0 .. NumThreads
         /\ Cardinality(S) = NumThreads <=> S = Thread
<1>1. IsFiniteSet(Thread) /\ Cardinality(Thread) = NumThreads
  BY Numbers, FS_Interval DEF Thread
<1>2. IsFiniteSet(S) /\ Cardinality(S) <= NumThreads
      /\ (Cardinality(S) = NumThreads => S = Thread)
  BY <1>1, FS_Subset
<1>3. Cardinality(S) \in Nat
  BY <1>2, FS_CardinalityType
<1> QED
  BY <1>1, <1>2, <1>3, Numbers

LEMMA EndVisitBase ==
  ASSUME Base, NEW t \in Thread, EndVisit(t)
  PROVE  Base'
<1> USE DEF Base
<1>0. /\ pc[t] = "visit"
      /\ bucket_consumed_num_' = [bucket_consumed_num_ EXCEPT ![FutureOf(t)] = @ + 1]
      /\ UNCHANGED << init, waiting, futuresTaken, promise, free_buffers_,
                      cached_front_buffers_, content, coordinator, phase >>
  BY DEF EndVisit
<1>f. PICK f \in FutureId : f = FutureOf(t)
  BY <1>0, VisitorFuture
<1>1. f = FutureOf(t) /\ f \in FutureId /\ bucket[t] \in 0 .. BucketNum - 1 /\ futuresTaken /\ f \in Int
  BY <1>0, <1>f, VisitorFuture, Numbers DEF FutureId
<1>2. /\ pc' \in [Thread -> Places]
      /\ pc'[t] \in {"release", "waitBucket", "waitEnd"}
      /\ bucket' \in [Thread -> 0 .. BucketNum - 1]
      /\ beg' \in [Thread -> 0 .. Calls * BucketNum]
      /\ LocalInv(t)'
      /\ Counted(t)' = f + 1
      /\ buf' = buf
      /\ \A u \in Thread \ {t} : pc'[u] = pc[u] /\ bucket'[u] = bucket[u] /\ beg'[u] = beg[u]
  <2>1. CASE pc' = [pc EXCEPT ![t] = "release"] /\ UNCHANGED locals
    <3>1. pc' \in [Thread -> Places]
      BY <2>1, PcType DEF Places
    <3> QED
      BY <1>0, <1>1, <2>1, <3>1, Waits DEF TypeOK, LocalInv, Counted, FutureOf, locals
  <2>2. CASE NextBucket(t)
    BY <1>0, <1>1, <2>2, NextBucketBase, Waits
  <2> QED
    BY <2>1, <2>2 DEF EndVisit, Goto
<1>3. Counted(t) = f /\ \A u \in Thread \ {t} : Counted(u)' = Counted(u)
  BY <1>0, <1>1, <1>2 DEF Counted, FutureOf
<1>4. Past(f)' = Past(f) \cup {t} /\ t \notin Past(f)
  BY <1>1, <1>2, <1>3 DEF Past
<1>5. \A g \in FutureId \ {f} : Past(g)' = Past(g)
  <2> TAKE g \in FutureId \ {f}
  <2>1. g \in Int /\ (f > g <=> f + 1 > g)
    BY <1>1, Numbers DEF FutureId
  <2> QED
    BY <1>2, <1>3, <2>1 DEF Past
<1>6. Past(f) \in SUBSET Thread /\ Past(f)' \in SUBSET Thread
  BY <1>4 DEF Past
<1>7. /\ Cardinality(Past(f)') = Cardinality(Past(f)) + 1
      /\ Cardinality(Past(f)') \in 0 .. NumThreads
  <2>1. IsFiniteSet(Past(f)) /\ Cardinality(Past(f)') \in 0 .. NumThreads
    BY <1>6, PastFinite
  <2> QED
    BY <1>4, <2>1, FS_AddElement
<1>8. CountInv'
  <2>1. /\ bucket_consumed_num_'[f] = bucket_consumed_num_[f] + 1
        /\ \A g \in FutureId \ {f} : bucket_consumed_num_'[g] = bucket_consumed_num_[g]
    BY <1>0, <1>1 DEF TypeOK
  <2> QED
    BY <1>1, <1>5, <1>7, <2>1 DEF CountInv
<1>9. TypeOK'
  <2>1. bucket_consumed_num_' \in [FutureId -> 0 .. NumThreads]
    BY <1>0, <1>1, <1>7 DEF TypeOK, CountInv
  <2> QED
    BY <1>0, <1>2, <2>1 DEF TypeOK, Places, init, coordinator
<1>10. \A u \in Thread : LocalInv(u)'
  BY <1>0, <1>2 DEF LocalInv
<1>11. InitInv'
  <2>1. is_range_init_ /\ started # 0 /\ phase \notin {"joining", "closed"}
    BY <1>0, <1>1 DEF InitInv
  <2>2. started' # 0 /\ is_range_init_' /\ futuresTaken' /\ phase' \notin {"joining", "closed"}
    BY <1>0, <1>1, <2>1 DEF init
  <2> QED
    BY <1>0, <2>2 DEF InitInv, init, coordinator, UsesCache
<1> QED
  BY <1>4, <1>8, <1>9, <1>10, <1>11

LEMMA ReleaseBase ==
  ASSUME Base, NEW t \in Thread, Release(t)
  PROVE  Base'
<1> USE DEF Base
<1>0. /\ pc[t] = "release" /\ NextBucket(t)
      /\ UNCHANGED << init, waiting, futuresTaken, promise, bucket_consumed_num_, content,
                      coordinator, phase >>
  BY DEF Release
<1>f. PICK f \in FutureId : f = FutureOf(t)
  BY <1>0, VisitorFuture
<1>1. f % (2 * BucketNum) = f /\ buf[t] \in Buffer \cup {Null} /\ f >= 0 /\ futuresTaken
  BY <1>0, <1>f, FutureNumbers, VisitorFuture DEF TypeOK, FutureId
<1>2. /\ pc' \in [Thread -> Places]
      /\ pc'[t] \in {"waitBucket", "waitEnd"}
      /\ bucket' \in [Thread -> 0 .. BucketNum - 1]
      /\ beg' \in [Thread -> 0 .. Calls * BucketNum]
      /\ LocalInv(t)'
      /\ Counted(t)' = FutureOf(t) + 1
      /\ buf' = buf
      /\ \A u \in Thread \ {t} : pc'[u] = pc[u] /\ bucket'[u] = bucket[u] /\ beg'[u] = beg[u]
  BY <1>0, NextBucketBase, Waits
<1>3. free_buffers_' \in Seq(Buffer \cup {Null})
  <2>1. free_buffers_' \in {free_buffers_, Append(free_buffers_, buf[t])}
    BY DEF Release
  <2> DEFINE S == Buffer \cup {Null}
  <2>2. free_buffers_ \in Seq(S) /\ buf[t] \in S
    BY <1>1 DEF TypeOK
  <2> QED
    <3> HIDE DEF S
    <3> SUFFICES free_buffers_' \in Seq(S)
      BY DEF S
    <3> QED
      BY <2>1, <2>2
<1>4. cached_front_buffers_' \in [0 .. Keep - 1 -> Buffer \cup {Null}]
  <2>1. f < Keep => f \in 0 .. Keep - 1
    BY Numbers DEF FutureId
  <2> QED
    BY <1>f, <1>1, <2>1 DEF Release, TypeOK
<1>5. TypeOK'
  BY <1>0, <1>2, <1>3, <1>4 DEF TypeOK, Places, init, coordinator
<1>6. \A u \in Thread : LocalInv(u)'
  BY <1>0, <1>2 DEF LocalInv
<1>7. InitInv'
  <2>1. is_range_init_ /\ started # 0 /\ phase \notin {"joining", "closed"}
    BY <1>0, <1>1 DEF InitInv
  <2>2. started' # 0 /\ is_range_init_' /\ futuresTaken' /\ phase' \notin {"joining", "closed"}
    BY <1>0, <1>1, <2>1 DEF init
  <2> QED
    BY <1>0, <2>2 DEF InitInv, init, coordinator, UsesCache
<1>8. \A u \in Thread : Counted(u)' = Counted(u)
  BY <1>0, <1>2 DEF Counted, FutureOf
<1> QED
  BY <1>0, <1>5, <1>6, <1>7, <1>8, CountKept

\* Steps that leave the visitors where they are.
LEMMA ElsewhereBase ==
  ASSUME Base, CoordinatorStep \/ BeginDestroy \/ JoinCoordinator \/ UNCHANGED vars
  PROVE  Base'
<1> USE DEF Base
<1>0. UNCHANGED << init, waiting, futuresTaken, bucket_consumed_num_, pc, locals >>
  BY DEF CoordinatorStep, PopBuffer, EndRead, TakeCached, SetPromise, BeginDestroy,
         JoinCoordinator, vars, data, coordinator
<1>1. \A u \in Thread : LocalInv(u)'
  BY <1>0 DEF LocalInv, locals
<1>2. CountInv'
  <2>1. \A u \in Thread : Counted(u)' = Counted(u)
    BY <1>0 DEF Counted, FutureOf, locals
  <2> QED
    BY <1>0, <2>1, CountKept
<1>3. CASE PopBuffer
  <2>1. /\ free_buffers_ # << >> /\ cstate = "pop" /\ ~ UsesCache(cnext)
        /\ cbuf' = Head(free_buffers_) /\ free_buffers_' = Tail(free_buffers_)
        /\ content' = IF cbuf' = Null THEN content ELSE [content EXCEPT ![cbuf'] = Filling]
        /\ cstate' = "read"
        /\ UNCHANGED << promise, cached_front_buffers_, cnext, phase >>
    BY <1>3 DEF PopBuffer
  <2>2. cbuf' \in Buffer \cup {Null} /\ free_buffers_' \in Seq(Buffer \cup {Null})
    BY <2>1 DEF TypeOK
  <2>3. TypeOK'
    BY <1>0, <2>1, <2>2 DEF TypeOK, init, locals
  <2>4. InitInv'
    BY <1>0, <2>1 DEF InitInv, init, locals, UsesCache
  <2> QED
    BY <1>1, <1>2, <2>3, <2>4
<1>4. CASE EndRead
  <2>1. cstate = "read" /\ cnext % BucketNum \in 0 .. BucketNum - 1
    <3>1. cnext \in FutureId /\ cstate = "read"
      BY <1>4, Numbers DEF EndRead, TypeOK, InitInv, FutureId
    <3> QED
      BY <3>1, FutureNumbers
  <2>2. TypeOK'
    BY <1>0, <1>4, <2>1 DEF EndRead, TypeOK, init, locals
  <2>3. InitInv'
    BY <1>0, <1>4, <2>1 DEF EndRead, InitInv, init, locals, UsesCache
  <2> QED
    BY <1>1, <1>2, <2>2, <2>3
<1>5. CASE TakeCached
  <2>1. /\ cstate = "pop" /\ cbuf' = cached_front_buffers_[cnext - BucketNum] /\ cstate' = "set"
        /\ UNCHANGED << data, cnext, phase >>
    BY <1>5 DEF TakeCached
  <2>2. cnext - BucketNum \in 0 .. Keep - 1
    <3>1. cnext \in FutureId /\ UsesCache(cnext)
      BY <1>5, Numbers DEF TakeCached, TypeOK, InitInv, FutureId
    <3> QED
      BY <3>1, FutureNumbers, Numbers DEF FutureId
  <2>3. TypeOK'
    BY <1>0, <2>1, <2>2 DEF TypeOK, init, data, locals
  <2>4. InitInv'
    BY <1>0, <2>1 DEF InitInv, init, data, locals, UsesCache
  <2> QED
    BY <1>1, <1>2, <2>3, <2>4
<1>6. CASE SetPromise
  <2>1. /\ cstate = "set" /\ promise' = [promise EXCEPT ![cnext] = cbuf]
        /\ cstate' = IF cnext = 2 * BucketNum - 1 THEN "done" ELSE "pop"
        /\ cnext' = cnext + 1
        /\ UNCHANGED << free_buffers_, cached_front_buffers_, content, cbuf, phase >>
    BY <1>6 DEF SetPromise
  <2>2. cnext \in FutureId /\ cnext + 1 \in 0 .. 2 * BucketNum
        /\ (cstate' # "done" => cnext + 1 < 2 * BucketNum)
    BY <2>1, Numbers DEF TypeOK, InitInv, FutureId
  <2>3. TypeOK'
    BY <1>0, <2>1, <2>2 DEF TypeOK, init, locals
  <2>4. InitInv'
    <3>1. futuresTaken
      BY <2>1 DEF InitInv
    <3> QED
      BY <1>0, <2>1, <2>2, <3>1 DEF InitInv, init, locals
  <2> QED
    BY <1>1, <1>2, <2>3, <2>4
<1>7. CASE BeginDestroy
  <2> DEFINE nulls == [i \in 1 .. 2 * BucketNum |-> Null]
  <2>1. /\ phase' = "joining" /\ free_buffers_' = free_buffers_ \o nulls
        /\ \A t \in Thread : pc[t] = "idle" /\ beg[t] > 0
        /\ UNCHANGED << promise, cached_front_buffers_, content, coordinator >>
    BY <1>7 DEF BeginDestroy
  <2>2. free_buffers_' \in Seq(Buffer \cup {Null})
    <3>1. nulls \in Seq(Buffer \cup {Null})
      BY Numbers
    <3> HIDE DEF nulls
    <3> QED
      BY <2>1, <3>1 DEF TypeOK
  <2>3. TypeOK'
    BY <1>0, <2>1, <2>2 DEF TypeOK, init, locals, coordinator
  <2>4. InitInv'
    <3>1. futuresTaken
      BY <2>1, Numbers DEF InitInv
    <3> QED
      BY <1>0, <2>1, <3>1 DEF InitInv, init, locals, coordinator, UsesCache
  <2> QED
    BY <1>1, <1>2, <2>3, <2>4
<1>8. CASE JoinCoordinator
  <2>1. phase = "joining" /\ phase' = "closed" /\ UNCHANGED << data, coordinator >>
    BY <1>8 DEF JoinCoordinator
  <2>2. TypeOK'
    BY <1>0, <2>1 DEF TypeOK, init, data, coordinator, locals
  <2>3. InitInv'
    BY <1>0, <2>1 DEF InitInv, init, data, coordinator, locals, UsesCache
  <2> QED
    BY <1>1, <1>2, <2>2, <2>3
<1>9. CASE UNCHANGED vars
  <2>1. UNCHANGED << phase, data, coordinator >>
    BY <1>9 DEF vars
  <2>2. TypeOK'
    BY <1>0, <2>1 DEF TypeOK, init, data, coordinator, locals
  <2>3. InitInv'
    BY <1>0, <2>1 DEF InitInv, init, data, coordinator, locals, UsesCache
  <2> QED
    BY <1>1, <1>2, <2>2, <2>3
<1> QED
  BY <1>3, <1>4, <1>5, <1>6, <1>7, <1>8, <1>9 DEF CoordinatorStep

LEMMA BaseStep ==
  ASSUME Base, [Next]_vars
  PROVE  Base'
<1>1. CASE \E t \in Thread : Call(t)
  BY <1>1, CallBase
<1>2. CASE InitForAll \/ \E t \in Thread : AwaitInit(t) \/ Populate(t) \/ SkipSetup(t)
  BY <1>2, BeforeBucketsBase
<1>3. CASE \E t \in Thread : BarrierWait(t)
  BY <1>3, BarrierWaitBase
<1>4. CASE Setup
  BY <1>4, SetupBase
<1>5. CASE \E t \in Thread : GetBuffer(t) \/ GetInvalidFuture(t)
  BY <1>5, GetBase
<1>6. CASE \E t \in Thread : EndVisit(t)
  BY <1>6, EndVisitBase
<1>7. CASE \E t \in Thread : Release(t)
  BY <1>7, ReleaseBase
<1>8. CASE CoordinatorStep \/ BeginDestroy \/ JoinCoordinator \/ UNCHANGED vars
  BY <1>8, ElsewhereBase
<1> QED
  BY <1>1, <1>2, <1>3, <1>4, <1>5, <1>6, <1>7, <1>8 DEF Next, VisitorStep, Closed

\* The state is well-formed, whenever the threads come.
THEOREM PipelineTypeCorrect ==
  Spec => []TypeOK
<1>1. Init => Base
  BY BaseInit
<1>2. Base /\ [Next]_vars => Base'
  BY BaseStep
<1>3. Base => TypeOK
  BY DEF Base
<1> QED
  BY <1>1, <1>2, <1>3, PTL DEF Spec

-----------------------------------------------------------------------------
(* What holds when the barrier was built for all threads.                   *)

Control == InStep /\ SetupInv /\ LastInv /\ PromiseInv /\ VisitorInv
Ownership == CacheInv /\ ApartInv /\ PlaceInv /\ ContentInv

LEMMA Parts ==
  IInv <=> Base /\ (RightCount => Control /\ Ownership)
BY DEF IInv, Base, Control, Ownership

\* A wrong count is never corrected.
LEMMA RightKept ==
  ASSUME Base, [Next]_vars, RightCount'
  PROVE  RightCount
<1>1. CASE InitForAll
  BY <1>1 DEF InitForAll, Base, InitInv, RightCount
<1>2. CASE ~ InitForAll
  <2>1. UNCHANGED total_range_num_threads_
    BY <1>2 DEF Next, VisitorStep, CoordinatorStep, Closed, vars, init, Setup, PopBuffer, EndRead,
       TakeCached, SetPromise, BeginDestroy, JoinCoordinator, Call, AwaitInit, Populate,
       BarrierWait, SkipSetup, GetBuffer, GetInvalidFuture, EndVisit, Release
  <2> QED
    BY <2>1 DEF RightCount
<1> QED
  BY <1>1, <1>2

LEMMA Built ==
  ASSUME Base, RightCount, is_range_init_
  PROVE  total_range_num_threads_ = NumThreads
BY Numbers DEF Base, InitInv, RightCount

\* Which futures are pending depends on the counts and on who is to give back.
LEMMA PendingKept ==
  ASSUME UNCHANGED bucket_consumed_num_,
         \A u \in Thread : pc'[u] = "release" <=> pc[u] = "release",
         \A u \in Thread : pc[u] = "release" => FutureOf(u)' = FutureOf(u)
  PROVE  \A f \in FutureId : Pending(f)' <=> Pending(f)
BY DEF Pending

\* The buffers stay where they are when nobody moves one and the same futures are
\* pending.
LEMMA OwnershipKept ==
  ASSUME Ownership,
         UNCHANGED << promise, free_buffers_, cached_front_buffers_, content, coordinator,
                      futuresTaken >>,
         \A f \in FutureId : Pending(f)' <=> Pending(f)
  PROVE  Ownership'
<1>0. \A i \in 0 .. Keep - 1 : i \in FutureId /\ BucketNum + i \in FutureId
  BY Numbers DEF FutureId
<1>1. LentNow' = LentNow /\ KeptNow' = KeptNow
  BY <1>0 DEF LentNow, KeptNow, UsesCache
<1>2. ReadNow' = ReadNow /\ FreeNow' = FreeNow
  BY DEF ReadNow, FreeNow, coordinator, UsesCache
<1>3. CacheInv'
  BY <1>0 DEF Ownership, CacheInv
<1>4. ApartInv'
  BY <1>1, <1>2 DEF Ownership, ApartInv
<1>5. PlaceInv'
  BY <1>1, <1>2 DEF Ownership, PlaceInv
<1>6. ContentInv'
  BY <1>1, <1>2 DEF Ownership, ContentInv, coordinator
<1> QED
  BY <1>3, <1>4, <1>5, <1>6 DEF Ownership

\* Steps at which no visitor takes, counts or gives back anything.
LEMMA AsideStep ==
  ASSUME LastInv, PromiseInv, VisitorInv,
         UNCHANGED << promise, cached_front_buffers_, bucket_consumed_num_, cnext, futuresTaken >>,
         \A u \in Thread : Counted(u)' = Counted(u),
         \A u \in Thread : \/ pc'[u] = pc[u] /\ buf'[u] = buf[u] /\ FutureOf(u)' = FutureOf(u)
                           \/ pc[u] \notin {"visit", "release"} /\ pc'[u] \notin {"visit", "release"}
  PROVE  /\ LastInv' /\ PromiseInv' /\ VisitorInv'
         /\ \A f \in FutureId : Pending(f)' <=> Pending(f)
<1>1. LastInv'
  BY DEF LastInv
<1>2. PromiseInv'
  BY DEF PromiseInv, UsesCache
<1>3. VisitorInv'
  BY DEF VisitorInv, Source, UsesCache
<1> QED
  BY <1>1, <1>2, <1>3, PendingKept

\* All threads stay in step when none of them returns from a wait.
LEMMA InStepKept ==
  ASSUME InStep,
         \A u \in Thread : Traversal(u)' = Traversal(u) /\ Stage(u)' = Stage(u)
  PROVE  InStep'
BY DEF InStep

\* Only the last wait of the last thread makes the threads go on, all together.
LEMMA ReleaseAll ==
  ASSUME Base, RightCount, InStep, NEW t \in Thread, BarrierWait(t)
  PROVE  InStep'
<1> DEFINE here == waiting \cup {t}
<1>0. /\ pc[t] \in DOMAIN AfterWait /\ t \notin waiting /\ UNCHANGED << bucket, beg >>
      /\ is_range_init_
  BY Waits DEF BarrierWait, locals, Base, InitInv
<1>1. CASE UNCHANGED pc
  BY <1>0, <1>1, InStepKept DEF Traversal, Stage
<1>2. CASE /\ Cardinality(here) = total_range_num_threads_
           /\ pc' = [u \in Thread |-> IF u \in here THEN AfterWait[pc[u]] ELSE pc[u]]
  <2>1. here \in SUBSET Thread
    BY DEF Base, TypeOK
  <2>2. here = Thread
    BY <1>0, <1>2, <2>1, Built, PastFinite
  <2>3. \A u \in Thread :
          \/ pc[u] = "waitInit" /\ pc'[u] = "setup"
          \/ pc[u] = "waitSetup" /\ pc'[u] = "waitBucket"
          \/ pc[u] = "waitBucket" /\ pc'[u] = "get"
          \/ pc[u] = "waitEnd" /\ pc'[u] = "idle"
    <3>1. \A u \in Thread : pc[u] \in DOMAIN AfterWait
      BY <1>0, <2>2 DEF Base, LocalInv
    <3> QED
      BY <1>2, <2>2, <3>1, Waits
  <2>4. \A u \in Thread : bucket[u] \in 0 .. BucketNum - 1 /\ beg[u] \in {0, BucketNum, 2 * BucketNum}
    BY DEF Base, TypeOK, LocalInv
  <2>5. ASSUME NEW u \in Thread, NEW v \in Thread
        PROVE  Traversal(u)' = Traversal(v)' /\ Stage(u)' = Stage(v)'
    <3>1. Traversal(u) = Traversal(v) /\ Stage(u) = Stage(v) /\ LocalInv(u) /\ LocalInv(v)
      BY DEF InStep, Base
    <3> QED
      BY <1>0, <2>3, <2>4, <3>1, Numbers DEF Traversal, Stage, LocalInv
  <2> QED
    BY <2>5 DEF InStep
<1> QED
  BY <1>1, <1>2 DEF BarrierWait

\* The steps of a visitor that end in the same place between the same waits.
LEMMA WaitControl ==
  ASSUME Base, RightCount, Control, Ownership, NEW t \in Thread,
         Call(t) \/ AwaitInit(t) \/ BarrierWait(t) \/ SkipSetup(t) \/ GetInvalidFuture(t)
  PROVE  Control' /\ Ownership'
<1> USE DEF Control
<1>1. UNCHANGED << promise, free_buffers_, cached_front_buffers_, content, coordinator,
                   futuresTaken, bucket_consumed_num_, cnext, beg, buf >>
  BY DEF Call, AwaitInit, BarrierWait, SkipSetup, GetInvalidFuture, data, coordinator, locals
<1>2. \A u \in Thread :
        /\ \/ pc'[u] = pc[u] /\ buf'[u] = buf[u] /\ FutureOf(u)' = FutureOf(u)
           \/ pc[u] \notin {"visit", "release"} /\ pc'[u] \notin {"visit", "release"}
        /\ Counted(u)' = Counted(u)
        /\ ~ BarrierWait(t) => Traversal(u)' = Traversal(u) /\ Stage(u)' = Stage(u)
  <2>1. CASE Call(t)
    <3>1. /\ pc[t] = "idle" /\ LocalInv(t) /\ bucket' = [bucket EXCEPT ![t] = 0]
          /\ beg[t] \in {0, BucketNum, 2 * BucketNum} /\ beg[t] \in Int
          /\ pc' = [pc EXCEPT ![t] = IF beg[t] % (2 * BucketNum) = 0 THEN "init" ELSE "waitBucket"]
          /\ beg[t] % (2 * BucketNum) = 0 <=> beg[t] # BucketNum
      BY <2>1, Numbers DEF Call, Goto, LocalInv, Base
    <3>2. \A u \in Thread :
            /\ pc'[u] = IF u # t THEN pc[u] ELSE IF beg[t] = BucketNum THEN "waitBucket" ELSE "init"
            /\ bucket'[u] = IF u = t THEN 0 ELSE bucket[u]
            /\ beg'[u] = beg[u] /\ buf'[u] = buf[u]
      BY <1>1, <3>1 DEF Base, TypeOK
    <3>3. ASSUME NEW u \in Thread, u # t
          PROVE  /\ pc'[u] = pc[u] /\ buf'[u] = buf[u] /\ FutureOf(u)' = FutureOf(u)
                 /\ Counted(u)' = Counted(u) /\ Traversal(u)' = Traversal(u)
                 /\ Stage(u)' = Stage(u)
      BY <3>2, <3>3 DEF Counted, FutureOf, Traversal, Stage
    <3>4. pc[t] = "idle" /\ pc'[t] \in {"init", "waitBucket"} /\ bucket'[t] = 0 /\ beg'[t] = beg[t]
          /\ (pc'[t] = "waitBucket" <=> beg[t] = BucketNum)
      BY <3>1, <3>2
    <3>5. /\ Counted(t)' = 0 + beg[t] /\ Counted(t) = beg[t] /\ 0 + beg[t] = beg[t]
          /\ Traversal(t)' = Traversal(t)
      BY <3>1, <3>4 DEF Counted, FutureOf, Traversal
    <3>6. Stage(t)' = Stage(t)
      BY <3>4 DEF Stage
    <3> QED
      BY <3>3, <3>4, <3>5, <3>6
  <2>2. CASE AwaitInit(t)
    BY <2>2 DEF AwaitInit, Goto, Base, TypeOK, Counted, FutureOf, Traversal, Stage, locals
  <2>3. CASE BarrierWait(t)
    <3>1. UNCHANGED << bucket, beg >>
      BY <2>3 DEF BarrierWait, locals
    <3>2. waiting \cup {t} \subseteq Thread /\ pc \in [Thread -> Places]
      BY DEF Base, TypeOK, Places
    <3>3. \A u \in waiting \cup {t} : pc[u] \in DOMAIN AfterWait
      BY <2>3, <3>2 DEF BarrierWait, Base, LocalInv
    <3>4. \A u \in Thread :
            \/ pc'[u] = pc[u]
            \/ pc[u] \in DOMAIN AfterWait /\ pc'[u] = AfterWait[pc[u]]
      BY <2>3, <3>2, <3>3 DEF BarrierWait
    <3> QED
      BY <1>1, <2>3, <3>1, <3>4, Waits DEF Counted, FutureOf
  <2>4. CASE SkipSetup(t)
    BY <2>4 DEF SkipSetup, Goto, Base, TypeOK, Counted, FutureOf, Traversal, Stage, locals
  <2>5. CASE GetInvalidFuture(t)
    BY <2>5 DEF GetInvalidFuture, Counted, FutureOf, Traversal, Stage, locals
  <2> QED
    BY <2>1, <2>2, <2>3, <2>4, <2>5
<1>3. LastInv' /\ PromiseInv' /\ VisitorInv' /\ \A f \in FutureId : Pending(f)' <=> Pending(f)
  BY <1>1, <1>2, AsideStep
<1>4. InStep'
  BY <1>2, ReleaseAll, InStepKept
<1>5. SetupInv'
  <2>1. CASE BarrierWait(t)
    <3>1. \A u \in Thread : \/ pc'[u] = pc[u]
                            \/ pc'[u] \in {"setup", "waitBucket", "get"}
                            \/ pc'[u] = "idle" /\ pc[u] = "waitEnd" /\ beg[u] # 0
      <4>1. waiting \cup {t} \subseteq Thread /\ pc \in [Thread -> Places]
        BY DEF Base, TypeOK, Places
      <4>2. \A u \in waiting \cup {t} : pc[u] \in DOMAIN AfterWait /\ LocalInv(u)
        BY <2>1, <4>1 DEF BarrierWait, Base, LocalInv
      <4> QED
        BY <2>1, <4>1, <4>2, Waits DEF BarrierWait, LocalInv
    <3> QED
      BY <1>1, <3>1 DEF SetupInv
  <2>2. CASE Call(t)
    BY <1>1, <2>2 DEF SetupInv, Call, Goto, Base, TypeOK
  <2>3. CASE AwaitInit(t) \/ SkipSetup(t) \/ GetInvalidFuture(t)
    BY <1>1, <2>3 DEF SetupInv, AwaitInit, SkipSetup, GetInvalidFuture, Goto, Base, TypeOK
  <2> QED
    BY <2>1, <2>2, <2>3
<1> QED
  BY <1>1, <1>3, <1>4, <1>5, OwnershipKept

\* Before the futures are made nobody has counted anything and nothing is lent.
LEMMA Unused ==
  ASSUME Base, ~ futuresTaken
  PROVE  /\ \A f \in FutureId : bucket_consumed_num_[f] = 0 /\ Pending(f) /\ promise[f] = Null
         /\ LentNow = {} /\ KeptNow = {} /\ FreeNow = {} /\ ReadNow = {}
<1>1. \A u \in Thread : Counted(u) = 0
  BY Numbers DEF Base, TypeOK, InitInv, Counted, FutureOf
<1>2. \A f \in FutureId : Past(f) = {}
  BY <1>1 DEF Past, FutureId
<1>3. \A f \in FutureId : bucket_consumed_num_[f] = 0
  BY <1>2, FS_EmptySet DEF Base, CountInv
<1>4. LentNow = {} /\ KeptNow = {} /\ FreeNow = {} /\ ReadNow = {}
  BY DEF Base, InitInv, LentNow, KeptNow, FreeNow, ReadNow
<1> QED
  BY <1>3, <1>4, Numbers DEF Pending, Base, InitInv

LEMMA StartControl ==
  ASSUME Base, RightCount, Control, Ownership,
         InitForAll \/ \E t \in Thread : Populate(t)
  PROVE  Control' /\ Ownership'
<1> USE DEF Control
<1>1. /\ UNCHANGED << promise, free_buffers_, cached_front_buffers_, coordinator,
                      futuresTaken, bucket_consumed_num_, cnext, beg, buf, bucket >>
      /\ \A u \in Thread : pc'[u] = pc[u] \/ (pc[u] \in {"init", "populate"} /\ pc'[u] \in {"populate", "waitInit"})
  BY DEF InitForAll, Populate, Goto, data, coordinator, locals, Base, TypeOK
<1>2. \A u \in Thread : Counted(u)' = Counted(u) /\ FutureOf(u)' = FutureOf(u)
  BY <1>1 DEF Counted, FutureOf
<1>3. \A u \in Thread : Traversal(u)' = Traversal(u) /\ Stage(u)' = Stage(u)
  BY <1>1 DEF Traversal, Stage
<1>4. LastInv' /\ PromiseInv' /\ VisitorInv' /\ \A f \in FutureId : Pending(f)' <=> Pending(f)
  BY <1>1, <1>2, AsideStep
<1>5. InStep'
  BY <1>3, InStepKept
<1>6. ~ futuresTaken \/ UNCHANGED content
  <2>1. CASE InitForAll
    BY <2>1 DEF InitForAll, data
  <2>2. ASSUME NEW t \in Thread, Populate(t), futuresTaken
        PROVE  FALSE
    BY <2>2 DEF Populate, Base, LocalInv, SetupInv
  <2> QED
    BY <2>1, <2>2
<1>7. SetupInv'
  BY <1>1 DEF SetupInv
<1>8. CASE UNCHANGED content
  BY <1>1, <1>4, <1>5, <1>7, <1>8, OwnershipKept
<1>9. CASE ~ futuresTaken
  <2>1. LentNow = {} /\ KeptNow = {} /\ FreeNow = {} /\ ReadNow = {}
    BY <1>9, Unused
  <2>2. LentNow' = {} /\ KeptNow' = {} /\ FreeNow' = {} /\ ReadNow' = {}
    <3>0. \A i \in 0 .. Keep - 1 : i \in FutureId /\ BucketNum + i \in FutureId
      BY Numbers DEF FutureId
    <3>1. \A f \in FutureId : UsesCache(f)' <=> UsesCache(f)
      BY DEF UsesCache
    <3>2. LentNow' = {} /\ KeptNow' = {}
      BY <1>1, <1>4, <2>1, <3>0, <3>1 DEF LentNow, KeptNow
    <3>3. FreeNow' = {} /\ ReadNow' = {}
      BY <1>1, <2>1 DEF FreeNow, ReadNow, coordinator, UsesCache
    <3> QED
      BY <3>2, <3>3
  <2>3. CacheInv'
    <3>0. \A i \in 0 .. Keep - 1 : i \in FutureId
      BY Numbers DEF FutureId
    <3> QED
      BY <1>1, <1>4, <3>0 DEF Ownership, CacheInv
  <2> QED
    BY <1>1, <1>4, <1>5, <1>9, <1>7, <2>2, <2>3 DEF Ownership, ApartInv, PlaceInv, ContentInv
<1> QED
  BY <1>6, <1>8, <1>9

\* The future a visitor is at is pending, and its buffer is where it comes from.
LEMMA AtSource ==
  ASSUME Base, RightCount, Control, Ownership, NEW t \in Thread, pc[t] \in {"visit", "release"},
         NEW f \in FutureId, f = FutureOf(t)
  PROVE  /\ Pending(f) /\ buf[t] = Source(f) /\ buf[t] \in Buffer
         /\ UsesCache(f) => f - BucketNum \in KeptNow
         /\ ~ UsesCache(f) => f \in LentNow
         /\ pc[t] = "visit" => t \notin Past(f) /\ bucket_consumed_num_[f] < NumThreads
<1>1. buf[t] = Source(f) /\ buf[t] \in Buffer
  BY DEF Control, VisitorInv
<1>2. pc[t] = "visit" => t \notin Past(f) /\ bucket_consumed_num_[f] < NumThreads
  <2> SUFFICES ASSUME pc[t] = "visit" PROVE t \notin Past(f) /\ bucket_consumed_num_[f] < NumThreads
    OBVIOUS
  <2>1. t \notin Past(f) /\ Past(f) \in SUBSET Thread
    BY Numbers DEF Past, Counted, FutureId
  <2>2. Cardinality(Past(f)) \in 0 .. NumThreads /\ Cardinality(Past(f)) # NumThreads
    BY <2>1, PastFinite
  <2> QED
    BY <2>1, <2>2, Numbers DEF Base, CountInv
<1>3. Pending(f)
  BY <1>2 DEF Pending
<1>4. ASSUME UsesCache(f)
      PROVE  f - BucketNum \in KeptNow
  <2>1. f - BucketNum \in 0 .. Keep - 1 /\ BucketNum + (f - BucketNum) = f
    BY <1>4, FutureNumbers, Numbers DEF FutureId
  <2> QED
    BY <1>1, <1>3, <1>4, <2>1, Numbers DEF Source, KeptNow
<1>5. ASSUME ~ UsesCache(f)
      PROVE  f \in LentNow
  BY <1>1, <1>3, <1>5, Numbers DEF Source, LentNow
<1> QED
  BY <1>1, <1>2, <1>3, <1>4, <1>5

LEMMA SetupControl ==
  ASSUME Base, RightCount, Control, Ownership, Setup
  PROVE  Control' /\ Ownership'
<1> USE DEF Control
<1>0. pc[0] = "setup" /\ UNCHANGED << init, waiting, locals >>
  BY DEF Setup
<1>1. CASE futuresTaken
  <2>1. UNCHANGED << futuresTaken, data, coordinator, pc, bucket, beg, buf >>
    BY <1>0, <1>1 DEF Setup, locals
  <2>2. \A u \in Thread : /\ Counted(u)' = Counted(u) /\ FutureOf(u)' = FutureOf(u)
                          /\ Traversal(u)' = Traversal(u) /\ Stage(u)' = Stage(u)
    BY <2>1 DEF Counted, FutureOf, Traversal, Stage
  <2>3. LastInv' /\ PromiseInv' /\ VisitorInv' /\ \A f \in FutureId : Pending(f)' <=> Pending(f)
    BY <2>1, <2>2, AsideStep DEF data, coordinator
  <2>4. InStep' /\ SetupInv'
    BY <2>1, <2>2, InStepKept DEF SetupInv
  <2> QED
    BY <2>1, <2>3, <2>4, OwnershipKept DEF data
<1>2. CASE ~ futuresTaken
  <2> DEFINE all == [i \in 1 .. Keep + Recycle |-> i - 1]
  <2>1. /\ futuresTaken' = TRUE /\ cstate' = "pop" /\ cnext' = 0 /\ cbuf' = Null
        /\ free_buffers_' = free_buffers_ \o all
        /\ bucket_consumed_num_' = [f \in FutureId |-> 0]
        /\ pc' = [pc EXCEPT ![0] = "waitSetup"]
        /\ UNCHANGED << promise, cached_front_buffers_, content, phase, bucket, beg, buf >>
    BY <1>0, <1>2 DEF Setup, Goto, locals
  <2>2. \A u \in Thread : Counted(u)' = 0 /\ pc'[u] \notin {"visit", "release"}
    BY <1>2, <2>1, Numbers DEF Base, TypeOK, InitInv, Counted, FutureOf
  <2>3. \A f \in FutureId : Pending(f)' /\ promise'[f] = Null
    BY <1>2, <2>1, Unused, Numbers DEF Pending
  <2>4. \A i \in 0 .. Keep - 1 : cached_front_buffers_'[i] = Null /\ i \in FutureId
    BY <1>2, <2>1, Numbers DEF Base, InitInv, FutureId
  <2>5. InStep'
    <3>1. \A u \in Thread : Traversal(u)' = Traversal(u) /\ Stage(u)' = Stage(u)
      BY <1>0, <2>1 DEF Base, TypeOK, Traversal, Stage
    <3> QED
      BY <3>1, InStepKept
  <2>6. SetupInv'
    <3>1. Stage(0) = -2
      BY <1>0 DEF Stage
    <3>2. \A u \in Thread : Stage(u) = -2
      BY <3>1, Numbers DEF InStep
    <3>3. \A u \in Thread : pc[u] \notin {"idle", "init", "populate", "waitInit"}
      BY <3>2 DEF Stage
    <3> QED
      BY <2>1, <3>3 DEF SetupInv, Base, TypeOK
  <2>7. LastInv' /\ PromiseInv' /\ VisitorInv' /\ CacheInv'
    BY <2>1, <2>2, <2>3, <2>4, Numbers DEF LastInv, PromiseInv, VisitorInv, CacheInv, FutureId
  <2>8. free_buffers_' = all
    <3>1. all \in Seq(Int) /\ free_buffers_ = << >>
      BY <1>2, Numbers DEF Base, InitInv
    <3> HIDE DEF all
    <3> QED
      BY <2>1, <3>1
  <2>9. /\ Len(free_buffers_') = Keep + Recycle
        /\ \A i \in 1 .. Keep + Recycle : free_buffers_'[i] = i - 1 /\ i - 1 \in Buffer
    BY <2>8, Numbers DEF Buffer
  <2>10. FreeNow' = 1 .. Keep + Recycle /\ LentNow' = {} /\ KeptNow' = {} /\ ReadNow' = {}
    BY <2>1, <2>3, <2>4, <2>9 DEF FreeNow, LentNow, KeptNow, ReadNow
  <2>11. ApartInv' /\ ContentInv'
    BY <2>9, <2>10, Numbers DEF ApartInv, ContentInv
  <2>12. PlaceInv'
    <3>1. \A x \in Buffer : x + 1 \in 1 .. Keep + Recycle /\ free_buffers_'[x + 1] = x
      BY <2>9, Numbers DEF Buffer
    <3> QED
      BY <2>10, <3>1 DEF PlaceInv
  <2> QED
    BY <2>5, <2>6, <2>7, <2>11, <2>12 DEF Ownership
<1> QED
  BY <1>1, <1>2

LEMMA GetControl ==
  ASSUME Base, RightCount, Control, Ownership, NEW t \in Thread, GetBuffer(t), Base'
  PROVE  Control' /\ Ownership'
<1> USE DEF Control
<1>0. /\ pc[t] = "get" /\ pc' = [pc EXCEPT ![t] = "visit"] /\ pc'[t] = "visit"
      /\ UNCHANGED << futuresTaken, data, coordinator, bucket, beg >>
      /\ \A u \in Thread \ {t} : pc'[u] = pc[u] /\ buf'[u] = buf[u]
      /\ \A u \in Thread : FutureOf(u)' = FutureOf(u)
  BY DEF GetBuffer, Goto, Base, TypeOK, FutureOf
<1>f. PICK f \in FutureId : f = FutureOf(t) /\ futuresTaken
  BY GetFuture
<1>1. \A u \in Thread : Counted(u)' = Counted(u) /\ Traversal(u)' = Traversal(u) /\ Stage(u)' = Stage(u)
  BY <1>0 DEF Counted, Traversal, Stage, Base, TypeOK
<1>2. buf'[t] = Source(f)
  <2>1. UsesCache(f) => f - BucketNum = bucket[t]
    <3>1. bucket[t] \in 0 .. BucketNum - 1 /\ beg[t] = IF f < BucketNum THEN 0 ELSE BucketNum
      BY <1>f, GetFuture
    <3> QED
      BY <1>f, <3>1, FutureNumbers, Numbers DEF FutureOf, FutureId
  <2> QED
    BY <1>f, <2>1 DEF GetBuffer, Source, Base, TypeOK
<1>3. Source(f) \in Buffer
  <2>1. CASE ~ UsesCache(f)
    BY <1>f, <2>1 DEF GetBuffer, Source, Base, TypeOK
  <2>2. CASE UsesCache(f)
    <3> DEFINE i == f - BucketNum
    <3>1. i \in 0 .. Keep - 1 /\ i \in FutureId /\ f >= BucketNum /\ i < BucketNum
      BY <2>2, FutureNumbers, Numbers DEF FutureId
    <3>2. Traversal(t) = BucketNum
      <4>1. beg[t] = BucketNum
        BY <1>f, <3>1, GetFuture, Numbers DEF FutureId
      <4> QED
        BY <1>0, <4>1 DEF Traversal
    <3>3. \A u \in Thread : Traversal(u) = BucketNum
      BY <3>2 DEF InStep
    <3>4. \A u \in Thread : Counted(u) >= BucketNum /\ (pc[u] = "release" => FutureOf(u) >= BucketNum)
      <4> TAKE u \in Thread
      <4>1. beg[u] \in {0, BucketNum, 2 * BucketNum} /\ bucket[u] \in 0 .. BucketNum - 1
        BY DEF Base, TypeOK, LocalInv
      <4>2. IF pc[u] = "waitEnd" THEN beg[u] = 2 * BucketNum ELSE beg[u] = BucketNum
        BY <3>3, <4>1, Numbers DEF Traversal
      <4> QED
        BY <4>1, <4>2, Numbers DEF Counted, FutureOf
    <3>5. Past(i) = Thread
      <4>1. \A u \in Thread : Counted(u) \in Int
        <5> TAKE u \in Thread
        <5>1. beg[u] \in Int /\ bucket[u] \in Int
          BY Numbers DEF Base, TypeOK
        <5> QED
          BY <5>1 DEF Counted, FutureOf
      <4>2. \A u \in Thread : Counted(u) > i
        BY <3>1, <3>4, <4>1, Numbers
      <4> QED
        BY <4>2 DEF Past
    <3>6. ~ Pending(i)
      BY <3>1, <3>4, <3>5, PastFinite, Numbers DEF Pending, Base, CountInv
    <3>7. cached_front_buffers_[i] # Null
      BY <3>1, <3>6 DEF Ownership, CacheInv
    <3> QED
      BY <2>2, <3>1, <3>7 DEF Source, Base, TypeOK
  <2> QED
    BY <2>1, <2>2
<1>4. \A g \in FutureId : Pending(g)' <=> Pending(g)
  BY <1>0, PendingKept DEF data, Base, TypeOK
<1>5. InStep' /\ SetupInv'
  BY <1>0, <1>1, InStepKept DEF SetupInv
<1>6. LastInv'
  BY <1>0 DEF LastInv, data
<1>7. PromiseInv'
  <2>1. f >= cnext => UsesCache(f)
    BY <1>f DEF GetBuffer, PromiseInv
  <2> QED
    BY <1>0, <1>1, <1>f, <2>1 DEF PromiseInv, data, coordinator, UsesCache
<1>8. VisitorInv'
  BY <1>0, <1>f, <1>2, <1>3 DEF VisitorInv, Source, UsesCache, data
<1> QED
  BY <1>0, <1>4, <1>5, <1>6, <1>7, <1>8, OwnershipKept DEF data

\* Going on to the next bucket passes no barrier.
LEMMA NextBucketStage ==
  ASSUME Base, NEW t \in Thread, pc[t] \in {"visit", "release"}, NextBucket(t)
  PROVE  Traversal(t)' = Traversal(t) /\ Stage(t)' = Stage(t)
<1>1. beg[t] \in {0, BucketNum} /\ bucket[t] \in 0 .. BucketNum - 1
  BY DEF Base, TypeOK, LocalInv
<1>2. Traversal(t) = beg[t] /\ Stage(t) = bucket[t]
  BY DEF Traversal, Stage
<1>3. CASE bucket[t] = BucketNum - 1
  <2>1. pc'[t] = "waitEnd" /\ beg'[t] = beg[t] + BucketNum /\ bucket'[t] = bucket[t]
    BY <1>3 DEF NextBucket, Goto, Base, TypeOK
  <2> QED
    BY <1>1, <1>2, <2>1, Numbers DEF Traversal, Stage
<1>4. CASE bucket[t] # BucketNum - 1
  <2>1. pc'[t] = "waitBucket" /\ beg'[t] = beg[t] /\ bucket'[t] = bucket[t] + 1
    BY <1>4 DEF NextBucket, Goto, Base, TypeOK
  <2> QED
    BY <1>1, <1>2, <2>1, Numbers DEF Traversal, Stage
<1> QED
  BY <1>3, <1>4

\* While the last one gives a buffer back, nobody else is inside a bucket.
LEMMA Alone ==
  ASSUME Base, RightCount, Control, Ownership,
         NEW t \in Thread, pc[t] = "release", NEW u \in Thread, u # t
  PROVE  pc[u] \notin {"visit", "release"}
<1>1. pc[u] # "release"
  BY DEF Control, LastInv
<1>2. ASSUME pc[u] = "visit" PROVE FALSE
  <2>1. FutureOf(u) = FutureOf(t)
    <3>1. Traversal(u) = Traversal(t) /\ Stage(u) = Stage(t)
      BY DEF Control, InStep
    <3> QED
      BY <1>2, <3>1 DEF Traversal, Stage, FutureOf
  <2>2. FutureOf(u) \in FutureId
    BY <1>2, VisitorFuture
  <2>3. bucket_consumed_num_[FutureOf(u)] < NumThreads
    BY <1>2, <2>2, AtSource
  <2>4. bucket_consumed_num_[FutureOf(t)] = NumThreads
    BY DEF Control, LastInv
  <2> QED
    BY <2>1, <2>3, <2>4, Numbers
<1> QED
  BY <1>1, <1>2

LEMMA EndVisitControl ==
  ASSUME Base, RightCount, Control, Ownership, NEW t \in Thread, EndVisit(t)
  PROVE  Control' /\ Ownership'
<1> USE DEF Control
<1>0. /\ pc[t] = "visit"
      /\ UNCHANGED << init, waiting, futuresTaken, promise, free_buffers_,
                      cached_front_buffers_, content, coordinator, phase >>
  BY DEF EndVisit
<1>f. PICK f \in FutureId : f = FutureOf(t) /\ futuresTaken
  BY <1>0, VisitorFuture
<1>1. /\ bucket_consumed_num_'[f] = bucket_consumed_num_[f] + 1
      /\ \A g \in FutureId \ {f} : bucket_consumed_num_'[g] = bucket_consumed_num_[g]
      /\ bucket_consumed_num_[f] \in 0 .. NumThreads - 1
      /\ total_range_num_threads_ = NumThreads
  <2>1. bucket_consumed_num_[f] < NumThreads
    BY <1>0, <1>f, AtSource
  <2>2. bucket_consumed_num_ \in [FutureId -> 0 .. NumThreads]
    BY DEF Base, TypeOK
  <2>3. is_range_init_
    BY <1>f DEF Base, InitInv
  <2> QED
    BY <1>f, <2>1, <2>2, <2>3, Built, Numbers DEF EndVisit
<1>2. /\ \/ pc'[t] = "release" /\ FutureOf(t)' = f /\ bucket_consumed_num_'[f] = NumThreads
         \/ pc'[t] \in {"waitBucket", "waitEnd"} /\ bucket_consumed_num_'[f] < NumThreads
      /\ Counted(t)' = f + 1 /\ buf' = buf
      /\ Traversal(t)' = Traversal(t) /\ Stage(t)' = Stage(t)
      /\ \A u \in Thread \ {t} : pc'[u] = pc[u] /\ bucket'[u] = bucket[u] /\ beg'[u] = beg[u]
  <2>1. CASE bucket_consumed_num_[f] + 1 = total_range_num_threads_
    <3>1. pc' = [pc EXCEPT ![t] = "release"] /\ UNCHANGED locals
      BY <1>f, <2>1 DEF EndVisit, Goto
    <3>2. pc'[t] = "release" /\ \A u \in Thread \ {t} : pc'[u] = pc[u]
      BY <3>1 DEF Base, TypeOK
    <3> QED
      BY <1>0, <1>1, <1>f, <2>1, <3>1, <3>2 DEF Counted, FutureOf, Traversal, Stage, locals
  <2>2. CASE bucket_consumed_num_[f] + 1 # total_range_num_threads_
    <3>1. NextBucket(t)
      BY <1>f, <2>2 DEF EndVisit
    <3> QED
      BY <1>0, <1>1, <1>f, <2>2, <3>1, NextBucketBase, NextBucketStage, Numbers
  <2> QED
    BY <2>1, <2>2
<1>3. \A u \in Thread \ {t} :
        /\ Counted(u)' = Counted(u) /\ FutureOf(u)' = FutureOf(u)
        /\ Traversal(u)' = Traversal(u) /\ Stage(u)' = Stage(u)
  BY <1>2 DEF Counted, FutureOf, Traversal, Stage
<1>4. \A u \in Thread : pc[u] # "release"
  BY <1>0, Alone
<1>5. \A g \in FutureId : Pending(g)' <=> Pending(g)
  BY <1>1, <1>2, <1>4, Numbers DEF Pending
<1>6. InStep'
  BY <1>2, <1>3, InStepKept
<1>7. SetupInv'
  BY <1>0, <1>2 DEF SetupInv
<1>8. LastInv'
  BY <1>1, <1>2, <1>3, <1>4 DEF LastInv
<1>9. PromiseInv'
  <2> SUFFICES ASSUME NEW g \in FutureId, g >= cnext
               PROVE  /\ promise[g] = Null
                      /\ ~ UsesCache(g) =>
                           \A u \in Thread : Counted(u)' <= g /\ ~ (pc'[u] = "visit" /\ FutureOf(u)' = g)
    BY <1>0 DEF PromiseInv, coordinator, UsesCache
  <2>1. promise[g] = Null /\ cnext \in Int
    BY <1>f DEF PromiseInv, Base, TypeOK
  <2>2. ASSUME ~ UsesCache(g), NEW u \in Thread
        PROVE  Counted(u)' <= g /\ ~ (pc'[u] = "visit" /\ FutureOf(u)' = g)
    <3>1. CASE u = t
      <4>1. Counted(t) <= g /\ ~ (pc[t] = "visit" /\ FutureOf(t) = g)
        BY <1>f, <2>2 DEF PromiseInv
      <4>2. f <= g /\ f # g
        BY <1>0, <1>f, <4>1 DEF Counted
      <4> QED
        BY <1>2, <3>1, <4>2, Numbers DEF FutureId
    <3>2. CASE u # t
      BY <1>2, <1>3, <1>f, <2>2, <3>2 DEF PromiseInv
    <3> QED
      BY <3>1, <3>2
  <2> QED
    BY <2>1, <2>2
<1>10. VisitorInv'
  <2>1. buf[t] \in Buffer /\ buf[t] = Source(f)
    BY <1>0, <1>f DEF VisitorInv
  <2> QED
    BY <1>0, <1>2, <1>3, <2>1 DEF VisitorInv, Source, UsesCache
<1> QED
  BY <1>0, <1>5, <1>6, <1>7, <1>8, <1>9, <1>10, OwnershipKept

LEMMA ReleaseControl ==
  ASSUME Base, RightCount, Control, Ownership, NEW t \in Thread, Release(t)
  PROVE  Control' /\ Ownership'
<1> USE DEF Control
<1>0. /\ pc[t] = "release" /\ NextBucket(t)
      /\ UNCHANGED << init, waiting, futuresTaken, promise, bucket_consumed_num_, content,
                      coordinator, phase >>
  BY DEF Release
<1>f. PICK f \in FutureId : f = FutureOf(t) /\ futuresTaken
  BY <1>0, VisitorFuture
<1>1. /\ pc'[t] \in {"waitBucket", "waitEnd"} /\ buf' = buf /\ Counted(t)' = Counted(t)
      /\ Traversal(t)' = Traversal(t) /\ Stage(t)' = Stage(t)
      /\ \A u \in Thread \ {t} : pc'[u] = pc[u] /\ bucket'[u] = bucket[u] /\ beg'[u] = beg[u]
  BY <1>0, NextBucketBase, NextBucketStage DEF Counted
<1>2. \A u \in Thread : /\ Counted(u)' = Counted(u)
                        /\ Traversal(u)' = Traversal(u) /\ Stage(u)' = Stage(u)
  BY <1>1 DEF Counted, FutureOf, Traversal, Stage
<1>3. \A u \in Thread : u # t => pc[u] \notin {"visit", "release"}
  BY <1>0, Alone
<1>4. \A u \in Thread : pc'[u] \notin {"visit", "release"}
  BY <1>1, <1>3
<1>5. InStep' /\ SetupInv' /\ LastInv' /\ VisitorInv'
  BY <1>0, <1>1, <1>2, <1>4, InStepKept DEF SetupInv, LastInv, VisitorInv
<1>6. PromiseInv'
  BY <1>0, <1>2, <1>4 DEF PromiseInv, coordinator, UsesCache
<1>7. bucket_consumed_num_[f] = NumThreads /\ Pending(f) /\ ~ Pending(f)'
      /\ \A g \in FutureId \ {f} : Pending(g)' <=> Pending(g)
  <2>1. bucket_consumed_num_[f] = NumThreads
    BY <1>0, <1>f DEF LastInv
  <2> QED
    BY <1>0, <1>f, <1>3, <1>4, <2>1, Numbers DEF Pending
<1>8. /\ buf[t] \in Buffer /\ buf[t] = Source(f) /\ buf[t] # Null
      /\ UsesCache(f) => f - BucketNum \in KeptNow
      /\ ~ UsesCache(f) => f \in LentNow
  BY <1>0, <1>f, AtSource, Numbers
<1>9. ReadNow' = ReadNow /\ content' = content
  BY <1>0 DEF ReadNow, coordinator, UsesCache
<1>10. /\ f % (2 * BucketNum) = f /\ (UsesCache(f) <=> BucketNum <= f /\ f < BucketNum + Keep)
       /\ f % BucketNum = IF f < BucketNum THEN f ELSE f - BucketNum
       /\ f \in Int /\ f >= 0
  BY FutureNumbers DEF FutureId
<1>11. CASE f < Keep
  <2>1. /\ cached_front_buffers_' = [cached_front_buffers_ EXCEPT ![f] = buf[t]]
        /\ free_buffers_' = free_buffers_ /\ f \in 0 .. Keep - 1
    <3>1. FutureOf(t) % (2 * BucketNum) < Keep /\ f \in 0 .. Keep - 1
      BY <1>f, <1>10, <1>11, Numbers
    <3> QED
      BY <1>f, <3>1 DEF Release
  <2>2. /\ cached_front_buffers_'[f] = buf[t]
        /\ \A i \in 0 .. Keep - 1 : i # f => cached_front_buffers_'[i] = cached_front_buffers_[i]
    BY <2>1 DEF Base, TypeOK
  <2>3. \A i \in 0 .. Keep - 1 : i \in FutureId /\ BucketNum + i \in FutureId /\ BucketNum + i # f
    BY <1>11, Numbers DEF FutureId
  <2>4. Pending(BucketNum + f)'
    <3>1. Counted(t) <= BucketNum + f
      BY <1>0, <1>f, <1>10, Numbers DEF Counted
    <3>2. Past(BucketNum + f) \in SUBSET Thread /\ t \notin Past(BucketNum + f)
      <4>1. Counted(t) \in Int
        BY <1>0, <1>f, <1>10 DEF Counted
      <4> QED
        BY <1>10, <3>1, <4>1, Numbers DEF Past
    <3>3. bucket_consumed_num_[BucketNum + f] < NumThreads
      BY <2>1, <2>3, <3>2, PastFinite, Numbers DEF Base, CountInv
    <3> QED
      BY <1>0, <3>3 DEF Pending
  <2>5. KeptNow' = KeptNow \cup {f} /\ f \notin KeptNow
    <3>1. cached_front_buffers_[f] = Null
      BY <1>7, <2>1 DEF Ownership, CacheInv
    <3> QED
      BY <1>7, <1>8, <2>1, <2>2, <2>3, <2>4, <3>1 DEF KeptNow
  <2>6. LentNow' = LentNow \ {f} /\ promise' = promise /\ promise[f] = buf[t]
        /\ f \in LentNow
    <3>1. ~ UsesCache(f)
      BY <1>10, <1>11, Numbers
    <3> QED
      BY <1>0, <1>7, <1>8, <3>1 DEF LentNow, UsesCache, Source
  <2>7. FreeNow' = FreeNow
    BY <2>1 DEF FreeNow
  <2>8. CacheInv'
    BY <1>7, <1>8, <2>2, <2>3 DEF Ownership, CacheInv
  <2>9. KeptNow \subseteq 0 .. Keep - 1
    BY DEF KeptNow
  <2>10. ApartInv'
    BY <1>9, <2>1, <2>2, <2>5, <2>6, <2>7, <2>9 DEF Ownership, ApartInv
  <2>11. PlaceInv'
    <3> SUFFICES ASSUME NEW x \in Buffer
                 PROVE  \/ \E i \in FreeNow : free_buffers_[i] = x
                        \/ \E g \in LentNow' : promise[g] = x
                        \/ \E k \in KeptNow' : cached_front_buffers_'[k] = x
                        \/ x \in ReadNow
      BY <1>9, <2>1, <2>6, <2>7 DEF PlaceInv
    <3>1. CASE x = buf[t]
      BY <2>2, <2>5, <3>1
    <3>2. CASE x # buf[t]
      BY <1>f, <2>2, <2>5, <2>6, <2>9, <3>2 DEF Ownership, PlaceInv
    <3> QED
      BY <3>1, <3>2
  <2>12. ContentInv'
    <3>1. content[buf[t]] = f
      BY <1>10, <1>11, <2>6, Numbers DEF Ownership, ContentInv
    <3>2. \A g \in LentNow' : content[promise[g]] = g % BucketNum
      BY <2>6 DEF Ownership, ContentInv
    <3>3. \A k \in KeptNow' : content[cached_front_buffers_'[k]] = k
      BY <2>2, <2>5, <2>9, <3>1 DEF Ownership, ContentInv
    <3> QED
      BY <1>0, <1>9, <2>6, <3>2, <3>3 DEF Ownership, ContentInv, coordinator
  <2> QED
    BY <1>5, <1>6, <2>8, <2>10, <2>11, <2>12 DEF Ownership
<1>12. CASE f >= Keep
  <2> DEFINE last == Len(free_buffers_) + 1
  <2>1. /\ free_buffers_' = Append(free_buffers_, buf[t])
        /\ cached_front_buffers_' = cached_front_buffers_
        /\ promise' = promise
    <3>1. ~ (FutureOf(t) % (2 * BucketNum) < Keep)
      BY <1>f, <1>10, <1>12, Numbers
    <3> QED
      BY <1>0, <3>1 DEF Release
  <2>2. /\ Len(free_buffers_') = last /\ free_buffers_'[last] = buf[t] /\ last \in Nat
        /\ \A i \in 1 .. Len(free_buffers_) : free_buffers_'[i] = free_buffers_[i]
    <3>1. free_buffers_ \in Seq(Buffer \cup {Null})
      BY DEF Base, TypeOK
    <3> QED
      BY <2>1, <3>1
  <2>3. FreeNow' = FreeNow \cup {last} /\ last \notin FreeNow /\ FreeNow \subseteq 1 .. Len(free_buffers_)
    <3>1. 1 .. last = (1 .. Len(free_buffers_)) \cup {last} /\ last \notin 1 .. Len(free_buffers_)
      BY <2>2
    <3> QED
      BY <1>8, <2>2, <3>1 DEF FreeNow
  <2>4. /\ LentNow' = IF UsesCache(f) THEN LentNow ELSE LentNow \ {f}
        /\ KeptNow' = IF UsesCache(f) THEN KeptNow \ {f - BucketNum} ELSE KeptNow
    <3>1. LentNow' = IF UsesCache(f) THEN LentNow ELSE LentNow \ {f}
      BY <1>7, <2>1 DEF LentNow, UsesCache
    <3>2. \A i \in 0 .. Keep - 1 :
            /\ BucketNum + i \in FutureId
            /\ i = f - BucketNum <=> BucketNum + i = f
            /\ ~ UsesCache(f) => BucketNum + i # f
      BY <1>10, Numbers DEF FutureId
    <3>3. KeptNow' = IF UsesCache(f) THEN KeptNow \ {f - BucketNum} ELSE KeptNow
      BY <1>7, <2>1, <3>2 DEF KeptNow
    <3> QED
      BY <3>1, <3>3
  <2>5. CacheInv'
    <3>1. \A i \in 0 .. Keep - 1 : i \in FutureId \ {f}
      BY <1>12, Numbers DEF FutureId
    <3> QED
      BY <1>7, <2>1, <3>1 DEF Ownership, CacheInv
  <2>6. /\ \A i \in FreeNow : free_buffers_[i] # buf[t]
        /\ \A g \in LentNow' : promise[g] # buf[t]
        /\ \A k \in KeptNow' : cached_front_buffers_[k] # buf[t]
        /\ buf[t] \notin ReadNow
    BY <1>8, <2>4 DEF Ownership, ApartInv, Source
  <2>7. ApartInv'
    <3>1. \A i \in FreeNow : free_buffers_'[i] = free_buffers_[i]
      BY <2>2, <2>3
    <3>2. LentNow' \subseteq LentNow /\ KeptNow' \subseteq KeptNow
      BY <2>4
    <3> HIDE DEF last
    <3> QED
      BY <1>9, <2>1, <2>2, <2>3, <2>6, <3>1, <3>2 DEF Ownership, ApartInv
  <2>8. PlaceInv'
    <3> HIDE DEF last
    <3> SUFFICES ASSUME NEW x \in Buffer
                 PROVE  \/ \E i \in FreeNow' : free_buffers_'[i] = x
                        \/ \E g \in LentNow' : promise[g] = x
                        \/ \E k \in KeptNow' : cached_front_buffers_[k] = x
                        \/ x \in ReadNow
      BY <1>9, <2>1 DEF PlaceInv
    <3>1. CASE x = buf[t]
      BY <2>2, <2>3, <3>1
    <3>2. CASE x # buf[t]
      <4>1. \/ \E i \in FreeNow : free_buffers_[i] = x
            \/ \E g \in LentNow : promise[g] = x
            \/ \E k \in KeptNow : cached_front_buffers_[k] = x
            \/ x \in ReadNow
        BY <1>f DEF Ownership, PlaceInv
      <4> QED
        BY <1>8, <2>2, <2>3, <2>4, <3>2, <4>1 DEF Source
    <3> QED
      BY <3>1, <3>2
  <2>9. ContentInv'
    <3>1. LentNow' \subseteq LentNow /\ KeptNow' \subseteq KeptNow
      BY <2>4
    <3> QED
      BY <1>0, <1>9, <2>1, <3>1 DEF Ownership, ContentInv, coordinator
  <2> QED
    BY <1>5, <1>6, <2>5, <2>7, <2>8, <2>9 DEF Ownership
<1> QED
  BY <1>10, <1>11, <1>12, Numbers

\* The future whose promise the coordinator is to set is pending, and nobody has
\* come to it unless the cache serves it.
LEMMA NextPending ==
  ASSUME Base, RightCount, Control, Ownership, cstate \in {"pop", "read", "set"},
         ~ UsesCache(cnext)
  PROVE  /\ cnext \in FutureId /\ Pending(cnext)
         /\ \A u \in Thread : pc[u] \in {"visit", "release"} => FutureOf(u) # cnext
<1>1. cnext \in FutureId /\ futuresTaken /\ cnext \in Int
  BY Numbers DEF Base, TypeOK, InitInv, FutureId
<1>2. \A u \in Thread : Counted(u) <= cnext /\ ~ (pc[u] = "visit" /\ FutureOf(u) = cnext)
  BY <1>1, Numbers DEF Control, PromiseInv
<1>3. Pending(cnext)
  <2>1. \A u \in Thread : Counted(u) \in Int
    <3> TAKE u \in Thread
    <3>1. beg[u] \in Int /\ bucket[u] \in Int
      BY Numbers DEF Base, TypeOK
    <3> QED
      BY <3>1 DEF Counted, FutureOf
  <2>2. Past(cnext) = {}
    <3>1. \A u \in Thread : ~ (Counted(u) > cnext)
      BY <1>1, <1>2, <2>1
    <3> QED
      BY <3>1 DEF Past
  <2>3. bucket_consumed_num_[cnext] = 0
    BY <1>1, <2>2, FS_EmptySet DEF Base, CountInv
  <2> QED
    BY <2>3, Numbers DEF Pending
<1> QED
  BY <1>1, <1>2, <1>3, Numbers DEF Counted

LEMMA CoordinatorControl ==
  ASSUME Base, RightCount, Control, Ownership, CoordinatorStep
  PROVE  Control' /\ Ownership'
<1> USE DEF Control
<1>0. UNCHANGED << init, waiting, futuresTaken, cached_front_buffers_, bucket_consumed_num_,
                   pc, bucket, beg, buf, phase >>
  BY DEF CoordinatorStep, PopBuffer, EndRead, TakeCached, SetPromise, data, locals
<1>1. \A u \in Thread : /\ Counted(u)' = Counted(u) /\ FutureOf(u)' = FutureOf(u)
                        /\ Traversal(u)' = Traversal(u) /\ Stage(u)' = Stage(u)
  BY <1>0 DEF Counted, FutureOf, Traversal, Stage
<1>2. InStep' /\ SetupInv' /\ LastInv'
  BY <1>0, <1>1, InStepKept DEF SetupInv, LastInv
<1>3. \A f \in FutureId : Pending(f)' <=> Pending(f)
  BY <1>0, <1>1, PendingKept
<1>4. \A i \in 0 .. Keep - 1 : i \in FutureId /\ BucketNum + i \in FutureId
  BY Numbers DEF FutureId
<1>5. CacheInv' /\ KeptNow' = KeptNow
  BY <1>0, <1>3, <1>4 DEF Ownership, CacheInv, KeptNow
<1>6. futuresTaken /\ cnext \in FutureId
  BY Numbers DEF CoordinatorStep, PopBuffer, EndRead, TakeCached, SetPromise, Base, TypeOK,
     InitInv, FutureId
<1>7. ASSUME UNCHANGED << promise, cnext >>
      PROVE  PromiseInv' /\ VisitorInv' /\ LentNow' = LentNow
  <2>1. PromiseInv'
    BY <1>0, <1>1, <1>7 DEF PromiseInv, UsesCache
  <2>2. VisitorInv'
    BY <1>0, <1>1, <1>7 DEF VisitorInv, Source, UsesCache
  <2>3. LentNow' = LentNow
    BY <1>3, <1>7 DEF LentNow, UsesCache
  <2> QED
    BY <2>1, <2>2, <2>3
<1>8. CASE PopBuffer
  <2> DEFINE x == Head(free_buffers_)
  <2>1. /\ cstate = "pop" /\ cstate' = "read" /\ ~ UsesCache(cnext) /\ free_buffers_ # << >>
        /\ cbuf' = x /\ free_buffers_' = Tail(free_buffers_)
        /\ content' = IF x = Null THEN content ELSE [content EXCEPT ![x] = Filling]
        /\ UNCHANGED << promise, cnext >>
    BY <1>8 DEF PopBuffer
  <2>2. /\ Len(free_buffers_) \in Nat \ {0} /\ x = free_buffers_[1]
        /\ Len(free_buffers_') = Len(free_buffers_) - 1
        /\ \A i \in 1 .. Len(free_buffers_') : free_buffers_'[i] = free_buffers_[i + 1]
        /\ x \in Buffer \cup {Null}
    BY <2>1 DEF Base, TypeOK
  <2> HIDE DEF x
  <2>3. /\ \A i \in FreeNow' : /\ i + 1 \in FreeNow /\ free_buffers_'[i] = free_buffers_[i + 1]
                               /\ i + 1 # 1 /\ i \in Int
        /\ \A i \in FreeNow : i # 1 => i - 1 \in FreeNow' /\ free_buffers_'[i - 1] = free_buffers_[i]
        /\ x \in Buffer => 1 \in FreeNow
        /\ FreeNow \subseteq Int
    <3>1. \A i \in 1 .. Len(free_buffers_') : i + 1 \in 1 .. Len(free_buffers_) /\ i + 1 # 1
      BY <2>2
    <3>2. \A i \in 1 .. Len(free_buffers_) : i # 1 => i - 1 \in 1 .. Len(free_buffers_') /\ (i - 1) + 1 = i
      BY <2>2
    <3>3. x \in Buffer => 1 \in FreeNow
      BY <2>2 DEF FreeNow
    <3>4. \A i \in FreeNow' : /\ i + 1 \in FreeNow /\ free_buffers_'[i] = free_buffers_[i + 1]
                              /\ i + 1 # 1 /\ i \in Int
      BY <2>2, <3>1 DEF FreeNow
    <3>5. \A i \in FreeNow : i # 1 => i - 1 \in FreeNow' /\ free_buffers_'[i - 1] = free_buffers_[i]
      BY <2>2, <3>2 DEF FreeNow
    <3> QED
      BY <3>3, <3>4, <3>5 DEF FreeNow
  <2>4. /\ ReadNow = {}
        /\ ReadNow' = IF x \in Buffer THEN {x} ELSE {}
    BY <2>1 DEF ReadNow, UsesCache
  <2>5. /\ \A i \in FreeNow' : free_buffers_'[i] # x \/ x \notin Buffer
        /\ x \in Buffer => \A f \in LentNow : promise[f] # x
        /\ x \in Buffer => \A k \in KeptNow : cached_front_buffers_[k] # x
    BY <2>2, <2>3 DEF Ownership, ApartInv
  <2>6. ApartInv'
    <3>1. \A i, j \in FreeNow' : free_buffers_'[i] = free_buffers_'[j] => i = j
      BY <2>3 DEF Ownership, ApartInv
    <3>2. \A i \in FreeNow', f \in LentNow : free_buffers_'[i] # promise[f]
      BY <2>3 DEF Ownership, ApartInv
    <3>3. \A i \in FreeNow', k \in KeptNow : free_buffers_'[i] # cached_front_buffers_[k]
      BY <2>3 DEF Ownership, ApartInv
    <3>4. /\ \A i \in FreeNow' : free_buffers_'[i] \notin ReadNow'
          /\ \A f \in LentNow : promise[f] \notin ReadNow'
          /\ \A k \in KeptNow : cached_front_buffers_[k] \notin ReadNow'
      BY <2>4, <2>5
    <3>5. /\ \A f, g \in LentNow : promise[f] = promise[g] => f = g
          /\ \A i, j \in KeptNow : cached_front_buffers_[i] = cached_front_buffers_[j] => i = j
          /\ \A f \in LentNow, k \in KeptNow : promise[f] # cached_front_buffers_[k]
      BY DEF Ownership, ApartInv
    <3> QED
      BY <1>0, <1>5, <1>7, <2>1, <3>1, <3>2, <3>3, <3>4, <3>5 DEF ApartInv
  <2>7. PlaceInv'
    <3> SUFFICES ASSUME NEW y \in Buffer
                 PROVE  \/ \E i \in FreeNow' : free_buffers_'[i] = y
                        \/ \E f \in LentNow : promise[f] = y
                        \/ \E k \in KeptNow : cached_front_buffers_[k] = y
                        \/ y \in ReadNow'
      BY <1>0, <1>5, <1>7, <2>1 DEF PlaceInv
    <3>1. CASE y = x
      BY <2>4, <3>1
    <3>2. CASE y # x
      <4>1. \/ \E i \in FreeNow : free_buffers_[i] = y
            \/ \E f \in LentNow : promise[f] = y
            \/ \E k \in KeptNow : cached_front_buffers_[k] = y
        BY <1>6, <2>4 DEF Ownership, PlaceInv
      <4>2. ASSUME NEW i \in FreeNow, free_buffers_[i] = y
            PROVE  \E j \in FreeNow' : free_buffers_'[j] = y
        BY <2>2, <2>3, <3>2, <4>2
      <4> QED
        BY <4>1, <4>2
    <3> QED
      BY <3>1, <3>2
  <2>8. ContentInv'
    <3>1. \A y \in Buffer : y # x => content'[y] = content[y]
      BY <2>1 DEF Base, TypeOK
    <3>2. \A f \in LentNow : promise[f] \in Buffer
      BY DEF LentNow, Base, TypeOK
    <3>3. \A k \in KeptNow : cached_front_buffers_[k] \in Buffer
      BY DEF KeptNow, Base, TypeOK
    <3>4. /\ \A f \in LentNow : content'[promise[f]] = content[promise[f]]
          /\ \A k \in KeptNow : content'[cached_front_buffers_[k]] = content[cached_front_buffers_[k]]
      BY <2>1, <2>2, <2>5, <3>1, <3>2, <3>3
    <3> QED
      BY <1>0, <1>5, <1>7, <2>1, <3>4 DEF Ownership, ContentInv
  <2> QED
    BY <1>2, <1>5, <1>7, <2>1, <2>6, <2>7, <2>8 DEF Ownership
<1>9. CASE EndRead
  <2>1. /\ cstate = "read" /\ cstate' = "set" /\ UNCHANGED << promise, free_buffers_, cnext, cbuf >>
        /\ content' = IF cbuf = Null THEN content ELSE [content EXCEPT ![cbuf] = cnext % BucketNum]
    BY <1>9 DEF EndRead
  <2>2. ReadNow' = ReadNow /\ FreeNow' = FreeNow /\ ReadNow \subseteq {cbuf}
    BY <2>1 DEF ReadNow, FreeNow, UsesCache
  <2>3. ApartInv' /\ PlaceInv'
    BY <1>0, <1>5, <1>7, <2>1, <2>2 DEF Ownership, ApartInv, PlaceInv
  <2>4. ContentInv'
    <3>0. cbuf \in Buffer => ReadNow = {cbuf}
      BY <2>1 DEF ReadNow, Base, InitInv
    <3>1. /\ cbuf \in Buffer => content'[cbuf] = cnext % BucketNum
          /\ \A y \in Buffer : y # cbuf => content'[y] = content[y]
      BY <2>1, Numbers DEF Base, TypeOK
    <3>2. \A f \in LentNow : promise[f] \in Buffer /\ promise[f] # cbuf
      BY <3>0 DEF LentNow, Base, TypeOK, Ownership, ApartInv
    <3>3. \A k \in KeptNow : cached_front_buffers_[k] \in Buffer /\ cached_front_buffers_[k] # cbuf
      BY <3>0 DEF KeptNow, Base, TypeOK, Ownership, ApartInv
    <3>4. \A y \in ReadNow : y \in Buffer /\ y = cbuf
      BY <2>2 DEF ReadNow
    <3>5. \A f \in LentNow : content'[promise[f]] = f % BucketNum
      BY <3>1, <3>2 DEF Ownership, ContentInv
    <3>6. \A k \in KeptNow : content'[cached_front_buffers_[k]] = k
      BY <3>1, <3>3 DEF Ownership, ContentInv
    <3> QED
      BY <1>0, <1>5, <1>7, <2>1, <2>2, <3>1, <3>4, <3>5, <3>6 DEF ContentInv
  <2> QED
    BY <1>2, <1>5, <1>7, <2>1, <2>3, <2>4 DEF Ownership
<1>10. CASE TakeCached
  <2>1. /\ cstate = "pop" /\ cstate' = "set" /\ UsesCache(cnext)
        /\ UNCHANGED << promise, free_buffers_, content, cnext >>
    BY <1>10 DEF TakeCached, data
  <2>2. ReadNow = {} /\ ReadNow' = {} /\ FreeNow' = FreeNow
    BY <2>1 DEF ReadNow, FreeNow, UsesCache
  <2>3. ApartInv' /\ PlaceInv'
    BY <1>0, <1>5, <1>7, <2>1, <2>2 DEF Ownership, ApartInv, PlaceInv
  <2>4. ContentInv'
    BY <1>0, <1>5, <1>7, <2>1, <2>2 DEF Ownership, ContentInv
  <2> QED
    BY <1>2, <1>5, <1>7, <2>1, <2>3, <2>4 DEF Ownership
<1>11. CASE SetPromise
  <2>f. PICK n \in FutureId : n = cnext
    BY <1>6
  <2>1. /\ cstate = "set" /\ cstate' \in {"pop", "done"} /\ cnext' = n + 1 /\ n \in Int
        /\ promise' = [promise EXCEPT ![n] = cbuf]
        /\ UNCHANGED << free_buffers_, content, cbuf >>
    BY <1>11, <2>f DEF SetPromise, FutureId
  <2>2. promise'[n] = cbuf /\ \A g \in FutureId : g # n => promise'[g] = promise[g]
    BY <2>1 DEF Base, TypeOK
  <2>3. PromiseInv'
    <3>1. \A g \in FutureId : g >= n + 1 => g >= n /\ g # n
      BY <2>1 DEF FutureId
    <3> QED
      BY <1>0, <1>1, <2>f, <2>1, <2>2, <3>1 DEF PromiseInv, UsesCache
  <2>4. ~ UsesCache(n) => Pending(n) /\ \A u \in Thread : pc[u] \in {"visit", "release"} => FutureOf(u) # n
    BY <2>f, <2>1, NextPending
  <2>5. VisitorInv'
    <3> SUFFICES ASSUME NEW u \in Thread, pc[u] \in {"visit", "release"}
                 PROVE  buf[u] \in Buffer /\ buf[u] = Source(FutureOf(u))'
      BY <1>0 DEF VisitorInv
    <3>g. PICK g \in FutureId : g = FutureOf(u)
      BY VisitorFuture
    <3>1. Source(g)' = Source(g)
      BY <1>0, <2>2, <2>4, <3>g DEF Source, UsesCache
    <3>2. Source(FutureOf(u))' = Source(g)'
      BY <1>1, <3>g DEF Source, UsesCache
    <3> QED
      BY <3>g, <3>1, <3>2 DEF VisitorInv
  <2>6. FreeNow' = FreeNow /\ ReadNow' = {}
    BY <2>1 DEF FreeNow, ReadNow
  <2>7. /\ LentNow' = IF ~ UsesCache(n) /\ cbuf # Null THEN LentNow \cup {n} ELSE LentNow
        /\ n \notin LentNow
    <3>1. promise[n] = Null
      BY <1>6, <2>f, <2>1 DEF PromiseInv
    <3> QED
      BY <1>3, <2>2, <2>4, <3>1 DEF LentNow, UsesCache
  <2>8. ReadNow = IF ~ UsesCache(n) /\ cbuf # Null THEN {cbuf} ELSE {}
    BY <2>f, <2>1, Numbers DEF ReadNow, Base, TypeOK
  <2>9. ApartInv' /\ PlaceInv' /\ ContentInv'
    <3>1. CASE ~ UsesCache(n) /\ cbuf # Null
      <4>1. LentNow' = LentNow \cup {n} /\ ReadNow = {cbuf}
        BY <2>7, <2>8, <3>1
      <4>2. LentNow \subseteq FutureId /\ \A g \in LentNow : promise'[g] = promise[g]
        BY <2>2, <2>7 DEF LentNow
      <4>3. ApartInv'
        BY <1>0, <1>5, <2>1, <2>2, <2>6, <2>7, <4>1, <4>2 DEF Ownership, ApartInv
      <4>4. PlaceInv'
        <5> SUFFICES ASSUME NEW x \in Buffer
                     PROVE  \/ \E i \in FreeNow : free_buffers_[i] = x
                            \/ \E f \in LentNow \cup {n} : promise'[f] = x
                            \/ \E k \in KeptNow : cached_front_buffers_[k] = x
          BY <1>0, <1>5, <2>1, <2>6, <4>1 DEF PlaceInv
        <5> QED
          BY <1>6, <2>2, <4>1, <4>2 DEF Ownership, PlaceInv
      <4>5. ContentInv'
        <5>1. content[cbuf] = n % BucketNum
          BY <2>f, <2>1, <4>1 DEF Ownership, ContentInv
        <5>2. \A f \in LentNow \cup {n} : content[promise'[f]] = f % BucketNum
          BY <2>2, <4>2, <5>1 DEF Ownership, ContentInv
        <5>3. \A k \in KeptNow : content[cached_front_buffers_[k]] = k
          BY DEF Ownership, ContentInv
        <5> QED
          BY <1>0, <1>5, <2>1, <2>6, <4>1, <5>2, <5>3 DEF ContentInv
      <4> QED
        BY <4>3, <4>4, <4>5
    <3>2. CASE ~ (~ UsesCache(n) /\ cbuf # Null)
      <4>1. LentNow' = LentNow /\ ReadNow = {}
        BY <2>7, <2>8, <3>2
      <4>2. LentNow \subseteq FutureId /\ \A g \in LentNow : promise'[g] = promise[g]
        BY <2>2, <2>7 DEF LentNow
      <4>3. ApartInv'
        BY <1>0, <1>5, <2>1, <2>6, <4>1, <4>2 DEF Ownership, ApartInv
      <4>4. PlaceInv'
        BY <1>0, <1>5, <2>1, <2>6, <4>1, <4>2 DEF Ownership, PlaceInv
      <4>5. ContentInv'
        BY <1>0, <1>5, <2>1, <2>6, <4>1, <4>2 DEF Ownership, ContentInv
      <4> QED
        BY <4>3, <4>4, <4>5
    <3> QED
      BY <3>1, <3>2
  <2> QED
    BY <1>2, <1>5, <2>3, <2>5, <2>9 DEF Ownership
<1> QED
  BY <1>8, <1>9, <1>10, <1>11 DEF CoordinatorStep

\* The null pointers of the destructor are no buffers.
LEMMA DestroyControl ==
  ASSUME Base, RightCount, Control, Ownership,
         BeginDestroy \/ JoinCoordinator \/ UNCHANGED vars
  PROVE  Control' /\ Ownership'
<1> USE DEF Control
<1>0. UNCHANGED << init, waiting, futuresTaken, promise, cached_front_buffers_,
                   bucket_consumed_num_, content, cstate, cnext, cbuf, pc, bucket, beg, buf >>
  BY DEF BeginDestroy, JoinCoordinator, vars, data, coordinator, locals
<1>1. \A u \in Thread : /\ Counted(u)' = Counted(u) /\ FutureOf(u)' = FutureOf(u)
                        /\ Traversal(u)' = Traversal(u) /\ Stage(u)' = Stage(u)
  BY <1>0 DEF Counted, FutureOf, Traversal, Stage
<1>2. InStep' /\ SetupInv'
  BY <1>0, <1>1, InStepKept DEF SetupInv
<1>3. LastInv' /\ PromiseInv' /\ VisitorInv' /\ \A f \in FutureId : Pending(f)' <=> Pending(f)
  BY <1>0, <1>1, AsideStep
<1>4. CASE UNCHANGED free_buffers_
  BY <1>0, <1>2, <1>3, <1>4, OwnershipKept DEF coordinator
<1>5. CASE BeginDestroy
  <2> DEFINE nulls == [i \in 1 .. 2 * BucketNum |-> Null]
  <2>1. free_buffers_' = free_buffers_ \o nulls
    BY <1>5 DEF BeginDestroy
  <2>2. nulls \in Seq({Null}) /\ \A i \in 1 .. Len(nulls) : nulls[i] = Null
    BY Numbers
  <2> HIDE DEF nulls
  <2>3. /\ Len(free_buffers_') = Len(free_buffers_) + Len(nulls)
        /\ \A i \in 1 .. Len(free_buffers_') :
             free_buffers_'[i] = IF i <= Len(free_buffers_) THEN free_buffers_[i] ELSE Null
        /\ Len(free_buffers_) \in Nat /\ Len(nulls) \in Nat
    <3>1. free_buffers_ \in Seq(Buffer \cup {Null})
      BY DEF Base, TypeOK
    <3> QED
      BY <2>1, <2>2, <3>1
  <2>4. FreeNow' = FreeNow
    <3>1. Null \notin Buffer
      BY Numbers
    <3>2. \A i \in 1 .. Len(free_buffers_) : i \in 1 .. Len(free_buffers_')
      BY <2>3
    <3>3. \A i \in 1 .. Len(free_buffers_') : i <= Len(free_buffers_) => i \in 1 .. Len(free_buffers_)
      BY <2>3
    <3> QED
      BY <2>3, <3>1, <3>2, <3>3 DEF FreeNow
  <2>5. \A i \in FreeNow : free_buffers_'[i] = free_buffers_[i]
    <3>1. \A i \in 1 .. Len(free_buffers_) : i \in 1 .. Len(free_buffers_') /\ i <= Len(free_buffers_)
      BY <2>3
    <3> QED
      BY <2>3, <3>1 DEF FreeNow
  <2>6. LentNow' = LentNow /\ KeptNow' = KeptNow /\ ReadNow' = ReadNow
    <3>1. \A i \in 0 .. Keep - 1 : BucketNum + i \in FutureId
      BY Numbers DEF FutureId
    <3> QED
      BY <1>0, <1>3, <3>1 DEF LentNow, KeptNow, ReadNow, UsesCache
  <2>7. CacheInv'
    <3>1. \A i \in 0 .. Keep - 1 : i \in FutureId
      BY Numbers DEF FutureId
    <3> QED
      BY <1>0, <1>3, <3>1 DEF Ownership, CacheInv
  <2>8. ApartInv' /\ PlaceInv'
    BY <1>0, <2>4, <2>5, <2>6 DEF Ownership, ApartInv, PlaceInv
  <2>9. ContentInv'
    BY <1>0, <2>6 DEF Ownership, ContentInv
  <2> QED
    BY <1>2, <1>3, <2>7, <2>8, <2>9 DEF Ownership
<1> QED
  BY <1>4, <1>5 DEF JoinCoordinator, vars, data

LEMMA IInvInit == Init => IInv
<1> SUFFICES ASSUME Init PROVE IInv
  OBVIOUS
<1>1. Base
  BY BaseInit
<1>2. ~ futuresTaken /\ \A t \in Thread : pc[t] = "idle" /\ beg[t] = 0
  BY DEF Init
<1>3. Control
  BY <1>2 DEF Control, InStep, SetupInv, LastInv, PromiseInv, VisitorInv, Traversal, Stage
<1>4. Ownership
  <2>1. \A i \in 0 .. Keep - 1 : i \in FutureId /\ cached_front_buffers_[i] = Null
    BY Numbers DEF Init, FutureId
  <2> QED
    BY <1>1, <1>2, <2>1, Unused DEF Ownership, CacheInv, ApartInv, PlaceInv, ContentInv
<1> QED
  BY <1>1, <1>3, <1>4, Parts

LEMMA IInvStep ==
  ASSUME IInv, [Next]_vars
  PROVE  IInv'
<1>1. Base /\ Base'
  BY BaseStep, Parts
<1>2. ASSUME RightCount' PROVE Control' /\ Ownership'
  <2>1. RightCount /\ Control /\ Ownership
    BY <1>1, <1>2, RightKept, Parts
  <2>2. CASE \E t \in Thread : \/ Call(t) \/ AwaitInit(t) \/ BarrierWait(t) \/ SkipSetup(t)
                               \/ GetInvalidFuture(t)
    BY <1>1, <2>1, <2>2, WaitControl
  <2>3. CASE InitForAll \/ \E t \in Thread : Populate(t)
    BY <1>1, <2>1, <2>3, StartControl
  <2>4. CASE Setup
    BY <1>1, <2>1, <2>4, SetupControl
  <2>5. CASE \E t \in Thread : GetBuffer(t)
    BY <1>1, <2>1, <2>5, GetControl
  <2>6. CASE \E t \in Thread : EndVisit(t)
    BY <1>1, <2>1, <2>6, EndVisitControl
  <2>7. CASE \E t \in Thread : Release(t)
    BY <1>1, <2>1, <2>7, ReleaseControl
  <2>8. CASE CoordinatorStep
    BY <1>1, <2>1, <2>8, CoordinatorControl
  <2>9. CASE BeginDestroy \/ JoinCoordinator \/ UNCHANGED vars
    BY <1>1, <2>1, <2>9, DestroyControl
  <2> QED
    BY <2>2, <2>3, <2>4, <2>5, <2>6, <2>7, <2>8, <2>9 DEF Next, VisitorStep, Closed
<1>3. (RightCount => Control /\ Ownership)'
  BY <1>2
<1> QED
  BY <1>1, <1>3, Parts DEF IInv, Base, Control, Ownership

LEMMA IInvVisit == IInv => VisitIntact
<1> SUFFICES ASSUME IInv, RightCount, NEW t \in Thread, pc[t] = "visit"
             PROVE  buf[t] \in Buffer /\ content[buf[t]] = bucket[t]
  BY DEF VisitIntact
<1>1. Base /\ Control /\ Ownership
  BY Parts
<1>f. PICK f \in FutureId : f = FutureOf(t) /\ f % BucketNum = bucket[t]
  BY <1>1, VisitorFuture
<1>2. /\ buf[t] = Source(f) /\ buf[t] \in Buffer
      /\ UsesCache(f) => f - BucketNum \in KeptNow
      /\ ~ UsesCache(f) => f \in LentNow
  BY <1>1, <1>f, AtSource
<1>3. CASE UsesCache(f)
  <2>1. content[buf[t]] = f - BucketNum
    BY <1>1, <1>2, <1>3 DEF Source, Ownership, ContentInv
  <2>2. f % BucketNum = f - BucketNum
    BY <1>3, FutureNumbers, Numbers DEF FutureId
  <2> QED
    BY <1>f, <1>2, <2>1, <2>2
<1>4. CASE ~ UsesCache(f)
  BY <1>1, <1>f, <1>2, <1>4 DEF Source, Ownership, ContentInv
<1> QED
  BY <1>3, <1>4

\* A visitor finds its bucket in its buffer while it is in the bucket, however late
\* the threads come, once the barrier was built for all of them.
THEOREM VisitorsSeeTheirBucket ==
  Spec => []VisitIntact
<1>1. Init => IInv
  BY IInvInit
<1>2. IInv /\ [Next]_vars => IInv'
  BY IInvStep
<1>3. IInv => VisitIntact
  BY IInvVisit
<1> QED
  BY <1>1, <1>2, <1>3, PTL DEF Spec

\* An owner of a buffer is a place where it is.
LEMMA OwnersArePlaces ==
  ASSUME Base, RightCount, futuresTaken, NEW x \in Buffer, NEW e
  PROVE  e \in Owners(x) <=>
           \/ \E i \in FreeNow : free_buffers_[i] = x /\ e = << "free", i >>
           \/ \E f \in LentNow : promise[f] = x /\ e = << "lent", f >>
           \/ \E k \in KeptNow : cached_front_buffers_[k] = x /\ e = << "kept", k >>
           \/ x \in ReadNow /\ e = << "coordinator", 0 >>
<1>0. x # Null
  BY Numbers
<1>1. total_range_num_threads_ = NumThreads
  BY Built DEF Base, InitInv
<1>2. \A f \in FutureId : Lent(f) <=> f \in LentNow
  BY <1>1 DEF Lent, LentNow, Pending
<1>3. \A i \in 0 .. Keep - 1 : Kept(i) <=> i \in KeptNow
  BY <1>1 DEF Kept, KeptNow, Pending
<1>4. {i \in 1 .. Len(free_buffers_) : free_buffers_[i] = x} = {i \in FreeNow : free_buffers_[i] = x}
  BY DEF FreeNow
<1>5. {f \in FutureId : promise[f] = x /\ Lent(f)} = {f \in LentNow : promise[f] = x}
  BY <1>2 DEF LentNow
<1>6. {i \in 0 .. Keep - 1 : cached_front_buffers_[i] = x /\ Kept(i)}
        = {k \in KeptNow : cached_front_buffers_[k] = x}
  BY <1>3 DEF KeptNow
<1>7. cstate \in {"read", "set"} /\ ~ UsesCache(cnext) /\ cbuf = x <=> x \in ReadNow
  BY DEF ReadNow
<1> QED
  BY <1>4, <1>5, <1>6, <1>7 DEF Owners

LEMMA IInvOwner == IInv => OneOwner
<1> SUFFICES ASSUME IInv, futuresTaken, RightCount, NEW x \in Buffer
             PROVE  Cardinality(Owners(x)) = 1
  BY DEF OneOwner
<1>1. Base /\ ApartInv /\ PlaceInv
  BY Parts DEF Ownership
<1>2. \A e : e \in Owners(x) <=>
           \/ \E i \in FreeNow : free_buffers_[i] = x /\ e = << "free", i >>
           \/ \E f \in LentNow : promise[f] = x /\ e = << "lent", f >>
           \/ \E k \in KeptNow : cached_front_buffers_[k] = x /\ e = << "kept", k >>
           \/ x \in ReadNow /\ e = << "coordinator", 0 >>
  BY <1>1, OwnersArePlaces
<1>3. \E e : Owners(x) = {e}
  <2>1. ASSUME NEW i \in FreeNow, free_buffers_[i] = x
        PROVE  Owners(x) = {<< "free", i >>}
    BY <1>1, <1>2, <2>1 DEF ApartInv
  <2>2. ASSUME NEW f \in LentNow, promise[f] = x
        PROVE  Owners(x) = {<< "lent", f >>}
    BY <1>1, <1>2, <2>2 DEF ApartInv
  <2>3. ASSUME NEW k \in KeptNow, cached_front_buffers_[k] = x
        PROVE  Owners(x) = {<< "kept", k >>}
    BY <1>1, <1>2, <2>3 DEF ApartInv
  <2>4. ASSUME x \in ReadNow
        PROVE  Owners(x) = {<< "coordinator", 0 >>}
    BY <1>1, <1>2, <2>4 DEF ApartInv
  <2> QED
    BY <1>1, <2>1, <2>2, <2>3, <2>4 DEF PlaceInv
<1> QED
  BY <1>3, FS_Singleton

\* Every buffer has exactly one owner, from the start of the coordinator on: none
\* leaks and none is free twice.
THEOREM EveryBufferHasOneOwner ==
  Spec => []OwnedOnce
<1>1. Init => IInv
  BY IInvInit
<1>2. IInv /\ [Next]_vars => IInv'
  BY IInvStep
<1>3. IInv => OwnedOnce
  BY IInvOwner DEF OwnedOnce
<1> QED
  BY <1>1, <1>2, <1>3, PTL DEF Spec
=============================================================================
