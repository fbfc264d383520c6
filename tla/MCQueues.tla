----------------------------- MODULE MCQueues -----------------------------
(***************************************************************************)
(* The parts of ConcurrentQueue, and the ring buffers of the log, on small *)
(* instances.  Each behaviour is one part's: kind says whose.  What is not *)
(* a part's is 0, or as a sub-queue is made.  The model values of Consumer *)
(* and QBlock stand for threads of other parts too, which keeps the number  *)
(* of permutations small.                                                  *)
(***************************************************************************)
EXTENDS DequeueCounts, TLC

CONSTANTS QBlock, NoBlock, InitialSize, DeadItem, LateFailures,   \* sub-queues
          ImplicitItems, ImplicitSize,           \* items and index of an implicit one
          PoolSize, MaxBlocks,                   \* the free list
          MaxProducers,                          \* the list of producers
          ScanItems, ScanBulk, Quota, ScanWrap,  \* a consumer's way through it
          HThread, ThreadHash, HashSize, HashFailures, h1, h2, h3, none,  \* the table of producers
          Byte, None, Zero, Torn

VARIABLES kind,
          headers, entries, slots, elementsCompletelyDequeued, emptyFlags, next,
          tailBlock, slotsUsed, front, free, ppc, pl,
          freeListHead, freeListRefs, freeListNext, initialBlockPoolIndex, blocksMade, held, fpc, fl,
          tables, implicitProducerHashCount, implicitProducerHashResizeInProgress,
          producers, failures, got, hpc, hl,
          producerListTail, nextProducer, producerCount, isExplicit, inactive, tokenOf, made,
          token, implicit, upc, ul, items, globalExplicitConsumerOffset,
          metaFile, valFile, keyFile, cnt, valBuf, keyBuf, valLog, keyLog,
          mode, closing, flushed, holder, pc, arg

I == INSTANCE ImplicitProducer WITH Block <- QBlock, null <- NoBlock, Dead <- DeadItem,
       MaxItems <- ImplicitItems, InitialSize <- ImplicitSize
E == INSTANCE ExplicitProducer WITH Block <- QBlock, null <- NoBlock, Dead <- DeadItem
F == INSTANCE FreeList WITH Thread <- QBlock, made <- blocksMade, pc <- fpc, local <- fl
H == INSTANCE ProducerHash WITH Thread <- HThread, Hash <- ThreadHash, InitialSize <- HashSize,
       MaxFailures <- HashFailures, pc <- hpc, local <- hl
P == INSTANCE ProducerList WITH User <- QBlock, next <- nextProducer, pc <- upc, local <- ul
C == INSTANCE ConsumerScan WITH MaxItems <- ScanItems, MaxBulk <- ScanBulk, Wrap <- ScanWrap,
       pc <- upc, local <- ul
R == INSTANCE RaceLogInv WITH Thread <- Consumer, Value <- Byte, FileNum <- 1, BucketsPerFile <- 1,
       KeysPerBucket <- 2, BucketCap <- 8, VBuf <- 2, KBuf <- 4, FlushWorkers <- 2

ASSUME RingAssumption == R!LayoutAssumption /\ R!RaceLogAssumption
ASSUME QueuesAssumption == /\ CountsAssumption /\ I!CountsAssumption /\ I!BlocksAssumption
                           /\ ImplicitItems <= MaxItems /\ F!FreeListAssumption
                           /\ H!HashAssumption /\ P!ProducerListAssumption /\ C!ScanAssumption

\* What the .cfg gives ThreadHash.
MCThreadHash == (h1 :> 3) @@ (h2 :> 3) @@ (h3 :> 0)

implicitVars == <<entries, elementsCompletelyDequeued>>
explicitVars == <<emptyFlags, next, slotsUsed, front>>
subQueueVars == <<start, counts, cpc, cl, headers, slots, tailBlock, free, ppc, pl>>
freeListVars == <<freeListHead, freeListRefs, freeListNext, initialBlockPoolIndex,
                  blocksMade, held, fpc, fl>>
hashVars == <<tables, implicitProducerHashCount, implicitProducerHashResizeInProgress,
              producers, failures, got, hpc, hl>>
sharedVars == <<producerListTail, producerCount, token, upc, ul>>
listVars == <<nextProducer, isExplicit, inactive, tokenOf, made, implicit>>
scanVars == <<items, globalExplicitConsumerOffset>>
ringVars == <<metaFile, valFile, keyFile, cnt, valBuf, keyBuf, valLog, keyLog,
              mode, closing, flushed, holder, pc, arg>>
vars == <<kind, subQueueVars, implicitVars, explicitVars, freeListVars, hashVars, sharedVars,
          listVars, scanVars, ringVars>>

NoExplicit == emptyFlags = 0 /\ next = 0 /\ slotsUsed = 0 /\ front = 0
NoFreeList == /\ freeListHead = 0 /\ freeListRefs = 0 /\ freeListNext = 0
              /\ initialBlockPoolIndex = 0 /\ blocksMade = 0 /\ held = 0 /\ fpc = 0 /\ fl = 0
NoHash == /\ tables = 0 /\ implicitProducerHashCount = 0
          /\ implicitProducerHashResizeInProgress = 0
          /\ producers = 0 /\ failures = 0 /\ got = 0 /\ hpc = 0 /\ hl = 0
NoShared == producerListTail = 0 /\ producerCount = 0 /\ token = 0 /\ upc = 0 /\ ul = 0
NoList == /\ nextProducer = 0 /\ isExplicit = 0 /\ inactive = 0 /\ tokenOf = 0
          /\ made = 0 /\ implicit = 0
NoScan == items = 0 /\ globalExplicitConsumerOffset = 0
NoRing == /\ metaFile = 0 /\ valFile = 0 /\ keyFile = 0 /\ cnt = 0 /\ valBuf = 0 /\ keyBuf = 0
          /\ valLog = 0 /\ keyLog = 0 /\ mode = 0 /\ closing = 0 /\ flushed = 0
          /\ holder = 0 /\ pc = 0 /\ arg = 0

Init ==
  /\ \/ kind \in {"implicit", "freeList", "hash", "list", "scan", "ring"} /\ I!Init /\ NoExplicit
     \/ kind = "explicit" /\ E!Init /\ entries = 0 /\ elementsCompletelyDequeued = 0
  /\ IF kind = "freeList" THEN F!Init ELSE NoFreeList
  /\ IF kind = "hash" THEN H!Init ELSE NoHash
  /\ \/ kind = "list" /\ P!Init /\ NoScan
     \/ kind = "scan" /\ C!Init /\ NoList
     \/ kind \notin {"list", "scan"} /\ NoShared /\ NoList /\ NoScan
  /\ IF kind = "ring" THEN R!Init ELSE NoRing

Next ==
  \/ /\ kind = "implicit" /\ I!Next
     /\ UNCHANGED <<kind, explicitVars, freeListVars, hashVars, sharedVars, listVars, scanVars, ringVars>>
  \/ /\ kind = "explicit" /\ E!Next
     /\ UNCHANGED <<kind, implicitVars, freeListVars, hashVars, sharedVars, listVars, scanVars, ringVars>>
  \/ /\ kind = "freeList" /\ F!Next
     /\ UNCHANGED <<kind, subQueueVars, implicitVars, explicitVars, hashVars, sharedVars, listVars,
                    scanVars, ringVars>>
  \/ /\ kind = "hash" /\ H!Next
     /\ UNCHANGED <<kind, subQueueVars, implicitVars, explicitVars, freeListVars, sharedVars, listVars,
                    scanVars, ringVars>>
  \/ /\ kind = "list" /\ P!Next
     /\ UNCHANGED <<kind, subQueueVars, implicitVars, explicitVars, freeListVars, hashVars,
                    scanVars, ringVars>>
  \/ /\ kind = "scan" /\ C!Next
     /\ UNCHANGED <<kind, subQueueVars, implicitVars, explicitVars, freeListVars, hashVars,
                    listVars, ringVars>>
  \/ /\ kind = "ring" /\ R!Next
     /\ UNCHANGED <<kind, subQueueVars, implicitVars, explicitVars, freeListVars, hashVars,
                    sharedVars, listVars, scanVars>>
Spec == Init /\ [][Next]_vars

Symm == Permutations(Consumer) \cup Permutations(QBlock)

(* ImplicitProducer: the entry that a consumer looks at is its block's.      *)
EntryFound == kind = "implicit" => I!EntryFound

(* ImplicitProducer: no block is given back twice, too early, or never.      *)
BlocksConserved == kind = "implicit" => I!BlocksConserved

(* ExplicitProducer: taking a block costs no other block its place in the    *)
(* index; concurrentqueue.h:1796, "there's guaranteed to be room since we're *)
(* conceptually removing the last block from it first".                      *)
GuaranteedRoom == kind = "explicit" => E!GuaranteedRoom

(* ExplicitProducer: the same, blocks and index slots agree, and the         *)
(* destructor destroys what is left, once.                                   *)
RingExact == GuaranteedRoom /\ (kind = "explicit" => E!RingExact)

(* FreeList: a block has one user, and none is lost.                         *)
FreeListExact == kind = "freeList" => F!IInv /\ F!OneUser /\ F!NothingLost

(* ProducerHash: a free slot is left, the count is right, and a thread has   *)
(* one producer of its own.                                                  *)
HashExact == kind = "hash" => H!RoomLeft /\ H!CountExact /\ H!OneProducer

(* ProducerList: a producer has one enqueuer, and stays in the list.         *)
ListExact == kind = "list" => P!IInv /\ P!OneEnqueuer /\ P!AllListed

(* ConsumerScan: a dequeue that comes back short has asked every producer    *)
(* that was listed at its call, and each appeared empty when it was asked.   *)
EveryoneAsked == kind = "scan" => C!IInv /\ C!EveryoneAsked

(* RaceLog: its inductive invariant, with buffers that go round several      *)
(* times and stale keys in the flushed key block.                            *)
LogRingInv == kind = "ring" => R!IInv
===========================================================================
