------------------------------ MODULE MCSync ------------------------------
(***************************************************************************)
(* The components by which threads wait for each other, on small           *)
(* instances.  Each behaviour is one component's: component says whose.    *)
(* The others stay as they were made, so that their properties may be      *)
(* stated of every state.                                                  *)
(***************************************************************************)
EXTENDS Barrier

CONSTANTS Producer, Consumer, Times,               \* BlockingQueue
          NumThreads, Factor, Reads,               \* ReadSync
          Depth, Agg, MaxValues, MaxCalls,         \* ReadBucket
          PoolWorker, Caller, MaxTasks,            \* ThreadPool
          MaxBulk, MaxItems                        \* BlockingConcurrentQueue

VARIABLES component,
          d_queue, waiters, qpc, done, got,
          notify_queues_, waiting, local_block_offset, rpc,
          calls, value_num, filled, completed_block_num, submitted_block_num,
          io_id, ioCpc, status, ioTasks, ioWpc, wtask,
          tasks, stop, asleep, wpc, task, cpc, enqueued, ran, dpc,
          m_count, m_sema, items, other, signalled, ppc, arg, ccpc, mode, want, held

Q == INSTANCE BlockingQueue WITH pc <- qpc
R == INSTANCE ReadSync WITH pc <- rpc
B == INSTANCE ReadBucket WITH cpc <- ioCpc, tasks <- ioTasks, wpc <- ioWpc
P == INSTANCE ThreadPool WITH Worker <- PoolWorker, waiters <- asleep
S == INSTANCE BlockingConcurrentQueue WITH enqueued <- signalled, cpc <- ccpc

ASSUME SyncAssumption ==
  /\ Q!BlockingQueueAssumption /\ R!ReadSyncAssumption /\ B!ReadBucketAssumption
  /\ P!ThreadPoolAssumption /\ S!BlockingConcurrentQueueAssumption

queueVars == <<d_queue, waiters, qpc, done, got>>
readVars == <<notify_queues_, waiting, local_block_offset, rpc>>
bucketVars == <<calls, value_num, filled, completed_block_num, submitted_block_num,
                io_id, ioCpc, status, ioTasks, ioWpc, wtask>>
poolVars == <<tasks, stop, asleep, wpc, task, cpc, enqueued, ran, dpc>>
semaVars == <<m_count, m_sema, items, other, signalled, ppc, arg, ccpc, mode, want, held>>
all == <<component, vars, queueVars, readVars, bucketVars, poolVars, semaVars>>

SyncInit ==
  /\ component \in {"barrier", "queue", "read", "bucket", "pool", "semaphore"}
  /\ Init /\ Q!Init /\ R!Init /\ B!Init /\ P!Init /\ S!Init

\* Consumers of a queue may wait for ever, and so may idle workers of a pool.
MayStop == component \in {"queue", "pool", "semaphore"} /\ UNCHANGED all

SyncNext ==
  \/ /\ component = "barrier" /\ Next
     /\ UNCHANGED <<component, queueVars, readVars, bucketVars, poolVars, semaVars>>
  \/ /\ component = "queue" /\ Q!Next
     /\ UNCHANGED <<component, vars, readVars, bucketVars, poolVars, semaVars>>
  \/ /\ component = "read" /\ R!Next
     /\ UNCHANGED <<component, vars, queueVars, bucketVars, poolVars, semaVars>>
  \/ /\ component = "bucket" /\ B!Next
     /\ UNCHANGED <<component, vars, queueVars, readVars, poolVars, semaVars>>
  \/ /\ component = "pool" /\ P!Next
     /\ UNCHANGED <<component, vars, queueVars, readVars, bucketVars, semaVars>>
  \/ /\ component = "semaphore" /\ S!Next
     /\ UNCHANGED <<component, vars, queueVars, readVars, bucketVars, poolVars>>
  \/ MayStop

SyncFairness ==
  /\ \A t \in Thread : WF_vars(component = "barrier" /\ (Arrive(t) \/ Recheck(t) \/ Return(t)))
  /\ \A p \in Producer : /\ WF_queueVars(component = "queue" /\ Q!Notify(p))
                         /\ WF_semaVars(component = "semaphore" /\ S!Produce(p))
  /\ \A c \in Consumer : /\ WF_queueVars(component = "queue" /\ Q!TestAndTake(c))
                         /\ WF_semaVars(component = "semaphore" /\ S!Consume(c))
  /\ \A t \in R!Tid : WF_readVars(component = "read" /\ (R!Call(t) \/ R!Step(t)))
  /\ WF_bucketVars(component = "bucket" /\ (B!Peek \/ B!Submit \/ B!Enqueue \/ B!JoinWorker))
  /\ \A w \in B!Worker : WF_bucketVars(component = "bucket" /\ B!WorkerStep(w))
  /\ \A w \in PoolWorker : WF_poolVars(component = "pool" /\ (P!Test(w) \/ P!Run(w)))
  /\ \A c \in Caller : WF_poolVars(component = "pool" /\ P!Notify(c))
  /\ WF_poolVars(component = "pool" /\ (P!NotifyStop \/ P!Join))

SyncSpec == SyncInit /\ [][SyncNext]_all /\ SyncFairness

(* BlockingQueue: each item comes out once, in order; and a sleeping         *)
(* consumer has a wakeup coming.                                            *)
QueueExact == Q!TypeOK /\ Q!FifoOnce /\ Q!NoLostWakeup

(* BlockingQueue: a queue that is waited on does not stay non-empty.        *)
ItemTaken == Q!ItemTaken

(* ReadSync: the tokens of the paced reads are neither lost nor made.       *)
TokensConserved == R!IInv

(* ReadSync: every paced read returns.                                      *)
ReadReturns == R!ReadReturns

(* ReadBucket: no two blocks in flight overlap, and when a bucket is read    *)
(* the buffer is complete and no worker writes to it any more.              *)
BucketExact == B!IInv /\ B!BucketComplete /\ B!BlocksDisjoint

(* ReadBucket: the reading of a bucket ends, and so does the destructor.    *)
BucketReturns == B!CallReturns /\ B!StopReturns

(* ThreadPool: each task is queued, run or done, once, and none is left by   *)
(* the destructor.                                                          *)
TasksRun == P!IInv /\ P!TasksRun

(* ThreadPool: queued tasks are run, and the destructor returns.            *)
PoolEnds == P!AllEnd

(* BlockingConcurrentQueue: no wake-up too many or too few, and an item for *)
(* each permit.                                                             *)
PermitsExact == S!IInv

(* BlockingConcurrentQueue: the two counters are one counting semaphore.    *)
ImplementsSemaphore == S!ImplementsSemaphore

(* BlockingConcurrentQueue: calls return, and no thread sleeps over an item.*)
DequeueReturns == S!CallReturns /\ S!NoSleepOverItem
===========================================================================
