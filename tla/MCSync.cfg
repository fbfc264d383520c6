\* Four threads at the barrier, three rounds: a fast one can lap a slow sleeper.
\* Two producers and two consumers of each queue; two workers and callers of the
\* pool; two blocks of two values in flight, in up to four blocks a bucket.
CONSTANTS
  Thread = {t1, t2, t3, t4}
  MaxRound = 3
  Producer = {p1, p2}
  Consumer = {c1, c2}
  Times = 2
  NumThreads = 4
  Factor = 2
  Reads = 6
  Depth = 2
  Agg = 2
  MaxValues = 7
  MaxCalls = 2
  PoolWorker = {w1, w2}
  Caller = {a1, a2}
  MaxTasks = 2
  MaxBulk = 2
  MaxItems = 3
SPECIFICATION SyncSpec
INVARIANTS BarrierInv Lockstep QueueExact TokensConserved BucketExact TasksRun PermitsExact
PROPERTIES ImplementsBarrier WaitReturns ItemTaken ReadReturns BucketReturns PoolEnds
  ImplementsSemaphore DequeueReturns
