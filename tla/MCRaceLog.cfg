\* Two neighbouring buckets of one file, a flush worker for each.  No symmetry: the
\* run checks liveness too.
CONSTANTS
  t1 = t1
  t2 = t2
  v1 = v1
  v2 = v2
  Thread = {t1, t2}
  Value = {v1, v2}
  FileNum = 1
  BucketsPerFile = 2
  KeysPerBucket = 1
  BucketCap = 2
  VBuf = 2
  KBuf = 2
  FlushWorkers = 2
  None = None
  Zero = Zero
  Torn = Torn
SPECIFICATION FairSpec
INVARIANTS RecoverableIntact IInv
PROPERTIES CommittedStays ImplementsDurableLog LogProgress
