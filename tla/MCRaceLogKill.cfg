\* A kill inside the first Open makes every later Open fault.
CONSTANTS
  t1 = t1
  t2 = t2
  v1 = v1
  v2 = v2
  Thread = {t1, t2}
  Value = {v1, v2}
  FileNum = 1
  BucketsPerFile = 2
  KeysPerBucket = 1
  BucketCap = 2
  VBuf = 2
  KBuf = 2
  FlushWorkers = 1
  None = None
  Zero = Zero
  Torn = Torn
SPECIFICATION Spec
INVARIANT OpenSurvivesKill
