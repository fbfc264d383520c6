\* A bucket with more records than value_offset_ can number.
CONSTANTS
  Thread = {t1}
  Value = {v1, v2}
  FileNum = 1
  BucketsPerFile = 1
  KeysPerBucket = 3
  BucketCap = 4
  VBuf = 2
  KBuf = 2
  FlushWorkers = 1
  OffsetSpan = 3
  None = None
  Zero = Zero
  Torn = Torn
  NotFound = NotFound
SPECIFICATION SSpec
INVARIANT ReadLatestFullBucket
