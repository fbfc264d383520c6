\* Thread 0 counts only itself.
CONSTANTS
  NumThreads = 2
  BucketNum = 5
  Keep = 1
  Recycle = 2
  Calls = 2
  Null = Null
SPECIFICATION Spec
INVARIANT LateVisitIntact
