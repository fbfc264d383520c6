\* Two visitors, two traversals, five buckets, two cached and two rolling buffers;
\* the destructor may come after either.  Thread 0 may count the threads too early;
\* the wrong count can also deadlock the visitors with the coordinator.
CONSTANTS
  NumThreads = 2
  BucketNum = 5
  Keep = 2
  Recycle = 2
  Calls = 2
  Null = Null
SPECIFICATION FairSpec
INVARIANTS VisitIntact OwnedOnce
PROPERTY PipelineEnds
CHECK_DEADLOCK FALSE
