\* Two consumers of a sub-queue whose indices wrap.  An explicit producer takes an
\* empty block again while another is in use (six items in blocks of two), its
\* index of two slots goes round, and grows.  Three users of the free list
\* and of the list of producers; two threads with the same hash and one next to
\* them.  One bucket of the log goes round its buffers.
CONSTANTS
  Consumer = {c1, c2}
  Wrap = 64
  BLOCK_SIZE = 2
  MaxBulk = 3
  MaxItems = 6
  MaxOvercommit = 1
  Starts = {60}
  QBlock = {b1, b2, b3}
  NoBlock = NoBlock
  InitialSize = 2
  ImplicitItems = 4
  ImplicitSize = 1
  DeadItem = DeadItem
  LateFailures = FALSE
  PoolSize = 1
  MaxBlocks = 2
  MaxProducers = 3
  ScanItems = 1
  ScanBulk = 2
  Quota = 2
  ScanWrap = 2
  HThread = {h1, h2, h3}
  ThreadHash <- MCThreadHash
  HashSize = 2
  HashFailures = 1
  h1 = h1
  h2 = h2
  h3 = h3
  none = none
  Byte = {v1}
  None = None
  Zero = Zero
  Torn = Torn
SPECIFICATION Spec
SYMMETRY Symm
INVARIANTS CountsSettle EntryFound BlocksConserved RingExact FreeListExact HashExact ListExact
  EveryoneAsked LogRingInv
PROPERTY ImplementsSubQueue
CHECK_DEADLOCK FALSE
