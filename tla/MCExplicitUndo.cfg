\* An enqueue of several items that fails after blocks were put into the index.
CONSTANTS
  Consumer = {c1, c2}
  Wrap = 64
  BLOCK_SIZE = 2
  MaxBulk = 3
  MaxItems = 5
  MaxOvercommit = 1
  Starts = {60}
  QBlock = {b1, b2, b3}
  NoBlock = NoBlock
  InitialSize = 2
  ImplicitItems = 5
  ImplicitSize = 2
  DeadItem = DeadItem
  LateFailures = TRUE
  PoolSize = 1
  MaxBlocks = 2
  MaxProducers = 3
  ScanItems = 1
  ScanBulk = 2
  Quota = 2
  ScanWrap = 2
  HThread = {h1, h2, h3}
  ThreadHash <- MCThreadHash
  HashSize = 2
  HashFailures = 1
  h1 = h1
  h2 = h2
  h3 = h3
  none = none
  Byte = {v1}
  None = None
  Zero = Zero
  Torn = Torn
SPECIFICATION Spec
SYMMETRY Symm
INVARIANT GuaranteedRoom
CHECK_DEADLOCK FALSE
