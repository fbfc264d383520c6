\* serialize writes a table from which something was erased.
CONSTANTS
  Thread = {t1}
  Value = {v1, v2}
  FileNum = 1
  BucketsPerFile = 1
  KeysPerBucket = 1
  BucketCap = 3
  VBuf = 3
  KBuf = 3
  FlushWorkers = 1
  OffsetSpan = 8
  None = None
  Zero = Zero
  Torn = Torn
  NotFound = NotFound
  Proc = {p1}
  b1 = b1
  b2 = b2
  EKey <- MCKey
  ev1 = ev1
  ev2 = ev2
  EValue = {ev1, ev2}
  StrHash <- MCStrHash
  Size <- MCSize
  kMaxKeyLen = 2
  kMaxDoorCnt = 2
  kSingleFileSize = 3
  MaxFiles = 2
  MaxKills = 1
  ShortWrites = FALSE
  null = null
  TValue = {w1, w2}
  Map = {m1, m2}
  k1 = k1
  k2 = k2
  k3 = k3
  k4 = k4
  MKey = {k1, k2, k3, k4}
  MValue = {x}
  AssignToEmptied = FALSE
  SaveErased = TRUE
  Empty = Empty
  Erased = Erased
SPECIFICATION StoresSpec
SYMMETRY Symm
INVARIANT SavedKeysFound
