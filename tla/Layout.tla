------------------------------- MODULE Layout -------------------------------
(***************************************************************************)
(* Where a record lives.  A key belongs to the bucket named by its high     *)
(* bits; a bucket owns a fixed region of one key file and the same region   *)
(* of one value file, and the i-th record of a bucket is the i-th slot of   *)
(* both regions.  A slot is 8 bytes in a key file, VALUE_SIZE bytes in a    *)
(* value file, so offsets are counted in slots here.                        *)
(***************************************************************************)
EXTENDS Integers

CONSTANTS
  FileNum,         \* KEY_FILE_NUM = VAL_FILE_NUM
  BucketsPerFile,  \* BUCKET_NUM_PER_FILE
  KeysPerBucket,   \* 2^(64 - BUCKET_DIGITS): keys that share a bucket
  BucketCap,       \* MAX_KEY_BUCKET_SIZE = MAX_VAL_BUCKET_SIZE, in slots
  VBuf,            \* TMP_VALUE_BUFFER_SIZE: values buffered per bucket
  KBuf             \* TMP_KEY_BUFFER_SIZE: keys buffered per bucket

ASSUME LayoutAssumption ==
  /\ FileNum \in Nat \ {0}
  /\ BucketsPerFile \in Nat \ {0}
  /\ KeysPerBucket \in Nat \ {0}
  /\ BucketCap \in Nat \ {0}
  /\ VBuf \in Nat \ {0}
  /\ KBuf \in Nat \ {0}
  \* The region of a bucket is a whole number of buffers: 69632 = 4 * 17408 =
  \* 512 * 136.  Otherwise the last flush of a full bucket leaves its region.
  /\ BucketCap % VBuf = 0
  /\ BucketCap % KBuf = 0

BucketNum == FileNum * BucketsPerFile

Bucket == 0 .. BucketNum - 1

\* A key is the 8-byte string read as a big-endian integer (bswap_64), so the
\* order of the integers is the byte order of the strings.
Key == 0 .. BucketNum * KeysPerBucket - 1

BucketOf(k) == k \div KeysPerBucket

Slots == (0 .. FileNum - 1) \X (0 .. BucketsPerFile * BucketCap - 1)

\* File and offset of the i-th record of bucket b.
Slot(b, i) == << b \div BucketsPerFile, BucketCap * (b % BucketsPerFile) + i >>

\* The first record of the buffer-sized block that record n falls into.
BlockBase(n, size) == (n \div size) * size

(***************************************************************************)
(* pwrite of len consecutive slots of bucket b from slot base on, taken     *)
(* from buf: the log with exactly those slots replaced.                     *)
(***************************************************************************)
Pwrite(log, b, base, len, buf) ==
  [s \in Slots |->
     IF \E j \in 0 .. len - 1 : s = Slot(b, base + j)
     THEN buf[CHOOSE j \in 0 .. len - 1 : s = Slot(b, base + j)]
     ELSE log[s]]
=============================================================================
