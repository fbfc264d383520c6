---------------------------- MODULE StoresProofs ----------------------------
(***************************************************************************)
(* Proofs about the components that keep data.  First the log, for every    *)
(* number of threads, buckets, files and flush workers and every buffer      *)
(* size: types, the inductive invariant, and the refinement of DurableLog.   *)
(* Then the engine's readers: sort puts a bucket's entries in order, the     *)
(* halving search finds the first of a run of equal keys, and so Read and    *)
(* Range show the newest counted Write of every key.  Then the sample        *)
(* engine, of which ExampleProofs has the proofs.                           *)
(***************************************************************************)
EXTENDS MCStores, RaceLogInv, FiniteSetTheorems, SequenceTheorems, Induction

X == INSTANCE ExampleProofs WITH
       Key <- EKey, Value <- EValue, Byte <- {b1, b2}, Overlap <- FALSE,
       files <- dataFiles, pc <- epc

-----------------------------------------------------------------------------
(* The layout of the files: division with remainder, the slots of different *)
(* records, the blocks that fill a bucket's region, and what a pwrite        *)
(* leaves in a log.                                                        *)

\* Division by d, from the definition of \div and %.
LEMMA DivMod ==
  ASSUME NEW n \in Nat, NEW d \in Nat \ {0}
  PROVE  /\ n \div d \in Nat
         /\ n % d \in 0 .. d - 1
         /\ n = d * (n \div d) + (n % d)
  OBVIOUS

\* Quotient and remainder are unique.
LEMMA DivModUnique ==
  ASSUME NEW d \in Nat \ {0}, NEW q1 \in Nat, NEW q2 \in Nat,
         NEW r1 \in 0 .. d - 1, NEW r2 \in 0 .. d - 1,
         d * q1 + r1 = d * q2 + r2
  PROVE  q1 = q2 /\ r1 = r2
<1>1. ~ q1 < q2
  <2> SUFFICES ASSUME q1 < q2 PROVE FALSE
    OBVIOUS
  <2>1. d * (q2 - q1) >= d
    OBVIOUS
  <2> QED
    BY <2>1
<1>2. ~ q2 < q1
  <2> SUFFICES ASSUME q2 < q1 PROVE FALSE
    OBVIOUS
  <2>1. d * (q1 - q2) >= d
    OBVIOUS
  <2> QED
    BY <2>1
<1> QED
  BY <1>1, <1>2

\* Whatever has the form of a quotient and a remainder is one.
LEMMA Remainder ==
  ASSUME NEW m \in Nat, NEW d \in Nat \ {0}, NEW q \in Nat, NEW r \in 0 .. d - 1,
         m = d * q + r
  PROVE  m \div d = q /\ m % d = r
<1>1. /\ m \div d \in Nat /\ m % d \in 0 .. d - 1
      /\ d * (m \div d) + (m % d) = d * q + r
  BY DivMod
<1> QED
  BY <1>1, DivModUnique

-----------------------------------------------------------------------------
(* Blocks.                                                                  *)

\* The block of n starts at a multiple of the size, n is in it.
LEMMA BlockBaseBounds ==
  ASSUME NEW n \in Nat, NEW d \in Nat \ {0}
  PROVE  /\ BlockBase(n, d) \in Nat
         /\ n = BlockBase(n, d) + (n % d)
         /\ BlockBase(n, d) <= n
         /\ n < BlockBase(n, d) + d
  BY DivMod DEF BlockBase

\* The records of one block: their base, and their place in the buffer.
LEMMA InBlock ==
  ASSUME NEW n \in Nat, NEW d \in Nat \ {0}, NEW j \in 0 .. d - 1
  PROVE  /\ BlockBase(BlockBase(n, d) + j, d) = BlockBase(n, d)
         /\ (BlockBase(n, d) + j) % d = j
<1> DEFINE m == BlockBase(n, d) + j
<1>1. m \in Nat /\ BlockBase(n, d) = d * (n \div d)
  BY DivMod DEF BlockBase
<1>2. n \div d \in Nat /\ m = d * (n \div d) + j
  BY <1>1, DivMod
<1>3. m \div d = n \div d /\ m % d = j
  BY <1>1, <1>2, Remainder
<1> QED
  BY <1>3 DEF BlockBase

\* The same for a record given by its number.
LEMMA SameBlock ==
  ASSUME NEW n \in Nat, NEW d \in Nat \ {0}, NEW i \in Nat,
         BlockBase(n, d) <= i, i < BlockBase(n, d) + d
  PROVE  /\ i % d = i - BlockBase(n, d)
         /\ BlockBase(i, d) = BlockBase(n, d)
<1> DEFINE j == i - BlockBase(n, d)
<1>0. BlockBase(n, d) \in Nat
  BY BlockBaseBounds
<1>1. j \in 0 .. d - 1 /\ i = BlockBase(n, d) + j
  BY <1>0
<1>2. /\ BlockBase(BlockBase(n, d) + j, d) = BlockBase(n, d)
      /\ (BlockBase(n, d) + j) % d = j
  <2> HIDE DEF j
  <2> QED
    BY <1>1, InBlock
<1> QED
  BY <1>1, <1>2

\* The next record completes the block or stays in it.
LEMMA NextRecord ==
  ASSUME NEW n \in Nat, NEW d \in Nat \ {0}
  PROVE  /\ (n + 1) % d = 0 => /\ BlockBase(n + 1, d) = n + 1
                               /\ BlockBase(n, d) = n - (d - 1)
                               /\ n % d = d - 1
         /\ (n + 1) % d # 0 => /\ BlockBase(n + 1, d) = BlockBase(n, d)
                               /\ (n + 1) % d = (n % d) + 1
<1>01. BlockBase(n, d) \in Nat /\ n = BlockBase(n, d) + (n % d)
  BY BlockBaseBounds
<1>02. n % d \in 0 .. d - 1
  BY DivMod
<1>1. /\ BlockBase(n, d) \in Nat /\ n % d \in 0 .. d - 1
      /\ n = BlockBase(n, d) + (n % d)
      /\ n + 1 \in Nat
  BY <1>01, <1>02
<1>2. CASE n + 1 < BlockBase(n, d) + d
  <2>1. /\ (n + 1) % d = n + 1 - BlockBase(n, d)
        /\ BlockBase(n + 1, d) = BlockBase(n, d)
    BY <1>1, <1>2, SameBlock
  <2> QED
    BY <2>1, <1>1
<1>3. CASE n + 1 = BlockBase(n, d) + d
  <2>1. PICK p \in Nat : p = n \div d
    BY DivMod
  <2>2. PICK q \in Nat : q = p + 1
    BY <2>1
  <2>3. n + 1 = p * d + d
    BY <1>3, <2>1 DEF BlockBase
  <2>4. n + 1 = d * q + 0 /\ 0 \in 0 .. d - 1
    BY <2>2, <2>3
  <2>5. (n + 1) % d = 0 /\ (n + 1) \div d = q
    BY <2>4, <1>1, Remainder
  <2>6. BlockBase(n + 1, d) = q * d /\ q * d = n + 1
    BY <2>5, <2>4 DEF BlockBase
  <2>7. n % d = d - 1
    BY <1>1, <1>3
  <2> QED
    BY <2>5, <2>6, <2>7, <1>1, <1>3
<1> QED
  BY <1>1, <1>2, <1>3

\* A region that is a whole number of blocks holds the whole block of each record.
LEMMA BlockFits ==
  ASSUME NEW d \in Nat \ {0}, NEW cap \in Nat, cap % d = 0, NEW n \in Nat, n < cap
  PROVE  BlockBase(n, d) + d <= cap
<1>1. cap = d * (cap \div d) /\ cap \div d \in Nat
  BY DivMod
<1>2. n \div d \in Nat /\ BlockBase(n, d) = d * (n \div d)
  BY DivMod DEF BlockBase
<1>3. n \div d < cap \div d
  <2> SUFFICES ASSUME cap \div d <= n \div d PROVE FALSE
    BY <1>1, <1>2
  <2>1. d * (cap \div d) <= d * (n \div d)
    BY <1>1, <1>2
  <2>2. cap <= BlockBase(n, d)
    BY <2>1, <1>1, <1>2
  <2>3. BlockBase(n, d) <= n /\ BlockBase(n, d) \in Nat
    BY BlockBaseBounds
  <2> QED
    BY <2>2, <2>3
<1>4. d * (n \div d) + d <= d * (cap \div d)
  BY <1>1, <1>2, <1>3
<1> QED
  BY <1>1, <1>2, <1>4

-----------------------------------------------------------------------------
(* Slots.                                                                   *)

\* Buckets are numbered by file and place in the file.
LEMMA BucketPlace ==
  ASSUME NEW b \in Bucket
  PROVE  /\ b \in Nat
         /\ b \div BucketsPerFile \in 0 .. FileNum - 1
         /\ b % BucketsPerFile \in 0 .. BucketsPerFile - 1
         /\ b = BucketsPerFile * (b \div BucketsPerFile) + (b % BucketsPerFile)
<1>1. /\ BucketsPerFile \in Nat \ {0} /\ FileNum \in Nat \ {0}
      /\ b \in Nat /\ b < FileNum * BucketsPerFile
  BY LayoutAssumption DEF Bucket, BucketNum
<1>2. /\ b \div BucketsPerFile \in Nat
      /\ b % BucketsPerFile \in 0 .. BucketsPerFile - 1
      /\ b = BucketsPerFile * (b \div BucketsPerFile) + (b % BucketsPerFile)
  BY <1>1, DivMod
<1>3. b \div BucketsPerFile < FileNum
  <2> SUFFICES ASSUME FileNum <= b \div BucketsPerFile PROVE FALSE
    BY <1>1, <1>2
  <2>1. BucketsPerFile * FileNum <= BucketsPerFile * (b \div BucketsPerFile)
    BY <1>1, <1>2
  <2> QED
    BY <2>1, <1>1, <1>2
<1> QED
  BY <1>1, <1>2, <1>3

\* A key belongs to a bucket.
LEMMA BucketOfKey ==
  ASSUME NEW k \in Key
  PROVE  BucketOf(k) \in Bucket
<1>1. /\ KeysPerBucket \in Nat \ {0} /\ BucketNum \in Nat
      /\ k \in Nat /\ k < BucketNum * KeysPerBucket
  BY LayoutAssumption DEF Key, BucketNum
<1>2. /\ k \div KeysPerBucket \in Nat
      /\ k % KeysPerBucket \in 0 .. KeysPerBucket - 1
      /\ k = KeysPerBucket * (k \div KeysPerBucket) + (k % KeysPerBucket)
  BY <1>1, DivMod
<1>3. k \div KeysPerBucket < BucketNum
  <2> SUFFICES ASSUME BucketNum <= k \div KeysPerBucket PROVE FALSE
    BY <1>1, <1>2
  <2>1. KeysPerBucket * BucketNum <= KeysPerBucket * (k \div KeysPerBucket)
    BY <1>1, <1>2
  <2> QED
    BY <2>1, <1>1, <1>2
<1> QED
  BY <1>1, <1>2, <1>3 DEF Bucket, BucketOf

\* The region of a bucket lies in its file.
LEMMA SlotType ==
  ASSUME NEW b \in Bucket, NEW i \in 0 .. BucketCap - 1
  PROVE  Slot(b, i) \in Slots
<1> DEFINE p == b % BucketsPerFile
<1>1. /\ BucketCap \in Nat \ {0} /\ BucketsPerFile \in Nat \ {0}
      /\ p \in 0 .. BucketsPerFile - 1
      /\ b \div BucketsPerFile \in 0 .. FileNum - 1
  BY LayoutAssumption, BucketPlace
<1> HIDE DEF p
<1>2. BucketCap * p <= BucketCap * (BucketsPerFile - 1) /\ BucketCap * p \in Nat
  BY <1>1
<1>3. BucketCap * (BucketsPerFile - 1) + BucketCap = BucketsPerFile * BucketCap
  BY <1>1
<1>4. BucketCap * p + i \in 0 .. BucketsPerFile * BucketCap - 1
  BY <1>1, <1>2, <1>3
<1> QED
  BY <1>1, <1>4 DEF Slot, Slots, p

\* Regions do not overlap: different records have different slots.
LEMMA SlotInjective ==
  ASSUME NEW b \in Bucket, NEW c \in Bucket,
         NEW i \in 0 .. BucketCap - 1, NEW j \in 0 .. BucketCap - 1,
         Slot(b, i) = Slot(c, j)
  PROVE  b = c /\ i = j
<1>1. BucketCap \in Nat \ {0}
  BY LayoutAssumption
<1>2. PICK p \in Nat, q \in Nat : p = b % BucketsPerFile /\ q = c % BucketsPerFile
  BY BucketPlace
<1>3. /\ b \div BucketsPerFile = c \div BucketsPerFile
      /\ BucketCap * p + i = BucketCap * q + j
  BY <1>2 DEF Slot
<1>4. p = q /\ i = j
  BY <1>1, <1>3, DivModUnique
<1>5. /\ b = BucketsPerFile * (b \div BucketsPerFile) + (b % BucketsPerFile)
      /\ c = BucketsPerFile * (c \div BucketsPerFile) + (c % BucketsPerFile)
  BY BucketPlace
<1>6. b = c
  BY <1>2, <1>3, <1>4, <1>5
<1> QED
  BY <1>4, <1>6

-----------------------------------------------------------------------------
(* What a pwrite does to a log.                                             *)

\* It stays a log.
LEMMA PwriteType ==
  ASSUME NEW S, NEW log \in [Slots -> S], NEW b, NEW base, NEW len \in Nat,
         NEW buf, \A j \in 0 .. len - 1 : buf[j] \in S
  PROVE  Pwrite(log, b, base, len, buf) \in [Slots -> S]
<1> SUFFICES ASSUME NEW s \in Slots
             PROVE  Pwrite(log, b, base, len, buf)[s] \in S
  BY DEF Pwrite
<1>1. CASE \E j \in 0 .. len - 1 : s = Slot(b, base + j)
  <2>1. (CHOOSE j \in 0 .. len - 1 : s = Slot(b, base + j)) \in 0 .. len - 1
    BY <1>1
  <2> QED
    BY <2>1, <1>1 DEF Pwrite
<1>2. CASE ~ \E j \in 0 .. len - 1 : s = Slot(b, base + j)
  BY <1>2 DEF Pwrite
<1> QED
  BY <1>1, <1>2

\* The records of its range, which lies in the bucket's region, come from the buffer.
LEMMA PwriteInside ==
  ASSUME NEW log, NEW b \in Bucket, NEW base \in Nat, NEW len \in Nat, NEW buf,
         base + len <= BucketCap, NEW j \in 0 .. len - 1
  PROVE  Pwrite(log, b, base, len, buf)[Slot(b, base + j)] = buf[j]
<1> DEFINE m == CHOOSE m \in 0 .. len - 1 : Slot(b, base + j) = Slot(b, base + m)
<1>1. BucketCap \in Nat
  BY LayoutAssumption
<1>2. base + j \in 0 .. BucketCap - 1
  BY <1>1
<1>3. Slot(b, base + j) \in Slots
  BY <1>2, SlotType
<1>4. m \in 0 .. len - 1 /\ Slot(b, base + j) = Slot(b, base + m)
  OBVIOUS
<1> HIDE DEF m
<1>5. base + m \in 0 .. BucketCap - 1
  BY <1>1, <1>4
<1>6. m = j
  BY <1>2, <1>4, <1>5, SlotInjective
<1>7. Pwrite(log, b, base, len, buf)[Slot(b, base + j)] = buf[m]
  BY <1>3 DEF Pwrite, m
<1> QED
  BY <1>6, <1>7

\* Every other record, of this bucket or another, stays as it was.
LEMMA PwriteOutside ==
  ASSUME NEW log, NEW b \in Bucket, NEW base \in Nat, NEW len \in Nat, NEW buf,
         base + len <= BucketCap,
         NEW c \in Bucket, NEW i \in 0 .. BucketCap - 1,
         c # b \/ i < base \/ i >= base + len
  PROVE  Pwrite(log, b, base, len, buf)[Slot(c, i)] = log[Slot(c, i)]
<1>1. BucketCap \in Nat /\ Slot(c, i) \in Slots
  BY LayoutAssumption, SlotType
<1>2. ASSUME NEW j \in 0 .. len - 1 PROVE Slot(c, i) # Slot(b, base + j)
  <2>1. base + j \in 0 .. BucketCap - 1
    BY <1>1
  <2>2. SUFFICES ASSUME Slot(c, i) = Slot(b, base + j) PROVE FALSE
    OBVIOUS
  <2>3. c = b /\ i = base + j
    BY <2>1, <2>2, SlotInjective
  <2> QED
    BY <2>3
<1> QED
  BY <1>1, <1>2 DEF Pwrite

-----------------------------------------------------------------------------
(* A log whose last, incomplete block is kept in a buffer.  This is how both  *)
(* the values and the keys of a bucket are stored, so each step of the engine *)
(* needs one fact here, used once for values and once for keys.              *)

\* Record i of bucket b, which has n records: in buf if it is in the block of
\* record n, in the log otherwise.
Buffered(log, buf, d, b, n, i) ==
  IF i >= BlockBase(n, d) THEN buf[i % d] ELSE log[Slot(b, i)]

\* The block of record n is in the log as it is in buf, up to record n.
Copied(log, buf, d, b, n) ==
  \A i \in BlockBase(n, d) .. n : log[Slot(b, i)] = buf[i % d]

\* The buffer place of the next record is not in use.
LEMMA FreePlace ==
  ASSUME NEW n \in Nat, NEW d \in Nat \ {0}, NEW i \in Nat, BlockBase(n, d) <= i, i < n
  PROVE  i % d \in 0 .. d - 1 /\ i % d # n % d
<1>1. BlockBase(n, d) \in Nat /\ n = BlockBase(n, d) + (n % d) /\ n < BlockBase(n, d) + d
  BY BlockBaseBounds
<1>2. i % d = i - BlockBase(n, d)
  BY <1>1, SameBlock
<1>3. n % d \in 0 .. d - 1 /\ i % d \in 0 .. d - 1
  BY DivMod
<1> QED
  BY <1>1, <1>2, <1>3

\* Writing the place of the next record disturbs no record.
LEMMA BufferedStore ==
  ASSUME NEW log, NEW buf, NEW new, NEW d \in Nat \ {0}, NEW b,
         NEW n \in Nat, NEW i \in 0 .. n - 1,
         \A j \in 0 .. d - 1 : j # n % d => new[j] = buf[j]
  PROVE  Buffered(log, new, d, b, n, i) = Buffered(log, buf, d, b, n, i)
<1>1. BlockBase(n, d) \in Nat
  BY BlockBaseBounds
<1>2. CASE BlockBase(n, d) <= i
  <2>1. i % d \in 0 .. d - 1 /\ i % d # n % d
    BY <1>2, FreePlace
  <2> QED
    BY <2>1 DEF Buffered
<1>3. CASE ~ BlockBase(n, d) <= i
  BY <1>1, <1>3 DEF Buffered
<1> QED
  BY <1>2, <1>3

\* Nor does any pwrite into the block that the buffer holds.
LEMMA BufferedPwrite ==
  ASSUME NEW log, NEW buf, NEW d \in Nat \ {0}, NEW b \in Bucket, NEW x,
         NEW n \in 0 .. BucketCap, NEW len \in Nat, BlockBase(n, d) + len <= BucketCap,
         NEW i \in 0 .. n - 1
  PROVE  Buffered(Pwrite(log, b, BlockBase(n, d), len, x), buf, d, b, n, i)
           = Buffered(log, buf, d, b, n, i)
<1>1. BlockBase(n, d) \in Nat /\ BucketCap \in Nat /\ i \in 0 .. BucketCap - 1
  BY BlockBaseBounds, LayoutAssumption
<1>2. CASE i < BlockBase(n, d)
  <2>1. Pwrite(log, b, BlockBase(n, d), len, x)[Slot(b, i)] = log[Slot(b, i)]
    BY <1>1, <1>2, PwriteOutside
  <2> QED
    BY <2>1, <1>1, <1>2 DEF Buffered
<1>3. CASE i >= BlockBase(n, d)
  BY <1>3 DEF Buffered
<1>4. i < BlockBase(n, d) \/ i >= BlockBase(n, d)
  <2>1. i \in Nat
    OBVIOUS
  <2> QED
    BY <2>1, <1>1
<1> QED
  BY <1>2, <1>3, <1>4

\* One record more: if it completes the block, the block must be in the log.
LEMMA BufferedNext ==
  ASSUME NEW log, NEW buf, NEW d \in Nat \ {0}, NEW b,
         NEW n \in Nat, (n + 1) % d = 0 => Copied(log, buf, d, b, n)
  PROVE  /\ Buffered(log, buf, d, b, n + 1, n) = buf[n % d]
         /\ \A i \in 0 .. n - 1 : Buffered(log, buf, d, b, n + 1, i)
                                    = Buffered(log, buf, d, b, n, i)
<1>1. BlockBase(n, d) \in Nat /\ BlockBase(n, d) <= n
  BY BlockBaseBounds
<1>2. CASE (n + 1) % d # 0
  <2>1. BlockBase(n + 1, d) = BlockBase(n, d)
    BY <1>2, NextRecord
  <2> QED
    BY <2>1, <1>1 DEF Buffered
<1>3. CASE (n + 1) % d = 0
  <2>1. BlockBase(n + 1, d) = n + 1
    BY <1>3, NextRecord
  <2>2. \A i \in 0 .. n : Buffered(log, buf, d, b, n + 1, i) = log[Slot(b, i)]
    BY <2>1 DEF Buffered
  <2>3. \A i \in 0 .. n : i >= BlockBase(n, d) => log[Slot(b, i)] = buf[i % d]
    BY <1>1, <1>3 DEF Copied
  <2> QED
    BY <2>2, <2>3, <1>1 DEF Buffered
<1> QED
  BY <1>2, <1>3

\* The buffer can be given up once its part of the last block is in the log.
LEMMA BufferedOff ==
  ASSUME NEW log, NEW buf, NEW d \in Nat \ {0}, NEW b, NEW n \in Nat,
         n % d # 0 => Copied(log, buf, d, b, n - 1), NEW i \in 0 .. n - 1
  PROVE  log[Slot(b, i)] = Buffered(log, buf, d, b, n, i)
<1>1. BlockBase(n, d) \in Nat /\ n = BlockBase(n, d) + (n % d) /\ n % d \in Nat
  <2>1. n % d \in 0 .. d - 1 /\ BlockBase(n, d) \in Nat /\ n = BlockBase(n, d) + (n % d)
    BY DivMod, BlockBaseBounds
  <2>2. n % d \in Nat
    BY <2>1
  <2> QED
    BY <2>1, <2>2
<1>2. CASE n % d = 0
  BY <1>1, <1>2 DEF Buffered
<1>3. CASE n % d # 0
  <2>1. PICK m \in Nat : n = m + 1
    OBVIOUS
  <2>2. BlockBase(m + 1, d) = BlockBase(m, d)
    BY <1>3, <2>1, NextRecord
  <2>3. BlockBase(n - 1, d) = BlockBase(n, d)
    BY <2>1, <2>2
  <2>4. i >= BlockBase(n, d) => log[Slot(b, i)] = buf[i % d]
    BY <1>1, <1>3, <2>3 DEF Copied
  <2> QED
    BY <2>4 DEF Buffered
<1> QED
  BY <1>2, <1>3

\* A pwrite from the buffer that reaches record n puts its block in the log.
LEMMA CopiedPwrite ==
  ASSUME NEW log, NEW buf, NEW d \in Nat \ {0}, NEW b \in Bucket, NEW n \in Nat,
         NEW len \in Nat, len > n % d, len <= d, BlockBase(n, d) + len <= BucketCap
  PROVE  Copied(Pwrite(log, b, BlockBase(n, d), len, buf), buf, d, b, n)
<1> DEFINE base == BlockBase(n, d)
<1>1. base \in Nat /\ n = base + (n % d) /\ n % d \in 0 .. d - 1
  BY BlockBaseBounds, DivMod
<1>0. base + len <= BucketCap
  OBVIOUS
<1> SUFFICES ASSUME NEW i \in base .. n
             PROVE  Pwrite(log, b, base, len, buf)[Slot(b, i)] = buf[i % d]
  BY DEF Copied
<1>2. i % d = i - base
  BY <1>1, SameBlock
<1> HIDE DEF base
<1>3. PICK j \in 0 .. len - 1 : i = base + j
  BY <1>1
<1>4. Pwrite(log, b, base, len, buf)[Slot(b, base + j)] = buf[j]
  BY <1>0, <1>1, PwriteInside
<1> QED
  BY <1>1, <1>2, <1>3, <1>4

-----------------------------------------------------------------------------
(* The parts of IInv about calls, locks and room, one after the other.      *)

\* A call past its entry has an argument, and with it a bucket.
LEMMA CallArg ==
  ASSUME TypeOK, CallInv, NEW t \in Thread, pc[t] # "idle"
  PROVE  /\ arg[t] \in Pair
         /\ arg[t].key \in Key /\ arg[t].value \in Value
         /\ BucketOfCall(t) \in Bucket
<1>1. arg[t] \in Pair
  BY DEF TypeOK, CallInv
<1>2. arg[t].key \in Key /\ arg[t].value \in Value
  BY <1>1 DEF Pair
<1> QED
  BY <1>1, <1>2, BucketOfKey DEF BucketOfCall

\* While a call is in flight its bucket has room for its record.
LEMMA RoomForCall ==
  ASSUME TypeOK, CallInv, RoomInv, NEW t \in Thread, pc[t] \notin {"idle", "return"}
  PROVE  cnt[BucketOfCall(t)] \in 0 .. BucketCap - 1
<1> DEFINE b == BucketOfCall(t)
<1>1. b \in Bucket /\ t \in InFlight(b)
  BY CallArg DEF InFlight
<1>2. IsFiniteSet(InFlight(b))
  BY RaceLogAssumption, FS_Subset DEF InFlight
<1>3. Cardinality(InFlight(b)) \in Nat /\ Cardinality(InFlight(b)) # 0
  BY <1>1, <1>2, FS_CardinalityType, FS_EmptySet
<1>4. cnt[b] + Cardinality(InFlight(b)) <= BucketCap /\ cnt[b] \in 0 .. BucketCap
  BY <1>1 DEF RoomInv, TypeOK
<1> QED
  BY <1>3, <1>4, LayoutAssumption

\* Positions in the buffers.
LEMMA Indices ==
  ASSUME NEW n \in Nat
  PROVE  n % VBuf \in 0 .. VBuf - 1 /\ n % KBuf \in 0 .. KBuf - 1
  BY LayoutAssumption, DivMod

-----------------------------------------------------------------------------
(* TypeOK.                                                                  *)

\* The blocks that are written have cells for values and keys.
LEMMA BlockTypes ==
  ASSUME TypeOK, NEW b \in Bucket
  PROVE  /\ \A j \in 0 .. VBuf - 1 : TornBlock(VBuf)[j] \in ValCell
         /\ \A j \in 0 .. KBuf - 1 : TornBlock(KBuf)[j] \in KeyCell
         /\ \A j \in 0 .. VBuf - 1 : valBuf[b][j] \in ValCell
         /\ \A j \in 0 .. KBuf - 1 : keyBuf[b][j] \in KeyCell
         /\ cnt[b] % VBuf \in Nat /\ cnt[b] % VBuf < VBuf
         /\ KeyFlushLen(b) \in {0, KBuf}
         /\ VBuf \in Nat /\ KBuf \in Nat
         /\ \A j \in 0 .. (cnt[b] % VBuf) - 1 :
              TornBlock(VBuf)[j] \in ValCell /\ valBuf[b][j] \in ValCell
<1>1. cnt[b] \in Nat
  BY LayoutAssumption DEF TypeOK
<1>5. VBuf \in Nat /\ KBuf \in Nat
  BY LayoutAssumption
<1>2. cnt[b] % VBuf \in Nat /\ cnt[b] % VBuf < VBuf
  <2>1. cnt[b] % VBuf \in 0 .. VBuf - 1
    BY <1>1, Indices
  <2> QED
    BY <2>1, <1>5
<1>3. /\ \A j \in 0 .. VBuf - 1 : TornBlock(VBuf)[j] \in ValCell
      /\ \A j \in 0 .. KBuf - 1 : TornBlock(KBuf)[j] \in KeyCell
  BY DEF TornBlock, ValCell, KeyCell
<1>4. /\ \A j \in 0 .. VBuf - 1 : valBuf[b][j] \in ValCell
      /\ \A j \in 0 .. KBuf - 1 : keyBuf[b][j] \in KeyCell
  BY DEF TypeOK
<1>6. KeyFlushLen(b) \in {0, KBuf}
  BY DEF KeyFlushLen
<1>7. \A j \in 0 .. (cnt[b] % VBuf) - 1 : j \in 0 .. VBuf - 1
  <2> DEFINE r == cnt[b] % VBuf
  <2> HIDE DEF r
  <2>1. r \in Nat /\ r < VBuf
    BY <1>2 DEF r
  <2>2. \A j \in 0 .. r - 1 : j \in 0 .. VBuf - 1
    BY <2>1, <1>5
  <2> QED
    BY <2>2 DEF r
<1>8. \A j \in 0 .. (cnt[b] % VBuf) - 1 :
        TornBlock(VBuf)[j] \in ValCell /\ valBuf[b][j] \in ValCell
  BY <1>3, <1>4, <1>7
<1> QED
  BY <1>2, <1>3, <1>4, <1>5, <1>6, <1>8

LEMMA TypeInit ==
  ASSUME Init
  PROVE  TypeOK
<1>1. cnt \in [Bucket -> 0 .. BucketCap]
  BY LayoutAssumption DEF Init
<1>2. valBuf \in [Bucket -> [0 .. VBuf - 1 -> ValCell]]
  BY DEF Init, ZeroValBuf, ValCell
<1>3. keyBuf \in [Bucket -> [0 .. KBuf - 1 -> KeyCell]]
  BY DEF Init, ZeroKeyBuf, KeyCell
<1>4. valLog \in [Slots -> ValCell] /\ keyLog \in [Slots -> KeyCell]
  BY DEF Init, ValCell, KeyCell
<1>5. /\ mode \in Modes /\ closing \in BOOLEAN
      /\ flushed \in [Bucket -> FlushStages]
      /\ holder \in [Bucket -> Thread \cup {None}]
      /\ pc \in [Thread -> PCs]
      /\ arg \in [Thread -> Pair \cup {None}]
  BY DEF Init, Modes, FlushStages, PCs
<1> QED
  BY <1>1, <1>2, <1>3, <1>4, <1>5 DEF Init, TypeOK, FileStates

\* The steps of Write keep the type.
LEMMA TypeWrite ==
  ASSUME TypeOK, CallInv, RoomInv, NEW t \in Thread, WriteCall(t) \/ WriteSteps(t)
  PROVE  TypeOK'
<1> DEFINE b == BucketOfCall(t)
<1> USE DEF Step, files, bufs, logs, PCs
<1>1. CASE WriteCall(t)
  BY <1>1 DEF WriteCall, TypeOK
<1>0. ASSUME pc[t] \notin {"idle", "return"}
      PROVE  /\ b \in Bucket /\ arg[t].value \in Value /\ arg[t].key \in Key
             /\ cnt[b] \in 0 .. BucketCap - 1
             /\ cnt[b] % VBuf \in 0 .. VBuf - 1 /\ cnt[b] % KBuf \in 0 .. KBuf - 1
  <2>1. /\ b \in Bucket /\ arg[t].value \in Value /\ arg[t].key \in Key
        /\ cnt[b] \in 0 .. BucketCap - 1
    BY <1>0, CallArg, RoomForCall
  <2>2. cnt[b] \in Nat
    BY <2>1, LayoutAssumption
  <2>3. cnt[b] % VBuf \in 0 .. VBuf - 1 /\ cnt[b] % KBuf \in 0 .. KBuf - 1
    BY <2>2, Indices
  <2> QED
    BY <2>1, <2>3
<1>2. CASE BeginCopy(t)
  BY <1>2, <1>0 DEF BeginCopy, TypeOK, ValCell
<1>3. CASE EndCopy(t)
  BY <1>3, <1>0 DEF EndCopy, TypeOK, ValCell
<1>4. CASE BeginValueWrite(t)
  <2>1. valLog' \in [Slots -> ValCell]
    BY <1>4, <1>0, BlockTypes, PwriteType DEF BeginValueWrite, TypeOK
  <2> QED
    BY <2>1, <1>4 DEF BeginValueWrite, TypeOK
<1>5. CASE EndValueWrite(t)
  <2>1. valLog' \in [Slots -> ValCell]
    BY <1>5, <1>0, BlockTypes, PwriteType DEF EndValueWrite, TypeOK
  <2> QED
    BY <2>1, <1>5 DEF EndValueWrite, TypeOK
<1>6. CASE StoreKey(t)
  BY <1>6, <1>0 DEF StoreKey, TypeOK, KeyCell
<1>7. CASE BeginKeyWrite(t)
  <2>1. keyLog' \in [Slots -> KeyCell]
    BY <1>7, <1>0, BlockTypes, PwriteType DEF BeginKeyWrite, TypeOK
  <2> QED
    BY <2>1, <1>7 DEF BeginKeyWrite, TypeOK
<1>8. CASE EndKeyWrite(t)
  <2>1. keyLog' \in [Slots -> KeyCell]
    BY <1>8, <1>0, BlockTypes, PwriteType DEF EndKeyWrite, TypeOK
  <2> QED
    BY <2>1, <1>8 DEF EndKeyWrite, TypeOK
<1>9. CASE Publish(t)
  <2>1. b \in Bucket /\ cnt[b] + 1 \in 0 .. BucketCap
    BY <1>9, <1>0, LayoutAssumption DEF Publish
  <2> QED
    BY <2>1, <1>9 DEF Publish, TypeOK
<1>10. CASE Return(t)
  BY <1>10 DEF Return, TypeOK
<1> QED
  BY <1>1, <1>2, <1>3, <1>4, <1>5, <1>6, <1>7, <1>8, <1>9, <1>10 DEF WriteSteps

\* So do the steps of the flush workers.
LEMMA TypeFlush ==
  ASSUME TypeOK, NEW b \in Bucket, FlushSteps(b)
  PROVE  TypeOK'
<1> USE DEF FlushStep, files, bufs, calls
<1>1. flushed' \in [Bucket -> FlushStages]
  BY DEF FlushSteps, FlushValueBegin, FlushValueEnd, FlushKeyBegin, FlushKeyEnd, FlushStages, TypeOK
<1>2. CASE FlushValueBegin(b)
  <2>1. valLog' \in [Slots -> ValCell]
    BY <1>2, BlockTypes, PwriteType DEF FlushValueBegin, TypeOK
  <2> QED
    BY <2>1, <1>1, <1>2 DEF FlushValueBegin, TypeOK
<1>3. CASE FlushValueEnd(b)
  <2>1. valLog' \in [Slots -> ValCell]
    BY <1>3, BlockTypes, PwriteType DEF FlushValueEnd, TypeOK
  <2> QED
    BY <2>1, <1>1, <1>3 DEF FlushValueEnd, TypeOK
<1>4. CASE FlushKeyBegin(b)
  <2>1. keyLog' \in [Slots -> KeyCell]
    <3>1. KeyFlushLen(b) \in {0, KBuf} /\ KBuf \in Nat
      BY BlockTypes
    <3>2. PICK len \in Nat : len = KeyFlushLen(b) /\ len <= KBuf
      BY <3>1
    <3>3. \A j \in 0 .. len - 1 : TornBlock(KBuf)[j] \in KeyCell
      BY <3>1, <3>2, BlockTypes
    <3>4. Pwrite(keyLog, b, BlockBase(cnt[b], KBuf), len, TornBlock(KBuf)) \in [Slots -> KeyCell]
      BY <3>3, PwriteType DEF TypeOK
    <3> QED
      BY <3>2, <3>4, <1>4 DEF FlushKeyBegin
  <2> QED
    BY <2>1, <1>1, <1>4 DEF FlushKeyBegin, TypeOK
<1>5. CASE FlushKeyEnd(b)
  <2>1. keyLog' \in [Slots -> KeyCell]
    <3>1. KeyFlushLen(b) \in {0, KBuf} /\ KBuf \in Nat
      BY BlockTypes
    <3>2. PICK len \in Nat : len = KeyFlushLen(b) /\ len <= KBuf
      BY <3>1
    <3>3. \A j \in 0 .. len - 1 : keyBuf[b][j] \in KeyCell
      BY <3>1, <3>2, BlockTypes
    <3>4. Pwrite(keyLog, b, BlockBase(cnt[b], KBuf), len, keyBuf[b]) \in [Slots -> KeyCell]
      BY <3>3, PwriteType DEF TypeOK
    <3> QED
      BY <3>2, <3>4, <1>5 DEF FlushKeyEnd
  <2> QED
    BY <2>1, <1>1, <1>5 DEF FlushKeyEnd, TypeOK
<1> QED
  BY <1>2, <1>3, <1>4, <1>5 DEF FlushSteps

\* And every other step.
LEMMA TypeOther ==
  ASSUME TypeOK,
         \/ OpenFresh \/ OpenExisting \/ CreateSteps \/ TailSteps \/ Close \/ Kill
         \/ \E t \in Thread : WriteAfterReopen(t)
  PROVE  TypeOK'
<1> USE DEF files, bufs, logs, disk, calls, FileStates, Modes, FlushStages
<1>1. CASE OpenFresh
  BY <1>1 DEF OpenFresh, TypeOK
<1>2. CASE OpenExisting
  BY <1>2 DEF OpenExisting, TypeOK
<1>3. CASE CreateSteps
  BY <1>3, LayoutAssumption DEF CreateSteps, SizeMeta, CreateValFile, CreateKeyFile, TypeOK
<1>4. CASE FaultOnMeta \/ FlushJoin \/ BuildIndex
  BY <1>4 DEF FaultOnMeta, FlushJoin, BuildIndex, TypeOK
<1>5. CASE TruncVal \/ TruncKey
  BY <1>5 DEF TruncVal, TruncKey, TypeOK, ZeroValBuf, ZeroKeyBuf, ValCell, KeyCell
<1>6. CASE Close
  BY <1>6 DEF Close, TypeOK
<1>7. CASE Kill
  BY <1>7 DEF Kill, NoCalls, PCs, TypeOK
<1>8. CASE \E t \in Thread : WriteAfterReopen(t)
  BY <1>8 DEF WriteAfterReopen, TypeOK
<1> QED
  BY <1>1, <1>2, <1>3, <1>4, <1>5, <1>6, <1>7, <1>8 DEF TailSteps

-----------------------------------------------------------------------------
(* The mutexes and the calls.                                               *)

\* The steps of Write lock and unlock in pairs, and keep the argument of each call
\* from entry to return.
LEMMA LockCallWrite ==
  ASSUME TypeOK, LockInv, CallInv, NEW t \in Thread, WriteCall(t) \/ WriteSteps(t)
  PROVE  LockInv' /\ CallInv'
<1> USE DEF Step, files, bufs, logs
<1>0. None \notin Thread /\ None \notin Pair
  BY RaceLogAssumption DEF Pair
<1>1. CASE WriteCall(t)
  <2>1. pc[t] = "idle" /\ \A b \in Bucket : holder[b] # t
    BY <1>1, <1>0 DEF WriteCall, LockInv, Locking
  <2>2. PICK p \in Pair : arg' = [arg EXCEPT ![t] = p]
    BY <1>1 DEF WriteCall
  <2>3. /\ pc' = [pc EXCEPT ![t] = "enter"] /\ holder' = holder /\ mode' = mode
        /\ mode = "writer"
    BY <1>1 DEF WriteCall
  <2>4. \A u \in Thread \ {t} : pc'[u] = pc[u] /\ BucketOfCall(u)' = BucketOfCall(u)
    BY <2>2, <2>3 DEF TypeOK, BucketOfCall
  <2>5. pc'[t] = "enter"
    BY <2>3 DEF TypeOK
  <2>6. LockInv'
    BY <2>1, <2>3, <2>4, <2>5, <1>0 DEF LockInv, Locking, TypeOK
  <2>7. CallInv'
    BY <2>2, <2>3, <1>0 DEF CallInv, TypeOK
  <2> QED
    BY <2>6, <2>7
<1>2. CASE BeginCopy(t)
  <2>1. /\ pc[t] = "enter" /\ pc' = [pc EXCEPT ![t] = "copying"] /\ arg' = arg
        /\ holder[BucketOfCall(t)] = None
        /\ holder' = [holder EXCEPT ![BucketOfCall(t)] = t]
        /\ mode' = mode
    BY <1>2 DEF BeginCopy
  <2>2. \A u \in Thread : BucketOfCall(u)' = BucketOfCall(u)
    BY <2>1 DEF BucketOfCall
  <2>3. BucketOfCall(t) \in Bucket
    BY <2>1, CallArg
  <2>4. LockInv'
    BY <2>1, <2>2, <2>3, <1>0 DEF LockInv, Locking, TypeOK
  <2>5. CallInv'
    BY <2>1 DEF CallInv, TypeOK
  <2> QED
    BY <2>4, <2>5
<1>3. CASE \E from, to \in Locking : Step(t, from, to) /\ holder' = holder /\ arg' = arg
  <2>1. \A u \in Thread : BucketOfCall(u)' = BucketOfCall(u)
    BY <1>3 DEF BucketOfCall
  <2>2. LockInv'
    BY <1>3, <2>1 DEF LockInv, TypeOK
  <2>3. CallInv'
    BY <1>3 DEF CallInv, TypeOK, Locking
  <2> QED
    BY <2>2, <2>3
<1>4. CASE Publish(t)
  <2>1. /\ pc[t] = "publish" /\ pc' = [pc EXCEPT ![t] = "return"] /\ arg' = arg
        /\ holder' = [holder EXCEPT ![BucketOfCall(t)] = None]
        /\ mode' = mode
    BY <1>4 DEF Publish
  <2>2. \A u \in Thread : BucketOfCall(u)' = BucketOfCall(u)
    BY <2>1 DEF BucketOfCall
  <2>3. BucketOfCall(t) \in Bucket /\ holder[BucketOfCall(t)] = t
    BY <2>1, CallArg DEF LockInv, Locking
  <2>4. \A u \in Thread : pc'[u] \in Locking => u # t /\ pc[u] \in Locking
    BY <2>1 DEF Locking, TypeOK
  <2>5. LockInv'
    BY <2>1, <2>2, <2>3, <2>4, <1>0 DEF LockInv, TypeOK
  <2>6. CallInv'
    BY <2>1 DEF CallInv, TypeOK
  <2> QED
    BY <2>5, <2>6
<1>5. CASE Return(t)
  <2>1. /\ pc[t] = "return" /\ pc' = [pc EXCEPT ![t] = "idle"]
        /\ arg' = [arg EXCEPT ![t] = None] /\ holder' = holder /\ mode' = mode
    BY <1>5 DEF Return
  <2>2. \A u \in Thread \ {t} : pc'[u] = pc[u] /\ BucketOfCall(u)' = BucketOfCall(u)
    BY <2>1 DEF TypeOK, BucketOfCall
  <2>3. pc'[t] = "idle" /\ \A b \in Bucket : holder[b] # t
    <3>1. pc'[t] = "idle"
      BY <2>1 DEF TypeOK
    <3>2. \A b \in Bucket : holder[b] # t
      BY <2>1, <1>0 DEF LockInv, Locking
    <3> QED
      BY <3>1, <3>2
  <2>4. LockInv'
    BY <2>1, <2>2, <2>3, <1>0 DEF LockInv, Locking, TypeOK
  <2>5. CallInv'
    BY <2>1, <1>0 DEF CallInv, TypeOK
  <2> QED
    BY <2>4, <2>5
<1>6. EndCopy(t) \/ StoreKey(t) =>
        \E from, to \in Locking : Step(t, from, to) /\ holder' = holder /\ arg' = arg
  BY DEF EndCopy, StoreKey, Locking
<1>7. BeginValueWrite(t) \/ EndValueWrite(t) \/ BeginKeyWrite(t) \/ EndKeyWrite(t) =>
        \E from, to \in Locking : Step(t, from, to) /\ holder' = holder /\ arg' = arg
  BY DEF BeginValueWrite, EndValueWrite, BeginKeyWrite, EndKeyWrite, Locking
<1> QED
  BY <1>1, <1>2, <1>3, <1>4, <1>5, <1>6, <1>7 DEF WriteSteps

\* The steps of nobody's Write.
OtherSteps ==
  \/ OpenFresh \/ OpenExisting \/ CreateSteps \/ TailSteps \/ Close
  \/ \E t \in Thread : WriteAfterReopen(t)
  \/ \E b \in Bucket : FlushSteps(b)

\* They happen while no call is in progress, and start none.
LEMMA OtherStepsIdle ==
  ASSUME CallInv, OtherSteps
  PROVE  UNCHANGED calls /\ \A t \in Thread : pc[t] = "idle"
<1> USE DEF disk, calls, files, bufs, logs, Dead, CallInv
<1>1. CASE OpenFresh \/ OpenExisting
  BY <1>1 DEF OpenFresh, OpenExisting
<1>2. CASE CreateSteps
  BY <1>2 DEF CreateSteps, SizeMeta, CreateValFile, CreateKeyFile
<1>3. CASE TailSteps
  BY <1>3 DEF TailSteps, FaultOnMeta, FlushJoin, TruncVal, TruncKey, BuildIndex
<1>4. CASE Close
  BY <1>4 DEF Close
<1>5. CASE \E t \in Thread : WriteAfterReopen(t)
  BY <1>5 DEF WriteAfterReopen
<1>6. CASE \E b \in Bucket : FlushSteps(b)
  BY <1>6 DEF FlushSteps, FlushStep, FlushValueBegin, FlushValueEnd, FlushKeyBegin, FlushKeyEnd
<1> QED
  BY <1>1, <1>2, <1>3, <1>4, <1>5, <1>6 DEF OtherSteps

LEMMA LockCallOther ==
  ASSUME TypeOK, LockInv, CallInv, OtherSteps \/ Kill
  PROVE  LockInv' /\ CallInv'
<1>1. CASE OtherSteps
  <2>1. UNCHANGED << holder, pc, arg >> /\ \A t \in Thread : pc[t] = "idle"
    BY <1>1, OtherStepsIdle DEF calls
  <2>2. LockInv'
    BY <2>1 DEF LockInv, BucketOfCall
  <2>3. CallInv'
    BY <2>1 DEF CallInv
  <2> QED
    BY <2>2, <2>3
<1>2. CASE Kill
  BY <1>2 DEF Kill, NoCalls, LockInv, CallInv, Locking
<1> QED
  BY <1>1, <1>2

\* Calls are counted by number, so their set must be finite.
LEMMA InFlightFinite ==
  ASSUME NEW b
  PROVE  IsFiniteSet(InFlight(b)) /\ Cardinality(InFlight(b)) \in Nat
BY RaceLogAssumption, FS_Subset, FS_CardinalityType DEF InFlight

\* The calls in flight change at the call and at the counter store only.
LEMMA RoomWrite ==
  ASSUME TypeOK, CallInv, RoomInv, NEW t \in Thread, WriteCall(t) \/ WriteSteps(t)
  PROVE  RoomInv'
<1> USE DEF Step
<1>0. \A b \in Bucket : cnt[b] \in Nat /\ BucketCap \in Nat
  BY LayoutAssumption DEF TypeOK
<1>1. CASE WriteCall(t)
  <2>1. PICK p \in Pair :
          /\ cnt[BucketOf(p.key)] + Cardinality(InFlight(BucketOf(p.key))) < BucketCap
          /\ arg' = [arg EXCEPT ![t] = p]
    BY <1>1 DEF WriteCall
  <2>2. pc[t] = "idle" /\ pc' = [pc EXCEPT ![t] = "enter"] /\ cnt' = cnt
    BY <1>1 DEF WriteCall
  <2>3. pc'[t] = "enter" /\ BucketOfCall(t)' = BucketOf(p.key)
    BY <2>1, <2>2 DEF TypeOK, BucketOfCall
  <2>4. \A u \in Thread \ {t} : pc'[u] = pc[u] /\ BucketOfCall(u)' = BucketOfCall(u)
    BY <2>1, <2>2 DEF TypeOK, BucketOfCall
  <2> SUFFICES ASSUME NEW b \in Bucket
               PROVE  cnt'[b] + Cardinality(InFlight(b)') <= BucketCap
    BY DEF RoomInv
  <2>5. CASE b = BucketOf(p.key)
    <3>1. InFlight(b)' = InFlight(b) \cup {t} /\ t \notin InFlight(b)
      BY <2>2, <2>3, <2>4, <2>5 DEF InFlight
    <3>2. Cardinality(InFlight(b)') = Cardinality(InFlight(b)) + 1
      BY <3>1, InFlightFinite, FS_AddElement
    <3> QED
      BY <3>2, <2>1, <2>2, <2>5, <1>0, InFlightFinite
  <2>6. CASE b # BucketOf(p.key)
    <3>1. InFlight(b)' = InFlight(b)
      BY <2>2, <2>3, <2>4, <2>6 DEF InFlight
    <3> QED
      BY <3>1, <2>2 DEF RoomInv
  <2> QED
    BY <2>5, <2>6
<1>2. CASE Publish(t)
  <2> DEFINE c == BucketOfCall(t)
  <2>1. /\ pc[t] = "publish" /\ pc' = [pc EXCEPT ![t] = "return"] /\ arg' = arg
        /\ cnt' = [cnt EXCEPT ![c] = @ + 1]
    BY <1>2 DEF Publish
  <2>2. c \in Bucket /\ t \in InFlight(c)
    BY <2>1, CallArg DEF InFlight
  <2>3. pc'[t] = "return" /\ \A u \in Thread \ {t} : pc'[u] = pc[u]
    BY <2>1 DEF TypeOK
  <2>4. \A u \in Thread : BucketOfCall(u)' = BucketOfCall(u)
    BY <2>1 DEF BucketOfCall
  <2> SUFFICES ASSUME NEW b \in Bucket
               PROVE  cnt'[b] + Cardinality(InFlight(b)') <= BucketCap
    BY DEF RoomInv
  <2>5. CASE b = c
    <3>1. InFlight(b)' = InFlight(b) \ {t}
      BY <2>3, <2>4, <2>5 DEF InFlight
    <3>2. Cardinality(InFlight(b)') = Cardinality(InFlight(b)) - 1
      BY <3>1, <2>2, <2>5, InFlightFinite, FS_RemoveElement
    <3>3. cnt'[b] = cnt[b] + 1
      BY <2>1, <2>5 DEF TypeOK
    <3>4. cnt[b] + Cardinality(InFlight(b)) <= BucketCap
      BY DEF RoomInv
    <3> HIDE DEF c
    <3> QED
      BY <3>2, <3>3, <3>4, <1>0, InFlightFinite
  <2>6. CASE b # c
    <3>1. InFlight(b)' = InFlight(b)
      BY <2>3, <2>4, <2>6 DEF InFlight
    <3>2. cnt'[b] = cnt[b]
      BY <2>1, <2>2, <2>6 DEF TypeOK
    <3> QED
      BY <3>1, <3>2 DEF RoomInv
  <2> QED
    BY <2>5, <2>6
<1>3. CASE Return(t)
  <2>1. /\ pc[t] = "return" /\ pc' = [pc EXCEPT ![t] = "idle"]
        /\ arg' = [arg EXCEPT ![t] = None] /\ cnt' = cnt
    BY <1>3 DEF Return
  <2>2. pc'[t] = "idle"
    BY <2>1 DEF TypeOK
  <2>3. \A u \in Thread \ {t} : pc'[u] = pc[u] /\ BucketOfCall(u)' = BucketOfCall(u)
    BY <2>1 DEF TypeOK, BucketOfCall
  <2>4. \A b \in Bucket : InFlight(b)' = InFlight(b)
    BY <2>1, <2>2, <2>3 DEF InFlight
  <2> QED
    BY <2>1, <2>4 DEF RoomInv
<1>4. CASE \E from, to \in PCs \ {"idle", "return"} :
             Step(t, from, to) /\ arg' = arg /\ cnt' = cnt
  <2>1. \A u \in Thread : BucketOfCall(u)' = BucketOfCall(u)
    BY <1>4 DEF BucketOfCall
  <2>2. \A u \in Thread : pc'[u] \notin {"idle", "return"} <=> pc[u] \notin {"idle", "return"}
    BY <1>4 DEF TypeOK
  <2>3. \A b \in Bucket : InFlight(b)' = InFlight(b)
    BY <2>1, <2>2 DEF InFlight
  <2> QED
    BY <1>4, <2>3 DEF RoomInv
<1>5. BeginCopy(t) \/ EndCopy(t) \/ StoreKey(t) =>
        \E from, to \in PCs \ {"idle", "return"} :
          Step(t, from, to) /\ arg' = arg /\ cnt' = cnt
  BY DEF BeginCopy, EndCopy, StoreKey, PCs
<1>6. BeginValueWrite(t) \/ EndValueWrite(t) \/ BeginKeyWrite(t) \/ EndKeyWrite(t) =>
        \E from, to \in PCs \ {"idle", "return"} :
          Step(t, from, to) /\ arg' = arg /\ cnt' = cnt
  BY DEF BeginValueWrite, EndValueWrite, BeginKeyWrite, EndKeyWrite, PCs
<1> QED
  BY <1>1, <1>2, <1>3, <1>4, <1>5, <1>6 DEF WriteSteps

\* Nobody is in flight at any other step.
LEMMA RoomOther ==
  ASSUME TypeOK, CallInv, RoomInv, OtherSteps \/ Kill, TypeOK'
  PROVE  RoomInv'
<1>1. \A b \in Bucket : InFlight(b)' = {}
  <2>1. CASE OtherSteps
    <3>1. UNCHANGED << pc, arg >> /\ \A t \in Thread : pc[t] = "idle"
      BY <2>1, OtherStepsIdle DEF calls
    <3> QED
      BY <3>1 DEF InFlight, BucketOfCall
  <2>2. CASE Kill
    BY <2>2 DEF Kill, NoCalls, InFlight
  <2> QED
    BY <2>1, <2>2
<1>2. \A b \in Bucket : cnt'[b] \in 0 .. BucketCap
  BY DEF TypeOK
<1>3. Cardinality({}) = 0 /\ BucketCap \in Nat
  BY FS_EmptySet, LayoutAssumption
<1>4. \A b \in Bucket : cnt'[b] + Cardinality(InFlight(b)') <= BucketCap
  BY <1>1, <1>2, <1>3
<1> QED
  BY <1>4 DEF RoomInv

-----------------------------------------------------------------------------
(* The control part of the invariant, which makes TypeOK inductive: cnt stays *)
(* within the region because of the calls in flight.                        *)

Control == TypeOK /\ LockInv /\ CallInv /\ RoomInv

\* Every step is one of Write's, a kill, or a step taken while no call runs.
LEMMA StepCases ==
  ASSUME Next
  PROVE  \/ \E t \in Thread : WriteCall(t) \/ WriteSteps(t)
         \/ Kill \/ OtherSteps
BY DEF Next, OtherSteps

LEMMA TypeOtherSteps ==
  ASSUME TypeOK, OtherSteps \/ Kill
  PROVE  TypeOK'
BY TypeOther, TypeFlush DEF OtherSteps

LEMMA ControlInit ==
  ASSUME Init
  PROVE  Control
<1>1. TypeOK
  BY TypeInit
<1>2. LockInv /\ CallInv
  BY DEF Init, LockInv, CallInv, Locking
<1>3. RoomInv
  <2>1. \A b \in Bucket : InFlight(b) = {}
    BY DEF Init, InFlight
  <2>2. Cardinality({}) = 0 /\ BucketCap \in Nat
    BY FS_EmptySet, LayoutAssumption
  <2>3. \A b \in Bucket : cnt[b] = 0
    BY DEF Init
  <2>4. \A b \in Bucket : cnt[b] + Cardinality(InFlight(b)) <= BucketCap
    BY <2>1, <2>2, <2>3
  <2> QED
    BY <2>4 DEF RoomInv
<1> QED
  BY <1>1, <1>2, <1>3 DEF Control

LEMMA ControlStep ==
  ASSUME Control, [Next]_vars
  PROVE  Control'
<1> USE DEF Control
<1>1. CASE \E t \in Thread : WriteCall(t) \/ WriteSteps(t)
  BY <1>1, TypeWrite, LockCallWrite, RoomWrite
<1>2. CASE Kill \/ OtherSteps
  BY <1>2, TypeOtherSteps, LockCallOther, RoomOther
<1>3. CASE UNCHANGED vars
  <2>1. UNCHANGED << cnt, holder, pc, arg, mode >>
    BY <1>3 DEF vars, disk, calls
  <2>2. TypeOK'
    BY <1>3 DEF vars, disk, files, bufs, logs, calls, TypeOK
  <2>3. LockInv' /\ CallInv'
    BY <2>1 DEF LockInv, CallInv, BucketOfCall
  <2>4. RoomInv'
    BY <2>1 DEF RoomInv, InFlight, BucketOfCall
  <2> QED
    BY <2>2, <2>3, <2>4
<1> QED
  BY <1>1, <1>2, <1>3, StepCases

\* The state stays well-formed in every run: in particular a counter never
\* leaves its bucket's region, although Write does not check it (Write 373-401).
THEOREM TypeCorrect ==
  Spec => []TypeOK
<1>1. Init => Control
  BY ControlInit
<1>2. Control /\ [Next]_vars => Control'
  BY ControlStep
<1>3. Control => TypeOK
  BY DEF Control
<1> QED
  BY <1>1, <1>2, <1>3, PTL DEF Spec

-----------------------------------------------------------------------------
(* No counted record is ever damaged or lost: IInv is inductive, and under  *)
(* it every step of every actor, a kill included, keeps what an Open would  *)
(* recover.                                                                *)

\* What CommittedStays says of one step.
Keeps ==
  \A b \in Bucket : \A i \in 0 .. cnt[b] - 1 :
    /\ i < cnt'[b]
    /\ ValAt(b, i)' = ValAt(b, i)
    /\ KeyAt(b, i)' = KeyAt(b, i)

\* A step that does not touch the store of bucket c.
Same(c) ==
  /\ cnt'[c] = cnt[c] /\ valBuf'[c] = valBuf[c] /\ keyBuf'[c] = keyBuf[c]
  /\ \A i \in 0 .. BucketCap - 1 :
       valLog'[Slot(c, i)] = valLog[Slot(c, i)] /\ keyLog'[Slot(c, i)] = keyLog[Slot(c, i)]

\* Values and keys are buffered logs.
LEMMA AsBuffered ==
  ASSUME NEW b, NEW i
  PROVE  /\ valFile = "sized" => ValAt(b, i) = Buffered(valLog, valBuf[b], VBuf, b, cnt[b], i)
         /\ valFile # "sized" => ValAt(b, i) = valLog[Slot(b, i)]
         /\ valFile = "sized" /\ keyFile = "sized" =>
              KeyAt(b, i) = Buffered(keyLog, keyBuf[b], KBuf, b, cnt[b], i)
         /\ valFile # "sized" \/ keyFile # "sized" => KeyAt(b, i) = keyLog[Slot(b, i)]
         /\ ValCopied(b, i) <=> Copied(valLog, valBuf[b], VBuf, b, i)
         /\ KeyCopied(b, i) <=> Copied(keyLog, keyBuf[b], KBuf, b, i)
BY DEF ValAt, KeyAt, ValCopied, KeyCopied, Buffered, Copied

\* The same after a step.
LEMMA AsBufferedNext ==
  ASSUME NEW b, NEW i
  PROVE  /\ valFile' = "sized" =>
              ValAt(b, i)' = Buffered(valLog', valBuf'[b], VBuf, b, cnt'[b], i)
         /\ valFile' # "sized" => ValAt(b, i)' = valLog'[Slot(b, i)]
         /\ valFile' = "sized" /\ keyFile' = "sized" =>
              KeyAt(b, i)' = Buffered(keyLog', keyBuf'[b], KBuf, b, cnt'[b], i)
         /\ valFile' # "sized" \/ keyFile' # "sized" => KeyAt(b, i)' = keyLog'[Slot(b, i)]
         /\ ValCopied(b, i)' <=> Copied(valLog', valBuf'[b], VBuf, b, i)
         /\ KeyCopied(b, i)' <=> Copied(keyLog', keyBuf'[b], KBuf, b, i)
BY DEF ValAt, KeyAt, ValCopied, KeyCopied, Buffered, Copied

\* The assumptions on the sizes, one at a time.
LEMMA Sizes ==
  /\ BucketCap \in Nat /\ BucketCap \in Nat \ {0}
  /\ VBuf \in Nat \ {0} /\ VBuf \in Nat /\ KBuf \in Nat \ {0} /\ KBuf \in Nat
  /\ BucketCap % VBuf = 0 /\ BucketCap % KBuf = 0
BY LayoutAssumption

\* The block that record n completes, as Write computes it.
LEMMA FullBlock ==
  ASSUME NEW d \in Nat \ {0}, BucketCap % d = 0, NEW n \in 0 .. BucketCap - 1,
         (n + 1) % d = 0
  PROVE  n - (d - 1) = BlockBase(n, d) /\ BlockBase(n, d) + d <= BucketCap
<1>1. n \in Nat /\ n < BucketCap /\ BucketCap \in Nat
  BY Sizes
<1>2. BlockBase(n, d) = n - (d - 1)
  BY <1>1, NextRecord
<1>3. BlockBase(n, d) + d <= BucketCap
  BY <1>1, BlockFits
<1> QED
  BY <1>2, <1>3

-----------------------------------------------------------------------------
(* Buckets that a step leaves alone.                                        *)

LEMMA SameKeeps ==
  ASSUME TypeOK, NEW c \in Bucket, Same(c), UNCHANGED << valFile, keyFile >>,
         NEW i \in 0 .. cnt[c] - 1
  PROVE  i < cnt'[c] /\ ValAt(c, i)' = ValAt(c, i) /\ KeyAt(c, i)' = KeyAt(c, i)
<1>1. cnt[c] \in 0 .. BucketCap
  BY DEF TypeOK
<1>2. i \in 0 .. BucketCap - 1 /\ i < cnt[c]
  BY <1>1, Sizes
<1>3. ValAt(c, i)' = ValAt(c, i)
  BY <1>2 DEF Same, ValAt
<1>4. KeyAt(c, i)' = KeyAt(c, i)
  BY <1>2 DEF Same, KeyAt
<1> QED
  BY <1>2, <1>3, <1>4 DEF Same

LEMMA SameCopied ==
  ASSUME NEW c \in Bucket, Same(c), NEW n \in 0 .. BucketCap - 1
  PROVE  /\ ValCopied(c, n) => ValCopied(c, n)'
         /\ KeyCopied(c, n) => KeyCopied(c, n)'
<1>0. n \in Nat
  BY Sizes
<1>1. BlockBase(n, VBuf) \in Nat /\ BlockBase(n, KBuf) \in Nat /\ n \in Nat
  BY <1>0, Sizes, BlockBaseBounds
<1>2. \A i \in BlockBase(n, VBuf) .. n : i \in 0 .. BucketCap - 1
  BY <1>1, Sizes
<1>3. \A i \in BlockBase(n, KBuf) .. n : i \in 0 .. BucketCap - 1
  BY <1>1, Sizes
<1>4. ValCopied(c, n) => ValCopied(c, n)'
  BY <1>2 DEF Same, ValCopied
<1>5. KeyCopied(c, n) => KeyCopied(c, n)'
  BY <1>3 DEF Same, KeyCopied
<1> QED
  BY <1>4, <1>5

\* What holds of a call stays so while its bucket is left alone.
LEMMA SameCopy ==
  ASSUME NEW t \in Thread, BucketOfCall(t) \in Bucket, Same(BucketOfCall(t)),
         pc'[t] = pc[t], arg'[t] = arg[t], CopyInv(t),
         cnt[BucketOfCall(t)] \in 0 .. BucketCap - 1
  PROVE  CopyInv(t)'
<1> DEFINE b == BucketOfCall(t)
<1>1. BucketOfCall(t)' = b /\ cnt'[b] = cnt[b] /\ valBuf'[b] = valBuf[b] /\ keyBuf'[b] = keyBuf[b]
  BY DEF BucketOfCall, Same
<1>2. PICK n \in 0 .. BucketCap - 1 : n = cnt[b]
  OBVIOUS
<1>3. PICK c \in Bucket : c = b
  OBVIOUS
<1>4. /\ ValCopied(c, n) => ValCopied(c, n)'
      /\ KeyCopied(c, n) => KeyCopied(c, n)'
  BY <1>2, <1>3, SameCopied
<1>5. /\ ValCopied(b, cnt[b]) => ValCopied(b, cnt[b])'
      /\ KeyCopied(b, cnt[b]) => KeyCopied(b, cnt[b])'
  BY <1>1, <1>2, <1>3, <1>4 DEF ValCopied, KeyCopied
<1> QED
  BY <1>1, <1>5 DEF CopyInv, ValCopied, KeyCopied

\* The steps of Write change their own bucket only.
LEMMA WriteOthers ==
  ASSUME Control, CopiesInv, NEW t \in Thread, WriteSteps(t),
         NEW c \in Bucket, c # BucketOfCall(t) \/ pc[t] = "return"
  PROVE  Same(c)
<1> DEFINE b == BucketOfCall(t)
<1> USE DEF Step, bufs, logs
<1>1. CASE Return(t)
  BY <1>1 DEF Return, Same
<1>0. ASSUME pc[t] \notin {"idle", "return"}
      PROVE  b \in Bucket /\ c # b /\ cnt[b] \in 0 .. BucketCap - 1
  BY <1>0, CallArg, RoomForCall DEF Control
<1>2. CASE BeginCopy(t) \/ EndCopy(t) \/ StoreKey(t) \/ Publish(t)
  BY <1>2, <1>0 DEF BeginCopy, EndCopy, StoreKey, Publish, Same, Control, TypeOK
<1>3. ASSUME NEW x, pc[t] \in {"valFull", "valWriting"},
             valLog' = Pwrite(valLog, b, cnt[b] - (VBuf - 1), VBuf, x),
             UNCHANGED << cnt, bufs, keyLog >>
      PROVE  Same(c)
  <2>1. b \in Bucket /\ c # b /\ cnt[b] \in 0 .. BucketCap - 1 /\ (cnt[b] + 1) % VBuf = 0
    BY <1>0, <1>3 DEF CopiesInv, CopyInv
  <2>2. PICK base \in Nat : base = cnt[b] - (VBuf - 1) /\ base + VBuf <= BucketCap
    <3>1. cnt[b] - (VBuf - 1) = BlockBase(cnt[b], VBuf) /\ BlockBase(cnt[b], VBuf) + VBuf <= BucketCap
      BY <2>1, FullBlock, Sizes
    <3>2. BlockBase(cnt[b], VBuf) \in Nat
      <4>1. cnt[b] \in Nat
        BY <2>1, Sizes
      <4> QED
        BY <4>1, BlockBaseBounds, Sizes
    <3> QED
      BY <3>1, <3>2
  <2>3. \A i \in 0 .. BucketCap - 1 :
          Pwrite(valLog, b, base, VBuf, x)[Slot(c, i)] = valLog[Slot(c, i)]
    BY <2>1, <2>2, PwriteOutside, Sizes
  <2> QED
    BY <2>2, <2>3, <1>3 DEF Same
<1>4. ASSUME NEW x, pc[t] \in {"keyFull", "keyWriting"},
             keyLog' = Pwrite(keyLog, b, cnt[b] - (KBuf - 1), KBuf, x),
             UNCHANGED << cnt, bufs, valLog >>
      PROVE  Same(c)
  <2>1. b \in Bucket /\ c # b /\ cnt[b] \in 0 .. BucketCap - 1 /\ (cnt[b] + 1) % KBuf = 0
    BY <1>0, <1>4 DEF CopiesInv, CopyInv
  <2>2. PICK base \in Nat : base = cnt[b] - (KBuf - 1) /\ base + KBuf <= BucketCap
    <3>1. cnt[b] - (KBuf - 1) = BlockBase(cnt[b], KBuf) /\ BlockBase(cnt[b], KBuf) + KBuf <= BucketCap
      BY <2>1, FullBlock, Sizes
    <3>2. BlockBase(cnt[b], KBuf) \in Nat
      <4>1. cnt[b] \in Nat
        BY <2>1, Sizes
      <4> QED
        BY <4>1, BlockBaseBounds, Sizes
    <3> QED
      BY <3>1, <3>2
  <2>3. \A i \in 0 .. BucketCap - 1 :
          Pwrite(keyLog, b, base, KBuf, x)[Slot(c, i)] = keyLog[Slot(c, i)]
    BY <2>1, <2>2, PwriteOutside, Sizes
  <2> QED
    BY <2>2, <2>3, <1>4 DEF Same
<1>5. CASE BeginValueWrite(t) \/ EndValueWrite(t)
  BY <1>5, <1>3 DEF BeginValueWrite, EndValueWrite
<1>6. CASE BeginKeyWrite(t) \/ EndKeyWrite(t)
  BY <1>6, <1>4 DEF BeginKeyWrite, EndKeyWrite
<1> QED
  BY <1>1, <1>2, <1>5, <1>6 DEF WriteSteps

-----------------------------------------------------------------------------
(* The bucket that a step of Write works on.                                *)

KeepsOf(b) ==
  \A i \in 0 .. cnt[b] - 1 :
    /\ i < cnt'[b]
    /\ ValAt(b, i)' = ValAt(b, i)
    /\ KeyAt(b, i)' = KeyAt(b, i)

\* Where a call stands when it works on its bucket.
LEMMA OwnBucket ==
  ASSUME Control, FileInv, NEW t \in Thread, pc[t] \notin {"idle", "return"}
  PROVE  /\ BucketOfCall(t) \in Bucket
         /\ cnt[BucketOfCall(t)] \in 0 .. BucketCap - 1
         /\ cnt[BucketOfCall(t)] \in Nat
         /\ arg[t].key \in Key /\ arg[t].value \in Value
         /\ mode = "writer"
         /\ metaFile = "sized" /\ valFile = "sized" /\ keyFile = "sized"
<1>1. /\ BucketOfCall(t) \in Bucket
      /\ cnt[BucketOfCall(t)] \in 0 .. BucketCap - 1
      /\ arg[t].key \in Key /\ arg[t].value \in Value
  BY CallArg, RoomForCall DEF Control
<1>2. mode = "writer"
  BY DEF Control, CallInv
<1>3. cnt[BucketOfCall(t)] \in Nat
  BY <1>1, Sizes
<1> QED
  BY <1>1, <1>2, <1>3 DEF FileInv

\* The two halves of a store: what a value step and a key step leave alone.
LEMMA ValSame ==
  ASSUME NEW b, UNCHANGED << valFile, cnt, valBuf, valLog >>, NEW i
  PROVE  ValAt(b, i)' = ValAt(b, i)
BY DEF ValAt

LEMMA KeySame ==
  ASSUME NEW b, UNCHANGED << valFile, keyFile, cnt, keyBuf, keyLog >>, NEW i
  PROVE  KeyAt(b, i)' = KeyAt(b, i)
BY DEF KeyAt

\* memcpy into the next place of the value buffer, begun or finished.
LEMMA KeepsStoreValue ==
  ASSUME TypeOK, NEW b \in Bucket, NEW x,
         valBuf' = [valBuf EXCEPT ![b][cnt[b] % VBuf] = x],
         UNCHANGED << files, cnt, keyBuf, logs >>
  PROVE  KeepsOf(b) /\ valBuf'[b][cnt[b] % VBuf] = x
<1> USE DEF files, logs
<1>1. cnt[b] \in Nat
  BY Sizes DEF TypeOK
<1>2. cnt[b] % VBuf \in 0 .. VBuf - 1
  BY <1>1, Indices
<1>3. /\ \A j \in 0 .. VBuf - 1 : j # cnt[b] % VBuf => valBuf'[b][j] = valBuf[b][j]
      /\ valBuf'[b][cnt[b] % VBuf] = x
  BY <1>2 DEF TypeOK
<1> SUFFICES ASSUME NEW i \in 0 .. cnt[b] - 1
             PROVE  i < cnt'[b] /\ ValAt(b, i)' = ValAt(b, i) /\ KeyAt(b, i)' = KeyAt(b, i)
  BY <1>3 DEF KeepsOf
<1>4. ValAt(b, i)' = ValAt(b, i)
  <2>1. PICK new, old : new = valBuf'[b] /\ old = valBuf[b]
    OBVIOUS
  <2>2. PICK n \in Nat : n = cnt[b] /\ i \in 0 .. n - 1
    BY <1>1
  <2>3. \A j \in 0 .. VBuf - 1 : j # n % VBuf => new[j] = old[j]
    BY <1>3, <2>1, <2>2
  <2>4. Buffered(valLog, new, VBuf, b, n, i) = Buffered(valLog, old, VBuf, b, n, i)
    BY <2>2, <2>3, BufferedStore, Sizes
  <2> QED
    BY <2>1, <2>2, <2>4 DEF Buffered, ValAt
<1> QED
  BY <1>1, <1>4, KeySame

\* The store of the key.
LEMMA KeepsStoreKey ==
  ASSUME TypeOK, NEW b \in Bucket, NEW x,
         keyBuf' = [keyBuf EXCEPT ![b][cnt[b] % KBuf] = x],
         UNCHANGED << files, cnt, valBuf, logs >>
  PROVE  KeepsOf(b) /\ keyBuf'[b][cnt[b] % KBuf] = x
<1> USE DEF files, logs
<1>1. cnt[b] \in Nat
  BY Sizes DEF TypeOK
<1>2. cnt[b] % KBuf \in 0 .. KBuf - 1
  BY <1>1, Indices
<1>3. /\ \A j \in 0 .. KBuf - 1 : j # cnt[b] % KBuf => keyBuf'[b][j] = keyBuf[b][j]
      /\ keyBuf'[b][cnt[b] % KBuf] = x
  BY <1>2 DEF TypeOK
<1> SUFFICES ASSUME NEW i \in 0 .. cnt[b] - 1
             PROVE  i < cnt'[b] /\ ValAt(b, i)' = ValAt(b, i) /\ KeyAt(b, i)' = KeyAt(b, i)
  BY <1>3 DEF KeepsOf
<1>4. KeyAt(b, i)' = KeyAt(b, i)
  <2>1. PICK new, old : new = keyBuf'[b] /\ old = keyBuf[b]
    OBVIOUS
  <2>2. PICK n \in Nat : n = cnt[b] /\ i \in 0 .. n - 1
    BY <1>1
  <2>3. \A j \in 0 .. KBuf - 1 : j # n % KBuf => new[j] = old[j]
    BY <1>3, <2>1, <2>2
  <2>4. Buffered(keyLog, new, KBuf, b, n, i) = Buffered(keyLog, old, KBuf, b, n, i)
    BY <2>2, <2>3, BufferedStore, Sizes
  <2> QED
    BY <2>1, <2>2, <2>4 DEF Buffered, KeyAt
<1> QED
  BY <1>1, <1>4, ValSame

\* A pwrite of values, by a call or by a flush worker, over the last block of a
\* bucket whose buffer is in use.
LEMMA KeepsPwriteValues ==
  ASSUME TypeOK, NEW b \in Bucket, NEW x, NEW len \in Nat, valFile = "sized",
         BlockBase(cnt[b], VBuf) + len <= BucketCap,
         valLog' = Pwrite(valLog, b, BlockBase(cnt[b], VBuf), len, x),
         UNCHANGED << files, cnt, bufs, keyLog >>
  PROVE  KeepsOf(b)
<1> USE DEF files, bufs
<1>1. cnt[b] \in 0 .. BucketCap /\ cnt[b] \in Nat
  BY Sizes DEF TypeOK
<1> SUFFICES ASSUME NEW i \in 0 .. cnt[b] - 1
             PROVE  i < cnt'[b] /\ ValAt(b, i)' = ValAt(b, i) /\ KeyAt(b, i)' = KeyAt(b, i)
  BY DEF KeepsOf
<1>2. ValAt(b, i)' = ValAt(b, i)
  <2>1. PICK n \in 0 .. BucketCap : n = cnt[b] /\ i \in 0 .. n - 1
    BY <1>1
  <2>2. Buffered(Pwrite(valLog, b, BlockBase(n, VBuf), len, x), valBuf[b], VBuf, b, n, i)
          = Buffered(valLog, valBuf[b], VBuf, b, n, i)
    BY <2>1, BufferedPwrite, Sizes
  <2> QED
    BY <2>1, <2>2 DEF Buffered, ValAt
<1> QED
  BY <1>1, <1>2, KeySame

\* The same for keys.
LEMMA KeepsPwriteKeys ==
  ASSUME TypeOK, NEW b \in Bucket, NEW x, NEW len \in Nat,
         valFile = "sized", keyFile = "sized",
         BlockBase(cnt[b], KBuf) + len <= BucketCap,
         keyLog' = Pwrite(keyLog, b, BlockBase(cnt[b], KBuf), len, x),
         UNCHANGED << files, cnt, bufs, valLog >>
  PROVE  KeepsOf(b)
<1> USE DEF files, bufs
<1>1. cnt[b] \in 0 .. BucketCap /\ cnt[b] \in Nat
  BY Sizes DEF TypeOK
<1> SUFFICES ASSUME NEW i \in 0 .. cnt[b] - 1
             PROVE  i < cnt'[b] /\ ValAt(b, i)' = ValAt(b, i) /\ KeyAt(b, i)' = KeyAt(b, i)
  BY DEF KeepsOf
<1>2. KeyAt(b, i)' = KeyAt(b, i)
  <2>1. PICK n \in 0 .. BucketCap : n = cnt[b] /\ i \in 0 .. n - 1
    BY <1>1
  <2>2. Buffered(Pwrite(keyLog, b, BlockBase(n, KBuf), len, x), keyBuf[b], KBuf, b, n, i)
          = Buffered(keyLog, keyBuf[b], KBuf, b, n, i)
    BY <2>1, BufferedPwrite, Sizes
  <2> QED
    BY <2>1, <2>2 DEF Buffered, KeyAt
<1> QED
  BY <1>1, <1>2, ValSame

\* Each step of Write that is not the counter store keeps the records of its
\* bucket, and leaves the call where CopyInv says.
LEMMA OwnCopy ==
  ASSUME Control, FileInv, NEW t \in Thread, CopyInv(t), NEW b, b = BucketOfCall(t), BeginCopy(t) \/ EndCopy(t)
  PROVE  KeepsOf(b) /\ CopyInv(t)'
<1> USE DEF Step
<1>1. TypeOK /\ b \in Bucket
  BY OwnBucket DEF Control, BeginCopy, EndCopy
<1>2. BucketOfCall(t)' = b /\ arg' = arg /\ cnt' = cnt
  BY DEF BeginCopy, EndCopy, BucketOfCall
<1>3. CASE BeginCopy(t)
  <2>1. KeepsOf(b)
    BY <1>1, <1>3, KeepsStoreValue DEF BeginCopy, logs
  <2>2. pc'[t] = "copying"
    BY <1>1, <1>3 DEF BeginCopy, TypeOK
  <2> QED
    BY <2>1, <2>2 DEF CopyInv, Locking
<1>4. CASE EndCopy(t)
  <2>1. KeepsOf(b) /\ valBuf'[b][cnt[b] % VBuf] = arg[t].value
    BY <1>1, <1>4, KeepsStoreValue DEF EndCopy, logs
  <2>2. pc'[t] = IF (cnt[b] + 1) % VBuf = 0 THEN "valFull" ELSE "key"
    BY <1>1, <1>4 DEF EndCopy, TypeOK
  <2> QED
    BY <1>2, <2>1, <2>2 DEF CopyInv
<1> QED
  BY <1>3, <1>4

LEMMA OwnValueWrite ==
  ASSUME Control, FileInv, NEW t \in Thread, CopyInv(t), NEW b, b = BucketOfCall(t),
         BeginValueWrite(t) \/ EndValueWrite(t)
  PROVE  KeepsOf(b) /\ CopyInv(t)'
<1> DEFINE n == cnt[b]
<1> USE DEF Step, bufs
<1>1. pc[t] \in {"valFull", "valWriting"}
  BY DEF BeginValueWrite, EndValueWrite
<1>2. /\ TypeOK /\ b \in Bucket /\ n \in 0 .. BucketCap - 1 /\ n \in Nat
      /\ valFile = "sized" /\ (n + 1) % VBuf = 0
      /\ valBuf[b][n % VBuf] = arg[t].value
  BY <1>1, OwnBucket DEF Control, CopyInv, Locking
<1>3. n - (VBuf - 1) = BlockBase(n, VBuf) /\ BlockBase(n, VBuf) + VBuf <= BucketCap
  BY <1>2, FullBlock, Sizes
<1>4. /\ BucketOfCall(t)' = b /\ UNCHANGED << arg, files, cnt, bufs, keyLog >>
  BY DEF BeginValueWrite, EndValueWrite, BucketOfCall
<1>5. CASE BeginValueWrite(t)
  <2>1. KeepsOf(b)
    BY <1>2, <1>3, <1>4, <1>5, KeepsPwriteValues, Sizes DEF BeginValueWrite
  <2>2. pc'[t] = "valWriting"
    BY <1>2, <1>5 DEF BeginValueWrite, TypeOK
  <2> QED
    BY <1>2, <1>4, <2>1, <2>2 DEF CopyInv
<1>6. CASE EndValueWrite(t)
  <2>1. valLog' = Pwrite(valLog, b, BlockBase(n, VBuf), VBuf, valBuf[b])
    BY <1>3, <1>6 DEF EndValueWrite
  <2>2. KeepsOf(b)
    BY <1>2, <1>3, <1>4, <2>1, KeepsPwriteValues, Sizes
  <2>3. VBuf > n % VBuf
    BY <1>2, Indices, Sizes
  <2>4. Copied(valLog', valBuf[b], VBuf, b, n)
    BY <1>2, <1>3, <2>1, <2>3, CopiedPwrite, Sizes
  <2>5. ValCopied(b, n)'
    BY <1>4, <2>4 DEF Copied, ValCopied
  <2>6. pc'[t] = "key"
    BY <1>2, <1>6 DEF EndValueWrite, TypeOK
  <2> QED
    BY <1>2, <1>4, <2>2, <2>5, <2>6 DEF CopyInv
<1> QED
  BY <1>5, <1>6

LEMMA OwnStoreKey ==
  ASSUME Control, FileInv, NEW t \in Thread, CopyInv(t), NEW b, b = BucketOfCall(t), StoreKey(t)
  PROVE  KeepsOf(b) /\ CopyInv(t)'
<1> DEFINE n == cnt[b]
<1> USE DEF Step, logs
<1>1. pc[t] = "key"
  BY DEF StoreKey
<1>2. /\ TypeOK /\ b \in Bucket /\ valBuf[b][n % VBuf] = arg[t].value
      /\ (n + 1) % VBuf = 0 => ValCopied(b, n)
  BY <1>1, OwnBucket DEF Control, CopyInv, Locking
<1>3. BucketOfCall(t)' = b /\ UNCHANGED << arg, files, cnt, valBuf, logs >>
  BY DEF StoreKey, BucketOfCall
<1>4. KeepsOf(b) /\ keyBuf'[b][n % KBuf] = arg[t].key
  BY <1>2, <1>3, KeepsStoreKey DEF StoreKey
<1>5. pc'[t] = IF (n + 1) % KBuf = 0 THEN "keyFull" ELSE "publish"
  BY <1>2 DEF StoreKey, TypeOK
<1>6. (n + 1) % VBuf = 0 => ValCopied(b, n)'
  BY <1>2, <1>3 DEF ValCopied
<1> QED
  BY <1>2, <1>3, <1>4, <1>5, <1>6 DEF CopyInv

LEMMA OwnKeyWrite ==
  ASSUME Control, FileInv, NEW t \in Thread, CopyInv(t), NEW b, b = BucketOfCall(t), BeginKeyWrite(t) \/ EndKeyWrite(t)
  PROVE  KeepsOf(b) /\ CopyInv(t)'
<1> DEFINE n == cnt[b]
<1> USE DEF Step, bufs
<1>1. pc[t] \in {"keyFull", "keyWriting"}
  BY DEF BeginKeyWrite, EndKeyWrite
<1>2. /\ TypeOK /\ b \in Bucket /\ n \in 0 .. BucketCap - 1 /\ n \in Nat
      /\ valFile = "sized" /\ keyFile = "sized" /\ (n + 1) % KBuf = 0
      /\ valBuf[b][n % VBuf] = arg[t].value /\ keyBuf[b][n % KBuf] = arg[t].key
      /\ (n + 1) % VBuf = 0 => ValCopied(b, n)
  BY <1>1, OwnBucket DEF Control, CopyInv, Locking
<1>3. n - (KBuf - 1) = BlockBase(n, KBuf) /\ BlockBase(n, KBuf) + KBuf <= BucketCap
  BY <1>2, FullBlock, Sizes
<1>4. BucketOfCall(t)' = b /\ UNCHANGED << arg, files, cnt, bufs, valLog >>
  BY DEF BeginKeyWrite, EndKeyWrite, BucketOfCall
<1>5. (n + 1) % VBuf = 0 => ValCopied(b, n)'
  BY <1>2, <1>4 DEF ValCopied
<1>6. CASE BeginKeyWrite(t)
  <2>1. KeepsOf(b)
    BY <1>2, <1>3, <1>4, <1>6, KeepsPwriteKeys, Sizes DEF BeginKeyWrite
  <2>2. pc'[t] = "keyWriting"
    BY <1>2, <1>6 DEF BeginKeyWrite, TypeOK
  <2> QED
    BY <1>2, <1>4, <1>5, <2>1, <2>2 DEF CopyInv
<1>7. CASE EndKeyWrite(t)
  <2>1. keyLog' = Pwrite(keyLog, b, BlockBase(n, KBuf), KBuf, keyBuf[b])
    BY <1>3, <1>7 DEF EndKeyWrite
  <2>2. KeepsOf(b)
    BY <1>2, <1>3, <1>4, <2>1, KeepsPwriteKeys, Sizes
  <2>3. KBuf > n % KBuf
    BY <1>2, Indices, Sizes
  <2>4. Copied(keyLog', keyBuf[b], KBuf, b, n)
    BY <1>2, <1>3, <2>1, <2>3, CopiedPwrite, Sizes
  <2>5. KeyCopied(b, n)'
    BY <1>4, <2>4 DEF Copied, KeyCopied
  <2>6. pc'[t] = "publish"
    BY <1>2, <1>7 DEF EndKeyWrite, TypeOK
  <2> QED
    BY <1>2, <1>4, <1>5, <2>2, <2>5, <2>6 DEF CopyInv
<1> QED
  BY <1>6, <1>7

\* The counter store keeps the records there were and adds the call's own pair.
LEMMA OwnPublish ==
  ASSUME Control, FileInv, NEW t \in Thread, CopyInv(t), NEW b, b = BucketOfCall(t), Publish(t),
         NEW n, n = cnt[b]
  PROVE  /\ KeepsOf(b)
         /\ cnt'[b] = n + 1
         /\ ValAt(b, n)' = arg[t].value /\ KeyAt(b, n)' = arg[t].key
         /\ CopyInv(t)'
<1> USE DEF Step, bufs, logs, files
<1>1. pc[t] = "publish"
  BY DEF Publish
<1>2. /\ TypeOK /\ b \in Bucket /\ n \in Nat
      /\ valFile = "sized" /\ keyFile = "sized"
      /\ valBuf[b][n % VBuf] = arg[t].value /\ keyBuf[b][n % KBuf] = arg[t].key
      /\ (n + 1) % VBuf = 0 => ValCopied(b, n)
      /\ (n + 1) % KBuf = 0 => KeyCopied(b, n)
  BY <1>1, OwnBucket DEF Control, CopyInv, Locking
<1>3. cnt'[b] = n + 1 /\ UNCHANGED << files, bufs, logs, arg >> /\ pc'[t] = "return"
  BY <1>2 DEF Publish, TypeOK
<1>4. /\ Buffered(valLog, valBuf[b], VBuf, b, n + 1, n) = valBuf[b][n % VBuf]
      /\ \A i \in 0 .. n - 1 : Buffered(valLog, valBuf[b], VBuf, b, n + 1, i)
                                 = Buffered(valLog, valBuf[b], VBuf, b, n, i)
  BY <1>2, AsBuffered, BufferedNext, Sizes
<1>5. /\ Buffered(keyLog, keyBuf[b], KBuf, b, n + 1, n) = keyBuf[b][n % KBuf]
      /\ \A i \in 0 .. n - 1 : Buffered(keyLog, keyBuf[b], KBuf, b, n + 1, i)
                                 = Buffered(keyLog, keyBuf[b], KBuf, b, n, i)
  BY <1>2, AsBuffered, BufferedNext, Sizes
<1>6. \A i \in 0 .. n : /\ ValAt(b, i)' = Buffered(valLog, valBuf[b], VBuf, b, n + 1, i)
                        /\ KeyAt(b, i)' = Buffered(keyLog, keyBuf[b], KBuf, b, n + 1, i)
  BY <1>2, <1>3, AsBufferedNext
<1>7. \A i \in 0 .. n : /\ ValAt(b, i) = Buffered(valLog, valBuf[b], VBuf, b, n, i)
                        /\ KeyAt(b, i) = Buffered(keyLog, keyBuf[b], KBuf, b, n, i)
  BY <1>2, AsBuffered
<1>8. KeepsOf(b)
  BY <1>2, <1>3, <1>4, <1>5, <1>6, <1>7 DEF KeepsOf
<1>9. ValAt(b, n)' = arg[t].value /\ KeyAt(b, n)' = arg[t].key
  BY <1>2, <1>4, <1>5, <1>6
<1>10. CopyInv(t)'
  BY <1>3 DEF CopyInv, Locking
<1> QED
  BY <1>3, <1>8, <1>9, <1>10

-----------------------------------------------------------------------------
(* A step of Write as a whole.                                              *)

\* The other buckets are left alone and the bucket of the call is kept.
LEMMA WriteKeeps ==
  ASSUME Control, FileInv, CopiesInv, NEW t \in Thread, WriteCall(t) \/ WriteSteps(t)
  PROVE  Keeps
<1> USE DEF Step
<1>1. TypeOK /\ UNCHANGED << valFile, keyFile >>
  BY DEF Control, WriteSteps, WriteCall, BeginCopy, EndCopy, BeginValueWrite, EndValueWrite,
         StoreKey, BeginKeyWrite, EndKeyWrite, Publish, Return, files
<1>2. CASE WriteCall(t)
  <2>1. \A c \in Bucket : Same(c)
    BY <1>2 DEF WriteCall, Same, bufs, logs
  <2> QED
    BY <1>1, <2>1, SameKeeps DEF Keeps
<1>3. CASE Return(t)
  <2>1. \A c \in Bucket : Same(c)
    BY <1>3 DEF Return, Same, bufs, logs
  <2> QED
    BY <1>1, <2>1, SameKeeps DEF Keeps
<1>4. CASE WriteSteps(t) /\ ~ Return(t)
  <2>1. pc[t] \notin {"idle", "return"}
    BY <1>4 DEF WriteSteps, BeginCopy, EndCopy, BeginValueWrite, EndValueWrite,
                StoreKey, BeginKeyWrite, EndKeyWrite, Publish
  <2>2. PICK b \in Bucket : b = BucketOfCall(t)
    BY <2>1, OwnBucket
  <2>3. KeepsOf(b)
    BY <1>4, <2>2, OwnCopy, OwnValueWrite, OwnStoreKey, OwnKeyWrite, OwnPublish
       DEF WriteSteps, CopiesInv
  <2>4. \A c \in Bucket \ {b} : Same(c)
    BY <1>4, <2>2, WriteOthers
  <2>5. \A c \in Bucket \ {b} : KeepsOf(c)
    BY <1>1, <2>4, SameKeeps DEF KeepsOf
  <2> QED
    BY <2>3, <2>5 DEF KeepsOf, Keeps
<1> QED
  BY <1>2, <1>3, <1>4

\* Two calls never work on one bucket.
LEMMA WriteCopies ==
  ASSUME Control, FileInv, CopiesInv, NEW t \in Thread, WriteCall(t) \/ WriteSteps(t)
  PROVE  CopiesInv'
<1> USE DEF Step
<1> SUFFICES ASSUME NEW u \in Thread PROVE CopyInv(u)'
  BY DEF CopiesInv
<1>0. TypeOK /\ None \notin Thread
  BY RaceLogAssumption DEF Control
<1>1. CASE u = t
  <2>1. CASE WriteCall(t) \/ Return(t)
    <3>1. pc'[t] \notin Locking
      BY <1>0, <2>1 DEF WriteCall, Return, TypeOK, Locking
    <3> QED
      BY <3>1, <1>1 DEF CopyInv, Locking
  <2>2. CASE WriteSteps(t) /\ ~ Return(t)
    <3>1. pc[t] \notin {"idle", "return"}
      BY <2>2 DEF WriteSteps, BeginCopy, EndCopy, BeginValueWrite, EndValueWrite,
                  StoreKey, BeginKeyWrite, EndKeyWrite, Publish
    <3>2. PICK b \in Bucket : b = BucketOfCall(t)
      BY <3>1, OwnBucket
    <3> QED
      BY <1>1, <2>2, <3>2, OwnCopy, OwnValueWrite, OwnStoreKey, OwnKeyWrite, OwnPublish
         DEF WriteSteps, CopiesInv
  <2> QED
    BY <2>1, <2>2
<1>2. CASE u # t
  <2>1. pc'[u] = pc[u] /\ arg'[u] = arg[u]
    BY <1>0, <1>2 DEF WriteSteps, WriteCall, BeginCopy, EndCopy, BeginValueWrite,
       EndValueWrite, StoreKey, BeginKeyWrite, EndKeyWrite, Publish, Return, TypeOK
  <2>2. CASE pc[u] \notin Locking
    BY <2>1, <2>2 DEF CopyInv, Locking
  <2>3. CASE pc[u] \in Locking
    <3>1. /\ BucketOfCall(u) \in Bucket /\ cnt[BucketOfCall(u)] \in 0 .. BucketCap - 1
          /\ holder[BucketOfCall(u)] = u
      BY <2>3, OwnBucket DEF Locking, Control, LockInv
    <3>2. CASE WriteCall(t)
      <4>1. Same(BucketOfCall(u))
        BY <3>2 DEF WriteCall, Same, bufs, logs
      <4> QED
        BY <2>1, <3>1, <4>1, SameCopy DEF CopiesInv
    <3>3. CASE WriteSteps(t)
      <4>1. BucketOfCall(u) # BucketOfCall(t) \/ pc[t] = "return"
        <5>1. CASE BeginCopy(t)
          BY <1>0, <3>1, <5>1 DEF BeginCopy
        <5>2. CASE ~ BeginCopy(t) /\ ~ Return(t)
          <6>1. pc[t] \in Locking
            BY <3>3, <5>2 DEF WriteSteps, EndCopy, BeginValueWrite, EndValueWrite,
               StoreKey, BeginKeyWrite, EndKeyWrite, Publish, Locking
          <6> QED
            BY <1>2, <3>1, <6>1 DEF Control, LockInv
        <5>3. CASE Return(t)
          BY <5>3 DEF Return
        <5> QED
          BY <5>1, <5>2, <5>3
      <4>2. PICK c \in Bucket : c = BucketOfCall(u)
        BY <3>1
      <4>3. Same(c)
        BY <3>3, <4>1, <4>2, WriteOthers
      <4>4. Same(BucketOfCall(u))
        BY <4>2, <4>3 DEF Same
      <4> QED
        BY <2>1, <3>1, <4>4, SameCopy DEF CopiesInv
    <3> QED
      BY <3>2, <3>3
  <2> QED
    BY <2>2, <2>3
<1> QED
  BY <1>1, <1>2

\* The new record that the counter store adds is complete and in its bucket.
LEMMA WriteIntact ==
  ASSUME Control, FileInv, CopiesInv, RecoverableIntact,
         NEW t \in Thread, WriteCall(t) \/ WriteSteps(t)
  PROVE  RecoverableIntact'
<1>1. Keeps /\ TypeOK
  BY WriteKeeps DEF Control
<1> SUFFICES ASSUME NEW b \in Bucket, NEW i \in 0 .. cnt'[b] - 1
             PROVE  /\ ValAt(b, i)' \in Value /\ KeyAt(b, i)' \in Key
                    /\ BucketOf(KeyAt(b, i)') = b
  BY DEF RecoverableIntact
<1>2. cnt[b] \in Nat
  BY <1>1, Sizes DEF TypeOK
<1>3. CASE i < cnt[b]
  <2>1. i \in 0 .. cnt[b] - 1
    BY <1>2, <1>3
  <2> QED
    BY <1>1, <2>1 DEF Keeps, RecoverableIntact
<1>4. CASE ~ i < cnt[b]
  <2>1. cnt'[b] # cnt[b]
    BY <1>2, <1>4
  <2>2. Publish(t) /\ b = BucketOfCall(t)
    BY <1>1, <2>1 DEF WriteSteps, WriteCall, BeginCopy, EndCopy, BeginValueWrite,
       EndValueWrite, StoreKey, BeginKeyWrite, EndKeyWrite, Publish, Return, TypeOK
  <2>3. arg[t].key \in Key /\ arg[t].value \in Value /\ b = BucketOf(arg[t].key)
    BY <2>2, OwnBucket DEF Publish, Step, BucketOfCall
  <2>4. PICK n \in Nat : n = cnt[b]
    BY <1>2
  <2>5. /\ cnt'[b] = n + 1
        /\ ValAt(b, n)' = arg[t].value /\ KeyAt(b, n)' = arg[t].key
    BY <2>2, <2>4, OwnPublish DEF CopiesInv
  <2>6. i = n
    BY <1>4, <2>4, <2>5
  <2> QED
    BY <2>3, <2>5, <2>6
<1> QED
  BY <1>3, <1>4

-----------------------------------------------------------------------------
(* The flush.                                                               *)

\* What a flush worker's pwrite covers, when it writes anything.
LEMMA PartBlock ==
  ASSUME NEW n \in 0 .. BucketCap, NEW d \in Nat \ {0}, BucketCap % d = 0, n % d # 0
  PROVE  /\ n - 1 \in Nat /\ BlockBase(n - 1, d) = BlockBase(n, d)
         /\ n % d = ((n - 1) % d) + 1 /\ n % d \in Nat /\ n % d <= d
         /\ BlockBase(n, d) + d <= BucketCap
<1>1. n \in Nat /\ BucketCap \in Nat
  BY Sizes
<1>2. n % d \in 0 .. d - 1 /\ n = BlockBase(n, d) + (n % d) /\ BlockBase(n, d) \in Nat
  BY <1>1, BlockBaseBounds, DivMod
<1>3. PICK m \in Nat : n = m + 1
  BY <1>1, <1>2
<1>4. (m + 1) % d # 0
  BY <1>3
<1>5. BlockBase(m + 1, d) = BlockBase(m, d) /\ (m + 1) % d = (m % d) + 1
  BY <1>4, NextRecord
<1>6. BlockBase(m, d) + d <= BucketCap
  BY <1>1, <1>3, BlockFits
<1>7. n - 1 = m
  BY <1>3
<1> QED
  BY <1>2, <1>3, <1>5, <1>6, <1>7

\* A flush finds either both buffer files or no record at all.
LEMMA FlushFiles ==
  ASSUME TypeOK, FileInv, mode = "flush", NEW b \in Bucket
  PROVE  cnt[b] = 0 \/ (valFile = "sized" /\ keyFile = "sized")
BY DEF FileInv, TypeOK, FileStates

\* Where the pwrites of a flush worker end.
LEMMA FlushRange ==
  ASSUME TypeOK, NEW b \in Bucket
  PROVE  /\ cnt[b] \in 0 .. BucketCap
         /\ cnt[b] % VBuf \in Nat /\ BlockBase(cnt[b], VBuf) \in Nat
         /\ BlockBase(cnt[b], VBuf) + (cnt[b] % VBuf) <= BucketCap
         /\ KeyFlushLen(b) \in Nat /\ BlockBase(cnt[b], KBuf) \in Nat
         /\ BlockBase(cnt[b], KBuf) + KeyFlushLen(b) <= BucketCap
<1>1. PICK n \in 0 .. BucketCap : n = cnt[b]
  BY DEF TypeOK
<1>2. n \in Nat
  BY Sizes
<1>3. BlockBase(n, VBuf) \in Nat /\ n = BlockBase(n, VBuf) + (n % VBuf) /\ n % VBuf \in 0 .. VBuf - 1
  BY <1>2, BlockBaseBounds, DivMod, Sizes
<1>4. BlockBase(n, KBuf) \in Nat /\ n = BlockBase(n, KBuf) + (n % KBuf) /\ n % KBuf \in 0 .. KBuf - 1
  BY <1>2, BlockBaseBounds, DivMod, Sizes
<1>5. n % VBuf \in Nat /\ BlockBase(n, VBuf) + (n % VBuf) <= BucketCap
  BY <1>2, <1>3, Sizes
<1>6. CASE KeyFlushLen(b) = 0
  <2>1. BlockBase(n, KBuf) + 0 <= BucketCap
    BY <1>2, <1>4, Sizes
  <2> QED
    BY <1>1, <1>3, <1>4, <1>5, <1>6, <2>1
<1>7. CASE KeyFlushLen(b) # 0
  <2>1. KeyFlushLen(b) = KBuf /\ n % KBuf # 0
    BY <1>1, <1>7 DEF KeyFlushLen
  <2>2. BlockBase(n, KBuf) + KBuf <= BucketCap
    BY <2>1, PartBlock, Sizes
  <2> QED
    BY <1>1, <1>3, <1>4, <1>5, <2>1, <2>2, Sizes
<1> QED
  BY <1>6, <1>7

\* A flush worker writes into the region of its bucket only.
LEMMA FlushOthers ==
  ASSUME TypeOK, NEW b \in Bucket, FlushSteps(b), NEW c \in Bucket, c # b
  PROVE  Same(c)
<1>1. UNCHANGED << cnt, valBuf, keyBuf >>
  BY DEF FlushSteps, FlushValueBegin, FlushValueEnd, FlushKeyBegin, FlushKeyEnd, FlushStep, bufs
<1>2. ASSUME NEW x, keyLog' = keyLog,
             valLog' = Pwrite(valLog, b, BlockBase(cnt[b], VBuf), cnt[b] % VBuf, x)
      PROVE  Same(c)
  <2>1. PICK base \in Nat, len \in Nat :
          base = BlockBase(cnt[b], VBuf) /\ len = cnt[b] % VBuf /\ base + len <= BucketCap
    BY FlushRange
  <2>2. \A i \in 0 .. BucketCap - 1 :
          Pwrite(valLog, b, base, len, x)[Slot(c, i)] = valLog[Slot(c, i)]
    BY <2>1, PwriteOutside, Sizes
  <2> QED
    BY <1>1, <1>2, <2>1, <2>2 DEF Same
<1>3. ASSUME NEW x, valLog' = valLog,
             keyLog' = Pwrite(keyLog, b, BlockBase(cnt[b], KBuf), KeyFlushLen(b), x)
      PROVE  Same(c)
  <2>1. PICK base \in Nat, len \in Nat :
          base = BlockBase(cnt[b], KBuf) /\ len = KeyFlushLen(b) /\ base + len <= BucketCap
    BY FlushRange
  <2>2. \A i \in 0 .. BucketCap - 1 :
          Pwrite(keyLog, b, base, len, x)[Slot(c, i)] = keyLog[Slot(c, i)]
    BY <2>1, PwriteOutside, Sizes
  <2> QED
    BY <1>1, <1>3, <2>1, <2>2 DEF Same
<1>4. CASE FlushValueBegin(b) \/ FlushValueEnd(b)
  BY <1>2, <1>4 DEF FlushValueBegin, FlushValueEnd
<1>5. CASE FlushKeyBegin(b) \/ FlushKeyEnd(b)
  BY <1>3, <1>5 DEF FlushKeyBegin, FlushKeyEnd
<1> QED
  BY <1>4, <1>5 DEF FlushSteps

\* It writes below what is read from the buffers, so it keeps every record.
LEMMA FlushKeeps ==
  ASSUME TypeOK, FileInv, NEW b \in Bucket, FlushSteps(b)
  PROVE  Keeps
<1>1. UNCHANGED << files, cnt, bufs >> /\ mode = "flush"
  BY DEF FlushSteps, FlushValueBegin, FlushValueEnd, FlushKeyBegin, FlushKeyEnd, FlushStep
<1>2. \A c \in Bucket \ {b} : KeepsOf(c)
  BY <1>1, FlushOthers, SameKeeps DEF KeepsOf, files
<1>3. KeepsOf(b)
  <2>1. CASE cnt[b] = 0
    BY <2>1 DEF KeepsOf
  <2>2. CASE valFile = "sized" /\ keyFile = "sized"
    <3>1. ASSUME NEW x, keyLog' = keyLog,
                 valLog' = Pwrite(valLog, b, BlockBase(cnt[b], VBuf), cnt[b] % VBuf, x)
          PROVE  KeepsOf(b)
      BY <1>1, <2>2, <3>1, FlushRange, KeepsPwriteValues
    <3>2. ASSUME NEW x, valLog' = valLog,
                 keyLog' = Pwrite(keyLog, b, BlockBase(cnt[b], KBuf), KeyFlushLen(b), x)
          PROVE  KeepsOf(b)
      BY <1>1, <2>2, <3>2, FlushRange, KeepsPwriteKeys
    <3>3. CASE FlushValueBegin(b) \/ FlushValueEnd(b)
      BY <3>1, <3>3 DEF FlushValueBegin, FlushValueEnd
    <3>4. CASE FlushKeyBegin(b) \/ FlushKeyEnd(b)
      BY <3>2, <3>4 DEF FlushKeyBegin, FlushKeyEnd
    <3> QED
      BY <3>3, <3>4 DEF FlushSteps
  <2> QED
    BY <1>1, <2>1, <2>2, FlushFiles
<1> QED
  BY <1>2, <1>3 DEF KeepsOf, Keeps

\* When a worker says it is done with a bucket's part, that part is in the log.
FlushedOf(b) ==
  /\ flushed[b] \in {"val", "keyPart", "key"} /\ cnt[b] % VBuf # 0 => ValCopied(b, cnt[b] - 1)
  /\ flushed[b] = "key" /\ cnt[b] % KBuf # 0 => KeyCopied(b, cnt[b] - 1)

LEMMA FlushFlushed ==
  ASSUME TypeOK, FileInv, NEW b \in Bucket, FlushSteps(b), valFile = "sized", FlushedOf(b)
  PROVE  FlushedOf(b)'
<1> DEFINE n == cnt[b]
<1> USE DEF FlushStep, files, bufs
<1>1. UNCHANGED << files, cnt, bufs >> /\ mode = "flush"
  BY DEF FlushSteps, FlushValueBegin, FlushValueEnd, FlushKeyBegin, FlushKeyEnd
<1>2. n \in 0 .. BucketCap
  BY DEF TypeOK
<1>3. n # 0 => keyFile = "sized"
  BY <1>1, FlushFiles DEF FileInv
<1>4. valLog' = valLog => (ValCopied(b, n - 1) => ValCopied(b, n - 1)')
  BY <1>1 DEF ValCopied
<1>5. CASE FlushValueBegin(b)
  <2>1. flushed'[b] = "valPart"
    BY <1>5 DEF FlushValueBegin, TypeOK
  <2> QED
    BY <2>1 DEF FlushedOf
<1>6. CASE FlushValueEnd(b)
  <2>1. flushed'[b] = "val"
    BY <1>6 DEF FlushValueEnd, TypeOK
  <2>2. ASSUME n % VBuf # 0 PROVE ValCopied(b, n - 1)'
    <3>1. /\ n - 1 \in Nat /\ BlockBase(n - 1, VBuf) = BlockBase(n, VBuf)
          /\ n % VBuf = ((n - 1) % VBuf) + 1 /\ n % VBuf \in Nat /\ n % VBuf <= VBuf
          /\ BlockBase(n, VBuf) + VBuf <= BucketCap
      BY <1>2, <2>2, PartBlock, Sizes
    <3>2. PICK m \in Nat, len \in Nat :
            /\ m = n - 1 /\ len = n % VBuf /\ len > m % VBuf /\ len <= VBuf
            /\ BlockBase(m, VBuf) + len <= BucketCap
      <4>1. (n - 1) % VBuf \in Nat
        <5>1. (n - 1) % VBuf \in 0 .. VBuf - 1
          BY <3>1, Indices
        <5> QED
          BY <5>1
      <4>2. BlockBase(n, VBuf) \in Nat
        BY <1>2, FlushRange
      <4> QED
        BY <3>1, <4>1, <4>2, Sizes
    <3>3. valLog' = Pwrite(valLog, b, BlockBase(m, VBuf), len, valBuf[b])
      BY <1>6, <3>1, <3>2 DEF FlushValueEnd
    <3>4. Copied(valLog', valBuf[b], VBuf, b, m)
      BY <3>2, <3>3, CopiedPwrite, Sizes
    <3> QED
      BY <1>1, <3>2, <3>4 DEF ValCopied, Copied
  <2> QED
    BY <1>1, <2>1, <2>2 DEF FlushedOf, ValCopied
<1>7. CASE FlushKeyBegin(b)
  <2>1. flushed'[b] = "keyPart" /\ flushed[b] = "val" /\ valLog' = valLog
    BY <1>7 DEF FlushKeyBegin, TypeOK
  <2> QED
    BY <1>1, <1>4, <2>1 DEF FlushedOf, ValCopied
<1>8. CASE FlushKeyEnd(b)
  <2>1. flushed'[b] = "key" /\ flushed[b] = "keyPart" /\ valLog' = valLog
    BY <1>8 DEF FlushKeyEnd, TypeOK
  <2>2. ASSUME n % KBuf # 0 PROVE KeyCopied(b, n - 1)'
    <3>1. /\ n - 1 \in Nat /\ BlockBase(n - 1, KBuf) = BlockBase(n, KBuf)
          /\ BlockBase(n, KBuf) + KBuf <= BucketCap
      BY <1>2, <2>2, PartBlock, Sizes
    <3>2. PICK m \in Nat :
            m = n - 1 /\ KBuf > m % KBuf /\ BlockBase(m, KBuf) + KBuf <= BucketCap
      <4>1. (n - 1) % KBuf \in 0 .. KBuf - 1
        BY <3>1, Indices
      <4>2. KBuf > (n - 1) % KBuf
        BY <4>1, Sizes
      <4> QED
        BY <3>1, <4>2
    <3>3. n # 0
      BY <3>1
    <3>4. KeyFlushLen(b) = KBuf
      BY <1>3, <2>2, <3>3 DEF KeyFlushLen
    <3>5. keyLog' = Pwrite(keyLog, b, BlockBase(m, KBuf), KBuf, keyBuf[b])
      BY <1>8, <3>1, <3>2, <3>4 DEF FlushKeyEnd
    <3>6. Copied(keyLog', keyBuf[b], KBuf, b, m)
      BY <3>2, <3>5, CopiedPwrite, Sizes
    <3> QED
      BY <1>1, <3>2, <3>6 DEF KeyCopied, Copied
  <2> QED
    BY <1>1, <1>4, <2>1, <2>2 DEF FlushedOf, ValCopied, KeyCopied
<1> QED
  BY <1>5, <1>6, <1>7, <1>8 DEF FlushSteps

\* The other buckets' progress stays.
LEMMA FlushFlushedOthers ==
  ASSUME TypeOK, NEW b \in Bucket, FlushSteps(b), NEW c \in Bucket, c # b, FlushedOf(c)
  PROVE  FlushedOf(c)'
<1>1. Same(c) /\ flushed'[c] = flushed[c]
  <2>1. flushed'[c] = flushed[c]
    BY DEF FlushSteps, FlushValueBegin, FlushValueEnd, FlushKeyBegin, FlushKeyEnd, FlushStep, TypeOK
  <2> QED
    BY <2>1, FlushOthers
<1>2. PICK n \in 0 .. BucketCap : n = cnt[c]
  BY DEF TypeOK
<1>3. cnt'[c] = n
  BY <1>1, <1>2 DEF Same
<1>4. CASE n = 0
  <2>1. 0 % VBuf = 0 /\ 0 % KBuf = 0
    BY Sizes
  <2> QED
    BY <1>3, <1>4, <2>1 DEF FlushedOf
<1>5. CASE n # 0
  <2>1. PICK m \in 0 .. BucketCap - 1 : m = n - 1
    BY <1>2, <1>5, Sizes
  <2>2. /\ ValCopied(c, m) => ValCopied(c, m)'
        /\ KeyCopied(c, m) => KeyCopied(c, m)'
    BY <1>1, SameCopied
  <2> QED
    BY <1>1, <1>2, <1>3, <2>1, <2>2 DEF FlushedOf, ValCopied, KeyCopied
<1> QED
  BY <1>4, <1>5

LEMMA FlushFlushInv ==
  ASSUME TypeOK, FileInv, FlushInv, NEW b \in Bucket, FlushSteps(b)
  PROVE  FlushInv'
<1>1. mode = "flush" /\ mode' = "flush" /\ valFile' = valFile
  BY DEF FlushSteps, FlushValueBegin, FlushValueEnd, FlushKeyBegin, FlushKeyEnd, FlushStep, files
<1>2. ASSUME valFile = "sized", NEW c \in Bucket PROVE FlushedOf(c)'
  <2>1. FlushedOf(b) /\ FlushedOf(c)
    BY <1>1, <1>2 DEF FlushInv, FlushedOf
  <2>2. CASE c = b
    BY <1>2, <2>1, <2>2, FlushFlushed
  <2>3. CASE c # b
    BY <2>1, <2>3, FlushFlushedOthers
  <2> QED
    BY <2>2, <2>3
<1> QED
  BY <1>1, <1>2 DEF FlushInv, FlushedOf

-----------------------------------------------------------------------------
(* Open, close, truncation and kill.                                        *)

\* Steps that touch neither the counters nor the buffers nor the logs, and no
\* file that the recovery asks for.
LEMMA QuietKeeps ==
  ASSUME TypeOK, UNCHANGED << valFile, keyFile, cnt, bufs, logs >>
  PROVE  Keeps
<1>1. \A c \in Bucket : Same(c)
  BY DEF Same, bufs, logs
<1> QED
  BY <1>1, SameKeeps DEF Keeps

\* The value buffers are given up after every bucket was flushed.
LEMMA TruncValKeeps ==
  ASSUME TypeOK, FileInv, FlushInv, TruncVal
  PROVE  Keeps
<1>1. UNCHANGED << keyFile, cnt, keyBuf, logs >> /\ mode = "truncVal"
  BY DEF TruncVal
<1>2. CASE valFile # "sized"
  <2>1. valFile' # "sized"
    BY <1>2 DEF TruncVal
  <2>2. \A b \in Bucket, i \in Int : ValAt(b, i)' = ValAt(b, i) /\ KeyAt(b, i)' = KeyAt(b, i)
    BY <1>1, <1>2, <2>1 DEF ValAt, KeyAt, logs
  <2> QED
    BY <1>1, <2>2, Sizes DEF Keeps, TypeOK
<1>3. CASE valFile = "sized"
  <2>1. valFile' = "empty"
    BY <1>3 DEF TruncVal
  <2> SUFFICES ASSUME NEW b \in Bucket, NEW i \in 0 .. cnt[b] - 1
               PROVE  i < cnt'[b] /\ ValAt(b, i)' = ValAt(b, i) /\ KeyAt(b, i)' = KeyAt(b, i)
    BY DEF Keeps
  <2>2. PICK n \in Nat : n = cnt[b] /\ i \in 0 .. n - 1
    BY Sizes DEF TypeOK
  <2>3. keyFile = "sized"
    BY <1>3, <2>2 DEF FileInv
  <2>4. /\ n % VBuf # 0 => Copied(valLog, valBuf[b], VBuf, b, n - 1)
        /\ n % KBuf # 0 => Copied(keyLog, keyBuf[b], KBuf, b, n - 1)
    BY <1>1, <1>3, <2>2 DEF FlushInv, ValCopied, KeyCopied, Copied
  <2>5. valLog[Slot(b, i)] = Buffered(valLog, valBuf[b], VBuf, b, n, i)
    BY <2>2, <2>4, BufferedOff, Sizes
  <2>6. keyLog[Slot(b, i)] = Buffered(keyLog, keyBuf[b], KBuf, b, n, i)
    BY <2>2, <2>4, BufferedOff, Sizes
  <2>7. ValAt(b, i)' = ValAt(b, i)
    BY <1>1, <1>3, <2>1, <2>2, <2>5 DEF ValAt, Buffered, logs
  <2>8. KeyAt(b, i)' = KeyAt(b, i)
    BY <1>1, <1>3, <2>1, <2>2, <2>3, <2>6 DEF KeyAt, Buffered, logs
  <2> QED
    BY <1>1, <2>2, <2>7, <2>8
<1> QED
  BY <1>2, <1>3

\* By then the keys are no longer read from their buffers.
LEMMA TruncKeyKeeps ==
  ASSUME TypeOK, FileInv, TruncKey
  PROVE  Keeps
<1>1. UNCHANGED << valFile, cnt, valBuf, logs >> /\ valFile # "sized"
  BY DEF TruncKey, FileInv
<1>2. \A b \in Bucket, i \in Int : ValAt(b, i)' = ValAt(b, i) /\ KeyAt(b, i)' = KeyAt(b, i)
  BY <1>1 DEF ValAt, KeyAt, logs
<1> QED
  BY <1>1, <1>2, Sizes DEF Keeps, TypeOK

LEMMA OtherKeeps ==
  ASSUME Control, FileInv, FlushInv, OtherSteps \/ Kill
  PROVE  Keeps
<1> USE DEF files, disk
<1>0. TypeOK
  BY DEF Control
<1>1. CASE OpenFresh \/ OpenExisting \/ Close \/ Kill
  BY <1>0, <1>1, QuietKeeps DEF OpenFresh, OpenExisting, Close, Kill
<1>2. CASE FaultOnMeta \/ FlushJoin \/ BuildIndex \/ \E t \in Thread : WriteAfterReopen(t)
  BY <1>0, <1>2, QuietKeeps DEF FaultOnMeta, FlushJoin, BuildIndex, WriteAfterReopen
<1>3. CASE TruncVal \/ TruncKey
  BY <1>0, <1>3, TruncValKeeps, TruncKeyKeeps
<1>4. CASE CreateSteps
  <2>1. \A b \in Bucket : cnt[b] = 0
    BY <1>4 DEF FileInv, CreateSteps, SizeMeta, CreateValFile, CreateKeyFile
  <2> QED
    BY <2>1 DEF Keeps
<1>5. CASE \E b \in Bucket : FlushSteps(b)
  BY <1>0, <1>5, FlushKeeps
<1> QED
  BY <1>1, <1>2, <1>3, <1>4, <1>5 DEF OtherSteps, TailSteps

\* No other step adds a record; creating the meta file finds none.
LEMMA OtherIntact ==
  ASSUME Control, FileInv, FlushInv, RecoverableIntact, OtherSteps \/ Kill
  PROVE  RecoverableIntact'
<1>1. Keeps
  BY OtherKeeps
<1>2. cnt' = cnt \/ \A b \in Bucket : cnt'[b] = 0
  BY DEF OtherSteps, TailSteps, CreateSteps, OpenFresh, OpenExisting, Close, Kill, FaultOnMeta,
     FlushJoin, BuildIndex, WriteAfterReopen, TruncVal, TruncKey, SizeMeta, CreateValFile,
     CreateKeyFile, FlushSteps, FlushValueBegin, FlushValueEnd, FlushKeyBegin, FlushKeyEnd,
     FlushStep, disk
<1>3. CASE cnt' = cnt
  BY <1>1, <1>3 DEF Keeps, RecoverableIntact
<1>4. CASE \A b \in Bucket : cnt'[b] = 0
  BY <1>4 DEF RecoverableIntact
<1> QED
  BY <1>2, <1>3, <1>4

-----------------------------------------------------------------------------
(* Files.                                                                   *)

LEMMA FileWrite ==
  ASSUME Control, FileInv, NEW t \in Thread, WriteCall(t) \/ WriteSteps(t)
  PROVE  FileInv'
<1>1. mode = "writer"
  BY DEF Control, CallInv, WriteCall, WriteSteps, BeginCopy, EndCopy, BeginValueWrite,
         EndValueWrite, StoreKey, BeginKeyWrite, EndKeyWrite, Publish, Return, Step
<1>2. UNCHANGED << files, mode >>
  BY DEF WriteCall, WriteSteps, BeginCopy, EndCopy, BeginValueWrite,
         EndValueWrite, StoreKey, BeginKeyWrite, EndKeyWrite, Publish, Return, Step
<1> QED
  BY <1>1, <1>2 DEF FileInv, files

LEMMA FileOther ==
  ASSUME Control, FileInv, OtherSteps \/ Kill
  PROVE  FileInv'
<1> USE DEF files, disk, FileInv
<1>1. CASE OpenFresh
  BY <1>1 DEF OpenFresh
<1>2. CASE OpenExisting
  BY <1>2 DEF OpenExisting
<1>3. CASE CreateSteps
  <2>1. CASE SizeMeta
    BY <2>1 DEF SizeMeta
  <2>2. CASE CreateValFile
    BY <2>2 DEF CreateValFile
  <2>3. CASE CreateKeyFile
    BY <2>3 DEF CreateKeyFile
  <2> QED
    BY <1>3, <2>1, <2>2, <2>3 DEF CreateSteps
<1>4. CASE FaultOnMeta \/ FlushJoin \/ BuildIndex
  BY <1>4 DEF FaultOnMeta, FlushJoin, BuildIndex
<1>5. CASE TruncVal
  BY <1>5 DEF TruncVal
<1>6. CASE TruncKey
  BY <1>6 DEF TruncKey
<1>7. CASE Close \/ Kill
  BY <1>7 DEF Close, Kill
<1>8. CASE \E t \in Thread : WriteAfterReopen(t)
  BY <1>8 DEF WriteAfterReopen
<1>9. CASE \E b \in Bucket : FlushSteps(b)
  BY <1>9 DEF FlushSteps, FlushValueBegin, FlushValueEnd, FlushKeyBegin, FlushKeyEnd, FlushStep
<1> QED
  BY <1>1, <1>2, <1>3, <1>4, <1>5, <1>6, <1>7, <1>8, <1>9 DEF OtherSteps, TailSteps

\* A flush starts with nothing done and is over when everything is.
LEMMA FlushOther ==
  ASSUME Control, FileInv, FlushInv, OtherSteps \/ Kill
  PROVE  FlushInv'
<1> USE DEF files, disk, bufs, logs
<1>0. TypeOK
  BY DEF Control
<1>1. CASE OpenExisting \/ Close
  <2>1. mode' # "truncVal"
    BY <1>1 DEF OpenExisting, Close
  <2>2. mode' = "flush" => \A b \in Bucket : flushed'[b] = "none"
    BY <1>1 DEF OpenExisting, Close
  <2> QED
    BY <2>1, <2>2 DEF FlushInv
<1>2. CASE FlushJoin
  BY <1>2 DEF FlushJoin, FlushInv, ValCopied, KeyCopied
<1>3. CASE OpenFresh \/ FaultOnMeta \/ BuildIndex \/ TruncVal \/ TruncKey \/ Kill
  BY <1>3 DEF OpenFresh, FaultOnMeta, BuildIndex, TruncVal, TruncKey, Kill, FlushInv
<1>4. CASE CreateSteps \/ \E t \in Thread : WriteAfterReopen(t)
  BY <1>4 DEF CreateSteps, SizeMeta, CreateValFile, CreateKeyFile, WriteAfterReopen, FlushInv
<1>5. CASE \E b \in Bucket : FlushSteps(b)
  BY <1>0, <1>5, FlushFlushInv
<1> QED
  BY <1>1, <1>2, <1>3, <1>4, <1>5 DEF OtherSteps, TailSteps

-----------------------------------------------------------------------------
(* The theorems.                                                            *)

LEMMA InvInit ==
  ASSUME Init
  PROVE  IInv
<1>1. Control
  BY ControlInit
<1>2. CopiesInv
  BY DEF Init, CopiesInv, CopyInv, Locking
<1>3. FileInv /\ FlushInv
  BY DEF Init, FileInv, FlushInv
<1>4. RecoverableIntact
  BY DEF Init, RecoverableIntact
<1> QED
  BY <1>1, <1>2, <1>3, <1>4 DEF IInv, Control

LEMMA OtherCopies ==
  ASSUME CallInv, OtherSteps \/ Kill
  PROVE  CopiesInv'
<1>1. \A t \in Thread : pc'[t] = "idle"
  BY OtherStepsIdle DEF Kill, NoCalls, calls
<1> QED
  BY <1>1 DEF CopiesInv, CopyInv, Locking

LEMMA WriteFlush ==
  ASSUME Control, FlushInv, NEW t \in Thread, WriteCall(t) \/ WriteSteps(t)
  PROVE  FlushInv'
<1>1. mode = "writer" /\ mode' = mode
  BY DEF Control, CallInv, WriteCall, WriteSteps, BeginCopy, EndCopy, BeginValueWrite,
         EndValueWrite, StoreKey, BeginKeyWrite, EndKeyWrite, Publish, Return, Step
<1> QED
  BY <1>1 DEF FlushInv

LEMMA InvStep ==
  ASSUME IInv, [Next]_vars
  PROVE  IInv' /\ Keeps
<1>0. Control /\ CopiesInv /\ FileInv /\ FlushInv /\ RecoverableIntact /\ CallInv
  BY DEF IInv, Control
<1>1. Control'
  BY <1>0, ControlStep
<1>2. CASE \E t \in Thread : WriteCall(t) \/ WriteSteps(t)
  <2>1. CopiesInv' /\ FileInv' /\ FlushInv' /\ RecoverableIntact' /\ Keeps
    BY <1>0, <1>2, WriteCopies, FileWrite, WriteFlush, WriteIntact, WriteKeeps
  <2> QED
    BY <1>1, <2>1 DEF IInv, Control
<1>3. CASE OtherSteps \/ Kill
  <2>1. CopiesInv' /\ FileInv' /\ FlushInv' /\ RecoverableIntact' /\ Keeps
    BY <1>0, <1>3, OtherCopies, FileOther, FlushOther, OtherIntact, OtherKeeps
  <2> QED
    BY <1>1, <2>1 DEF IInv, Control
<1>4. CASE UNCHANGED vars
  <2>1. /\ UNCHANGED << metaFile, valFile, keyFile, cnt, valBuf, keyBuf, valLog, keyLog >>
        /\ UNCHANGED << mode, flushed, holder, pc, arg >>
    BY <1>4 DEF vars, disk, files, bufs, logs, calls
  <2>2. CopiesInv'
    BY <1>0, <2>1 DEF CopiesInv, CopyInv, BucketOfCall, ValCopied, KeyCopied
  <2>3. FileInv'
    BY <1>0, <2>1 DEF FileInv
  <2>4. FlushInv'
    BY <1>0, <2>1 DEF FlushInv, ValCopied, KeyCopied
  <2>5. Keeps
    BY <1>0, <2>1, QuietKeeps DEF Control, bufs, logs
  <2>6. RecoverableIntact'
    BY <1>0, <2>1, <2>5 DEF RecoverableIntact, Keeps
  <2> QED
    BY <1>1, <2>2, <2>3, <2>4, <2>5, <2>6 DEF IInv, Control
<1> QED
  BY <1>2, <1>3, <1>4, StepCases

\* IInv is inductive and so holds in every reachable state: the parts of the
\* flush and of each Write done so far are where the recovery will look for them.
THEOREM Invariant ==
  Spec => []IInv
<1>1. Init => IInv
  BY InvInit
<1>2. IInv /\ [Next]_vars => IInv'
  BY InvStep
<1> QED
  BY <1>1, <1>2, PTL DEF Spec

\* Whatever the threads, the flush workers or a kill were in the middle of, each
\* counted record can be recovered complete and in its bucket (Write 373-401,
\* ParallelFlushTmp 820-860).
THEOREM Intact ==
  Spec => []RecoverableIntact
<1>1. IInv => RecoverableIntact
  BY DEF IInv
<1> QED
  BY <1>1, Invariant, PTL

\* No step of any actor changes or forgets a counted record.
THEOREM Stays ==
  Spec => CommittedStays
<1>1. IInv /\ [Next]_vars =>
        [\A b \in Bucket : \A i \in 0 .. cnt[b] - 1 :
           /\ i < cnt'[b]
           /\ ValAt(b, i)' = ValAt(b, i)
           /\ KeyAt(b, i)' = KeyAt(b, i)]_vars
  BY InvStep DEF Keeps
<1> QED
  BY <1>1, Invariant, PTL DEF Spec, CommittedStays

-----------------------------------------------------------------------------
(* The engine implements the abstract log of DurableLog: the counter store  *)
(* of Publish is the abstract append, the entry and the return of Write are *)
(* the abstract call and return, a kill is the abstract kill, and every      *)
(* other step, flush and recovery included, is invisible.                  *)

\* The refinement mapping of Abs.
AbsLog == [b \in Bucket |-> Recovered(b)]
AbsReq == [t \in Thread |-> RequestOf(t)]

\* Records and requests as a step leaves them.
LEMMA LogSame ==
  ASSUME TypeOK, Keeps, cnt' = cnt
  PROVE  AbsLog' = AbsLog
<1> SUFFICES ASSUME NEW b \in Bucket PROVE Recovered(b)' = Recovered(b)
  BY DEF AbsLog
<1>1. PICK n \in Nat : n = cnt[b] /\ n = cnt'[b]
  BY Sizes DEF TypeOK
<1>2. \A i \in 1 .. n : i - 1 \in 0 .. n - 1
  OBVIOUS
<1>3. \A i \in 1 .. n :
        KeyAt(b, i - 1)' = KeyAt(b, i - 1) /\ ValAt(b, i - 1)' = ValAt(b, i - 1)
  BY <1>1, <1>2 DEF Keeps
<1> QED
  BY <1>1, <1>3 DEF Recovered

LEMMA ReqSame ==
  ASSUME NEW u \in Thread, pc'[u] = pc[u], arg'[u] = arg[u]
  PROVE  RequestOf(u)' = RequestOf(u)
BY DEF RequestOf

\* A step within a call is invisible.
LEMMA ReqPending ==
  ASSUME NEW u \in Thread, pc[u] \notin {"idle", "return"}, pc'[u] \notin {"idle", "return"},
         arg'[u] = arg[u]
  PROVE  RequestOf(u)' = RequestOf(u)
BY DEF RequestOf

-----------------------------------------------------------------------------
(* The steps of Write.                                                      *)

LEMMA CallStep ==
  ASSUME IInv, Keeps, NEW t \in Thread, WriteCall(t)
  PROVE  Abs!DCall(t)
<1>1. TypeOK /\ cnt' = cnt
  BY DEF IInv, WriteCall
<1>2. PICK p \in Pair : arg' = [arg EXCEPT ![t] = p]
  BY DEF WriteCall
<1>3. pc[t] = "idle" /\ pc' = [pc EXCEPT ![t] = "enter"]
  BY DEF WriteCall, Step
<1>4. arg'[t] = p /\ pc'[t] = "enter"
  BY <1>1, <1>2, <1>3 DEF TypeOK
<1>5. RequestOf(t) = Abs!Idle /\ RequestOf(t)' = Abs!Pending(p.key, p.value)
  BY <1>3, <1>4 DEF RequestOf, Abs!Idle, Abs!Pending
<1>6. \A u \in Thread \ {t} : RequestOf(u)' = RequestOf(u)
  BY <1>1, <1>2, <1>3, ReqSame DEF TypeOK
<1>7. AbsReq' = [AbsReq EXCEPT ![t] = Abs!Pending(p.key, p.value)]
  BY <1>5, <1>6 DEF AbsReq
<1>8. p.key \in Key /\ p.value \in Value
  BY DEF Pair
<1>9. AbsLog' = AbsLog
  BY <1>1, LogSame
<1> QED
  BY <1>5, <1>7, <1>8, <1>9 DEF Abs!DCall, AbsReq, AbsLog

LEMMA ReturnStep ==
  ASSUME IInv, Keeps, NEW t \in Thread, Return(t)
  PROVE  Abs!DReturn(t)
<1>1. TypeOK /\ cnt' = cnt
  BY DEF IInv, Return
<1>2. /\ pc[t] = "return" /\ pc' = [pc EXCEPT ![t] = "idle"]
      /\ arg' = [arg EXCEPT ![t] = None]
  BY DEF Return, Step
<1>3. pc'[t] = "idle"
  BY <1>1, <1>2 DEF TypeOK
<1>4. RequestOf(t) = Abs!Published /\ RequestOf(t)' = Abs!Idle
  BY <1>2, <1>3 DEF RequestOf, Abs!Idle, Abs!Published
<1>5. \A u \in Thread \ {t} : RequestOf(u)' = RequestOf(u)
  BY <1>1, <1>2, ReqSame DEF TypeOK
<1>6. AbsReq' = [AbsReq EXCEPT ![t] = Abs!Idle]
  BY <1>4, <1>5 DEF AbsReq
<1>7. AbsLog' = AbsLog
  BY <1>1, LogSame
<1> QED
  BY <1>4, <1>6, <1>7 DEF Abs!DReturn, AbsReq, AbsLog

\* The steps between entry and counter store.
LEMMA SilentStep ==
  ASSUME IInv, Keeps, NEW t \in Thread, WriteSteps(t), ~ Publish(t), ~ Return(t)
  PROVE  UNCHANGED Abs!dvars
<1>1. /\ TypeOK /\ cnt' = cnt /\ arg' = arg
      /\ pc[t] \notin {"idle", "return"}
      /\ \E to \in PCs \ {"idle", "return"} : pc' = [pc EXCEPT ![t] = to]
  BY DEF IInv, WriteSteps, BeginCopy, EndCopy, BeginValueWrite, EndValueWrite, StoreKey,
         BeginKeyWrite, EndKeyWrite, Step, PCs
<1>2. pc'[t] \notin {"idle", "return"} /\ \A u \in Thread \ {t} : pc'[u] = pc[u]
  BY <1>1 DEF TypeOK
<1>3. \A u \in Thread : RequestOf(u)' = RequestOf(u)
  BY <1>1, <1>2, ReqSame, ReqPending
<1>4. AbsReq' = AbsReq
  BY <1>3 DEF AbsReq
<1>5. AbsLog' = AbsLog
  BY <1>1, LogSame
<1> QED
  BY <1>4, <1>5 DEF Abs!dvars, AbsReq, AbsLog

\* The counter store appends the pair of the call to the log of its bucket.
LEMMA AppendStep ==
  ASSUME IInv, Keeps, RecoverableIntact', NEW t \in Thread, Publish(t)
  PROVE  Abs!DAppend(t)
<1>0. Control /\ CopiesInv /\ FileInv /\ RecoverableIntact /\ TypeOK
  BY DEF IInv, Control
<1>1. /\ pc[t] = "publish" /\ pc' = [pc EXCEPT ![t] = "return"] /\ arg' = arg
      /\ cnt' = [cnt EXCEPT ![BucketOfCall(t)] = @ + 1]
  BY DEF Publish, Step
<1>2. PICK k \in Key, v \in Value, b \in Bucket :
        k = arg[t].key /\ v = arg[t].value /\ b = BucketOfCall(t) /\ b = BucketOf(k)
  BY <1>0, <1>1, OwnBucket DEF BucketOfCall
<1>3. PICK n \in Nat : n = cnt[b]
  BY <1>0, Sizes DEF TypeOK
<1>4. cnt'[b] = n + 1 /\ ValAt(b, n)' = v /\ KeyAt(b, n)' = k
  <2>1. CopyInv(t) /\ b = BucketOfCall(t)
    BY <1>0, <1>2 DEF CopiesInv
  <2>2. /\ cnt'[b] = n + 1
        /\ ValAt(b, n)' = arg[t].value /\ KeyAt(b, n)' = arg[t].key
    BY <1>0, <1>3, <2>1, OwnPublish
  <2> QED
    BY <1>2, <2>2
<1>5. Recovered(b)' = Append(Recovered(b), << k, v >>)
  <2>1. \A i \in 1 .. n : i - 1 \in 0 .. n - 1 /\ i # n + 1
    OBVIOUS
  <2>2. Recovered(b) = [i \in 1 .. n |-> << KeyAt(b, i - 1), ValAt(b, i - 1) >>]
    BY <1>3 DEF Recovered
  <2>3. Recovered(b)' = [i \in 1 .. n + 1 |-> << KeyAt(b, i - 1)', ValAt(b, i - 1)' >>]
    BY <1>4 DEF Recovered
  <2>4. Recovered(b) \in Seq(Key \X Value) /\ Len(Recovered(b)) = n
    <3>1. \A i \in 1 .. n : << KeyAt(b, i - 1), ValAt(b, i - 1) >> \in Key \X Value
      BY <1>0, <1>3, <2>1 DEF RecoverableIntact
    <3> QED
      BY <2>2, <3>1
  <2>5. (n + 1) - 1 = n
    OBVIOUS
  <2>6. \A i \in 1 .. n : Recovered(b)'[i] = Recovered(b)[i]
    <3>1. \A i \in 1 .. n :
            KeyAt(b, i - 1)' = KeyAt(b, i - 1) /\ ValAt(b, i - 1)' = ValAt(b, i - 1)
      BY <1>3, <2>1 DEF Keeps
    <3>2. \A i \in 1 .. n : i \in 1 .. n + 1
      OBVIOUS
    <3> QED
      BY <2>2, <2>3, <3>1, <3>2
  <2>7. Recovered(b)'[n + 1] = << k, v >>
    BY <1>4, <2>3, <2>5
  <2> DEFINE old == Recovered(b)
             new == Recovered(b)'
  <2>8. new = [i \in 1 .. n + 1 |-> IF i <= n THEN old[i] ELSE << k, v >>]
    <3>1. \A i \in 1 .. n + 1 : i \in 1 .. n \/ (i = n + 1 /\ ~ i <= n)
      OBVIOUS
    <3>2. \A i \in 1 .. n : i <= n
      OBVIOUS
    <3>3. \A i \in 1 .. n + 1 : new[i] = IF i <= n THEN old[i] ELSE << k, v >>
      BY <2>6, <2>7, <3>1, <3>2
    <3>4. new = [i \in 1 .. n + 1 |-> new[i]]
      BY <2>3
    <3> HIDE DEF old, new
    <3> QED
      BY <3>3, <3>4
  <2> HIDE DEF old, new
  <2>9. Append(old, << k, v >>) = [i \in 1 .. Len(old) + 1 |-> IF i <= Len(old) THEN old[i] ELSE << k, v >>]
    BY <2>4 DEF old
  <2> QED
    BY <2>4, <2>8, <2>9 DEF old, new
<1>6. \A c \in Bucket \ {b} : Recovered(c)' = Recovered(c)
  <2> SUFFICES ASSUME NEW c \in Bucket \ {b} PROVE Recovered(c)' = Recovered(c)
    OBVIOUS
  <2>1. PICK m \in Nat : m = cnt[c] /\ m = cnt'[c]
    BY <1>0, <1>1, <1>2, Sizes DEF TypeOK
  <2>2. \A i \in 1 .. m : i - 1 \in 0 .. m - 1
    OBVIOUS
  <2>3. \A i \in 1 .. m :
          KeyAt(c, i - 1)' = KeyAt(c, i - 1) /\ ValAt(c, i - 1)' = ValAt(c, i - 1)
    BY <2>1, <2>2 DEF Keeps
  <2> QED
    BY <2>1, <2>3 DEF Recovered
<1>7. AbsLog' = [AbsLog EXCEPT ![b] = Append(@, << k, v >>)]
  BY <1>5, <1>6 DEF AbsLog
<1>8. pc'[t] = "return" /\ \A u \in Thread \ {t} : pc'[u] = pc[u]
  BY <1>0, <1>1 DEF TypeOK
<1>9. RequestOf(t) = Abs!Pending(k, v) /\ RequestOf(t)' = Abs!Published
  BY <1>1, <1>2, <1>8 DEF RequestOf, Abs!Pending, Abs!Published
<1>10. \A u \in Thread \ {t} : RequestOf(u)' = RequestOf(u)
  BY <1>1, <1>8, ReqSame
<1>11. AbsReq' = [AbsReq EXCEPT ![t] = Abs!Published] /\ AbsReq[t] = Abs!Pending(k, v)
  BY <1>9, <1>10 DEF AbsReq
<1>12. AbsLog' = [AbsLog EXCEPT ![BucketOf(k)] = Append(AbsLog[BucketOf(k)], << k, v >>)]
  BY <1>2, <1>7
<1> QED
  BY <1>11, <1>12, Zenon DEF Abs!DAppend, AbsReq, AbsLog

-----------------------------------------------------------------------------
(* Every other step.                                                        *)

LEMMA KillStep ==
  ASSUME IInv, Keeps, Kill
  PROVE  Abs!DKill
<1>1. TypeOK /\ cnt' = cnt /\ pc' = [t \in Thread |-> "idle"]
  BY DEF IInv, Kill, NoCalls, disk
<1>2. \A u \in Thread : RequestOf(u)' = Abs!Idle
  BY <1>1 DEF RequestOf, Abs!Idle
<1>3. AbsReq' = [u \in Thread |-> Abs!Idle]
  BY <1>2 DEF AbsReq
<1>4. AbsLog' = AbsLog
  BY <1>1, LogSame
<1> QED
  BY <1>3, <1>4 DEF Abs!DKill, AbsReq, AbsLog

LEMMA OtherStep ==
  ASSUME IInv, Keeps, TypeOK', OtherSteps
  PROVE  UNCHANGED Abs!dvars
<1>1. UNCHANGED << pc, arg >> /\ TypeOK /\ FileInv
  BY OtherStepsIdle DEF IInv, calls
<1>2. cnt' = cnt
  <2>1. CASE SizeMeta
    <3>1. \A b \in Bucket : cnt[b] = 0 /\ cnt'[b] = 0
      BY <1>1, <2>1 DEF SizeMeta, FileInv
    <3> QED
      BY <1>1, <3>1 DEF TypeOK
  <2>2. CASE ~ SizeMeta
    BY <2>2 DEF OtherSteps, TailSteps, CreateSteps, OpenFresh, OpenExisting, Close, FaultOnMeta,
       FlushJoin, BuildIndex, WriteAfterReopen, TruncVal, TruncKey, CreateValFile,
       CreateKeyFile, FlushSteps, FlushValueBegin, FlushValueEnd, FlushKeyBegin, FlushKeyEnd,
       FlushStep, disk
  <2> QED
    BY <2>1, <2>2
<1>3. AbsLog' = AbsLog
  BY <1>1, <1>2, LogSame
<1>4. \A u \in Thread : RequestOf(u)' = RequestOf(u)
  BY <1>1, ReqSame
<1>5. AbsReq' = AbsReq
  BY <1>4 DEF AbsReq
<1> QED
  BY <1>3, <1>5 DEF Abs!dvars, AbsReq, AbsLog

LEMMA RefineStep ==
  ASSUME IInv, [Next]_vars
  PROVE  [Abs!DNext]_(Abs!dvars)
<1>1. Keeps /\ IInv' /\ RecoverableIntact' /\ TypeOK'
  BY InvStep DEF IInv
<1>2. CASE \E t \in Thread : WriteCall(t) \/ WriteSteps(t)
  <2>1. PICK t \in Thread : WriteCall(t) \/ WriteSteps(t)
    BY <1>2
  <2>2. CASE WriteCall(t)
    BY <1>1, <2>2, CallStep DEF Abs!DNext
  <2>3. CASE Publish(t)
    BY <1>1, <2>3, AppendStep DEF Abs!DNext
  <2>4. CASE Return(t)
    BY <1>1, <2>4, ReturnStep DEF Abs!DNext
  <2>5. CASE WriteSteps(t) /\ ~ Publish(t) /\ ~ Return(t)
    BY <1>1, <2>5, SilentStep
  <2> QED
    BY <2>1, <2>2, <2>3, <2>4, <2>5
<1>3. CASE Kill
  BY <1>1, <1>3, KillStep DEF Abs!DNext
<1>4. CASE OtherSteps
  BY <1>1, <1>4, OtherStep
<1>5. CASE UNCHANGED vars
  <2>1. TypeOK /\ UNCHANGED << cnt, pc, arg >>
    BY <1>5 DEF IInv, vars, disk, calls
  <2>2. AbsLog' = AbsLog
    BY <1>1, <2>1, LogSame
  <2>3. AbsReq' = AbsReq
    BY <2>1, ReqSame DEF AbsReq
  <2> QED
    BY <2>2, <2>3 DEF Abs!dvars, AbsReq, AbsLog
<1> QED
  BY <1>2, <1>3, <1>4, <1>5, StepCases

LEMMA RefineInit ==
  ASSUME Init
  PROVE  Abs!DInit
<1>1. \A b \in Bucket : Recovered(b) = << >>
  <2> SUFFICES ASSUME NEW b \in Bucket PROVE Recovered(b) = << >>
    OBVIOUS
  <2>1. cnt[b] = 0
    BY DEF Init
  <2>2. Recovered(b) = [i \in 1 .. 0 |-> << KeyAt(b, i - 1), ValAt(b, i - 1) >>]
    BY <2>1 DEF Recovered
  <2>3. Recovered(b) \in Seq(Key) /\ Len(Recovered(b)) = 0
    BY <2>2
  <2> QED
    BY <2>3, EmptySeq
<1>2. \A t \in Thread : RequestOf(t) = Abs!Idle
  BY DEF Init, RequestOf, Abs!Idle
<1> QED
  BY <1>1, <1>2 DEF Abs!DInit

\* The engine implements the abstract log: each Write appends its own pair to its
\* own bucket, exactly once, at one instant between call and return, and a kill
\* loses exactly the calls that were not counted yet (Write 373-401).
THEOREM Refinement ==
  Spec => ImplementsDurableLog
<1>1. Init => Abs!DInit
  BY RefineInit
<1>2. IInv /\ [Next]_vars => [Abs!DNext]_(Abs!dvars)
  BY RefineStep
<1> QED
  BY <1>1, <1>2, Invariant, PTL DEF Spec, ImplementsDurableLog, Abs!DSpec

-----------------------------------------------------------------------------
(* sort.                                                                    *)

\* An entry of the index.
Entry == [key : Int, off : Int]

\* Where sort puts entry j: before entry i.
SortsBefore(e, j, i) == EntryLess(e[j], e[i]) \/ (e[j] = e[i] /\ j < i)

LEMMA SortsTotal ==
  ASSUME NEW n \in Nat, NEW e \in [1 .. n -> Entry], NEW i \in 1 .. n, NEW j \in 1 .. n
  PROVE  /\ i # j => SortsBefore(e, i, j) \/ SortsBefore(e, j, i)
         /\ ~ SortsBefore(e, i, i)
         /\ \A k \in 1 .. n : SortsBefore(e, i, j) /\ SortsBefore(e, j, k) => SortsBefore(e, i, k)
<1> \A k \in 1 .. n : e[k] \in Entry
  OBVIOUS
<1> DEFINE K(k) == e[k].key
           O(k) == e[k].off
<1>1. \A k \in 1 .. n : K(k) \in Int /\ O(k) \in Int
  BY DEF Entry
<1>2. \A k, l \in 1 .. n : e[k] = e[l] <=> K(k) = K(l) /\ O(k) = O(l)
  BY DEF Entry
<1>3. \A k, l \in 1 .. n : SortsBefore(e, k, l) <=>
          K(k) < K(l) \/ (K(k) = K(l) /\ O(k) > O(l)) \/ (K(k) = K(l) /\ O(k) = O(l) /\ k < l)
  BY <1>2 DEF SortsBefore, EntryLess
<1> HIDE DEF K, O
<1>4. i # j => SortsBefore(e, i, j) \/ SortsBefore(e, j, i)
  BY <1>1, <1>3
<1>5. ~ SortsBefore(e, i, i)
  BY <1>1, <1>3
<1>6. ASSUME NEW k \in 1 .. n, SortsBefore(e, i, j), SortsBefore(e, j, k)
      PROVE  SortsBefore(e, i, k)
  <2>1. K(i) \in Int /\ K(j) \in Int /\ K(k) \in Int /\ O(i) \in Int /\ O(j) \in Int /\ O(k) \in Int
    BY <1>1
  <2>2. K(i) < K(j) \/ (K(i) = K(j) /\ O(i) > O(j)) \/ (K(i) = K(j) /\ O(i) = O(j) /\ i < j)
    BY <1>3, <1>6
  <2>3. K(j) < K(k) \/ (K(j) = K(k) /\ O(j) > O(k)) \/ (K(j) = K(k) /\ O(j) = O(k) /\ j < k)
    BY <1>3, <1>6
  <2>4. K(i) < K(k) \/ (K(i) = K(k) /\ O(i) > O(k)) \/ (K(i) = K(k) /\ O(i) = O(k) /\ i < k)
    BY <2>1, <2>2, <2>3
  <2> QED BY <1>3, <2>4
<1> QED BY <1>4, <1>5, <1>6

LEMMA RankSet ==
  ASSUME NEW n \in Nat, NEW e \in [1 .. n -> Entry], NEW i \in 1 .. n
  PROVE  Rank(e, i) = Cardinality({j \in 1 .. n : SortsBefore(e, j, i)} \cup {i})
<1>1. ASSUME NEW j \in 1 .. n
      PROVE  (EntryLess(e[j], e[i]) \/ (e[j] = e[i] /\ j <= i)) <=> (SortsBefore(e, j, i) \/ j = i)
  BY DEF SortsBefore
<1>2. DOMAIN e = 1 .. n
  OBVIOUS
<1>3. {j \in DOMAIN e : EntryLess(e[j], e[i]) \/ (e[j] = e[i] /\ j <= i)}
        = {j \in 1 .. n : SortsBefore(e, j, i)} \cup {i}
  BY <1>1, <1>2
<1> QED BY <1>3 DEF Rank

LEMMA RankType ==
  ASSUME NEW n \in Nat, NEW e \in [1 .. n -> Entry], NEW i \in 1 .. n
  PROVE  Rank(e, i) \in 1 .. n
<1> DEFINE R == {j \in 1 .. n : SortsBefore(e, j, i)} \cup {i}
<1>1. R \in SUBSET (1 .. n) /\ R # {}
  OBVIOUS
<1>2. IsFiniteSet(1 .. n) /\ Cardinality(1 .. n) = n
  BY FS_Interval
<1>3. IsFiniteSet(R) /\ Cardinality(R) <= n /\ Cardinality(R) \in Nat
  BY <1>1, <1>2, FS_Subset, FS_CardinalityType
<1>4. Cardinality(R) # 0
  BY <1>1, <1>3, FS_EmptySet
<1> QED BY <1>3, <1>4, RankSet

LEMMA RankLess ==
  ASSUME NEW n \in Nat, NEW e \in [1 .. n -> Entry], NEW i \in 1 .. n, NEW j \in 1 .. n,
         SortsBefore(e, i, j)
  PROVE  Rank(e, i) < Rank(e, j)
<1> DEFINE R(k) == {l \in 1 .. n : SortsBefore(e, l, k)} \cup {k}
<1>1. R(i) \subseteq R(j)
  BY SortsTotal
<1>2. j \notin R(i)
  <2>1. ~ SortsBefore(e, j, j) /\ (SortsBefore(e, i, j) /\ SortsBefore(e, j, i) => SortsBefore(e, i, i))
        /\ ~ SortsBefore(e, i, i)
    BY SortsTotal
  <2> QED BY <2>1
<1>3. j \in R(j)
  OBVIOUS
<1>4. IsFiniteSet(R(j)) /\ IsFiniteSet(R(i)) /\ Cardinality(R(i)) \in Nat /\ Cardinality(R(j)) \in Nat
  <2>1. R(i) \in SUBSET (1 .. n) /\ R(j) \in SUBSET (1 .. n)
    OBVIOUS
  <2>2. IsFiniteSet(1 .. n)
    BY FS_Interval
  <2> HIDE DEF R
  <2>3. IsFiniteSet(R(i)) /\ IsFiniteSet(R(j))
    BY <2>1, <2>2, FS_Subset
  <2> QED BY <2>3, FS_CardinalityType
<1>5. Cardinality(R(i)) <= Cardinality(R(j)) /\ (Cardinality(R(i)) = Cardinality(R(j)) => R(i) = R(j))
  <2> HIDE DEF R
  <2> QED BY <1>1, <1>4, FS_Subset
<1>6. Rank(e, i) = Cardinality(R(i)) /\ Rank(e, j) = Cardinality(R(j))
  BY RankSet
<1> HIDE DEF R
<1> QED BY <1>2, <1>3, <1>4, <1>5, <1>6

LEMMA RankOnto ==
  ASSUME NEW n \in Nat, NEW e \in [1 .. n -> Entry], NEW r \in 1 .. n
  PROVE  \E i \in 1 .. n : Rank(e, i) = r
<1> DEFINE f == [i \in 1 .. n |-> Rank(e, i)]
<1>1. f \in [1 .. n -> 1 .. n]
  BY RankType
<1>2. \A i, j \in 1 .. n : f[i] = f[j] => i = j
  <2> SUFFICES ASSUME NEW i \in 1 .. n, NEW j \in 1 .. n, i # j PROVE f[i] # f[j]
    OBVIOUS
  <2>1. SortsBefore(e, i, j) \/ SortsBefore(e, j, i)
    BY SortsTotal
  <2>2. Rank(e, i) < Rank(e, j) \/ Rank(e, j) < Rank(e, i)
    BY <2>1, RankLess
  <2>3. Rank(e, i) \in Nat /\ Rank(e, j) \in Nat
    BY RankType
  <2> QED BY <2>2, <2>3
<1>3. f \in Injection(1 .. n, 1 .. n)
  BY <1>1, <1>2 DEF Injection, IsInjective
<1>4. IsFiniteSet(1 .. n)
  BY FS_Interval
<1>5. f \in Surjection(1 .. n, 1 .. n)
  BY <1>3, <1>4, FS_Injection
<1> QED BY <1>5 DEF Surjection

\* What sort does: it puts the entries in order, p[r] being the one that
\* comes to place r.
LEMMA SortOrders ==
  ASSUME NEW n \in Nat, NEW e \in [1 .. n -> Entry]
  PROVE  \E p \in [1 .. n -> 1 .. n] :
            /\ SortedEntries(e) = [r \in 1 .. n |-> e[p[r]]]
            /\ \A r, q \in 1 .. n : r < q => SortsBefore(e, p[r], p[q])
            /\ \A i \in 1 .. n : \E r \in 1 .. n : p[r] = i
<1> DEFINE p == [r \in 1 .. n |-> CHOOSE i \in 1 .. n : Rank(e, i) = r]
<1>1. \A r \in 1 .. n : p[r] \in 1 .. n /\ Rank(e, p[r]) = r
  BY RankOnto
<1>2. SortedEntries(e) = [r \in 1 .. n |-> e[p[r]]]
  BY DEF SortedEntries
<1> HIDE DEF p
<1>3. ASSUME NEW r \in 1 .. n, NEW q \in 1 .. n, r < q
      PROVE  SortsBefore(e, p[r], p[q])
  <2>1. p[r] # p[q] /\ ~ (Rank(e, p[q]) < Rank(e, p[r]))
    BY <1>1, <1>3
  <2>2. ~ SortsBefore(e, p[q], p[r])
    BY <2>1, <1>1, RankLess
  <2> QED BY <2>1, <2>2, <1>1, SortsTotal
<1>4. ASSUME NEW i \in 1 .. n
      PROVE  \E r \in 1 .. n : p[r] = i
  <2> DEFINE r == Rank(e, i)
  <2>1. r \in 1 .. n /\ Rank(e, p[r]) = r
    BY <1>1, RankType
  <2>2. p[r] = i
    <3>1. p[r] \in 1 .. n
      BY <1>1, <2>1
    <3>2. p[r] # i => SortsBefore(e, p[r], i) \/ SortsBefore(e, i, p[r])
      BY <3>1, SortsTotal
    <3>3. p[r] # i => Rank(e, p[r]) < Rank(e, i) \/ Rank(e, i) < Rank(e, p[r])
      BY <3>1, <3>2, RankLess
    <3> QED BY <2>1, <3>3
  <2> QED BY <2>1, <2>2
<1>5. p \in [1 .. n -> 1 .. n]
  BY <1>1 DEF p
<1> QED BY <1>2, <1>3, <1>4, <1>5


\* The halving loop: what it returns, and why it is defined.
Halved(a, key, s) ==
  LET half == s[2] \div 2 IN
  << IF a[s[1] + half + 1].key < key THEN s[1] + half ELSE s[1], s[2] - half >>

NarrowFrom(a, key) ==
  CHOOSE step : step = [s \in Nat \X Nat |->
        LET base == s[1]  m == s[2]  half == s[2] \div 2
        IN  IF m <= 1 THEN base
            ELSE step[<<IF a[base + half + 1].key < key THEN base + half ELSE base, m - half>>]]

LEMMA NarrowIs ==
  ASSUME NEW a, NEW key
  PROVE  Narrow(a, key) = NarrowFrom(a, key)[<<0, Len(a)>>]
BY DEF Narrow, NarrowFrom

LEMMA NarrowDefined ==
  ASSUME NEW a, NEW key
  PROVE  \A s \in Nat \X Nat :
           NarrowFrom(a, key)[s] = IF s[2] <= 1 THEN s[1] ELSE NarrowFrom(a, key)[Halved(a, key, s)]
<1> DEFINE S == Nat \X Nat
           Done == {s \in S : s[2] <= 1}
           next == [s \in S |-> Halved(a, key, s)]
           out == [s \in S |-> s[1]]
           measure == [s \in S |-> s[2]]
<1>1. ASSUME NEW s \in S
      PROVE  Halved(a, key, s) \in S
             /\ (s \notin Done => Halved(a, key, s)[2] < s[2])
  <2>1. PICK base \in Nat, m \in Nat : s = <<base, m>>
    OBVIOUS
  <2>2. m \div 2 \in Nat /\ m - (m \div 2) \in Nat /\ (m > 1 => m \div 2 >= 1)
    OBVIOUS
  <2> QED BY <2>1, <2>2 DEF Halved
<1>2. next \in [S -> S] /\ measure \in [S -> Nat] /\ out \in [S -> Nat]
  BY <1>1
<1>3. \A s \in S : s \notin Done => measure[next[s]] < measure[s]
  BY <1>1
<1>4. \E f : LoopResult(f, S, Done, next, out)
  <2> HIDE DEF S, Done, next, out, measure
  <2>1. next \in [S -> S]
    BY <1>2
  <2>2. out \in [S -> Nat]
    BY <1>2
  <2>3. measure \in [S -> Nat]
    BY <1>2
  <2> QED BY <2>1, <2>2, <2>3, <1>3, LoopFunction
<1> DEFINE Is(step) == step = [s \in Nat \X Nat |->
        LET base == s[1]  m == s[2]  half == s[2] \div 2
        IN  IF m <= 1 THEN base
            ELSE step[<<IF a[base + half + 1].key < key THEN base + half ELSE base, m - half>>]]
<1>5. ASSUME NEW f, LoopResult(f, S, Done, next, out)
      PROVE  Is(f)
  <2>0. f = [s \in S |-> f[s]]
    <3> HIDE DEF S, Done, next, out
    <3> QED BY <1>5 DEF LoopResult
  <2>1. \A s \in S : f[s] = IF s[2] <= 1 THEN s[1] ELSE f[Halved(a, key, s)]
    <3>1. \A s \in S : f[s] = IF s \in Done THEN out[s] ELSE f[next[s]]
      <4> HIDE DEF S, Done, next, out
      <4> QED BY <1>5 DEF LoopResult
    <3> HIDE DEF Halved
    <3> QED BY <3>1
  <2>2. f = [s \in S |-> IF s[2] <= 1 THEN s[1] ELSE f[Halved(a, key, s)]]
    <3> HIDE DEF S, Done, next, out
    <3> QED BY <2>0, <2>1
  <2> QED BY <2>2, Zenon DEF Halved
<1>6. NarrowFrom(a, key) = CHOOSE step : Is(step)
  BY DEF NarrowFrom
<1>7. Is(NarrowFrom(a, key))
  <2>1. \E f : Is(f)
    <3> HIDE DEF S, Done, next, out, Is
    <3> QED BY <1>4, <1>5
  <2> HIDE DEF Is
  <2> QED BY <2>1, <1>6
<1> QED BY <1>7 DEF Halved

\* The keys of a do not decrease.
Ascending(a, n) == \A i, j \in 1 .. n : i <= j => a[i].key <= a[j].key

\* base separates the smaller keys from the others, but for the m entries after it.
Separates(a, n, key, base, m) ==
  /\ base \in Nat /\ base + m <= n
  /\ \A i \in 1 .. base : a[i].key < key
  /\ \A i \in base + m + 1 .. n : a[i].key >= key

\* Halving keeps the separation, until one entry is left.
LEMMA NarrowSeparates ==
  ASSUME NEW n \in Nat, NEW a \in [1 .. n -> Entry], Ascending(a, n), NEW key \in Int,
         NEW m \in Nat \ {0}, NEW base \in Nat, Separates(a, n, key, base, m)
  PROVE  Separates(a, n, key, NarrowFrom(a, key)[<<base, m>>], 1)
<1> DEFINE N == NarrowFrom(a, key)
           Good == {l \in Nat : l >= 1 => \A c \in Nat : Separates(a, n, key, c, l)
                                             => Separates(a, n, key, N[<<c, l>>], 1)}
<1> HIDE DEF N
<1>1. ASSUME NEW l \in Nat, \A q \in 0 .. l - 1 : q \in Good, l >= 1,
             NEW c \in Nat, Separates(a, n, key, c, l)
      PROVE  Separates(a, n, key, N[<<c, l>>], 1)
  <2>1. N[<<c, l>>] = IF l <= 1 THEN c ELSE N[Halved(a, key, <<c, l>>)]
    <3>1. <<c, l>> \in Nat \X Nat
      OBVIOUS
    <3> QED BY <3>1, NarrowDefined DEF N
  <2>2. CASE l = 1
    BY <2>1, <2>2, <1>1
  <2>3. CASE l > 1
    <3> DEFINE half == l \div 2
    <3>1. half \in Nat /\ half >= 1 /\ half + half <= l
      BY <2>3
    <3> HIDE DEF half
    <3>2. c + half + 1 \in 1 .. n
      BY <3>1, <1>1, <2>3 DEF Separates
    <3>3. l - half \in 0 .. l - 1 /\ l - half >= 1
      BY <3>1, <2>3
    <3>4. Halved(a, key, <<c, l>>) =
            << IF a[c + half + 1].key < key THEN c + half ELSE c, l - half >>
      BY DEF Halved, half
    <3>5. \A i \in 1 .. n : a[i].key \in Int
      BY DEF Entry
    <3>6. CASE a[c + half + 1].key < key
      <4>1. \A i \in 1 .. c + half : a[i].key < key
        <5>1. TAKE i \in 1 .. c + half
        <5>2. i \in 1 .. n /\ i <= c + half + 1
          BY <3>2, <3>1
        <5>3. a[i].key <= a[c + half + 1].key
          BY <5>2, <3>2 DEF Ascending
        <5> QED BY <5>2, <5>3, <3>5, <3>6, <3>2
      <4>2. Separates(a, n, key, c + half, l - half)
        <5>1. PICK x \in Nat, y \in Nat : x = c + half /\ y = l - half /\ x + y = c + l
          BY <3>1
        <5>2. /\ c + l <= n /\ \A i \in c + l + 1 .. n : a[i].key >= key
              /\ \A i \in 1 .. x : a[i].key < key
          BY <4>1, <5>1, <1>1 DEF Separates
        <5>3. x + y <= n /\ \A i \in x + y + 1 .. n : a[i].key >= key
          BY <5>1, <5>2
        <5>4. Separates(a, n, key, x, y)
          BY <5>2, <5>3 DEF Separates
        <5> QED BY <5>1, <5>4
      <4>3. c + half \in Nat
        BY <3>1
      <4>4. Separates(a, n, key, N[<<c + half, l - half>>], 1)
        BY <4>2, <4>3, <3>3, <1>1
      <4> QED BY <4>4, <3>4, <3>6, <2>1, <2>3
    <3>7. CASE ~ (a[c + half + 1].key < key)
      <4>1. \A i \in c + (l - half) + 1 .. n : a[i].key >= key
        <5>1. TAKE i \in c + (l - half) + 1 .. n
        <5>2. i \in 1 .. n /\ c + half + 1 <= i
          BY <3>2, <3>1
        <5>3. a[c + half + 1].key <= a[i].key
          BY <5>2, <3>2 DEF Ascending
        <5> QED BY <5>2, <5>3, <3>5, <3>7, <3>2
      <4>2. Separates(a, n, key, c, l - half)
        <5>1. c + (l - half) <= n /\ \A i \in 1 .. c : a[i].key < key
          BY <3>1, <1>1 DEF Separates
        <5> QED BY <4>1, <5>1 DEF Separates
      <4>4. Separates(a, n, key, N[<<c, l - half>>], 1)
        BY <4>2, <3>3, <1>1
      <4>5. Halved(a, key, <<c, l>>) = << c, l - half >>
        BY <3>4, <3>7
      <4>6. N[<<c, l>>] = N[<< c, l - half >>]
        BY <4>5, <2>1, <2>3
      <4> QED BY <4>4, <4>6
    <3> QED BY <3>6, <3>7
  <2> QED BY <1>1, <2>2, <2>3
<1>2. \A l \in Nat : (\A q \in 0 .. l - 1 : q \in Good) => l \in Good
  BY <1>1
<1>3. Nat \subseteq Good
  <2> HIDE DEF Good
  <2> QED BY <1>2, SetInduction
<1> QED BY <1>3 DEF N

\* What the search finds in a sorted, nonempty index: the first entry whose key
\* is not smaller (0-based), or the end.
LEMMA SearchFinds ==
  ASSUME NEW n \in Nat \ {0}, NEW a \in [1 .. n -> Entry], Ascending(a, n), NEW key \in Int
  PROVE  Separates(a, n, key, branchfree_search(a, key), 0)
<1> DEFINE base == Narrow(a, key)
<1>1. Len(a) = n
  OBVIOUS
<1>2. Separates(a, n, key, 0, n)
  BY DEF Separates
<1>3. Separates(a, n, key, base, 1)
  BY <1>1, <1>2, NarrowSeparates, NarrowIs
<1> HIDE DEF base
<1>4. base + 1 \in 1 .. n /\ a[base + 1].key \in Int
  BY <1>3 DEF Separates, Entry
<1>5. branchfree_search(a, key) = IF a[base + 1].key < key THEN base + 1 ELSE base
  BY DEF branchfree_search, base
<1>6. CASE a[base + 1].key < key
  <2>1. Separates(a, n, key, base + 1, 0)
    BY <1>3, <1>4, <1>6 DEF Separates
  <2> QED BY <2>1, <1>5, <1>6
<1>7. CASE ~ (a[base + 1].key < key)
  <2>1. Separates(a, n, key, base, 0)
    BY <1>3, <1>4, <1>7 DEF Separates
  <2> QED BY <2>1, <1>5, <1>7
<1> QED BY <1>6, <1>7

\* A key lies in the bucket of its high bits.
LEMMA KeyInBucket ==
  ASSUME NEW k \in Key
  PROVE  BucketOf(k) \in Bucket /\ k \in Int
<1>1. BucketNum \in Nat \ {0} /\ KeysPerBucket \in Nat \ {0}
  BY LayoutAssumption DEF BucketNum
<1>2. k \in Nat /\ k < BucketNum * KeysPerBucket
  BY <1>1 DEF Key
<1>3. k \div KeysPerBucket \in Nat /\ KeysPerBucket * (k \div KeysPerBucket) <= k
  BY <1>1, <1>2
<1>4. k \div KeysPerBucket < BucketNum
  <2> DEFINE q == k \div KeysPerBucket
  <2>1. SUFFICES ASSUME q >= BucketNum PROVE FALSE
    BY <1>1, <1>3
  <2>2. KeysPerBucket * q < KeysPerBucket * BucketNum
    BY <1>1, <1>2, <1>3
  <2> HIDE DEF q
  <2>3. q \in Nat
    BY <1>3 DEF q
  <2>4. KeysPerBucket * q >= KeysPerBucket * BucketNum
    BY <2>1, <2>3, <1>1
  <2> QED BY <2>2, <2>4, <2>3, <1>1
<1> QED BY <1>2, <1>3, <1>4, <1>1 DEF BucketOf, Bucket

-----------------------------------------------------------------------------
(* The index of a reader.                                                   *)

\* While the positions of a bucket's records fit in value_offset_.
OffsetsFit == \A b \in Bucket : cnt[b] <= OffsetSpan

\* What a reader's Open leaves: every record in the logs, and the sorted index.
Reading ==
  /\ TypeOK
  /\ valFile # "sized"
  /\ RecoverableIntact
  /\ index = BuiltIndex
  /\ OffsetsFit

KeyOf(b, i) == Recovered(b)[i][1]
ValueOf(b, i) == Recovered(b)[i][2]

\* p is the order that sort gave the records of bucket b: by key, newest first.
Sorted(b, p) ==
  /\ p \in [1 .. cnt[b] -> 1 .. cnt[b]]
  /\ \A i \in 1 .. cnt[b] : \E r \in 1 .. cnt[b] : p[r] = i
  /\ index[b] \in [1 .. cnt[b] -> Entry]
  /\ \A r \in 1 .. cnt[b] : /\ index[b][r].key = KeyOf(b, p[r])
                            /\ valLog[Slot(b, index[b][r].off)] = ValueOf(b, p[r])
  /\ \A r, q \in 1 .. cnt[b] : r < q =>
       /\ KeyOf(b, p[r]) <= KeyOf(b, p[q])
       /\ KeyOf(b, p[r]) = KeyOf(b, p[q]) => p[q] < p[r]

\* Where the record is: in the logs.
LEMMA RecordInLogs ==
  ASSUME Reading, NEW b \in Bucket, NEW i \in 1 .. cnt[b]
  PROVE  /\ KeyOf(b, i) = keyLog[Slot(b, i - 1)]
         /\ ValueOf(b, i) = valLog[Slot(b, i - 1)]
         /\ KeyOf(b, i) \in Key /\ KeyOf(b, i) \in Int
         /\ ValueOf(b, i) \in Value
         /\ BucketOf(KeyOf(b, i)) = b
<1>1. cnt[b] \in Nat
  BY DEF Reading, TypeOK
<1>2. KeyOf(b, i) = KeyAt(b, i - 1) /\ ValueOf(b, i) = ValAt(b, i - 1)
  BY DEF KeyOf, ValueOf, Recovered
<1>3. KeyAt(b, i - 1) = keyLog[Slot(b, i - 1)] /\ ValAt(b, i - 1) = valLog[Slot(b, i - 1)]
  BY DEF Reading, KeyAt, ValAt
<1>4. i - 1 \in 0 .. cnt[b] - 1
  BY <1>1
<1>5. /\ ValAt(b, i - 1) \in Value
      /\ KeyAt(b, i - 1) \in Key
      /\ BucketOf(KeyAt(b, i - 1)) = b
  BY <1>4 DEF Reading, RecoverableIntact
<1>6. Key \subseteq Int
  BY LayoutAssumption DEF Key
<1> QED BY <1>2, <1>3, <1>5, <1>6

LEMMA EntriesAre ==
  ASSUME Reading, NEW b \in Bucket
  PROVE  /\ Entries(b) \in [1 .. cnt[b] -> Entry]
         /\ \A i \in 1 .. cnt[b] : /\ Entries(b)[i].key = KeyOf(b, i)
                                   /\ Entries(b)[i].off = i - 1
<1>1. cnt[b] \in Nat /\ cnt[b] <= OffsetSpan
  BY DEF Reading, TypeOK, OffsetsFit
<1>2. ASSUME NEW i \in 1 .. cnt[b]
      PROVE  (i - 1) % OffsetSpan = i - 1
  BY <1>1, RaceStoreAssumption
<1>3. Entries(b) = [i \in 1 .. cnt[b] |-> [key |-> KeyOf(b, i), off |-> i - 1]]
  BY <1>2, RecordInLogs DEF Entries
<1>4. \A i \in 1 .. cnt[b] : KeyOf(b, i) \in Int /\ i - 1 \in Int
  BY RecordInLogs
<1> QED BY <1>3, <1>4 DEF Entry

LEMMA IndexSorted ==
  ASSUME Reading, NEW b \in Bucket
  PROVE  \E p : Sorted(b, p)
<1> DEFINE n == cnt[b]
           e == Entries(b)
<1>0. n \in Nat
  BY DEF Reading, TypeOK
<1>1. /\ e \in [1 .. n -> Entry]
      /\ \A i \in 1 .. n : e[i].key = KeyOf(b, i) /\ e[i].off = i - 1
  BY EntriesAre
<1>2. index[b] = SortedEntries(e)
  BY DEF Reading, BuiltIndex
<1> HIDE DEF e, n
<1>3. PICK p \in [1 .. n -> 1 .. n] :
            /\ SortedEntries(e) = [r \in 1 .. n |-> e[p[r]]]
            /\ \A r, q \in 1 .. n : r < q => SortsBefore(e, p[r], p[q])
            /\ \A i \in 1 .. n : \E r \in 1 .. n : p[r] = i
  BY <1>0, <1>1, SortOrders
<1>4. index[b] \in [1 .. n -> Entry] /\ \A r \in 1 .. n : index[b][r] = e[p[r]]
  BY <1>1, <1>2, <1>3
<1>5. ASSUME NEW r \in 1 .. n
      PROVE  /\ index[b][r].key = KeyOf(b, p[r])
             /\ valLog[Slot(b, index[b][r].off)] = ValueOf(b, p[r])
  <2>1. p[r] \in 1 .. cnt[b]
    BY <1>3 DEF n
  <2>2. index[b][r].key = KeyOf(b, p[r]) /\ index[b][r].off = p[r] - 1
    BY <1>4, <1>1, <1>3
  <2> QED BY <2>1, <2>2, RecordInLogs
<1>6. ASSUME NEW r \in 1 .. n, NEW q \in 1 .. n, r < q
      PROVE  /\ KeyOf(b, p[r]) <= KeyOf(b, p[q])
             /\ KeyOf(b, p[r]) = KeyOf(b, p[q]) => p[q] < p[r]
  <2>1. p[r] \in 1 .. n /\ p[q] \in 1 .. n
    BY <1>3
  <2>2. /\ e[p[r]].key = KeyOf(b, p[r]) /\ e[p[r]].off = p[r] - 1
        /\ e[p[q]].key = KeyOf(b, p[q]) /\ e[p[q]].off = p[q] - 1
    BY <1>1, <2>1
  <2>3. KeyOf(b, p[r]) \in Int /\ KeyOf(b, p[q]) \in Int
    BY <2>1, RecordInLogs DEF n
  <2>4. SortsBefore(e, p[r], p[q])
    BY <1>3, <1>6
  <2>5. CASE e[p[r]] = e[p[q]]
    <3>1. p[r] - 1 = p[q] - 1
      BY <2>2, <2>5
    <3>2. p[r] = p[q]
      BY <3>1, <2>1, <1>0
    <3>3. ~ EntryLess(e[p[r]], e[p[q]])
      <4>1. e[p[r]].key \in Int /\ e[p[r]].off \in Int
        BY <2>1, <2>2, <2>3, <1>0
      <4> QED BY <4>1, <2>5 DEF EntryLess
    <3> QED BY <3>2, <3>3, <2>1, <2>4, <1>0 DEF SortsBefore
  <2>6. CASE EntryLess(e[p[r]], e[p[q]])
    <3>1. \/ KeyOf(b, p[r]) < KeyOf(b, p[q])
          \/ KeyOf(b, p[r]) = KeyOf(b, p[q]) /\ p[r] - 1 > p[q] - 1
      BY <2>2, <2>6 DEF EntryLess
    <3>2. p[r] \in Int /\ p[q] \in Int
      BY <2>1, <1>0
    <3> QED BY <3>1, <3>2, <2>3
  <2> QED BY <2>4, <2>5, <2>6 DEF SortsBefore
<1>7. Sorted(b, p)
  BY <1>3, <1>4, <1>5, <1>6 DEF Sorted, n
<1> QED BY <1>7

\* The first entry of a run of equal keys is the newest record of its key.
LEMMA FirstIsNewest ==
  ASSUME Reading, NEW b \in Bucket, NEW p, Sorted(b, p), NEW r \in 1 .. cnt[b],
         r = 1 \/ KeyOf(b, p[r - 1]) # KeyOf(b, p[r])
  PROVE  LET k == KeyOf(b, p[r]) IN
         /\ k \in Key /\ BucketOf(k) = b
         /\ RecordsOf(k) # {}
         /\ Newest(k) = ValueOf(b, p[r])
<1> DEFINE k == KeyOf(b, p[r])
           n == cnt[b]
<1>0. n \in Nat
  BY DEF Reading, TypeOK
<1>1. \A q \in 1 .. n : p[q] \in 1 .. n
  BY DEF Sorted
<1>2. \A q \in 1 .. n : KeyOf(b, p[q]) \in Key /\ KeyOf(b, p[q]) \in Int
                        /\ BucketOf(KeyOf(b, p[q])) = b
  BY <1>1, RecordInLogs
<1>3. RecordsOf(k) = {i \in 1 .. n : KeyOf(b, i) = k}
  BY <1>2 DEF RecordsOf, KeyOf
<1>4. ASSUME NEW i \in 1 .. n, KeyOf(b, i) = k
      PROVE  i <= p[r]
  <2>1. PICK q \in 1 .. n : p[q] = i
    BY DEF Sorted
  <2>2. CASE q = r
    BY <2>1, <2>2, <1>0, <1>1
  <2>3. CASE r < q
    <3>1. p[q] < p[r]
      BY <2>1, <2>3, <1>4 DEF Sorted
    <3> QED BY <3>1, <2>1, <1>1, <1>0
  <2>4. CASE q < r
    <3>1. r - 1 \in 1 .. n /\ r - 1 < r /\ r # 1
      BY <2>4, <1>0
    <3>2. KeyOf(b, p[r - 1]) <= k /\ KeyOf(b, p[r - 1]) # k
      BY <3>1 DEF Sorted
    <3>3. KeyOf(b, p[q]) <= KeyOf(b, p[r - 1])
      <4>1. CASE q = r - 1
        BY <4>1, <1>2, <3>1
      <4>2. CASE q < r - 1
        BY <4>2, <3>1 DEF Sorted
      <4> QED BY <4>1, <4>2, <2>4, <1>0
    <3>4. KeyOf(b, p[q]) \in Int /\ KeyOf(b, p[r - 1]) \in Int /\ k \in Int
      BY <1>2, <3>1
    <3> HIDE DEF k
    <3> QED BY <3>2, <3>3, <3>4, <2>1, <1>4
  <2> QED BY <2>2, <2>3, <2>4, <1>0
<1>5. p[r] \in RecordsOf(k)
  BY <1>1, <1>3
<1>6. \A i \in RecordsOf(k) : i <= p[r]
  BY <1>3, <1>4
<1>7. (CHOOSE i \in RecordsOf(k) : \A j \in RecordsOf(k) : j <= i) = p[r]
  <2> DEFINE R == RecordsOf(k)
             c == CHOOSE i \in R : \A j \in R : j <= i
  <2>0. p[r] \in R /\ (\A i \in R : i <= p[r]) /\ (\A i \in R : i \in Int)
    BY <1>5, <1>6, <1>3
  <2> HIDE DEF R
  <2>1. c \in R /\ \A j \in R : j <= c
    BY <2>0
  <2> HIDE DEF c
  <2>2. c = p[r]
    BY <2>0, <2>1
  <2> QED BY <2>2 DEF c, R
<1>8. Newest(k) = ValueOf(b, p[r])
  BY <1>7, <1>2 DEF Newest, ValueOf
<1> QED BY <1>2, <1>5, <1>8

\* Read finds the first entry of the run of its key.
LEMMA ReadFinds ==
  ASSUME Reading, NEW k \in Key, cnt[BucketOf(k)] # 0
  PROVE  ReadOutcomes(k) = {IF RecordsOf(k) = {} THEN NotFound ELSE Newest(k)}
<1> DEFINE b == BucketOf(k)
           n == cnt[b]
           it == branchfree_search(index[b], k)
<1>0. b \in Bucket /\ k \in Int
  BY KeyInBucket
<1>1. n \in Nat \ {0}
  BY <1>0 DEF Reading, TypeOK
<1>2. PICK p : Sorted(b, p)
  BY <1>0, IndexSorted
<1>3. \A q \in 1 .. n : /\ p[q] \in 1 .. n
                        /\ index[b][q].key = KeyOf(b, p[q])
                        /\ KeyOf(b, p[q]) \in Int
  BY <1>0, <1>2, RecordInLogs DEF Sorted
<1>4. index[b] \in [1 .. n -> Entry] /\ Ascending(index[b], n)
  <2>1. ASSUME NEW i \in 1 .. n, NEW j \in 1 .. n, i <= j
        PROVE  index[b][i].key <= index[b][j].key
    <3>1. CASE i = j
      BY <3>1, <1>3
    <3>2. CASE i < j
      BY <3>2, <1>3, <1>2 DEF Sorted
    <3> QED BY <3>1, <3>2, <2>1, <1>1
  <2> QED BY <2>1, <1>2 DEF Sorted, Ascending
<1> HIDE DEF b, n
<1>5. Separates(index[b], n, k, it, 0)
  BY <1>0, <1>1, <1>4, SearchFinds
<1> HIDE DEF it
<1>6. /\ it \in Nat /\ it <= n
      /\ \A i \in 1 .. it : KeyOf(b, p[i]) < k
      /\ \A i \in it + 1 .. n : KeyOf(b, p[i]) >= k
  BY <1>1, <1>3, <1>5 DEF Separates
<1>7. ReadOutcomes(k) = IF it = n \/ index[b][it + 1].key # k
                        THEN {NotFound} ELSE {valLog[Slot(b, index[b][it + 1].off)]}
  BY <1>1 DEF ReadOutcomes, b, n, it
<1>8. CASE it < n /\ KeyOf(b, p[it + 1]) = k
  <2> DEFINE r == it + 1
  <2>1. r \in 1 .. cnt[b] /\ r - 1 = it
    BY <1>6, <1>8, <1>1 DEF n
  <2>2. r = 1 \/ KeyOf(b, p[r - 1]) # KeyOf(b, p[r])
    <3> SUFFICES ASSUME it # 0 PROVE KeyOf(b, p[it]) # k
      BY <2>1, <1>6, <1>8
    <3> QED BY <1>6, <1>3, <1>8, <1>0
  <2>3. RecordsOf(k) # {} /\ Newest(k) = ValueOf(b, p[r])
    <3>1. KeyOf(b, p[r]) = k
      BY <1>8
    <3> HIDE DEF r
    <3>2. RecordsOf(KeyOf(b, p[r])) # {} /\ Newest(KeyOf(b, p[r])) = ValueOf(b, p[r])
      BY <2>1, <2>2, <1>0, <1>2, FirstIsNewest
    <3> QED BY <3>1, <3>2
  <2>4. /\ index[b][it + 1].key = k
        /\ valLog[Slot(b, index[b][it + 1].off)] = ValueOf(b, p[it + 1])
    BY <2>1, <1>2, <1>8 DEF Sorted
  <2> QED BY <2>3, <2>4, <1>7, <1>8, <1>6, <1>1
<1>9. CASE ~ (it < n /\ KeyOf(b, p[it + 1]) = k)
  <2>1. it = n \/ index[b][it + 1].key # k
    <3> SUFFICES ASSUME it # n PROVE index[b][it + 1].key # k
      OBVIOUS
    <3>1. it < n /\ it + 1 \in 1 .. n
      BY <1>6, <1>1
    <3> QED BY <3>1, <1>3, <1>9
  <2>2. RecordsOf(k) = {}
    <3>1. RecordsOf(k) = {i \in 1 .. n : KeyOf(b, i) = k}
      BY DEF RecordsOf, KeyOf, b, n
    <3>2. ASSUME NEW i \in 1 .. n, KeyOf(b, i) = k
          PROVE  FALSE
      <4>1. PICK r \in 1 .. n : p[r] = i
        BY <1>2 DEF Sorted, n
      <4>2. r > it
        BY <4>1, <3>2, <1>6, <1>3, <1>0, <1>1
      <4>3. it + 1 \in 1 .. n /\ it + 1 <= r /\ it < n
        BY <4>2, <1>6, <1>1
      <4>4. KeyOf(b, p[it + 1]) <= KeyOf(b, p[r])
        <5>1. CASE it + 1 = r
          BY <5>1, <1>3
        <5>2. CASE it + 1 < r
          BY <5>2, <4>3, <1>2 DEF Sorted, n
        <5> QED BY <5>1, <5>2, <4>3, <1>1, <1>6
      <4>5. KeyOf(b, p[it + 1]) >= k
        BY <4>3, <1>6, <1>1
      <4> QED BY <4>1, <4>3, <4>4, <4>5, <3>2, <1>3, <1>9, <1>0
    <3> QED BY <3>1, <3>2
  <2> QED BY <2>1, <2>2, <1>7
<1> QED BY <1>8, <1>9

\* The keys of a smaller bucket are smaller.
LEMMA BucketsOrdered ==
  ASSUME NEW k \in Key, NEW l \in Key, BucketOf(k) < BucketOf(l)
  PROVE  k < l
<1>1. KeysPerBucket \in Nat \ {0} /\ k \in Nat /\ l \in Nat
  BY LayoutAssumption DEF Key, BucketNum
<1>2. /\ k \div KeysPerBucket \in Nat /\ l \div KeysPerBucket \in Nat
      /\ k % KeysPerBucket \in 0 .. KeysPerBucket - 1
      /\ l % KeysPerBucket \in 0 .. KeysPerBucket - 1
      /\ k = KeysPerBucket * (k \div KeysPerBucket) + (k % KeysPerBucket)
      /\ l = KeysPerBucket * (l \div KeysPerBucket) + (l % KeysPerBucket)
  BY <1>1, DivMod
<1>3. k \div KeysPerBucket < l \div KeysPerBucket
  BY DEF BucketOf
<1>4. \A d, q, r, u, v \in Nat : q < r /\ u < d => d * q + u < d * r + v
  <2> TAKE d, q, r, u, v \in Nat
  <2>1. SUFFICES ASSUME q < r, u < d PROVE d * q + u < d * r + v
    OBVIOUS
  <2>2. d * (r - q) >= d
    BY <2>1
  <2> QED BY <2>1, <2>2
<1>5. \A d, q, r, u, v, x, y \in Nat :
        q < r /\ u < d /\ x = d * q + u /\ y = d * r + v => x < y
  BY <1>4
<1> QED BY <1>1, <1>2, <1>3, <1>5

\* What a traversal shows at one position of the index.
LEMMA VisitShows ==
  ASSUME Reading, NEW v \in Visits
  PROVE  /\ v[1] \in Bucket /\ v[2] \in 1 .. cnt[v[1]]
         /\ VisitedPair(v)[1] \in Key
         /\ BucketOf(VisitedPair(v)[1]) = v[1]
         /\ RecordsOf(VisitedPair(v)[1]) # {}
         /\ VisitedPair(v) = << VisitedPair(v)[1], Newest(VisitedPair(v)[1]) >>
<1> DEFINE b == v[1]
           r == v[2]
<1>1. b \in Bucket /\ r \in 1 .. cnt[b] /\ (r = 1 \/ index[b][r].key # index[b][r - 1].key)
  BY DEF Visits, Visited
<1>2. VisitedPair(v) = << index[b][r].key, valLog[Slot(b, index[b][r].off)] >>
  BY DEF VisitedPair
<1> HIDE DEF b, r
<1>3. PICK p : Sorted(b, p)
  BY <1>1, IndexSorted
<1>4. /\ index[b][r].key = KeyOf(b, p[r])
      /\ valLog[Slot(b, index[b][r].off)] = ValueOf(b, p[r])
  BY <1>1, <1>3 DEF Sorted
<1>5. r = 1 \/ KeyOf(b, p[r - 1]) # KeyOf(b, p[r])
  <2>1. SUFFICES ASSUME r # 1 PROVE KeyOf(b, p[r - 1]) # KeyOf(b, p[r])
    OBVIOUS
  <2>2. cnt[b] \in Nat
    BY <1>1 DEF Reading, TypeOK
  <2>3. r - 1 \in 1 .. cnt[b]
    BY <1>1, <2>1, <2>2
  <2>4. index[b][r - 1].key = KeyOf(b, p[r - 1])
    BY <2>3, <1>3 DEF Sorted
  <2> QED BY <2>1, <2>4, <1>1, <1>4
<1> DEFINE k == KeyOf(b, p[r])
<1>6. k \in Key /\ BucketOf(k) = b /\ RecordsOf(k) # {} /\ Newest(k) = ValueOf(b, p[r])
  BY <1>1, <1>3, <1>5, FirstIsNewest
<1> HIDE DEF k
<1>7. VisitedPair(v) = << k, Newest(k) >>
  BY <1>2, <1>4, <1>6 DEF k
<1> QED BY <1>1, <1>6, <1>7 DEF b, r

\* Two positions are visited in the order of their keys.
LEMMA VisitsOrdered ==
  ASSUME Reading, NEW v \in Visits, NEW w \in Visits, Before(v, w)
  PROVE  VisitedPair(v)[1] < VisitedPair(w)[1]
<1>1. /\ v[1] \in Bucket /\ v[2] \in 1 .. cnt[v[1]]
      /\ w[1] \in Bucket /\ w[2] \in 1 .. cnt[w[1]]
      /\ VisitedPair(v)[1] \in Key /\ VisitedPair(w)[1] \in Key
      /\ BucketOf(VisitedPair(v)[1]) = v[1] /\ BucketOf(VisitedPair(w)[1]) = w[1]
  BY VisitShows
<1>2. CASE v[1] < w[1]
  BY <1>1, <1>2, BucketsOrdered
<1>3. CASE v[1] = w[1] /\ v[2] < w[2]
  <2> DEFINE b == v[1]
             r == v[2]
             q == w[2]
  <2>0. cnt[b] \in Nat
    BY <1>1 DEF Reading, TypeOK
  <2>1. b \in Bucket /\ r \in 1 .. cnt[b] /\ q \in 1 .. cnt[b] /\ r < q
        /\ index[b][q].key # index[b][q - 1].key /\ q - 1 \in 1 .. cnt[b] /\ r <= q - 1
    <3>1. b \in Bucket /\ r \in 1 .. cnt[b] /\ q \in 1 .. cnt[b] /\ r < q
      BY <1>1, <1>3
    <3>2. q \in Visited(b)
      BY <1>3 DEF Visits
    <3> HIDE DEF b, r, q
    <3> QED BY <3>1, <3>2, <2>0 DEF Visited
  <2>2. VisitedPair(v)[1] = index[b][r].key /\ VisitedPair(w)[1] = index[b][q].key
    BY <1>3 DEF VisitedPair
  <2> HIDE DEF b, r, q
  <2>3. PICK p : Sorted(b, p)
    BY <2>1, IndexSorted
  <2>4. \A i \in 1 .. cnt[b] : index[b][i].key = KeyOf(b, p[i]) /\ KeyOf(b, p[i]) \in Int
    BY <2>1, <2>3, RecordInLogs DEF Sorted
  <2>5. KeyOf(b, p[q - 1]) < KeyOf(b, p[q])
    <3>1. q - 1 < q
      BY <2>0, <2>1
    <3>2. KeyOf(b, p[q - 1]) <= KeyOf(b, p[q])
      BY <2>1, <2>3, <3>1 DEF Sorted
    <3> QED BY <3>2, <2>1, <2>4
  <2>6. KeyOf(b, p[r]) <= KeyOf(b, p[q - 1])
    <3>1. CASE r = q - 1
      BY <3>1, <2>4, <2>1
    <3>2. CASE r < q - 1
      BY <3>2, <2>1, <2>3 DEF Sorted
    <3> QED BY <3>1, <3>2, <2>1, <2>0
  <2> QED BY <2>1, <2>2, <2>4, <2>5, <2>6
<1> QED BY <1>2, <1>3 DEF Before

\* Every recovered key is visited.
LEMMA KeyVisited ==
  ASSUME Reading, NEW k \in Key, RecordsOf(k) # {}
  PROVE  \E v \in Visits : VisitedPair(v) = << k, Newest(k) >>
<1> DEFINE b == BucketOf(k)
           n == cnt[b]
<1>0. b \in Bucket /\ k \in Int
  BY KeyInBucket
<1>1. n \in Nat /\ n <= BucketCap
  BY <1>0 DEF Reading, TypeOK
<1>2. PICK p : Sorted(b, p)
  BY <1>0, IndexSorted
<1>3. PICK i \in 1 .. n : KeyOf(b, i) = k
  BY DEF RecordsOf, KeyOf
<1> HIDE DEF b
<1>4. PICK q \in 1 .. n : p[q] = i
  BY <1>2 DEF Sorted
<1> DEFINE Run == {r \in 1 .. n : KeyOf(b, p[r]) = k}
<1>5. PICK r \in Run : \A s \in Run : r <= s
  <2>1. q \in Run /\ Run \in SUBSET Nat
    BY <1>3, <1>4
  <2> HIDE DEF Run
  <2> QED BY <2>1, LeastElement
<1>6. r \in 1 .. cnt[b] /\ KeyOf(b, p[r]) = k
  OBVIOUS
<1>7. r = 1 \/ KeyOf(b, p[r - 1]) # KeyOf(b, p[r])
  <2>1. SUFFICES ASSUME r # 1, KeyOf(b, p[r - 1]) = k PROVE FALSE
    BY <1>6
  <2>2. r - 1 \in Run
    BY <2>1, <1>1, <1>6
  <2>3. r <= r - 1
    BY <2>2, <1>5
  <2> QED BY <2>3, <1>1, <1>6
<1>8. Newest(k) = ValueOf(b, p[r])
  <2>1. Newest(KeyOf(b, p[r])) = ValueOf(b, p[r])
    BY <1>0, <1>2, <1>6, <1>7, FirstIsNewest
  <2> QED BY <2>1, <1>6
<1>9. /\ index[b][r].key = k
      /\ valLog[Slot(b, index[b][r].off)] = Newest(k)
      /\ r # 1 => r - 1 \in 1 .. cnt[b] /\ index[b][r - 1].key = KeyOf(b, p[r - 1])
  <2>1. \A s \in 1 .. cnt[b] : /\ index[b][s].key = KeyOf(b, p[s])
                              /\ valLog[Slot(b, index[b][s].off)] = ValueOf(b, p[s])
    BY <1>2 DEF Sorted
  <2>2. r # 1 => r - 1 \in 1 .. cnt[b]
    BY <1>1, <1>6
  <2> QED BY <2>1, <2>2, <1>6, <1>8
<1>10. << b, r >> \in Visits
  <2>1. r \in Visited(b)
    BY <1>6, <1>7, <1>9 DEF Visited
  <2>2. r \in 1 .. BucketCap
    BY <1>6, <1>1, LayoutAssumption
  <2> QED BY <2>1, <2>2, <1>0 DEF Visits
<1>11. VisitedPair(<< b, r >>) = << k, Newest(k) >>
  BY <1>9 DEF VisitedPair
<1> QED BY <1>10, <1>11

LEMMA TraversalExact ==
  ASSUME Reading
  PROVE  /\ \A p, q \in Visits : Before(p, q) => VisitedPair(p)[1] < VisitedPair(q)[1]
         /\ {VisitedPair(p) : p \in Visits} =
              {<< k, Newest(k) >> : k \in {k \in Key : RecordsOf(k) # {}}}
<1>1. \A p, q \in Visits : Before(p, q) => VisitedPair(p)[1] < VisitedPair(q)[1]
  BY VisitsOrdered
<1>2. \A v \in Visits : \E k \in {k \in Key : RecordsOf(k) # {}} :
                          VisitedPair(v) = << k, Newest(k) >>
  BY VisitShows
<1>3. \A k \in {k \in Key : RecordsOf(k) # {}} :
        \E v \in Visits : VisitedPair(v) = << k, Newest(k) >>
  BY KeyVisited
<1> QED BY <1>1, <1>2, <1>3

-----------------------------------------------------------------------------
(* The behaviour: a reader's index is the one that BuildIndex built.         *)

RaceInv ==
  /\ IInv
  /\ mode = "reader" => index = BuiltIndex

\* Only BuildIndex starts a reader, and a reader changes no log.
LEMMA ReaderStep ==
  ASSUME IInv, Next, mode' = "reader"
  PROVE  cnt' = cnt /\ keyLog' = keyLog
<1>0. \A t \in Thread : pc[t] # "idle" => mode = "writer"
  BY DEF IInv, CallInv
<1>1. ASSUME NEW t \in Thread, WriteSteps(t)
      PROVE  FALSE
  <2>1. pc[t] # "idle" /\ mode' = mode
    BY <1>1 DEF WriteSteps, BeginCopy, EndCopy, BeginValueWrite, EndValueWrite, StoreKey,
                BeginKeyWrite, EndKeyWrite, Publish, Return, Step
  <2> QED BY <2>1, <1>0
<1>2. ASSUME NEW t \in Thread, WriteCall(t) \/ WriteAfterReopen(t)
      PROVE  FALSE
  BY <1>2 DEF WriteCall, WriteAfterReopen, Step
<1>3. ASSUME NEW b \in Bucket, FlushSteps(b)
      PROVE  FALSE
  BY <1>3 DEF FlushSteps, FlushValueBegin, FlushValueEnd, FlushKeyBegin, FlushKeyEnd, FlushStep
<1>4. CASE OpenFresh \/ OpenExisting \/ CreateSteps \/ TailSteps \/ Close \/ Kill
  BY <1>4 DEF OpenFresh, OpenExisting, CreateSteps, SizeMeta, CreateValFile, CreateKeyFile,
     TailSteps, FaultOnMeta, FlushJoin, TruncVal, TruncKey, BuildIndex, Close, Kill, disk, logs
<1> QED BY <1>1, <1>2, <1>3, <1>4 DEF Next

LEMMA RaceInvStep ==
  ASSUME RaceInv, SNext
  PROVE  RaceInv'
<1>1. IInv'
  BY InvStep DEF RaceInv, SNext
<1>2. ASSUME mode' = "reader"
      PROVE  index' = BuiltIndex'
  <2>1. cnt' = cnt /\ keyLog' = keyLog
    BY <1>2, ReaderStep DEF RaceInv, SNext
  <2>2. BuiltIndex' = BuiltIndex
    BY <2>1 DEF BuiltIndex, Entries
  <2>3. index' = BuiltIndex
    BY <1>2 DEF RaceInv, SNext
  <2> QED BY <2>2, <2>3
<1> QED BY <1>1, <1>2 DEF RaceInv

LEMMA ReaderReads ==
  ASSUME RaceInv, OffsetsFit
  PROVE  ReadLatest /\ RangeExact
<1>1. SUFFICES ASSUME mode = "reader" PROVE Reading
  BY ReadFinds, TraversalExact DEF ReadLatest, RangeExact
<1> QED BY <1>1 DEF Reading, RaceInv, IInv, FileInv

LEMMA RaceInvHolds ==
  StoresSpec => [](store = "race" => RaceInv)
<1>1. StoresInit => (store = "race" => RaceInv)
  <2> SUFFICES ASSUME StoresInit, store = "race" PROVE RaceInv
    OBVIOUS
  <2>1. Init /\ mode # "reader"
    BY DEF StoresInit, SInit, Init
  <2> QED BY <2>1, InvInit DEF RaceInv
<1>2. (store = "race" => RaceInv) /\ [StoresNext]_all => (store = "race" => RaceInv)'
  <2> SUFFICES ASSUME store = "race" => RaceInv, [StoresNext]_all, store' = "race"
               PROVE  RaceInv'
    OBVIOUS
  <2>1. CASE store = "race" /\ SNext
    BY <2>1, RaceInvStep
  <2>2. CASE UNCHANGED all
    <3>1. store = "race" /\ RaceInv /\ UNCHANGED svars
      BY <2>2 DEF all
    <3>2. IInv'
      <4>1. UNCHANGED vars
        BY <3>1 DEF svars
      <4> QED BY <3>1, <4>1, InvStep DEF RaceInv
    <3>3. BuiltIndex' = BuiltIndex /\ index' = index /\ mode' = mode
      BY <3>1 DEF svars, vars, disk, logs, BuiltIndex, Entries
    <3> QED BY <3>1, <3>2, <3>3 DEF RaceInv
  <2> QED BY <2>1, <2>2 DEF StoresNext, Stopped
<1> QED BY <1>1, <1>2, PTL DEF StoresSpec

\* Whatever the history of Writes, kills, flushes and Opens, Read finds the newest
\* counted Write of every key, as long as no bucket holds more records than the
\* 16-bit positions of the index can tell apart (Read 433-492, branchfree_search
\* 51-62, BuildIndex 905-977).
THEOREM ReadsNewest ==
  StoresSpec => [](OffsetsFit => RaceReadLatest)
<1>1. (store = "race" => RaceInv) => (OffsetsFit => RaceReadLatest)
  BY ReaderReads DEF RaceReadLatest
<1> QED BY <1>1, RaceInvHolds, PTL

\* On the same condition a traversal shows every key once, in increasing order,
\* with its newest value (Range 744-800).
THEOREM TraversalsExact ==
  StoresSpec => [](OffsetsFit => RaceRangeExact)
<1>1. (store = "race" => RaceInv) => (OffsetsFit => RaceRangeExact)
  BY ReaderReads DEF RaceRangeExact
<1> QED BY <1>1, RaceInvHolds, PTL

-----------------------------------------------------------------------------
(* The sample engine.  E and X are instances of the same module: what they  *)
(* define is the same.                                                      *)

LEMMA SameInit == E!Init <=> X!Init
  BY DEF E!Init, E!Nowhere, E!Zeroed, E!NoCall, E!Absent, X!Init, X!Nowhere, X!Zeroed, X!NoCall,
         X!Absent

LEMMA SameNext == E!Next <=> X!Next
  BY DEF E!Next, E!OpenPlate, E!FormatPlate, E!OpenStore, E!LockDb, E!Close, E!Fault, E!Write,
         E!WriteStep, E!SwitchFile, E!AppendCell, E!AppendFails, E!Appended, E!Place, E!CopyByte,
         E!SetKeySize, E!Use, E!NextWord, E!LocateWord, E!Located, E!Kill, E!Goto, E!Gone, E!Return,
         E!disk, E!Zeroed, E!Mixed, E!Nowhere, E!NoCall, E!Absent, E!NoCells, E!Min, E!Cells,
         E!CalcIndex, E!ItemTryPlace, E!ItemKeyMatch, E!KeyCopied, E!Probe, X!Next, X!OpenPlate,
         X!FormatPlate, X!OpenStore, X!LockDb, X!Close, X!Fault, X!Write, X!WriteStep, X!SwitchFile,
         X!AppendCell, X!AppendFails, X!Appended, X!Place, X!CopyByte, X!SetKeySize, X!Use, X!NextWord,
         X!LocateWord, X!Located, X!Kill, X!Goto, X!Gone, X!Return, X!disk, X!Zeroed, X!Mixed,
         X!Nowhere, X!NoCall, X!Absent, X!NoCells, X!Min, X!Cells, X!CalcIndex, X!ItemTryPlace,
         X!ItemKeyMatch, X!KeyCopied, X!Probe

LEMMA SameRead == E!ReadLatest <=> X!ReadLatest
  BY DEF E!ReadLatest, E!Quiet, E!Composed, E!Mixed, E!Read, E!Find, E!ValueAt, E!Other, E!Nowhere,
         E!NoCall, E!Absent, E!NoCells, E!Min, E!Cells, E!CalcIndex, E!ItemTryPlace, E!ItemKeyMatch,
         E!KeyCopied, E!Probe, X!ReadLatest, X!Quiet, X!Composed, X!Mixed, X!Read, X!Find, X!ValueAt,
         X!Other, X!Nowhere, X!NoCall, X!Absent, X!NoCells, X!Min, X!Cells, X!CalcIndex,
         X!ItemTryPlace, X!ItemKeyMatch, X!KeyCopied, X!Probe

LEMMA SameRange == E!RangeAgrees <=> X!RangeAgrees
  BY DEF E!RangeAgrees, E!RangeAll, E!Cardinality, E!IsFiniteSet, E!Quiet, E!Read, E!Find, E!ValueAt,
         E!Other, E!Nowhere, E!NoCall, E!Absent, E!NoCells, E!Min, E!Cells, E!CalcIndex,
         E!ItemTryPlace, E!ItemKeyMatch, E!KeyCopied, E!Probe, X!RangeAgrees, X!RangeAll,
         X!Cardinality, X!IsFiniteSet, X!Quiet, X!Read, X!Find, X!ValueAt, X!Other, X!Nowhere,
         X!NoCall, X!Absent, X!NoCells, X!Min, X!Cells, X!CalcIndex, X!ItemTryPlace, X!ItemKeyMatch,
         X!KeyCopied, X!Probe

LEMMA ExampleSettings ==
  ASSUME ShortWrites = FALSE
  PROVE  X!Settings
  BY ExampleAssumption
  DEF E!KeysAssumption, E!SizesAssumption, E!HashAssumption, E!NullAssumption, E!Location,
      X!Settings, X!KeysAssumption, X!SizesAssumption, X!HashAssumption, X!NullAssumption, X!Location

LEMMA ExampleInvHolds ==
  ASSUME ShortWrites = FALSE
  PROVE  StoresSpec => [](store = "example" => X!IInv)
<1>1. StoresInit => (store = "example" => X!IInv)
  BY SameInit, ExampleSettings, X!InvInit DEF StoresInit
<1>2. (store = "example" => X!IInv) /\ [StoresNext]_all => (store = "example" => X!IInv)'
  <2> SUFFICES ASSUME store = "example" => X!IInv, [StoresNext]_all, store' = "example"
               PROVE  X!IInv'
    OBVIOUS
  <2>1. CASE store = "example" /\ E!Next
    BY <2>1, SameNext, ExampleSettings, X!InvStep
  <2>2. CASE UNCHANGED all
    <3>1. store' = store /\ UNCHANGED exampleVars
      BY <2>2 DEF all
    <3>2. UNCHANGED X!vars
      BY <3>1 DEF exampleVars, X!vars, X!disk
    <3>3. X!IInv
      BY <3>1
    <3> QED BY <3>2, <3>3, ExampleSettings, X!InvSame
  <2> QED BY <2>1, <2>2 DEF StoresNext, Stopped
<1> QED BY <1>1, <1>2, PTL DEF StoresSpec

\* Whatever Writes, kills and Opens came before, at any byte of a key and any word
\* of a location, Read gives the last value written or one that a killed Write was
\* writing, but for the two things that kills leave over: a location made of two,
\* until the next Write of that key, and a key composed of those that killed Writes
\* were placing, which reads as empty (AddOrUpdate 108-136, DataStore::Append
\* 59-84).  An append that fails half way is what MCExampleFailure shows to break it.
THEOREM ExampleReadsLatest ==
  ASSUME ShortWrites = FALSE
  PROVE  StoresSpec => []ExampleReadLatest
<1>1. (store = "example" => X!IInv) => ExampleReadLatest
  BY SameRead, ExampleSettings, X!ReadAllowed DEF ExampleReadLatest
<1> QED BY <1>1, ExampleInvHolds, PTL

\* Range gives no key twice, and each with the value that Read gives; every key is
\* among them of which Read finds a value that has cells (GetRangeLocation 140-163).
THEOREM ExampleRangeReads ==
  ASSUME ShortWrites = FALSE
  PROVE  StoresSpec => []ExampleRangeAgrees
<1>1. (store = "example" => X!IInv) => ExampleRangeAgrees
  BY SameRange, ExampleSettings, X!RangeRead DEF ExampleRangeAgrees
<1> QED BY <1>1, ExampleInvHolds, PTL
=============================================================================
