------------------------------ MODULE RaceLog -------------------------------
(***************************************************************************)
(* The durable half of EngineRace: concurrent Writes into per-bucket        *)
(* mmap-ed buffers, the pwrites that empty full buffers into the logs, the   *)
(* parallel flush of partial buffers by the destructor or by the next Open,  *)
(* the truncation that marks them flushed, and kill -9 at any point.         *)
(*                                                                         *)
(* The files are the persistent state: an mmap-ed store and a finished       *)
(* pwrite survive kill -9 (they are in the page cache or on the device).     *)
(* A 4 KB memcpy and a pwrite can be cut short, so each is two actions:      *)
(* the first leaves the destination Torn, the second completes it.           *)
(***************************************************************************)
EXTENDS Layout, Sequences, FiniteSets

CONSTANTS
  Thread,        \* client threads that call Write
  Value,         \* 4 KB payloads
  FlushWorkers,  \* NUM_FLUSH_TMP_THREADS
  None,          \* no thread / no request
  Zero,          \* a slot of a sparse or freshly sized file, never written
  Torn           \* a slot whose overwriting was cut short

ASSUME RaceLogAssumption ==
  /\ FlushWorkers \in Nat \ {0}
  /\ IsFiniteSet(Thread)
  /\ None \notin [key : Key, value : Value]
  /\ None \notin Thread
  /\ Zero \notin Value \cup Key
  /\ Torn \notin Value \cup Key

VARIABLES
  \* Persistent: survives kill -9.
  metaFile, valFile, keyFile,   \* "absent", "empty" or "sized" (stat, ftruncate)
  cnt,                          \* mmap_meta_cnt_
  valBuf, keyBuf,               \* mmap_*_aligned_buffer_view_
  valLog, keyLog,               \* value_file_dp_, key_file_dp_
  \* Of the running process.
  mode,      \* which part of the engine's life the process is in
  closing,   \* the flush was called by the destructor, not by the constructor
  flushed,   \* progress of ParallelFlushTmp, per bucket
  holder,    \* bucket_mtx_
  pc, arg    \* each client thread inside Write

bufs == << valBuf, keyBuf >>
logs == << valLog, keyLog >>
files == << metaFile, valFile, keyFile >>
disk == << files, cnt, bufs, logs >>
calls == << holder, pc, arg >>
vars == << disk, mode, closing, flushed, calls >>

FileStates == {"absent", "empty", "sized"}

Modes == {"down", "create", "writer", "flush", "truncVal", "truncKey",
          "index", "reader", "sigbus", "segv"}
PCs == {"idle", "enter", "copying", "valFull", "valWriting", "key", "keyFull",
        "keyWriting", "publish", "return"}
FlushStages == {"none", "valPart", "val", "keyPart", "key"}

Pair == [key : Key, value : Value]
ValCell == Value \cup {Zero, Torn}
KeyCell == Key \cup {Zero, Torn}

ZeroValBuf == [b \in Bucket |-> [j \in 0 .. VBuf - 1 |-> Zero]]
ZeroKeyBuf == [b \in Bucket |-> [j \in 0 .. KBuf - 1 |-> Zero]]
TornBlock(size) == [j \in 0 .. size - 1 |-> Torn]

NoCalls ==
  /\ holder' = [b \in Bucket |-> None]
  /\ pc' = [t \in Thread |-> "idle"]
  /\ arg' = [t \in Thread |-> None]

BucketOfCall(t) == BucketOf(arg[t].key)

Init ==
  /\ metaFile = "absent" /\ valFile = "absent" /\ keyFile = "absent"
  /\ cnt = [b \in Bucket |-> 0]
  /\ valBuf = ZeroValBuf
  /\ keyBuf = ZeroKeyBuf
  /\ valLog = [s \in Slots |-> Zero]
  /\ keyLog = [s \in Slots |-> Zero]
  /\ mode = "down"
  /\ closing = FALSE
  /\ flushed = [b \in Bucket |-> "none"]
  /\ holder = [b \in Bucket |-> None]
  /\ pc = [t \in Thread |-> "idle"]
  /\ arg = [t \in Thread |-> None]

-----------------------------------------------------------------------------
(* Open: the constructor.                                                   *)

Dead == mode \in {"down", "sigbus", "segv"}

\* No meta file: the fresh branch; it creates the meta file first.
OpenFresh ==
  /\ Dead
  /\ metaFile = "absent"
  /\ metaFile' = "empty"
  /\ mode' = "create"
  /\ UNCHANGED << valFile, keyFile, cnt, bufs, logs, closing, flushed, calls >>

\* ftruncate, mmap and memset of the meta file.
SizeMeta ==
  /\ mode = "create"
  /\ metaFile = "empty"
  /\ metaFile' = "sized"
  /\ cnt' = [b \in Bucket |-> 0]
  /\ UNCHANGED << valFile, keyFile, bufs, logs, mode, closing, flushed, calls >>

CreateValFile ==
  /\ mode = "create"
  /\ metaFile = "sized"
  /\ \/ valFile = "absent" /\ valFile' = "empty"
     \/ valFile = "empty" /\ valFile' = "sized"
  /\ UNCHANGED << metaFile, keyFile, cnt, bufs, logs, mode, closing, flushed, calls >>

CreateKeyFile ==
  /\ mode = "create"
  /\ valFile = "sized"
  /\ \/ keyFile = "absent" /\ keyFile' = "empty"
     \/ keyFile = "empty" /\ keyFile' = "sized"
  /\ mode' = IF keyFile' = "sized" THEN "writer" ELSE mode
  /\ UNCHANGED << metaFile, valFile, cnt, bufs, logs, closing, flushed, calls >>

\* The meta file exists: FlushTmpFiles flushes iff the value buffer file has a
\* size.  file_size ignores a failed stat, so the size of an absent file is
\* whatever the uninitialised struct holds.
OpenExisting ==
  /\ Dead
  /\ metaFile # "absent"
  /\ \/ valFile # "empty" /\ mode' = "flush"
     \/ valFile # "sized" /\ mode' = "index"
  /\ closing' = FALSE
  /\ flushed' = [b \in Bucket |-> "none"]
  /\ UNCHANGED << disk, calls >>

\* Both branches then read counters through the mapping of the meta file; past
\* the end of a zero-length file that is SIGBUS.
FaultOnMeta ==
  /\ mode \in {"flush", "index"}
  /\ metaFile = "empty"
  /\ mode' = "sigbus"
  /\ UNCHANGED << disk, closing, flushed, calls >>

-----------------------------------------------------------------------------
(* Write.                                                                   *)

\* Calls on bucket b whose record is not yet counted.
InFlight(b) ==
  {t \in Thread : pc[t] \notin {"idle", "return"} /\ BucketOfCall(t) = b}

\* pc step of one thread inside Write; only what follows changes besides.
Step(t, from, to) ==
  /\ pc[t] = from
  /\ pc' = [pc EXCEPT ![t] = to]
  /\ UNCHANGED << files, mode, closing, flushed >>

\* The client calls Write.  The guard is the client's: Write itself does not
\* check that the bucket still has room in its region.
WriteCall(t) ==
  /\ mode = "writer"
  /\ Step(t, "idle", "enter")
  /\ \E p \in Pair :
       /\ cnt[BucketOf(p.key)] + Cardinality(InFlight(BucketOf(p.key))) < BucketCap
       /\ arg' = [arg EXCEPT ![t] = p]
  /\ UNCHANGED << cnt, bufs, logs, holder >>

\* Wrong on purpose: without taking the mutex into account.
BeginCopyUnlocked(t) ==
  LET b == BucketOfCall(t) IN
  /\ Step(t, "enter", "copying")
  /\ holder' = [holder EXCEPT ![b] = t]
  /\ valBuf' = [valBuf EXCEPT ![b][cnt[b] % VBuf] = Torn]
  /\ UNCHANGED << cnt, keyBuf, logs, arg >>

\* Takes bucket_mtx_ and starts the memcpy into the slot of the next record.
BeginCopy(t) ==
  LET b == BucketOfCall(t) IN
  /\ Step(t, "enter", "copying")
  /\ holder[b] = None
  /\ holder' = [holder EXCEPT ![b] = t]
  /\ valBuf' = [valBuf EXCEPT ![b][cnt[b] % VBuf] = Torn]
  /\ UNCHANGED << cnt, keyBuf, logs, arg >>

EndCopy(t) ==
  LET b == BucketOfCall(t) IN
  /\ Step(t, "copying", IF (cnt[b] + 1) % VBuf = 0 THEN "valFull" ELSE "key")
  /\ valBuf' = [valBuf EXCEPT ![b][cnt[b] % VBuf] = arg[t].value]
  /\ UNCHANGED << cnt, keyBuf, logs, holder, arg >>

\* The full value buffer is pwritten over the block it completes.
BeginValueWrite(t) ==
  LET b == BucketOfCall(t) IN
  /\ Step(t, "valFull", "valWriting")
  /\ valLog' = Pwrite(valLog, b, cnt[b] - (VBuf - 1), VBuf, TornBlock(VBuf))
  /\ UNCHANGED << cnt, bufs, keyLog, holder, arg >>

\* Wrong on purpose: the block starts one record too early.
EndValueWriteOffByOne(t) ==
  LET b == BucketOfCall(t) IN
  /\ Step(t, "valWriting", "key")
  /\ valLog' = Pwrite(valLog, b, cnt[b] - VBuf, VBuf, valBuf[b])
  /\ UNCHANGED << cnt, bufs, keyLog, holder, arg >>

EndValueWrite(t) ==
  LET b == BucketOfCall(t) IN
  /\ Step(t, "valWriting", "key")
  /\ valLog' = Pwrite(valLog, b, cnt[b] - (VBuf - 1), VBuf, valBuf[b])
  /\ UNCHANGED << cnt, bufs, keyLog, holder, arg >>

\* The key is one aligned 8-byte store: never torn.
StoreKey(t) ==
  LET b == BucketOfCall(t) IN
  /\ Step(t, "key", IF (cnt[b] + 1) % KBuf = 0 THEN "keyFull" ELSE "publish")
  /\ keyBuf' = [keyBuf EXCEPT ![b][cnt[b] % KBuf] = arg[t].key]
  /\ UNCHANGED << cnt, valBuf, logs, holder, arg >>

BeginKeyWrite(t) ==
  LET b == BucketOfCall(t) IN
  /\ Step(t, "keyFull", "keyWriting")
  /\ keyLog' = Pwrite(keyLog, b, cnt[b] - (KBuf - 1), KBuf, TornBlock(KBuf))
  /\ UNCHANGED << cnt, bufs, valLog, holder, arg >>

EndKeyWrite(t) ==
  LET b == BucketOfCall(t) IN
  /\ Step(t, "keyWriting", "publish")
  /\ keyLog' = Pwrite(keyLog, b, cnt[b] - (KBuf - 1), KBuf, keyBuf[b])
  /\ UNCHANGED << cnt, bufs, valLog, holder, arg >>

\* Wrong on purpose: the mutex stays locked.
PublishKeepsLock(t) ==
  LET b == BucketOfCall(t) IN
  /\ Step(t, "publish", "return")
  /\ cnt' = [cnt EXCEPT ![b] = @ + 1]
  /\ UNCHANGED << bufs, logs, holder, arg >>

\* The counter store is the commit point; then the mutex is released.
Publish(t) ==
  LET b == BucketOfCall(t) IN
  /\ Step(t, "publish", "return")
  /\ cnt' = [cnt EXCEPT ![b] = @ + 1]
  /\ holder' = [holder EXCEPT ![b] = None]
  /\ UNCHANGED << bufs, logs, arg >>

Return(t) ==
  /\ Step(t, "return", "idle")
  /\ arg' = [arg EXCEPT ![t] = None]
  /\ UNCHANGED << cnt, bufs, logs, holder >>

\* An engine opened on existing files has no bucket_mtx_: Write locks a mutex
\* at a null address.
WriteAfterReopen(t) ==
  /\ mode = "reader"
  /\ pc[t] = "idle"
  /\ mode' = "segv"
  /\ UNCHANGED << disk, closing, flushed, calls >>

-----------------------------------------------------------------------------
(* The destructor, ParallelFlushTmp and the end of the constructor.          *)

\* delete engine, once no Write is in progress.  Only a writer's index_ is
\* empty, so only a writer flushes.
Close ==
  /\ \A t \in Thread : pc[t] = "idle"
  /\ \/ /\ mode = "writer"
        /\ mode' = "flush"
        /\ closing' = TRUE
        /\ flushed' = [b \in Bucket |-> "none"]
     \/ /\ mode = "reader"
        /\ mode' = "down"
        /\ UNCHANGED << closing, flushed >>
  /\ UNCHANGED << disk, calls >>

\* Buckets of the flush worker that owns b.
Mine(b) == {c \in Bucket : c % FlushWorkers = b % FlushWorkers}

FlushStep(b, from, to) ==
  /\ mode = "flush"
  /\ metaFile = "sized"
  /\ flushed[b] = from
  /\ flushed' = [flushed EXCEPT ![b] = to]
  /\ UNCHANGED << files, cnt, bufs, mode, closing, calls >>

\* A worker flushes the values of its buckets in ascending order.  Only the
\* filled part of the buffer is written, and nothing when that part is empty.
FlushValueBegin(b) ==
  /\ FlushStep(b, "none", "valPart")
  /\ \A c \in Mine(b) : c < b => flushed[c] = "val"
  /\ valLog' = Pwrite(valLog, b, BlockBase(cnt[b], VBuf), cnt[b] % VBuf, TornBlock(VBuf))
  /\ UNCHANGED keyLog

FlushValueEnd(b) ==
  /\ FlushStep(b, "valPart", "val")
  /\ valLog' = Pwrite(valLog, b, BlockBase(cnt[b], VBuf), cnt[b] % VBuf, valBuf[b])
  /\ UNCHANGED keyLog

\* Wrong on purpose: a single buffered key is not flushed.
KeyFlushLenOffByOne(b) ==
  IF cnt[b] % KBuf > 1 /\ keyFile = "sized" THEN KBuf ELSE 0

\* Then their keys: the whole buffer, stale tail included, because O_DIRECT
\* wants whole blocks; from an empty buffer file the pwrite fails (EFAULT).
KeyFlushLen(b) ==
  IF cnt[b] % KBuf # 0 /\ keyFile = "sized" THEN KBuf ELSE 0

FlushKeyBegin(b) ==
  /\ FlushStep(b, "val", "keyPart")
  /\ \A c \in Mine(b) : flushed[c] = IF c < b THEN "key" ELSE "val"
  /\ keyLog' = Pwrite(keyLog, b, BlockBase(cnt[b], KBuf), KeyFlushLen(b), TornBlock(KBuf))
  /\ UNCHANGED valLog

FlushKeyEnd(b) ==
  /\ FlushStep(b, "keyPart", "key")
  /\ keyLog' = Pwrite(keyLog, b, BlockBase(cnt[b], KBuf), KeyFlushLen(b), keyBuf[b])
  /\ UNCHANGED valLog

\* Wrong on purpose: does not join the workers.
FlushJoinEarly ==
  /\ mode = "flush"
  /\ \A b \in Bucket : flushed[b] # "none"
  /\ mode' = "truncVal"
  /\ UNCHANGED << disk, closing, flushed, calls >>

\* All workers joined.
FlushJoin ==
  /\ mode = "flush"
  /\ \A b \in Bucket : flushed[b] = "key"
  /\ mode' = "truncVal"
  /\ UNCHANGED << disk, closing, flushed, calls >>

\* ftruncate to zero: what was in the buffer file is gone.  A descriptor of an
\* absent file is -1 and the call does nothing.
TruncVal ==
  /\ mode = "truncVal"
  /\ mode' = "truncKey"
  /\ valFile' = IF valFile = "sized" THEN "empty" ELSE valFile
  /\ valBuf' = ZeroValBuf
  /\ UNCHANGED << metaFile, keyFile, cnt, keyBuf, logs, closing, flushed, calls >>

TruncKey ==
  /\ mode = "truncKey"
  /\ mode' = IF closing THEN "down" ELSE "index"
  /\ keyFile' = IF keyFile = "sized" THEN "empty" ELSE keyFile
  /\ keyBuf' = ZeroKeyBuf
  /\ UNCHANGED << metaFile, valFile, cnt, valBuf, logs, closing, flushed, calls >>

\* BuildIndex; what it computes is modelled in RaceStore.
BuildIndex ==
  /\ mode = "index"
  /\ metaFile = "sized"
  /\ mode' = "reader"
  /\ UNCHANGED << disk, closing, flushed, calls >>

\* kill -9: what the process held is gone, the files stay as they are.
Kill ==
  /\ ~ Dead
  /\ mode' = "down"
  /\ NoCalls
  /\ UNCHANGED << disk, closing, flushed >>

-----------------------------------------------------------------------------
WriteSteps(t) ==
  \/ BeginCopy(t) \/ EndCopy(t) \/ BeginValueWrite(t) \/ EndValueWrite(t)
  \/ StoreKey(t) \/ BeginKeyWrite(t) \/ EndKeyWrite(t) \/ Publish(t) \/ Return(t)

CreateSteps == SizeMeta \/ CreateValFile \/ CreateKeyFile

FlushSteps(b) ==
  FlushValueBegin(b) \/ FlushValueEnd(b) \/ FlushKeyBegin(b) \/ FlushKeyEnd(b)

TailSteps == FaultOnMeta \/ FlushJoin \/ TruncVal \/ TruncKey \/ BuildIndex

Next ==
  \/ OpenFresh \/ OpenExisting \/ CreateSteps \/ TailSteps
  \/ Close \/ Kill
  \/ \E t \in Thread : WriteCall(t) \/ WriteSteps(t) \/ WriteAfterReopen(t)
  \/ \E b \in Bucket : FlushSteps(b)

Spec == Init /\ [][Next]_vars

(***************************************************************************)
(* The threads of a live process are scheduled and system calls return.     *)
(* Nobody has to call Open, Write or Close, or to kill the process, and     *)
(* std::mutex is not fair: BeginCopy is only weakly fair.                   *)
(***************************************************************************)
Fairness ==
  /\ WF_vars(CreateSteps)
  /\ WF_vars(TailSteps)
  /\ \A b \in Bucket : WF_vars(FlushSteps(b))
  /\ \A t \in Thread : WF_vars(WriteSteps(t))

FairSpec == Spec /\ Fairness

-----------------------------------------------------------------------------
(* Properties.                                                              *)

TypeOK ==
  /\ metaFile \in FileStates /\ valFile \in FileStates /\ keyFile \in FileStates
  /\ cnt \in [Bucket -> 0 .. BucketCap]
  /\ valBuf \in [Bucket -> [0 .. VBuf - 1 -> ValCell]]
  /\ keyBuf \in [Bucket -> [0 .. KBuf - 1 -> KeyCell]]
  /\ valLog \in [Slots -> ValCell]
  /\ keyLog \in [Slots -> KeyCell]
  /\ mode \in Modes
  /\ closing \in BOOLEAN
  /\ flushed \in [Bucket -> FlushStages]
  /\ holder \in [Bucket -> Thread \cup {None}]
  /\ pc \in [Thread -> PCs]
  /\ arg \in [Thread -> Pair \cup {None}]

(***************************************************************************)
(* What an Open started in this state would recover as the i-th record of   *)
(* bucket b: FlushTmpFiles copies the tail of a bucket from the buffer      *)
(* files over the logs, unless they were truncated; the rest is in the logs.*)
(***************************************************************************)
ValAt(b, i) ==
  IF valFile = "sized" /\ i >= BlockBase(cnt[b], VBuf)
  THEN valBuf[b][i % VBuf]
  ELSE valLog[Slot(b, i)]

KeyAt(b, i) ==
  IF valFile = "sized" /\ keyFile = "sized" /\ i >= BlockBase(cnt[b], KBuf)
  THEN keyBuf[b][i % KBuf]
  ELSE keyLog[Slot(b, i)]

Recovered(b) == [i \in 1 .. cnt[b] |-> << KeyAt(b, i - 1), ValAt(b, i - 1) >>]

\* At every instant, whatever the threads, the flush workers or a kill were in
\* the middle of, each counted record of each bucket can be recovered as a
\* complete pair whose key belongs to that bucket: no torn, zero or misplaced
\* slot is ever counted (Write 373-401, ParallelFlushTmp 820-860).
RecoverableIntact ==
  \A b \in Bucket : \A i \in 0 .. cnt[b] - 1 :
    /\ ValAt(b, i) \in Value
    /\ KeyAt(b, i) \in Key
    /\ BucketOf(KeyAt(b, i)) = b

\* No step of any kind changes or forgets a record that was counted: moving a
\* full buffer to the log, flushing a partial one, truncating the buffer files
\* and killing the process at any point all leave the recoverable prefix alone.
CommittedStays ==
  [][\A b \in Bucket : \A i \in 0 .. cnt[b] - 1 :
       /\ i < cnt'[b]
       /\ ValAt(b, i)' = ValAt(b, i)
       /\ KeyAt(b, i)' = KeyAt(b, i)]_vars

\* The state of a call as the abstract log sees it.
RequestOf(t) ==
  CASE pc[t] = "idle" -> [status |-> "idle"]
    [] pc[t] = "return" -> [status |-> "published"]
    [] OTHER -> [status |-> "pending", key |-> arg[t].key, value |-> arg[t].value]

Abs ==
  INSTANCE DurableLog WITH
    log <- [b \in Bucket |-> Recovered(b)],
    req <- [t \in Thread |-> RequestOf(t)]

\* The engine implements the abstract log: each Write appends its own pair to
\* its own bucket, exactly once, at one instant between call and return, and a
\* kill loses exactly the calls that were not counted yet.
ImplementsDurableLog == Abs!DSpec

\* A writer inside the critical section of a bucket always leaves it, unless the
\* process is killed: pwrites and buffer switches never wait for another lock.
LockReleased ==
  \A b \in Bucket : holder[b] # None ~> holder[b] = None

\* An Open, or a destructor's flush, finishes unless it is killed or faults: the
\* flush workers' shares are disjoint and together cover every bucket.
OpenReturns ==
  mode \in {"create", "flush", "truncVal", "truncKey", "index"}
    ~> mode \in {"writer", "reader", "down", "sigbus"}

\* contest_summary_toc.md:7-8: data must survive any number of kill -9 and the
\* database is then opened again.  A constructor never dies by itself.
OpenSurvivesKill == mode # "sigbus"
=============================================================================
