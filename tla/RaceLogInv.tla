----------------------------- MODULE RaceLogInv -----------------------------
(***************************************************************************)
(* The inductive invariant behind RecoverableIntact and CommittedStays: how  *)
(* far each bucket's log may lag behind its buffer at every program point.  *)
(***************************************************************************)
EXTENDS RaceLog

\* The records of the block of record n, up to and including record n, are in
\* the log as they are in the buffer.
ValCopied(b, n) ==
  \A i \in BlockBase(n, VBuf) .. n : valLog[Slot(b, i)] = valBuf[b][i % VBuf]

KeyCopied(b, n) ==
  \A i \in BlockBase(n, KBuf) .. n : keyLog[Slot(b, i)] = keyBuf[b][i % KBuf]

Locking == {"copying", "valFull", "valWriting", "key", "keyFull", "keyWriting", "publish"}

\* A thread is inside the critical section of its bucket iff it holds the mutex.
LockInv ==
  /\ \A t \in Thread : pc[t] \in Locking => holder[BucketOfCall(t)] = t
  /\ \A b \in Bucket : holder[b] # None =>
       pc[holder[b]] \in Locking /\ BucketOfCall(holder[b]) = b

\* Only a writer has calls in progress, and a call has its argument.
CallInv ==
  \A t \in Thread :
    /\ pc[t] = "idle" <=> arg[t] = None
    /\ pc[t] # "idle" => mode = "writer"

\* What the calls in progress will add still fits into the region.
RoomInv == \A b \in Bucket : cnt[b] + Cardinality(InFlight(b)) <= BucketCap

\* How far the call of t has got with record n = cnt of its bucket.
CopyInv(t) ==
  LET b == BucketOfCall(t)
      n == cnt[b]
  IN
  /\ pc[t] \in Locking \ {"copying"} => valBuf[b][n % VBuf] = arg[t].value
  /\ pc[t] \in {"valFull", "valWriting"} => (n + 1) % VBuf = 0
  /\ pc[t] \in {"key", "keyFull", "keyWriting", "publish"} /\ (n + 1) % VBuf = 0
       => ValCopied(b, n)
  /\ pc[t] \in {"keyFull", "keyWriting", "publish"} => keyBuf[b][n % KBuf] = arg[t].key
  /\ pc[t] \in {"keyFull", "keyWriting"} => (n + 1) % KBuf = 0
  /\ pc[t] = "publish" /\ (n + 1) % KBuf = 0 => KeyCopied(b, n)

CopiesInv == \A t \in Thread : CopyInv(t)

\* Which files a process in each mode can find.
FileInv ==
  /\ metaFile # "sized" => valFile = "absent" /\ keyFile = "absent"
  /\ mode = "writer" => metaFile = "sized" /\ valFile = "sized" /\ keyFile = "sized"
  /\ mode = "create" => \A b \in Bucket : cnt[b] = 0
  /\ mode = "flush" => valFile # "empty"
  /\ mode \in {"truncKey", "index", "reader"} => valFile # "sized"
  /\ \A b \in Bucket : cnt[b] # 0 =>
       /\ metaFile = "sized"
       /\ valFile # "absent"
       /\ valFile = "sized" => keyFile = "sized"

\* What the flush has copied when it says so.
FlushInv ==
  /\ mode = "truncVal" => \A b \in Bucket : flushed[b] = "key"
  /\ mode \in {"flush", "truncVal"} /\ valFile = "sized" =>
       \A b \in Bucket :
         /\ flushed[b] \in {"val", "keyPart", "key"} /\ cnt[b] % VBuf # 0
              => ValCopied(b, cnt[b] - 1)
         /\ flushed[b] = "key" /\ cnt[b] % KBuf # 0 => KeyCopied(b, cnt[b] - 1)

\* The inductive invariant of RaceLog: every step of every actor keeps each of
\* its parts, which is why RecoverableIntact and CommittedStays hold.
IInv ==
  /\ TypeOK
  /\ LockInv
  /\ CallInv
  /\ RoomInv
  /\ CopiesInv
  /\ FileInv
  /\ FlushInv
  /\ RecoverableIntact
=============================================================================
