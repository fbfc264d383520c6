----------------------------- MODULE RaceStore ------------------------------
(***************************************************************************)
(* The engine as its readers see it: RaceLog with the in-memory index that   *)
(* BuildIndex sorts, the search Read does in it, and the order in which      *)
(* Range visits it.  Read and Range change no file and no index, so they are *)
(* operators on the state of a reader; how they are paced is ReadSync's and  *)
(* RangePipeline's matter.                                                  *)
(***************************************************************************)
EXTENDS RaceLog, TLC

CONSTANTS
  OffsetSpan,  \* 2^16: value_offset_ is a uint16_t
  NotFound     \* kNotFound

ASSUME RaceStoreAssumption ==
  /\ OffsetSpan \in Nat \ {0}
  /\ NotFound \notin ValCell

VARIABLE index  \* index_, per bucket

svars == << vars, index >>

NoIndex == [b \in Bucket |-> << >>]

\* Wrong on purpose: equal keys oldest first.
EntryLessOldestFirst(l, r) ==
  \/ l.key < r.key
  \/ l.key = r.key /\ l.off < r.off

\* The comparator of sort: equal keys newest first.
EntryLess(l, r) ==
  \/ l.key < r.key
  \/ l.key = r.key /\ l.off > r.off

\* The key file read in chunks, slot by slot; the position is stored in 16 bits.
Entries(b) ==
  [i \in 1 .. cnt[b] |-> [key |-> keyLog[Slot(b, i - 1)], off |-> (i - 1) % OffsetSpan]]

\* How many entries sort leaves up to and including entry i.
Rank(e, i) ==
  Cardinality({j \in DOMAIN e : EntryLess(e[j], e[i]) \/ (e[j] = e[i] /\ j <= i)})

SortedEntries(e) == [r \in DOMAIN e |-> e[CHOOSE i \in DOMAIN e : Rank(e, i) = r]]

BuiltIndex == [b \in Bucket |-> SortedEntries(Entries(b))]

SInit == Init /\ index = NoIndex

SNext ==
  /\ Next
  /\ index' = IF mode' # "reader" THEN NoIndex
              ELSE IF mode = "reader" THEN index ELSE BuiltIndex

SSpec == SInit /\ [][SNext]_svars

-----------------------------------------------------------------------------
(* Read.                                                                    *)

\* The halving loop: from base on, m entries are left.
Narrow(a, key) ==
  LET step[s \in Nat \X Nat] ==
        LET base == s[1]  m == s[2]  half == s[2] \div 2
        IN  IF m <= 1 THEN base
            ELSE step[<<IF a[base + half + 1].key < key THEN base + half ELSE base, m - half>>]
  IN step[<<0, Len(a)>>]

\* The final correction by the one entry that is left (0-based result).
branchfree_search(a, key) ==
  LET base == Narrow(a, key) IN
  IF a[base + 1].key < key THEN base + 1 ELSE base

\* What Read(k) may return.  With an empty bucket the search compares and Read
\* dereferences memory of malloc(0) that nobody initialised.
ReadOutcomes(k) ==
  LET b == BucketOf(k)
      it == branchfree_search(index[b], k)
  IN
  IF cnt[b] = 0
  THEN {NotFound} \cup {valLog[Slot(b, i)] : i \in 0 .. BucketCap - 1}
  ELSE IF it = cnt[b] \/ index[b][it + 1].key # k
  THEN {NotFound}
  ELSE {valLog[Slot(b, index[b][it + 1].off)]}

-----------------------------------------------------------------------------
(* Range.                                                                   *)

\* Wrong on purpose: the last of each run, the oldest value of the key.
VisitedLast(b) == {i \in 1 .. cnt[b] : i = cnt[b] \/ index[b][i].key # index[b][i + 1].key}

\* Positions of the index that Range visits: the first of each run of equal keys.
Visited(b) == {i \in 1 .. cnt[b] : i = 1 \/ index[b][i].key # index[b][i - 1].key}

\* Position p of bucket b comes before position q of bucket c in a traversal.
Visits == {p \in Bucket \X (1 .. BucketCap) : p[2] \in Visited(p[1])}

Before(p, q) == p[1] < q[1] \/ (p[1] = q[1] /\ p[2] < q[2])

VisitedPair(p) ==
  << index[p[1]][p[2]].key, valLog[Slot(p[1], index[p[1]][p[2]].off)] >>

-----------------------------------------------------------------------------
(* Properties.                                                              *)

\* Where the records of k are among the recovered ones.
RecordsOf(k) == {i \in 1 .. cnt[BucketOf(k)] : Recovered(BucketOf(k))[i][1] = k}

Newest(k) ==
  LET i == CHOOSE i \in RecordsOf(k) : \A j \in RecordsOf(k) : j <= i
  IN Recovered(BucketOf(k))[i][2]

\* After any history of Writes, kills, flushes and Opens, Read returns the value
\* of the newest counted Write of the key, and kNotFound when the bucket holds
\* other keys only (Read 433-492, branchfree_search 51-62, BuildIndex 905-977).
ReadLatest ==
  mode = "reader" =>
    \A k \in Key : cnt[BucketOf(k)] # 0 =>
      ReadOutcomes(k) = {IF RecordsOf(k) = {} THEN NotFound ELSE Newest(k)}

\* A traversal visits every key once, in strictly increasing order, with its
\* newest value (Range 744-800; DumpVisitor in test_engine.cpp asserts it).
RangeExact ==
  mode = "reader" =>
    /\ \A p, q \in Visits : Before(p, q) => VisitedPair(p)[1] < VisitedPair(q)[1]
    /\ {VisitedPair(p) : p \in Visits} =
         {<< k, Newest(k) >> : k \in {k \in Key : RecordsOf(k) # {}}}

\* engine_race.h:33-42: a bucket holds MAX_VAL_BUCKET_SIZE records.  Read finds
\* the newest of them for every size the layout admits.
ReadLatestFullBucket == ReadLatest

\* test_engine.cpp:179: Read of a key nobody wrote returns kNotFound.
AbsentNotFound ==
  mode = "reader" => \A k \in Key : RecordsOf(k) = {} => ReadOutcomes(k) = {NotFound}
=============================================================================
