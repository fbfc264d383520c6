-------------------------- MODULE SparseHashtable --------------------------
(***************************************************************************)
(* sparse_hashtable of sparsepp, under the names of sparse_hash_map: open  *)
(* addressing with triangular jumps, buckets that remember that they were  *)
(* erased, and rehashing when the table is too full or too empty.  The     *)
(* buckets are sparsetable's, which SparseTable models; here a table is a  *)
(* function from bucket numbers to what test(), test_strict() and          *)
(* unsafe_get() say of them.  One thread uses the tables.                  *)
(***************************************************************************)
EXTENDS Integers, Sequences, FiniteSets, FiniteSetsExt, SequencesExt

CONSTANTS Table, Key, Value,
          Hash,
          HT_MIN_BUCKETS, HT_DEFAULT_STARTING_BUCKETS,   \* powers of two
          Factors,          \* shrink and enlarge factors in percent; the first is the default
          Reserves,         \* what resize() is asked for
          MaxDoublings,     \* bound: bucket_count() <= HT_MIN_BUCKETS * 2^MaxDoublings
          AssignToEmptied,  \* may a table that erase() emptied be assigned to?
          SaveErased,       \* may a table with erased buckets be serialized?
          Empty, Erased
HashAssumption == Hash \in [Key -> Nat]
FactorsAssumption == \A i \in DOMAIN Factors : Factors[i][1] < Factors[i][2] /\ Factors[i][2] < 100

VARIABLES tables,
          maps      \* what the calls made the map of each table be
vars == <<tables, maps>>

Sizes == {HT_MIN_BUCKETS * 2 ^ i : i \in 0 .. MaxDoublings + 1}
bucket_count(tb) == Cardinality(DOMAIN tb.cells)
Full(tb) == {i \in DOMAIN tb.cells : tb.cells[i] \notin {Empty, Erased}}
ErasedIn(tb) == {i \in DOMAIN tb.cells : tb.cells[i] = Erased}
size(tb) == Cardinality(Full(tb))
NoBuckets(n) == [i \in 0 .. n - 1 |-> Empty]

(***************************************************************************)
(* Settings                                                                *)
(***************************************************************************)
Part(n, percent) == (n * percent) \div 100
reset_thresholds(tb) == [tb EXCEPT !.enlarge_threshold = Part(bucket_count(tb), tb.enlarge),
                                   !.shrink_threshold = Part(bucket_count(tb), tb.shrink),
                                   !.consider_shrink = FALSE]
min_buckets(tb, elts, wanted) == Min({n \in Sizes : n >= wanted /\ elts < Part(n, tb.enlarge)})
MayHold(tb, elts) == elts < Part(Max(Sizes), tb.enlarge)
set_resizing_parameters(tb, f) ==
  reset_thresholds([tb EXCEPT !.shrink = Min({f[1], f[2] \div 2}), !.enlarge = f[2]])

New(n) ==
  LET tb == [cells |-> <<>>, num_deleted |-> 0, enlarge_threshold |-> 0, shrink_threshold |-> 0,
             consider_shrink |-> FALSE, shrink |-> Factors[1][1], enlarge |-> Factors[1][2]]
      buckets == IF n = 0 THEN HT_DEFAULT_STARTING_BUCKETS ELSE min_buckets(tb, n, 0)
  IN reset_thresholds([tb EXCEPT !.cells = NoBuckets(buckets)])

(***************************************************************************)
(* Probing                                                                 *)
(***************************************************************************)
BucketAt(cells, k, n) == (Hash[k] + (n * (n + 1)) \div 2) % Cardinality(DOMAIN cells)
Holds(cells, i, k) == cells[i] \notin {Empty, Erased} /\ cells[i][1] = k
Stops(cells, k) == {n \in DOMAIN cells : LET i == BucketAt(cells, k, n) IN
                                         cells[i] = Empty \/ Holds(cells, i, k)}

_find_position(cells, k) ==
  LET n == Min(Stops(cells, k))
      erased == {m \in 0 .. n - 1 : cells[BucketAt(cells, k, m)] = Erased}
  IN CASE Holds(cells, BucketAt(cells, k, n), k) -> [type |-> "full", idx |-> BucketAt(cells, k, n)]
       [] ~Holds(cells, BucketAt(cells, k, n), k) /\ erased # {} ->
            [type |-> "erased", idx |-> BucketAt(cells, k, Min(erased))]
       [] OTHER -> [type |-> "empty", idx |-> BucketAt(cells, k, n)]

Found(tb, k) == _find_position(tb.cells, k).type = "full"

(***************************************************************************)
(* Rehashing.  The items go in the order of the old buckets into a table   *)
(* where nothing is erased.                                                *)
(***************************************************************************)
Place(cells, item) ==
  LET free == {n \in DOMAIN cells : cells[BucketAt(cells, item[1], n)] \in {Empty, Erased}}
  IN [cells EXCEPT ![BucketAt(cells, item[1], Min(free))] = item]
Items(tb) == LET in_order == SetToSortSeq(Full(tb), <) IN [i \in DOMAIN in_order |-> tb.cells[in_order[i]]]
CopyInto(cells, tb) == FoldLeft(Place, cells, Items(tb))

_move_from(tb, wanted) ==
  reset_thresholds([tb EXCEPT !.cells = CopyInto(NoBuckets(min_buckets(tb, size(tb), wanted)), tb),
                              !.num_deleted = 0])

Shrinks(tb) == /\ tb.shrink_threshold > 0
               /\ size(tb) < tb.shrink_threshold
               /\ bucket_count(tb) > HT_DEFAULT_STARTING_BUCKETS
ShrunkSize(tb) ==
  Max({n \in Sizes : /\ n <= bucket_count(tb) \div 2
                     /\ n <= HT_DEFAULT_STARTING_BUCKETS \/ size(tb) >= Part(n, tb.shrink)})
_maybe_shrink(tb) ==
  IF Shrinks(tb) THEN _move_from(tb, ShrunkSize(tb)) ELSE [tb EXCEPT !.consider_shrink = FALSE]

\* Wrong on purpose: erased buckets do not count.
OccupiedLive(tb) == size(tb)

Occupied(tb) == size(tb) + tb.num_deleted

Considered(tb) == IF tb.consider_shrink THEN _maybe_shrink(tb) ELSE tb
Grows(tb, delta) == /\ bucket_count(tb) < HT_MIN_BUCKETS \/ Occupied(tb) + delta > tb.enlarge_threshold
                    /\ min_buckets(tb, Occupied(tb) + delta, 0) > bucket_count(tb)
\* With min_buckets asked for the same number twice, the branch that doubles
\* resize_to a second time is never taken.
_resize_delta(tb, delta) ==
  LET ct == Considered(tb)
  IN IF Grows(ct, delta)
     THEN _move_from(ct, min_buckets(ct, Occupied(ct) + delta, bucket_count(ct))) ELSE ct
DidResize(tb, delta) == (tb.consider_shrink /\ Shrinks(tb)) \/ Grows(Considered(tb), delta)

(***************************************************************************)
(* Calls.  A table that was moved from has no buckets: it can be assigned  *)
(* to, swapped or cleared.  Cap keeps tables within MaxDoublings.          *)
(***************************************************************************)
Usable(t) == bucket_count(tables[t]) > 0
Cap(tb) == bucket_count(tb) <= HT_MIN_BUCKETS * 2 ^ MaxDoublings
Put(t, tb) == Cap(tb) /\ tables' = [tables EXCEPT ![t] = tb]
Put2(t, tb, u, ub) == Cap(tb) /\ tables' = [tables EXCEPT ![t] = tb, ![u] = ub]
MapPut(m, k, v) == [x \in DOMAIN m \cup {k} |-> IF x = k THEN v ELSE m[x]]
Without(m, K) == [x \in DOMAIN m \ K |-> m[x]]
Becomes(t, m) == maps' = [maps EXCEPT ![t] = m]

_insert_at(tb, pos, item) ==
  [tb EXCEPT !.cells[pos.idx] = item, !.num_deleted = IF pos.type = "erased" THEN @ - 1 ELSE @]

\* insert and emplace: the table may be rehashed even when the key is there.
Insert(t, k, v) ==
  LET tb == _resize_delta(tables[t], 1)
      pos == _find_position(tb.cells, k)
  IN /\ Usable(t) /\ MayHold(tables[t], Occupied(tables[t]) + 1)
     /\ IF pos.type = "full" THEN Put(t, tb) /\ UNCHANGED maps
        ELSE Put(t, _insert_at(tb, pos, <<k, v>>)) /\ Becomes(t, MapPut(maps[t], k, v))

\* operator[] and the assignment to what it returns
FindOrInsert(t, k, v) ==
  LET pos == _find_position(tables[t].cells, k)
      tb == _resize_delta(tables[t], 1)
      where == IF DidResize(tables[t], 1) THEN _find_position(tb.cells, k) ELSE pos
  IN /\ Usable(t) /\ MayHold(tables[t], Occupied(tables[t]) + 1)
     /\ IF pos.type = "full" THEN Put(t, [tables[t] EXCEPT !.cells[pos.idx] = <<k, v>>])
        ELSE Put(t, _insert_at(tb, where, <<k, v>>))
     /\ Becomes(t, MapPut(maps[t], k, v))

EraseBuckets(tb, S) ==
  [tb EXCEPT !.cells = [i \in DOMAIN @ |-> IF i \in S THEN Erased ELSE @[i]],
             !.num_deleted = @ + Cardinality(S), !.consider_shrink = TRUE]

\* erase(key), and erase(iterator) at the key's item
Erase(t, k) ==
  LET pos == _find_position(tables[t].cells, k) IN
  /\ Usable(t) /\ pos.type = "full"
  /\ Put(t, EraseBuckets(tables[t], {pos.idx}))
  /\ Becomes(t, Without(maps[t], {k}))

\* erase(first, last)
EraseRange(t) ==
  \E S \in SUBSET Full(tables[t]) :
    /\ Cardinality(S) > 1
    /\ \A i \in Full(tables[t]) : Min(S) <= i /\ i <= Max(S) => i \in S
    /\ Put(t, EraseBuckets(tables[t], S))
    /\ Becomes(t, Without(maps[t], {tables[t].cells[i][1] : i \in S}))

clear(tb) ==
  LET emptied == IF size(tb) # 0 \/ tb.num_deleted # 0
                 THEN [tb EXCEPT !.cells = NoBuckets(HT_DEFAULT_STARTING_BUCKETS)] ELSE tb
  IN [reset_thresholds(emptied) EXCEPT !.num_deleted = 0]
Clear(t) == Put(t, clear(tables[t])) /\ Becomes(t, <<>>)

\* resize, rehash and reserve
Resize(t, n) ==
  LET tb == IF tables[t].consider_shrink \/ n = 0 THEN _maybe_shrink(tables[t]) ELSE tables[t]
  IN /\ Usable(t) /\ MayHold(tables[t], Occupied(tables[t]) + n)
     /\ Put(t, IF n > size(tb) THEN _resize_delta(tb, n - size(tb)) ELSE tb)
     /\ UNCHANGED maps

SetFactors(t, f) == Usable(t) /\ Put(t, set_resizing_parameters(tables[t], f)) /\ UNCHANGED maps

Construct(t, n) == Put(t, New(n)) /\ Becomes(t, <<>>)

\* num_deleted is already the other table's when _copy_from clears this one.
AssignedFrom(tb, ub) == clear([ub EXCEPT !.cells = tb.cells])
_copy_from(tb, ub, wanted) ==
  LET buckets == min_buckets(tb, size(ub), wanted)
      more == buckets > bucket_count(tb)
      grown == [i \in 0 .. buckets - 1 |-> IF i \in DOMAIN tb.cells THEN tb.cells[i] ELSE Empty]
      sized == IF more THEN reset_thresholds([tb EXCEPT !.cells = grown]) ELSE tb
  IN [sized EXCEPT !.cells = CopyInto(@, ub)]
Assign(t, u) ==
  /\ t # u
  /\ AssignToEmptied \/ size(tables[t]) > 0 \/ ErasedIn(tables[t]) = {}
  /\ Put(t, _copy_from(AssignedFrom(tables[t], tables[u]), tables[u], HT_MIN_BUCKETS))
  /\ Becomes(t, maps[u])
Copy(t, u) ==
  /\ t # u
  /\ Put(t, _copy_from(reset_thresholds([tables[u] EXCEPT !.cells = <<>>, !.num_deleted = 0]),
                       tables[u], HT_DEFAULT_STARTING_BUCKETS))
  /\ Becomes(t, maps[u])

\* The move constructor and the move assignment
Move(t, u) == /\ t # u
              /\ Put2(t, tables[u], u, [tables[u] EXCEPT !.cells = <<>>])
              /\ maps' = [maps EXCEPT ![t] = maps[u], ![u] = <<>>]
Swap(t, u) == /\ t # u
              /\ Put2(t, reset_thresholds(tables[u]), u, reset_thresholds(tables[t]))
              /\ maps' = [maps EXCEPT ![t] = maps[u], ![u] = maps[t]]

\* unserialize of what serialize wrote of u: the erased bits are not written.
Load(t, u) ==
  LET written == [i \in DOMAIN tables[u].cells |->
                    IF tables[u].cells[i] = Erased THEN Empty ELSE tables[u].cells[i]]
  IN /\ SaveErased \/ ErasedIn(tables[u]) = {}
     /\ Put(t, reset_thresholds([tables[t] EXCEPT !.cells = written, !.num_deleted = 0]))
     /\ Becomes(t, maps[u])

Init == /\ tables = [t \in Table |-> New(0)]
        /\ maps = [t \in Table |-> <<>>]

Next == \E t \in Table :
          \/ \E k \in Key, v \in Value : Insert(t, k, v) \/ FindOrInsert(t, k, v)
          \/ \E k \in Key : Erase(t, k)
          \/ EraseRange(t) \/ Clear(t)
          \/ \E n \in Reserves : Resize(t, n) \/ Construct(t, n)
          \/ \E i \in DOMAIN Factors : SetFactors(t, Factors[i])
          \/ \E u \in Table : Assign(t, u) \/ Copy(t, u) \/ Move(t, u) \/ Swap(t, u) \/ Load(t, u)

Spec == Init /\ [][Next]_vars

(***************************************************************************)
(* What the table promises                                                 *)
(***************************************************************************)
\* Every lookup (find, count, at, contains, _find_position) of every key
\* meets a bucket that was never used, or the key, before it has looked at
\* every bucket: what the assertion "Hashtable is full" says.
ProbesEnd == \A t \in Table : Usable(t) => \A k \in Key : Stops(tables[t].cells, k) # {}

\* A lookup finds exactly the keys that the calls so far put in the map, with
\* their values, through rehashing, copies, moves and serialization.
LookupsAgree ==
  \A t \in Table :
    /\ Usable(t) => \A k \in Key :
         LET pos == _find_position(tables[t].cells, k) IN
         IF k \in DOMAIN maps[t] THEN pos.type = "full" /\ tables[t].cells[pos.idx] = <<k, maps[t][k]>>
         ELSE pos.type # "full"
    /\ size(tables[t]) = Cardinality(DOMAIN maps[t])

\* num_deleted counts the erased buckets.  The occupancy that _resize_delta
\* compares with the threshold rests on it.
DeletedExact == \A t \in Table : Usable(t) => tables[t].num_deleted = Cardinality(ErasedIn(tables[t]))
=============================================================================
