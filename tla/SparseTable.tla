---------------------------- MODULE SparseTable ----------------------------
(***************************************************************************)
(* sparsetable and sparsegroup of sparsepp: an array in groups of          *)
(* SPP_GROUP_SIZE buckets, of which each group stores only the items it    *)
(* has, packed, under a bitmap.  A second bitmap remembers what was        *)
(* erased.  Walks go over the items with the iterators, which may erase on *)
(* the way, or destroy what they pass.  One thread uses the table.         *)
(***************************************************************************)
EXTENDS Integers, Sequences, FiniteSets, FiniteSetsExt, SequencesExt

CONSTANTS SPP_GROUP_SIZE,
          Value,
          TableSizes,   \* what the table is made for, or resized to
          Used          \* bound: the buckets that are used
VARIABLES groups, table_size, num_buckets,
          file,         \* what serialize wrote: <<>> or <<table>>
          walk,         \* "none", "items" or "destroy"
          row, col,     \* the iterator: a group and an offset in it
          array,        \* what the calls so far stored: bucket -> value
          gone,         \* buckets erased and not set again since
          passed        \* buckets that the walk has left behind
tvars == <<groups, table_size, num_buckets, file>>
vars == <<tvars, walk, row, col, array, gone, passed>>

(***************************************************************************)
(* A group                                                                 *)
(***************************************************************************)
\* How many slots _sizing allocates for n items in a group of g buckets: the
\* table alloc_batch_size, one quarter of which grows in steps of Start[i].
Sizing(g, n) ==
  LET quarter == g \div 4
      Start[i \in 0 .. 3] == IF i = 0 THEN g \div 8
                             ELSE IF Start[i - 1] > 2 THEN Start[i - 1] \div 2 ELSE Start[i - 1]
      Steps(i, j) == (j \div Start[i]) * Start[i]
      First[i \in 0 .. 3] == IF i = 0 THEN Start[0]
                             ELSE First[i - 1] + Steps(i - 1, quarter - 1) + Start[i]
      i == (n - 1) \div quarter
  IN IF n = 0 THEN 0 ELSE First[i] + Steps(i, (n - 1) % quarter)
_sizing(n) == Sizing(SPP_GROUP_SIZE, n)
SizingAssumption ==
  \A g \in {32, 64, SPP_GROUP_SIZE} : \A n \in 1 .. g :
    n <= Sizing(g, n) /\ Sizing(g, n) <= g /\ Sizing(g, Sizing(g, n)) = Sizing(g, n)

NewGroup == [bitmap |-> {}, bm_erased |-> {}, group |-> <<>>, num_allocated |-> 0]
num_items(g) == Len(g.group)
pos_to_offset(g, i) == Cardinality({j \in g.bitmap : j < i})
offset_to_pos(g, offset) == CHOOSE i \in g.bitmap : pos_to_offset(g, i) = offset

\* _set_aux makes room at the offset; when no slot is free the group is
\* reallocated, or moved to a new one.
set(g, i, v) ==
  LET at == pos_to_offset(g, i) + 1
      full == num_items(g) = _sizing(num_items(g))
  IN [g EXCEPT !.bm_erased = @ \ {i}, !.bitmap = @ \cup {i},
               !.group = IF i \in g.bitmap THEN [@ EXCEPT ![at] = v] ELSE InsertAt(@, at, v),
               !.num_allocated = IF i \notin g.bitmap /\ full THEN _sizing(num_items(g) + 1) ELSE @]

clear(g, erased) == [NewGroup EXCEPT !.bm_erased = IF erased THEN {} ELSE g.bm_erased]

Remember(g, i) == [g EXCEPT !.bm_erased = @ \cup {i}]
_group_erase(g, i) ==
  LET n == num_items(g) IN
  [g EXCEPT !.bitmap = @ \ {i}, !.group = RemoveAt(@, pos_to_offset(g, i) + 1),
            !.num_allocated = IF _sizing(n - 1) # _sizing(n) THEN _sizing(n - 1) ELSE @]

\* Wrong on purpose: the last item takes the erased bits with it.
EraseAll(g, i) == Remember(IF num_items(g) = 1 THEN clear(g, TRUE) ELSE _group_erase(g, i), i)

erase(g, i) == Remember(IF num_items(g) = 1 THEN clear(g, FALSE) ELSE _group_erase(g, i), i)

(***************************************************************************)
(* The table                                                               *)
(***************************************************************************)
num_groups(n) == IF n = 0 THEN 0 ELSE (n - 1) \div SPP_GROUP_SIZE + 1
group_num(i) == i \div SPP_GROUP_SIZE + 1
pos_in_group(i) == i % SPP_GROUP_SIZE
which_group(i) == groups[group_num(i)]
test(i) == pos_in_group(i) \in which_group(i).bitmap
test_strict(i) == pos_in_group(i) \in which_group(i).bitmap \cup which_group(i).bm_erased
unsafe_get(i) == which_group(i).group[pos_to_offset(which_group(i), pos_in_group(i)) + 1]
get_pos(r, c) == (r - 1) * SPP_GROUP_SIZE + offset_to_pos(groups[r], c)

Idle == walk = "none"
NoWalk == UNCHANGED <<walk, row, col, passed>>
Buckets == {i \in Used : i < table_size}

Set(i, v) ==
  LET g == set(which_group(i), pos_in_group(i), v) IN
  /\ Idle
  /\ groups' = [groups EXCEPT ![group_num(i)] = g]
  /\ num_buckets' = num_buckets + num_items(g) - num_items(which_group(i))
  /\ array' = [j \in DOMAIN array \cup {i} |-> IF j = i THEN v ELSE array[j]]
  /\ gone' = gone \ {i}
  /\ NoWalk /\ UNCHANGED <<table_size, file>>

\* erase by number, and GrpPos::erase
Erase(i) ==
  /\ Idle /\ test(i)
  /\ groups' = [groups EXCEPT ![group_num(i)] = erase(@, pos_in_group(i))]
  /\ num_buckets' = num_buckets - 1
  /\ array' = [j \in DOMAIN array \ {i} |-> array[j]]
  /\ gone' = gone \cup {i}
  /\ NoWalk /\ UNCHANGED <<table_size, file>>

\* The caller in sparse_hashtable only asks for more; of a smaller table
\* num_buckets would still count what was dropped.
Resize(n) ==
  /\ Idle /\ n >= table_size
  /\ groups' = [r \in 1 .. num_groups(n) |-> IF r \in DOMAIN groups THEN groups[r] ELSE NewGroup]
  /\ table_size' = n
  /\ NoWalk /\ UNCHANGED <<num_buckets, file, array, gone>>

Forget == array' = <<>> /\ gone' = {}
Clear == /\ Idle
         /\ groups' = <<>> /\ table_size' = 0 /\ num_buckets' = 0
         /\ Forget /\ NoWalk /\ UNCHANGED file

\* The copy constructor: each group is copied, with its erased bits.
CopyGroup(g) == [g EXCEPT !.num_allocated = _sizing(num_items(g))]
Copy == /\ Idle
        /\ groups' = [r \in DOMAIN groups |-> CopyGroup(groups[r])]
        /\ NoWalk /\ UNCHANGED <<table_size, num_buckets, file, array, gone>>

Serialize ==
  /\ Idle /\ groups # <<>>
  /\ file' = <<[table_size |-> table_size, num_buckets |-> num_buckets,
                bitmaps |-> [r \in DOMAIN groups |-> groups[r].bitmap],
                items |-> FlattenSeq([r \in DOMAIN groups |-> groups[r].group])]>>
  /\ NoWalk /\ UNCHANGED <<groups, table_size, num_buckets, array, gone>>

\* The bitmaps, then the items in the order of the buckets
Unserialize ==
  LET w == file[1]
      before(r) == FoldLeft(LAMBDA n, b : n + Cardinality(b), 0, SubSeq(w.bitmaps, 1, r - 1))
      read(r) == LET n == Cardinality(w.bitmaps[r])
                 IN [bitmap |-> w.bitmaps[r], bm_erased |-> {},
                     group |-> SubSeq(w.items, before(r) + 1, before(r) + n), num_allocated |-> _sizing(n)]
      item(r, i) == w.items[before(r) + Cardinality({j \in w.bitmaps[r] : j < i}) + 1]
  IN /\ Idle /\ file # <<>>
     /\ groups' = [r \in 1 .. num_groups(w.table_size) |-> read(r)]
     /\ table_size' = w.table_size /\ num_buckets' = w.num_buckets
     /\ array' = [b \in {i \in Used : i < w.table_size /\ pos_in_group(i) \in w.bitmaps[group_num(i)]}
                    |-> item(group_num(b), pos_in_group(b))]
     /\ gone' = {}
     /\ NoWalk /\ UNCHANGED file

(***************************************************************************)
(* Iterators.  Row Len(groups) + 1 is the marked group at the end.         *)
(***************************************************************************)
Later(gs, r) == {q \in r + 1 .. Len(gs) : gs[q].group # <<>>}
Settled(gs, r, c) ==
  IF r <= Len(gs) /\ c < num_items(gs[r]) THEN <<r, c>>
  ELSE IF Later(gs, r) = {} THEN <<Len(gs) + 1, 0>> ELSE <<Min(Later(gs, r)), 0>>
\* advance_past_end
Point(gs, r, c) == row' = Settled(gs, r, c)[1] /\ col' = Settled(gs, r, c)[2]
AtEnd == row > Len(groups)

Begin(kind) == /\ Idle /\ groups # <<>>
               /\ walk' = kind /\ passed' = {}
               /\ Point(groups, 1, 0)
               /\ UNCHANGED <<tvars, array, gone>>

Next_(r, c) == passed' = passed \cup {get_pos(r, c)}
Advance == /\ walk = "items" /\ ~AtEnd
           /\ Point(groups, row, col + 1)
           /\ Next_(row, col)
           /\ UNCHANGED <<tvars, walk, array, gone>>

\* operator--
Retreat == /\ walk = "items"
           /\ \E r \in 1 .. Len(groups) :
                /\ groups[r].group # <<>> /\ (r < row \/ (r = row /\ col > 0))
                /\ \A q \in r + 1 .. row - 1 : groups[q].group = <<>>
                /\ r < row => AtEnd \/ col = 0
                /\ row' = r
                /\ col' = IF r = row THEN col - 1 ELSE num_items(groups[r]) - 1
                /\ passed' = passed \ {get_pos(r, col')}
           /\ UNCHANGED <<tvars, walk, array, gone>>

\* Wrong on purpose: the iterator skips the item that has moved up.
NextOffset(c) == c + 1

SameOffset(c) == c

\* erase(iterator), by erase_ne: the iterator stays at the same offset, where
\* the next item is now.
EraseHere ==
  LET i == get_pos(row, col)
      gs == [groups EXCEPT ![row] = erase(@, pos_in_group(i))]
  IN /\ walk = "items" /\ ~AtEnd
     /\ groups' = gs
     /\ num_buckets' = num_buckets - 1
     /\ array' = [j \in DOMAIN array \ {i} |-> array[j]]
     /\ gone' = gone \cup {i}
     /\ Point(gs, row, SameOffset(col))
     /\ UNCHANGED <<table_size, file, walk, passed>>

\* The destructive iterator clears each group when it has passed its last item.
DestroyAdvance ==
  LET to == Settled(groups, row, col + 1)[1] IN
  /\ walk = "destroy" /\ ~AtEnd
  /\ Point(groups, row, col + 1)
  /\ groups' = [r \in DOMAIN groups |-> IF r < to THEN clear(groups[r], TRUE) ELSE groups[r]]
  /\ Next_(row, col)
  /\ UNCHANGED <<table_size, num_buckets, file, walk, array, gone>>

\* After a destructive walk the table itself is destroyed, and a new one made.
EndWalk ==
  /\ walk # "none"
  /\ walk = "destroy" => AtEnd
  /\ walk' = "none" /\ row' = 0 /\ col' = 0 /\ passed' = {}
  /\ IF walk = "items" THEN UNCHANGED <<tvars, array, gone>>
     ELSE /\ groups' = <<>> /\ table_size' = 0 /\ num_buckets' = 0
          /\ Forget /\ UNCHANGED file

Init == /\ groups = <<>> /\ table_size = 0 /\ num_buckets = 0 /\ file = <<>>
        /\ walk = "none" /\ row = 0 /\ col = 0
        /\ array = <<>> /\ gone = {} /\ passed = {}

Next == \/ \E i \in Buckets : (\E v \in Value : Set(i, v)) \/ Erase(i)
        \/ \E n \in TableSizes : Resize(n)
        \/ Clear \/ Copy \/ Serialize \/ Unserialize
        \/ \E kind \in {"items", "destroy"} : Begin(kind)
        \/ Advance \/ Retreat \/ EraseHere \/ DestroyAdvance \/ EndWalk

Spec == Init /\ [][Next]_vars

(***************************************************************************)
(* What the table promises                                                 *)
(***************************************************************************)
\* The packed groups hold what was stored, each bucket its own value, in slots
\* that were allocated, and the count of items is right: a shift or a bitmap
\* off by one would give one bucket's value to another.
PackedExact ==
  walk # "destroy" =>
    /\ \A i \in Buckets : /\ test(i) <=> i \in DOMAIN array
                          /\ test(i) => unsafe_get(i) = array[i]
    /\ num_buckets = Cardinality(DOMAIN array)
    /\ \A r \in DOMAIN groups : /\ num_items(groups[r]) <= groups[r].num_allocated
                                /\ groups[r].num_allocated = _sizing(num_items(groups[r]))

\* test_strict stays true of an erased bucket until it is set again: the hash
\* table probes past it, also when its group lost its last item.
ErasedRemembered ==
  walk # "destroy" => \A i \in Buckets : test_strict(i) <=> i \in DOMAIN array \cup gone

\* A walk leaves behind every item before the iterator and none after it, also
\* when it erases on the way; a destructive walk never stands on an item that
\* it has freed.
WalkExact ==
  walk # "none" =>
    IF AtEnd THEN passed = DOMAIN array
    ELSE /\ col < num_items(groups[row])
         /\ LET i == get_pos(row, col) IN
              /\ i \in DOMAIN array /\ groups[row].group[col + 1] = array[i]
              /\ passed = {j \in DOMAIN array : j < i}
=============================================================================
