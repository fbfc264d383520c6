-------------------------- MODULE ImplicitProducer --------------------------
(***************************************************************************)
(* The sub-queue of a thread that enqueues without a token: blocks that go *)
(* back to the pool when they are used up, found through an index whose    *)
(* entries outlive its tables.  enqueue is enqueue_bulk of one item, and   *)
(* dequeue is dequeue_bulk of one, as long as T's copy does not throw.     *)
(***************************************************************************)
EXTENDS DequeueCounts

CONSTANTS Block, null,
          InitialSize,  \* IMPLICIT_INITIAL_INDEX_SIZE
          Dead          \* a slot without an item

INVALID == 1  \* INVALID_BLOCK_BASE

\* Bases of blocks are multiples of their size also where the indices come
\* round, and none is INVALID; the first table is no larger than what the
\* indices tell apart.
BlocksAssumption ==
    /\ BLOCK_SIZE \in Nat \ {0, 1} /\ InitialSize \in Nat \ {0}
    /\ Wrap % BLOCK_SIZE = 0 /\ \A s \in Starts : s % BLOCK_SIZE = 0
    /\ MaxItems + (InitialSize + 2) * BLOCK_SIZE < Wrap \div 2
    /\ null \notin Block

VARIABLES headers,     \* BlockIndexHeaders; blockIndex is the last one
          entries,     \* BlockIndexEntries, shared by the headers
          slots, elementsCompletelyDequeued, tailBlock,
          free,        \* blocks that are not this producer's
          ppc, pl      \* the thread that enqueues
index == <<headers, entries>>
blocks == <<slots, elementsCompletelyDequeued, free>>
producer == <<tailIndex, tailBlock, ppc, pl>>
vars == <<start, counts, cpc, cl, index, blocks, tailBlock, ppc, pl>>

NoEnqueue == [n |-> 0, allocated |-> <<>>, block |-> null, undone |-> 0]
capacity(h) == Cardinality(DOMAIN headers[h].index)
Entry(h, pos) == headers[h].index[pos % capacity(h)]

\* new_block_index of the constructor; where items have come and gone before,
\* the last blocks' keys are still there.
Init == /\ CountsInit
        /\ headers = <<[tail |-> InitialSize - 1, index |-> [i \in 0 .. InitialSize - 1 |-> i + 1]]>>
        /\ entries = [i \in 1 .. InitialSize |->
              [key |-> IF start = 0 THEN INVALID ELSE Blocks(start, i - InitialSize - 1), value |-> null]]
        /\ slots = [b \in Block |-> [i \in 0 .. BLOCK_SIZE - 1 |-> Dead]]
        /\ elementsCompletelyDequeued = [b \in Block |-> 0]
        /\ tailBlock = null
        /\ free = Block
        /\ ppc = "idle"
        /\ pl = NoEnqueue

(***************************************************************************)
(* enqueue and enqueue_bulk                                                *)
(***************************************************************************)
Failed == ppc' = "idle" /\ pl' = NoEnqueue

\* Blocks that n more items need.
Needed(n) == Minus(Base(Plus(tailIndex, n - 1)), Base(Minus(tailIndex, 1))) \div BLOCK_SIZE
LastNeeded == Base(Plus(tailIndex, pl.n - 1))
\* Base of the block of this call that is n blocks on from the first one.
NewBase(n) == Blocks(Base(Minus(tailIndex, 1)), n + 1)
next == NewBase(Len(pl.allocated))

CallEnqueue == \E n \in 1 .. MaxBulk :
    /\ ppc = "idle"
    /\ Minus(tailIndex, start) + n <= MaxItems
    /\ pl' = [NoEnqueue EXCEPT !.n = n]
    /\ ppc' = IF Needed(n) > 0 THEN "room" ELSE "construct"
    /\ UNCHANGED <<start, counts, cpc, cl, index, blocks, tailBlock>>

\* The tail may not catch up with the head while the block fills.
Room ==
    /\ ppc = "room"
    /\ ppc' = IF Less(headIndex, Blocks(next, 1)) THEN "insert" ELSE "undo"
    /\ UNCHANGED <<start, counts, cpc, cl, index, blocks, tailBlock, pl>>

\* Wrong on purpose: the next entry is taken without a look at it.
InsertBlindly ==
    LET h == Len(headers)  e == Entry(h, headers[h].tail + 1)
    IN  /\ ppc = "insert"
        /\ entries' = [entries EXCEPT ![e].key = next]
        /\ ppc' = "expose"
        /\ UNCHANGED <<start, counts, cpc, cl, headers, blocks, tailBlock, pl>>

\* insert_block_index_entry: the next entry, if its block has been used up.
Insert ==
    LET h == Len(headers)  e == Entry(h, headers[h].tail + 1)
        usable == entries[e].key = INVALID \/ entries[e].value = null
    IN  /\ ppc = "insert"
        /\ IF usable THEN entries' = [entries EXCEPT ![e].key = next] /\ ppc' = "expose"
           ELSE ppc' = "grow" /\ UNCHANGED entries
        /\ UNCHANGED <<start, counts, cpc, cl, headers, blocks, tailBlock, pl>>

\* new_block_index: the old entries in order, then as many new ones; or the
\* call may not allocate, or malloc fails.
Grow ==
    LET h == Len(headers)  k == capacity(h)
    IN  /\ ppc = "grow"
        /\ \/ /\ headers' = Append(headers,
                    [tail |-> k - 1,
                     index |-> [i \in 0 .. 2 * k - 1 |->
                                  IF i < k THEN Entry(h, headers[h].tail + 1 + i)
                                  ELSE Len(entries) + 1 + i - k]])
              /\ entries' = entries \o [i \in 1 .. k |-> [key |-> INVALID, value |-> null]]
              /\ ppc' = "insert"
           \/ ppc' = "undo" /\ UNCHANGED index
        /\ UNCHANGED <<start, counts, cpc, cl, blocks, tailBlock, pl>>

MoveTail(n) == headers' = [headers EXCEPT ![Len(headers)].tail = (@ + n) % capacity(Len(headers))]
LastEntry == Entry(Len(headers), headers[Len(headers)].tail)

Expose ==
    /\ ppc = "expose"
    /\ MoveTail(1)
    /\ ppc' = "block"
    /\ UNCHANGED <<start, counts, cpc, cl, entries, blocks, tailBlock, pl>>

\* requisition_block, and reset_empty of the block.
Requisition ==
    /\ ppc = "block"
    /\ \/ \E b \in free : /\ free' = free \ {b}
                          /\ elementsCompletelyDequeued' = [elementsCompletelyDequeued EXCEPT ![b] = 0]
                          /\ pl' = [pl EXCEPT !.block = b]
                          /\ ppc' = "value"
       \/ ppc' = "rewind" /\ UNCHANGED <<elementsCompletelyDequeued, free, pl>>
    /\ UNCHANGED <<start, counts, cpc, cl, index, slots, tailBlock>>

StoreValue ==
    /\ ppc = "value"
    /\ entries' = [entries EXCEPT ![LastEntry].value = pl.block]
    /\ pl' = [pl EXCEPT !.allocated = Append(@, pl.block), !.block = null]
    /\ ppc' = IF next = LastNeeded THEN "construct" ELSE "room"
    /\ UNCHANGED <<start, counts, cpc, cl, headers, blocks, tailBlock>>

\* No block: the entry is taken back, then those of the blocks before.
Rewind ==
    /\ ppc = "rewind"
    /\ MoveTail(-1)
    /\ ppc' = "clear"
    /\ UNCHANGED <<start, counts, cpc, cl, entries, blocks, tailBlock, pl>>

Clear ==
    /\ ppc = "clear"
    /\ entries' = [entries EXCEPT ![Entry(Len(headers), headers[Len(headers)].tail + 1)].value = null]
    /\ ppc' = "undo"
    /\ UNCHANGED <<start, counts, cpc, cl, headers, blocks, tailBlock, pl>>

\* get_block_index_index_for_index, given the header, its tail and the key there.
Find(h, tail, key, base) == (tail + BlockOffset(base, key)) % capacity(h)

Undo ==
    LET h == Len(headers)  base == NewBase(pl.undone)
        e == Entry(h, Find(h, headers[h].tail, entries[LastEntry].key, base))
    IN  /\ ppc = "undo"
        /\ IF pl.undone < Len(pl.allocated)
           THEN /\ entries' = [entries EXCEPT ![e].value = null]
                /\ ppc' = "undo tail"
                /\ UNCHANGED <<free, pl>>
           ELSE /\ free' = free \cup {pl.allocated[i] : i \in DOMAIN pl.allocated}
                /\ Failed
                /\ UNCHANGED entries
        /\ UNCHANGED <<start, counts, cpc, cl, headers, slots, elementsCompletelyDequeued, tailBlock>>

UndoTail ==
    /\ ppc = "undo tail"
    /\ MoveTail(-1)
    /\ pl' = [pl EXCEPT !.undone = @ + 1]
    /\ ppc' = "undo"
    /\ UNCHANGED <<start, counts, cpc, cl, entries, blocks, tailBlock>>

\* The block that the item with index i goes to.
TargetBlock(i) ==
    IF tailIndex % BLOCK_SIZE # 0 /\ Base(i) = Base(tailIndex) THEN tailBlock
    ELSE pl.allocated[Len(pl.allocated) - BlockOffset(LastNeeded, Base(i))]

Construct ==
    LET last == Plus(tailIndex, pl.n - 1)
        new == {Plus(tailIndex, k) : k \in 0 .. pl.n - 1}
    IN  /\ ppc = "construct"
        /\ slots' = [b \in Block |-> [k \in 0 .. BLOCK_SIZE - 1 |->
              IF \E i \in new : TargetBlock(i) = b /\ i % BLOCK_SIZE = k
              THEN CHOOSE i \in new : TargetBlock(i) = b /\ i % BLOCK_SIZE = k ELSE slots[b][k]]]
        /\ tailBlock' = TargetBlock(last)
        /\ ppc' = "publish"
        /\ UNCHANGED <<start, counts, cpc, cl, index, elementsCompletelyDequeued, free, pl>>

Publish ==
    /\ ppc = "publish"
    /\ tailIndex' = Plus(tailIndex, pl.n)
    /\ ppc' = "idle" /\ pl' = NoEnqueue
    /\ UNCHANGED <<start, consumers, index, blocks, tailBlock>>

ProducerStep == \/ Room \/ Insert \/ Grow \/ Expose \/ Requisition \/ StoreValue \/ Rewind \/ Clear
                \/ Undo \/ UndoTail \/ Construct \/ Publish

(***************************************************************************)
(* dequeue and dequeue_bulk, after the claim                               *)
(***************************************************************************)
LoadHeader(c) ==
    /\ CAt(c, "header")
    /\ CSet(c, [cl[c] EXCEPT !.header = Len(headers)])
    /\ CGoto(c, "tail")
    /\ UNCHANGED <<start, counts, index, blocks, tailBlock, ppc, pl>>

LoadIndexTail(c) ==
    /\ CAt(c, "tail")
    /\ CSet(c, [cl[c] EXCEPT !.pos = headers[cl[c].header].tail])
    /\ CGoto(c, "key")
    /\ UNCHANGED <<start, counts, index, blocks, tailBlock, ppc, pl>>

LoadKey(c) ==
    LET l == cl[c]  key == entries[Entry(l.header, l.pos)].key
    IN  /\ CAt(c, "key")
        /\ CSet(c, [l EXCEPT !.pos = Find(l.header, l.pos, key, Base(l.index))])
        /\ CGoto(c, "entry")
        /\ UNCHANGED <<start, counts, index, blocks, tailBlock, ppc, pl>>

LoadBlock(c) ==
    LET l == cl[c]
    IN  /\ CAt(c, "entry")
        /\ CSet(c, [l EXCEPT !.block = entries[Entry(l.header, l.pos)].value])
        /\ CGoto(c, "read")
        /\ UNCHANGED <<start, counts, index, blocks, tailBlock, ppc, pl>>

\* The claimed items of one block are moved out and destroyed.
Read(c) ==
    LET l == cl[c]  e == EndIndex(l.index, l.end)
        mine == {i % BLOCK_SIZE : i \in {Plus(l.index, k) : k \in 0 .. Minus(e, l.index) - 1}}
    IN  /\ CAt(c, "read")
        /\ CSet(c, [l EXCEPT !.items = @ \o [k \in 1 .. Minus(e, l.index) |->
                                               slots[l.block][Plus(l.index, k - 1) % BLOCK_SIZE]],
                             !.index = e])
        /\ slots' = [slots EXCEPT ![l.block] = [k \in DOMAIN @ |-> IF k \in mine THEN Dead ELSE @[k]]]
        /\ CGoto(c, "empty")
        /\ UNCHANGED <<start, counts, index, elementsCompletelyDequeued, free, tailBlock, ppc, pl>>

\* After a block: the next one, or the end of the call.
NextBlock(c, l) == IF l.index = l.end THEN CDone(c)
                   ELSE CGoto(c, "entry") /\ CSet(c, [l EXCEPT !.pos = @ + 1])

\* set_many_empty: whoever empties the block gives it back.
SetEmpty(c) ==
    LET l == cl[c]  n == elementsCompletelyDequeued[l.block] + JustRead(l)
    IN  /\ CAt(c, "empty")
        /\ elementsCompletelyDequeued' = [elementsCompletelyDequeued EXCEPT ![l.block] = n]
        /\ IF n = BLOCK_SIZE THEN CGoto(c, "drop") /\ UNCHANGED cl ELSE NextBlock(c, l)
        /\ UNCHANGED <<start, counts, index, slots, free, tailBlock, ppc, pl>>

\* Wrong on purpose: the block is in the pool while the index still has it.
DropLate(c) ==
    /\ CAt(c, "drop")
    /\ free' = free \cup {cl[c].block}
    /\ CGoto(c, "free")
    /\ UNCHANGED <<start, counts, index, slots, elementsCompletelyDequeued, tailBlock, ppc, pl, cl>>

DropEntry(c) ==
    LET l == cl[c]
    IN  /\ CAt(c, "drop")
        /\ entries' = [entries EXCEPT ![Entry(l.header, l.pos)].value = null]
        /\ CGoto(c, "free")
        /\ UNCHANGED <<start, counts, headers, blocks, tailBlock, ppc, pl, cl>>

FreeBlock(c) ==
    /\ CAt(c, "free")
    /\ free' = free \cup {cl[c].block}
    /\ NextBlock(c, cl[c])
    /\ UNCHANGED <<start, counts, index, slots, elementsCompletelyDequeued, tailBlock, ppc, pl>>

DequeueStep(c) == \/ LoadHeader(c) \/ LoadIndexTail(c) \/ LoadKey(c) \/ LoadBlock(c) \/ Read(c)
                  \/ SetEmpty(c) \/ DropEntry(c) \/ FreeBlock(c)

\* ~ImplicitProducer, when nobody uses the queue: the blocks of the items that
\* are left, but the last one, then the tail block unless it is used up.
Left == {Plus(headIndex, k) : k \in 0 .. Minus(tailIndex, headIndex) - 1}
BlockOf(i) == LET h == Len(headers)
              IN  entries[Entry(h, Find(h, headers[h].tail, entries[LastEntry].key, Base(i)))].value
Destroy ==
    LET first == {i \in Left : i = headIndex \/ i % BLOCK_SIZE = 0}
        last == IF Left = {} THEN {} ELSE {BlockOf(Minus(tailIndex, 1))}
        kept == tailBlock # null /\ (Left # {} \/ tailIndex % BLOCK_SIZE # 0)
    IN  /\ ppc = "idle" /\ \A c \in Consumer : CAt(c, "idle")
        /\ slots' = [b \in Block |-> [k \in DOMAIN slots[b] |->
              IF \E i \in Left : BlockOf(i) = b /\ i % BLOCK_SIZE = k THEN Dead ELSE slots[b][k]]]
        /\ free' = free \cup ({BlockOf(i) : i \in first} \ last) \cup (IF kept THEN {tailBlock} ELSE {})
        /\ ppc' = "destroyed"
        /\ UNCHANGED <<start, counts, cpc, cl, index, elementsCompletelyDequeued, tailBlock, pl>>

Dequeue(c) == (ppc # "destroyed" /\ CountStep(c)) /\ UNCHANGED <<index, blocks, tailBlock, ppc, pl>>
Next == \/ CallEnqueue \/ ProducerStep \/ Destroy
        \/ \E c \in Consumer : Dequeue(c) \/ DequeueStep(c)
Spec == Init /\ [][Next]_vars
-----------------------------------------------------------------------------
(* A consumer that looks for its item's block finds the entry of that block  *)
(* in the table that it has loaded, and a block in it (the assertion of      *)
(* get_block_index_index_for_index), whatever the producer inserts, takes    *)
(* back or moves to a bigger table meanwhile.                                *)
EntryFound ==
    \A c \in Consumer : CAt(c, "entry") =>
       LET e == entries[Entry(cl[c].header, cl[c].pos)]
       IN  e.key = Base(cl[c].index) /\ e.value \in Block \ free

(* No block is given back twice or while it has items, and none is lost: the *)
(* blocks that are not free are those that the index holds, that a call is   *)
(* about to insert or to give back, and nothing else; after the destructor   *)
(* all blocks are free and all items destroyed.                              *)
BlocksConserved ==
    LET indexed == {entries[e].value : e \in DOMAIN entries} \ {null}
        moving == {pl.block} \cup {pl.allocated[i] : i \in DOMAIN pl.allocated}
                  \cup {cl[c].block : c \in {d \in Consumer : cpc[d] = "free"}}
        full(b) == \A k \in DOMAIN slots[b] : slots[b][k] = Dead
    IN  /\ \A b \in free : full(b)
        /\ ppc # "destroyed" =>
             /\ free \cap indexed = {}
             /\ Block \ free \subseteq indexed \cup moving
        /\ ppc = "destroyed" => free = Block
=============================================================================
