-------------------------- MODULE ExplicitProducer --------------------------
(***************************************************************************)
(* The sub-queue of a producer token: a ring of blocks that are kept, those *)
(* ahead of the tail used again when they are empty, found through a        *)
(* circular index that only grows.  enqueue is enqueue_bulk of one item: it *)
(* makes the same changes, in an order that nobody else can tell; dequeue   *)
(* is dequeue_bulk of one, as long as T's copy does not throw.              *)
(***************************************************************************)
EXTENDS DequeueCounts

CONSTANTS Block, null,
          InitialSize,   \* EXPLICIT_INITIAL_INDEX_SIZE
          Dead,          \* a slot without an item
          LateFailures   \* may a bulk call fail after it has taken a block?

VARIABLES headers,       \* BlockIndexHeaders; blockIndex is the last one
          slots, emptyFlags, next,
          tailBlock, slotsUsed, front,  \* pr_blockIndexSlotsUsed, pr_blockIndexFront
          free,          \* blocks that are not this producer's
          ppc, pl        \* the thread that enqueues
blocks == <<slots, emptyFlags, next, free>>
own == <<tailBlock, slotsUsed, front>>
vars == <<start, counts, cpc, cl, headers, blocks, own, ppc, pl>>

NoEnqueue == [n |-> 0, need |-> 0, first |-> null, front |-> 0, slotsUsed |-> 0, startBlock |-> null]
Slot == 0 .. BLOCK_SIZE - 1
Uninit == [base |-> 0, block |-> null]
last == Len(headers)
size == headers[last].size
SetEntry(i, base, b) ==
    headers' = [headers EXCEPT ![last].entries[i] = [base |-> base, block |-> b]]

\* The constructor's new_block_index(0), which may fail.
Init == /\ CountsInit
        /\ headers \in {<<>>, <<[size |-> InitialSize, front |-> InitialSize - 1,
                                 entries |-> [i \in 0 .. InitialSize - 1 |-> Uninit]]>>}
        /\ slots = [b \in Block |-> [k \in Slot |-> Dead]]
        /\ emptyFlags = [b \in Block |-> {}]
        /\ next = [b \in Block |-> null]
        /\ tailBlock = null
        /\ slotsUsed = 0
        /\ front = 0
        /\ free = Block
        /\ ppc = "idle"
        /\ pl = NoEnqueue

(***************************************************************************)
(* enqueue and enqueue_bulk                                                *)
(***************************************************************************)
\* Blocks that n more items need.
Needed(n) == Minus(Base(Plus(tailIndex, n - 1)), Base(Minus(tailIndex, 1))) \div BLOCK_SIZE
\* Base of the next block of the call.
NewBase == Blocks(Base(Plus(tailIndex, pl.n - 1)), 1 - pl.need)

CallEnqueue == \E n \in 1 .. MaxBulk :
    /\ ppc = "idle"
    /\ Minus(tailIndex, start) + n <= MaxItems
    /\ pl' = [n |-> n, need |-> Needed(n), first |-> null, front |-> front,
              slotsUsed |-> slotsUsed, startBlock |-> tailBlock]
    /\ ppc' = IF Needed(n) > 0 THEN "ahead" ELSE "construct"
    /\ UNCHANGED <<start, counts, cpc, cl, headers, blocks, own>>

\* One more block, b, in the index and as the tail block.
TakeBlock(b) ==
    /\ SetEntry(front, NewBase, b)
    /\ front' = (front + 1) % size
    /\ tailBlock' = b
    /\ pl' = [pl EXCEPT !.need = @ - 1, !.first = IF @ = null THEN b ELSE @]

is_empty(b) == emptyFlags[b] = Slot

\* Wrong on purpose: the block ahead may still have items.
AheadBlindly ==
    /\ ppc = "ahead"
    /\ IF tailBlock # null /\ next[tailBlock] # pl.first
       THEN /\ TakeBlock(next[tailBlock])
            /\ ppc' = IF pl.need = 1 THEN "reset" ELSE "ahead"
       ELSE ppc' = "room" /\ UNCHANGED <<headers, front, tailBlock, pl>>
    /\ UNCHANGED <<start, counts, cpc, cl, blocks, slotsUsed>>

\* The block ahead, if it is empty, is used again.
Ahead ==
    /\ ppc = "ahead"
    /\ IF tailBlock # null /\ next[tailBlock] # pl.first /\ is_empty(next[tailBlock])
       THEN /\ TakeBlock(next[tailBlock])
            /\ ppc' = IF pl.need = 1 THEN "reset" ELSE "ahead"
       ELSE ppc' = "room" /\ UNCHANGED <<headers, front, tailBlock, pl>>
    /\ UNCHANGED <<start, counts, cpc, cl, blocks, slotsUsed>>

Room ==
    /\ ppc = "room"
    /\ ppc' = IF ~Less(headIndex, Blocks(NewBase, 1)) THEN "undo"
              ELSE IF headers = <<>> \/ slotsUsed = size THEN "grow" ELSE "block"
    /\ UNCHANGED <<start, counts, cpc, cl, headers, blocks, own, pl>>

\* new_block_index: the entries in use, in order, in a table twice as big; or
\* the call may not allocate, or malloc fails.
Grow ==
    LET new == IF headers = <<>> THEN InitialSize ELSE 2 * size
        Copied(i) == headers[last].entries[(front - slotsUsed + i) % size]
    IN  /\ ppc = "grow"
        /\ \/ /\ headers' = Append(headers,
                    [size |-> new, front |-> (pl.slotsUsed - 1) % new,
                     entries |-> [i \in 0 .. new - 1 |-> IF i < slotsUsed THEN Copied(i) ELSE Uninit]])
              /\ front' = slotsUsed
              /\ pl' = [pl EXCEPT !.front = pl.slotsUsed]
              /\ ppc' = "block"
           \/ ppc' = "undo" /\ UNCHANGED <<headers, front, pl>>
        /\ UNCHANGED <<start, counts, cpc, cl, blocks, tailBlock, slotsUsed>>

\* requisition_block; the block goes into the ring after the tail block.
Requisition ==
    /\ ppc = "block"
    /\ \/ \E b \in free :
            /\ free' = free \ {b}
            /\ emptyFlags' = [emptyFlags EXCEPT ![b] = Slot]
            /\ next' = IF tailBlock = null THEN [next EXCEPT ![b] = b]
                       ELSE [next EXCEPT ![b] = next[tailBlock], ![tailBlock] = b]
            /\ slotsUsed' = slotsUsed + 1
            /\ TakeBlock(b)
            /\ ppc' = IF pl.need = 1 THEN "reset" ELSE "room"
       \/ /\ ppc' = "undo"
          /\ UNCHANGED <<headers, emptyFlags, next, free, own, pl>>
    /\ UNCHANGED <<start, counts, cpc, cl, slots>>

\* The call fails: its changes are undone, but the new blocks stay in the ring.
Undo ==
    /\ ppc = "undo"
    /\ LateFailures \/ pl.first = null
    /\ front' = pl.front
    /\ slotsUsed' = pl.slotsUsed
    /\ tailBlock' = IF pl.startBlock = null THEN pl.first ELSE pl.startBlock
    /\ ppc' = "idle" /\ pl' = NoEnqueue
    /\ UNCHANGED <<start, counts, cpc, cl, headers, blocks>>

\* The blocks from a to b along the ring.
Arc(a, b) ==
    LET at[n \in Nat] == IF n = 0 THEN a ELSE next[at[n - 1]]
        n == CHOOSE m \in 0 .. Cardinality(Block) : at[m] = b /\ \A k \in 0 .. m - 1 : at[k] # b
    IN  [k \in 0 .. n |-> at[k]]
ArcSet(a, b) == {Arc(a, b)[k] : k \in DOMAIN Arc(a, b)}

\* reset_empty of the new blocks; they are exposed to the consumers.
Reset ==
    /\ ppc = "reset"
    /\ emptyFlags' = [b \in Block |-> IF b \in ArcSet(pl.first, tailBlock) THEN {} ELSE emptyFlags[b]]
    /\ headers' = [headers EXCEPT ![last].front = (front - 1) % size]
    /\ ppc' = "construct"
    /\ UNCHANGED <<start, counts, cpc, cl, slots, next, free, own, pl>>

\* The block that the item with index i goes to.
TargetBlock(i) ==
    IF Base(i) = Base(tailIndex) /\ tailIndex % BLOCK_SIZE # 0 THEN pl.startBlock
    ELSE Arc(pl.first, tailBlock)[BlockOffset(Base(i), Blocks(Base(Minus(tailIndex, 1)), 1))]

Construct ==
    LET new == {Plus(tailIndex, k) : k \in 0 .. pl.n - 1}
        At(b, k) == {i \in new : TargetBlock(i) = b /\ i % BLOCK_SIZE = k}
    IN  /\ ppc = "construct"
        /\ slots' = [b \in Block |-> [k \in Slot |->
                        IF At(b, k) = {} THEN slots[b][k] ELSE CHOOSE i \in At(b, k) : TRUE]]
        /\ ppc' = "publish"
        /\ UNCHANGED <<start, counts, cpc, cl, headers, emptyFlags, next, free, own, pl>>

Publish ==
    /\ ppc = "publish"
    /\ tailIndex' = Plus(tailIndex, pl.n)
    /\ ppc' = "idle" /\ pl' = NoEnqueue
    /\ UNCHANGED <<start, consumers, headers, blocks, own>>

ProducerStep == \/ CallEnqueue \/ Ahead \/ Room \/ Grow \/ Requisition \/ Undo \/ Reset
                \/ Construct \/ Publish

(***************************************************************************)
(* dequeue and dequeue_bulk, after the claim                               *)
(***************************************************************************)
Alone == UNCHANGED <<start, counts, headers, next, free, own, ppc, pl>>

LoadHeader(c) ==
    /\ CAt(c, "header")
    /\ CSet(c, [cl[c] EXCEPT !.header = last])
    /\ CGoto(c, "front")
    /\ Alone /\ UNCHANGED <<slots, emptyFlags>>

LoadFront(c) ==
    /\ CAt(c, "front")
    /\ CSet(c, [cl[c] EXCEPT !.pos = headers[cl[c].header].front])
    /\ CGoto(c, "base")
    /\ Alone /\ UNCHANGED <<slots, emptyFlags>>

Find(h, pos, i) == (pos + BlockOffset(Base(i), headers[h].entries[pos].base)) % headers[h].size

LoadBase(c) ==
    /\ CAt(c, "base")
    /\ CSet(c, [cl[c] EXCEPT !.pos = Find(cl[c].header, cl[c].pos, cl[c].index)])
    /\ CGoto(c, "entry")
    /\ Alone /\ UNCHANGED <<slots, emptyFlags>>

LoadBlock(c) ==
    LET l == cl[c]
    IN  /\ CAt(c, "entry")
        /\ CSet(c, [l EXCEPT !.block = headers[l.header].entries[l.pos].block,
                             !.pos = (@ + 1) % headers[l.header].size])
        /\ CGoto(c, "read")
        /\ Alone /\ UNCHANGED <<slots, emptyFlags>>

\* The claimed items of one block are moved out and destroyed.
Read(c) ==
    LET l == cl[c]  e == EndIndex(l.index, l.end)  n == Minus(e, l.index)
        mine == {Plus(l.index, k) % BLOCK_SIZE : k \in 0 .. n - 1}
    IN  /\ CAt(c, "read")
        /\ CSet(c, [l EXCEPT !.items = @ \o [k \in 1 .. n |-> slots[l.block][Plus(l.index, k - 1) % BLOCK_SIZE]],
                             !.index = e])
        /\ slots' = [slots EXCEPT ![l.block] = [k \in Slot |-> IF k \in mine THEN Dead ELSE @[k]]]
        /\ CGoto(c, "empty")
        /\ Alone /\ UNCHANGED emptyFlags

\* set_many_empty
SetEmpty(c) ==
    LET l == cl[c]
        read == {Minus(l.index, k) % BLOCK_SIZE : k \in 1 .. JustRead(l)}
    IN  /\ CAt(c, "empty")
        /\ emptyFlags' = [emptyFlags EXCEPT ![l.block] = @ \cup read]
        /\ IF l.index = l.end THEN CDone(c) ELSE CGoto(c, "entry") /\ UNCHANGED cl
        /\ Alone /\ UNCHANGED slots

DequeueStep(c) == \/ LoadHeader(c) \/ LoadFront(c) \/ LoadBase(c) \/ LoadBlock(c) \/ Read(c)
                  \/ SetEmpty(c)

(***************************************************************************)
(* ~ExplicitProducer, when nobody uses the queue                           *)
(***************************************************************************)
Ring == IF tailBlock = null THEN {} ELSE ArcSet(next[tailBlock], tailBlock)

\* Looked for from the oldest entry on.
halfDequeuedBlock ==
    IF headIndex % BLOCK_SIZE = 0 THEN null
    ELSE LET Old(i) == headers[last].entries[(front - slotsUsed + i) % size]
             Past(i) == Less(Blocks(Old(i).base, 1), headIndex)
         IN  Old(CHOOSE i \in 0 .. size - 1 : ~Past(i) /\ \A j \in 0 .. i - 1 : Past(j)).block

\* The items that it destroys.
Destroyed ==
    LET from(b) == IF b = halfDequeuedBlock THEN headIndex % BLOCK_SIZE ELSE 0
        to(b) == IF b = tailBlock /\ tailIndex % BLOCK_SIZE # 0 THEN tailIndex % BLOCK_SIZE ELSE BLOCK_SIZE
    IN  UNION {{<<b, k>> : k \in from(b) .. to(b) - 1} : b \in {r \in Ring : ~is_empty(r)}}

Quiet == ppc = "idle" /\ \A c \in Consumer : CAt(c, "idle")

Destroy ==
    /\ Quiet
    /\ slots' = [b \in Block |-> [k \in Slot |-> IF <<b, k>> \in Destroyed THEN Dead ELSE slots[b][k]]]
    /\ free' = free \cup Ring
    /\ ppc' = "destroyed"
    /\ UNCHANGED <<start, counts, cpc, cl, headers, emptyFlags, next, own, pl>>

Dequeue(c) == (ppc # "destroyed" /\ CountStep(c)) /\ UNCHANGED <<headers, blocks, own, ppc, pl>>
Next == \/ ProducerStep \/ Destroy
        \/ \E c \in Consumer : Dequeue(c) \/ DequeueStep(c)
Spec == Init /\ [][Next]_vars
-----------------------------------------------------------------------------
(* Taking a block never costs another one its place in the index: every      *)
(* item that waits is found, from the front entry that consumers use, at an  *)
(* entry with its base whose block has it ("guaranteed to be room since      *)
(* we're conceptually removing the last block").                             *)
GuaranteedRoom == ppc # "destroyed" =>
    \A k \in 0 .. Minus(tailIndex, headIndex) - 1 :
       LET i == Plus(headIndex, k)
           e == headers[last].entries[Find(last, headers[last].front, i)]
       IN  e.base = Base(i) /\ e.block \in Ring /\ slots[e.block][i % BLOCK_SIZE] = i

(* Every block is in the pool or in the ring, once, the ring having one slot *)
(* of the index per block, and the destructor destroys each item that is     *)
(* left once, and nothing else.                                              *)
RingExact ==
    /\ ppc # "destroyed" => Ring = Block \ free
    /\ ppc = "idle" => slotsUsed = Cardinality(Ring)
    /\ Quiet => Destroyed = {at \in Block \X Slot : slots[at[1]][at[2]] # Dead}
=============================================================================
