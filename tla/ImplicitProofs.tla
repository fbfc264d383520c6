--------------------------- MODULE ImplicitProofs ---------------------------
(***************************************************************************)
(* Proofs about the blocks of ImplicitProducer, for any number of          *)
(* consumers, any block size and any number of blocks.  DequeueCounts'      *)
(* invariant, which QueuesProofs proves, is taken as a hypothesis.          *)
(***************************************************************************)
EXTENDS ImplicitProducer, Induction

-----------------------------------------------------------------------------
(* The inductive invariant.  Items are numbered from 0 on by their distance  *)
(* from start; blocks by theirs, with those whose keys the index begins with *)
(* before them.                                                             *)
At(d) == Plus(start, d)
Dist(i) == Minus(i, start)
BlockNo(d) == InitialSize + (d \div BLOCK_SIZE)
KeyOf(n) == Blocks(start, n - InitialSize)
Number == 0 .. BlockNo(MaxItems)
ItemOf(n, k) == (n - InitialSize) * BLOCK_SIZE + k
Place == 0 .. BLOCK_SIZE - 1

\* The newest block of the published items, and the one at the index's tail.
LastNo == BlockNo(Published - 1)
Low == LastNo + Len(pl.allocated) - pl.undone
Extra == IF ppc \in {"block", "value", "rewind"} THEN 1 ELSE 0
Top == Low + Extra
NeededNo == BlockNo(Published + pl.n - 1) - LastNo

L == Len(headers)
Caps(h) == 0 .. capacity(h) - 1
Has(e, n) == entries[e].key = KeyOf(n)
Valid(e) == entries[e].key # INVALID
Held(n, e) == Has(e, n) /\ entries[e].value # null
Positioned(h, n) == \E p \in Caps(h) : Held(n, headers[h].index[p])
EntryOf(n) == Entry(L, headers[L].tail + (n - Top))

\* Consumers that have claimed items.
Places == {"header", "tail", "key", "entry", "read", "empty", "drop", "free"}
Holding == {c \in Consumer : cpc[c] \in Places}
Lo(c) == Dist(cl[c].index)
Hi(c) == Dist(cl[c].end)
From(c) == IF cpc[c] = "empty" THEN Lo(c) - JustRead(cl[c]) ELSE Lo(c)

\* Items that nobody has taken out yet; items whose place is not counted as
\* emptied yet.
Unread(d) == \/ Claimed <= d /\ d < Published + (IF ppc = "publish" THEN pl.n ELSE 0)
             \/ \E c \in Holding : Lo(c) <= d /\ d < Hi(c)
NotCounted(d) == Claimed <= d \/ \E c \in Holding : From(c) <= d /\ d < Hi(c)
Left_(n) == {k \in Place : NotCounted(ItemOf(n, k))}
Dropping(n) == \E c \in Holding : cpc[c] = "drop" /\ BlockNo(Lo(c) - 1) = n
Pend(n) == Left_(n) # {} \/ Dropping(n)
\* Blocks of the call that are still in the index.
Kept(i) == i > pl.undone + (IF ppc = "undo tail" THEN 1 ELSE 0)

\* The blocks that should be in the index.
Want(n) == IF n > LastNo THEN n - LastNo \in DOMAIN pl.allocated /\ Kept(n - LastNo)
           ELSE n >= InitialSize /\ Pend(n)

Entries == DOMAIN entries
Indexed == {entries[e].value : e \in Entries} \ {null}
EntryType == [key : Index, value : Block \cup {null}]
Header == [tail : Nat, index : UNION {[0 .. k - 1 -> Entries] : k \in Nat \ {0}}]
PCs == {"idle", "room", "insert", "grow", "expose", "block", "value", "rewind", "clear", "undo",
        "undo tail", "construct", "publish", "destroyed"}

Reading == [tail : {0}, overcommit : {0}, desired : {0}, mine : {0}, actual : {0},
            index : Index, end : Index, items : Seq(Index \cup {Dead}),
            header : Nat, pos : Nat, block : Block \cup {0}]

TypeOK ==
  /\ start \in Starts
  /\ entries \in Seq(EntryType)
  /\ headers \in Seq(Header) /\ headers # <<>>
  /\ slots \in [Block -> [Place -> Index \cup {Dead}]]
  /\ elementsCompletelyDequeued \in [Block -> 0 .. BLOCK_SIZE]
  /\ tailBlock \in Block \cup {null}
  /\ free \subseteq Block
  /\ ppc \in PCs
  /\ pl \in [n : 0 .. MaxBulk, allocated : Seq(Block), block : Block \cup {null}, undone : Nat]

\* The tables: each has the entries of the one before, and as many new ones.
HeadersInv ==
  /\ \A h \in DOMAIN headers :
       /\ headers[h].tail \in Caps(h)
       /\ \A p, q \in Caps(h) : headers[h].index[p] = headers[h].index[q] => p = q
       /\ capacity(L) % capacity(h) = 0
  /\ \A e \in Entries : \E p \in Caps(L) : headers[L].index[p] = e

\* The entries of the newest table stand for as many consecutive blocks, up to
\* w; those that were never used for the blocks before v.
Ring(v, w) ==
  /\ v <= LastNo + 1
  /\ Low <= w /\ w <= Low + capacity(L)
  /\ ppc \in {"expose", "block", "value", "rewind", "clear"} => Low < w
  /\ pl.allocated # <<>> => w <= LastNo + capacity(L)
  /\ ppc = "grow" => w = Low /\ v <= w - capacity(L) + 1
  /\ \A n \in w - capacity(L) + 1 .. w :
       IF v <= n THEN Has(EntryOf(n), n) ELSE ~Valid(EntryOf(n))
RingInv == \E v, w \in Number : Ring(v, w)

\* pos is the place of block n in table h.
InPhase(h, pos, n) ==
  \A p \in Caps(h), k \in Number : Has(headers[h].index[p], k) => (p - pos - k + n) % capacity(h) = 0
PhaseInv ==
  \A h \in DOMAIN headers : h < L =>
    /\ \A p \in Caps(h) : Valid(headers[h].index[p])
    /\ \A p \in Caps(h), n \in Number : Has(headers[h].index[p], n) => InPhase(h, p, n)

\* Which blocks are in the index.
HeldInv ==
  /\ \A e \in Entries : entries[e].value # null => \E n \in Number : Has(e, n) /\ Want(n)
  /\ \A n \in Number : Want(n) => \E e \in Entries : Held(n, e)
  /\ \A n \in Number, e \in Entries : Held(n, e) /\ n > LastNo => entries[e].value = pl.allocated[n - LastNo]
  /\ \A e, f \in Entries : entries[e].value = entries[f].value /\ entries[e].value # null => e = f

\* What is in a block.
Filled(b, n) == \A k \in Place : slots[b][k] = IF Unread(ItemOf(n, k)) THEN At(ItemOf(n, k)) ELSE Dead
Empty(b) == \A k \in Place : slots[b][k] = Dead
BlockInv ==
  /\ \A n \in Number, e \in Entries : Held(n, e) =>
       LET b == entries[e].value
       IN  /\ b \notin free
           /\ elementsCompletelyDequeued[b] + Cardinality(Left_(n)) = BLOCK_SIZE
           /\ Filled(b, n)
  /\ \A b \in free : Empty(b)
  /\ Block \subseteq free \cup Indexed \cup {pl.block} \cup {pl.allocated[i] : i \in DOMAIN pl.allocated}
                     \cup {cl[c].block : c \in {d \in Consumer : cpc[d] = "free"}}

\* The call of the enqueuing thread.
EnqueueInv ==
  /\ ppc = "idle" => pl = NoEnqueue
  /\ ppc # "idle" => pl.n > 0 /\ Published + pl.n <= MaxItems /\ Len(pl.allocated) <= NeededNo
  /\ pl.undone <= Len(pl.allocated)
  /\ pl.undone > 0 => ppc \in {"undo", "undo tail"}
  /\ ppc = "undo tail" => pl.undone < Len(pl.allocated)
  /\ ppc \in {"room", "insert", "grow", "expose", "block", "value"} => Len(pl.allocated) < NeededNo
  /\ ppc \in {"construct", "publish"} => Len(pl.allocated) = NeededNo
  /\ ppc = "value" <=> pl.block # null
HandInv ==
     pl.block # null => /\ pl.block \notin free \cup Indexed \cup {pl.allocated[i] : i \in DOMAIN pl.allocated}
                        /\ elementsCompletelyDequeued[pl.block] = 0 /\ Empty(pl.block)
AllocatedInv ==
     \A i \in DOMAIN pl.allocated :
       LET b == pl.allocated[i]
       IN  /\ b \notin free
           /\ \A j \in DOMAIN pl.allocated : pl.allocated[j] = b => i = j
           /\ ~Kept(i) => b \notin Indexed /\ Empty(b)
TailInv ==
  /\ ppc # "publish" /\ LastNo >= InitialSize /\ Pend(LastNo) =>
       \E e \in Entries : Held(LastNo, e) /\ entries[e].value = tailBlock
  /\ ppc = "publish" =>
       \E e \in Entries : Held(LastNo + NeededNo, e) /\ entries[e].value = tailBlock
ProducerInv == EnqueueInv /\ HandInv /\ AllocatedInv /\ TailInv

\* A consumer that reads.
ConsumerInv(c) ==
  LET l == cl[c]  h == l.header
      no == IF cpc[c] \in {"entry", "read"} THEN BlockNo(Lo(c)) ELSE BlockNo(Lo(c) - 1)
  IN  /\ l \in Reading
      /\ 0 <= From(c) /\ From(c) <= Lo(c) /\ Lo(c) <= Hi(c) /\ Hi(c) <= Claimed
      /\ l.items # <<>> /\ Lo(c) < Hi(c) => Lo(c) % BLOCK_SIZE = 0
      /\ IF cpc[c] \in {"empty", "drop", "free"} THEN l.items # <<>> /\ Lo(c) > 0 ELSE Lo(c) < Hi(c)
      /\ cpc[c] = "empty" => JustRead(l) > 0 /\ BlockNo(From(c)) = BlockNo(Lo(c) - 1)
      /\ cpc[c] # "header" =>
           /\ h \in DOMAIN headers
           /\ \A d \in From(c) .. Hi(c) - 1 : Positioned(h, BlockNo(d))
      /\ cpc[c] = "key" => l.pos \in Caps(h) /\ Valid(headers[h].index[l.pos])
      /\ cpc[c] \in {"entry", "read", "empty", "drop"} => InPhase(h, l.pos, no)
      /\ cpc[c] = "free" /\ Lo(c) < Hi(c) => InPhase(h, l.pos, no)
      /\ cpc[c] \in {"read", "empty", "drop"} =>
           Held(no, Entry(h, l.pos)) /\ l.block = entries[Entry(h, l.pos)].value
      /\ cpc[c] = "drop" => Left_(no) = {}
      /\ cpc[c] = "free" => /\ l.block \in Block \ (free \cup Indexed \cup {pl.block}) /\ Empty(l.block)
                            /\ \A i \in DOMAIN pl.allocated : pl.allocated[i] # l.block

\* No two consumers have the same items, or give the same block back.
SharesInv ==
  \A c, d \in Holding : c # d =>
    /\ Hi(c) <= From(d) \/ Hi(d) <= From(c)
    /\ cpc[c] = "drop" /\ cpc[d] = "drop" => BlockNo(Lo(c) - 1) # BlockNo(Lo(d) - 1)
    /\ cpc[c] = "free" /\ cpc[d] = "free" => cl[c].block # cl[d].block

IInv ==
  /\ TypeOK
  /\ IF ppc = "destroyed"
     THEN free = Block /\ Holding = {} /\ \A b \in Block : Empty(b)
     ELSE /\ HeadersInv
          /\ RingInv
          /\ PhaseInv
          /\ HeldInv
          /\ BlockInv
          /\ ProducerInv
          /\ \A c \in Holding : ConsumerInv(c)
          /\ SharesInv

\* What the indices are known to be at each step: DequeueCounts' part.
Fit ==
  /\ CountsType
  /\ Claimed <= Published /\ Published <= MaxItems
  /\ \A c \in Consumer : cpc[c] = "claim" => cl[c].actual > 0 /\ Claimed + cl[c].actual <= Published
Settings == CountsAssumption /\ BlocksAssumption

-----------------------------------------------------------------------------
(* Division.                                                                *)

LEMMA DivIs ==
  ASSUME NEW b \in Nat \ {0}, NEW q \in Int, NEW r \in 0 .. b - 1, NEW x \in Int, x = b * q + r
  PROVE  x \div b = q /\ x % b = r
<1>1. PICK k \in Int, s \in 0 .. b - 1 : x = b * k + s /\ k = x \div b /\ s = x % b
  OBVIOUS
<1>2. b * (k - q) = r - s
  BY <1>1
<1>3. ~ k - q >= 1
  <2> SUFFICES ASSUME k - q >= 1 PROVE FALSE
    OBVIOUS
  <2>1. b * (k - q) >= b
    OBVIOUS
  <2> QED BY <1>1, <1>2, <2>1
<1>4. ~ q - k >= 1
  <2> SUFFICES ASSUME q - k >= 1 PROVE FALSE
    OBVIOUS
  <2>1. b * (q - k) >= b /\ b * (q - k) = s - r
    BY <1>1, <1>2
  <2> QED BY <1>1, <2>1
<1> QED BY <1>1, <1>3, <1>4

LEMMA DivOf ==
  ASSUME NEW b \in Nat \ {0}, NEW x \in Int
  PROVE  /\ x \div b \in Int /\ x % b \in 0 .. b - 1 /\ x % b \in Nat
         /\ x = b * (x \div b) + (x % b)
  OBVIOUS

LEMMA DivParts ==
  ASSUME NEW b \in Nat \ {0}, NEW x \in Int
  PROVE  \E q \in Int, r \in 0 .. b - 1 : x = b * q + r /\ q = x \div b /\ r = x % b
BY DivOf

\* Multiples of b.
LEMMA MultIs ==
  ASSUME NEW b \in Nat \ {0}, NEW x \in Int
  PROVE  x % b = 0 <=> \E k \in Int : x = b * k
<1>1. ASSUME NEW k \in Int, x = b * k PROVE x % b = 0
  <2>1. x = b * k + 0 /\ 0 \in 0 .. b - 1
    BY <1>1
  <2> QED BY <2>1, DivIs
<1>2. x % b = 0 => x = b * (x \div b) /\ x \div b \in Int
  BY DivOf
<1> QED BY <1>1, <1>2

LEMMA MultSum ==
  ASSUME NEW b \in Nat \ {0}, NEW x \in Int, NEW y \in Int, x % b = 0, y % b = 0
  PROVE  (x + y) % b = 0 /\ (x - y) % b = 0
<1>1. PICK k \in Int : x = b * k
  BY MultIs
<1>2. PICK l \in Int : y = b * l
  BY MultIs
<1>3. /\ x + y = b * (k + l) /\ x - y = b * (k - l) /\ k + l \in Int /\ k - l \in Int
      /\ x + y \in Int /\ x - y \in Int
  BY <1>1, <1>2
<1> QED BY <1>3, MultIs

LEMMA MultRem ==
  ASSUME NEW b \in Nat \ {0}, NEW x \in Int
  PROVE  (x - (x % b)) % b = 0 /\ ((x % b) - x) % b = 0
<1>1. PICK q \in Int, r \in Int : q = x \div b /\ r = x % b /\ x = b * q + r
  BY DivOf
<1>2. x - r = b * q /\ r - x = b * (-q) /\ -q \in Int /\ x - r \in Int /\ r - x \in Int
  BY <1>1
<1> QED BY <1>1, <1>2, MultIs

LEMMA MultSmall ==
  ASSUME NEW b \in Nat \ {0}, NEW x \in Int, x % b = 0, x < b, -x < b
  PROVE  x = 0
<1>1. PICK k \in Int : x = b * k
  BY MultIs
<1>2. ~ k >= 1
  <2> SUFFICES ASSUME k >= 1 PROVE FALSE
    OBVIOUS
  <2>1. b * k >= b
    OBVIOUS
  <2> QED BY <1>1, <2>1
<1>3. ~ -k >= 1
  <2> SUFFICES ASSUME -k >= 1 PROVE FALSE
    OBVIOUS
  <2>1. b * (-k) >= b /\ b * (-k) = -x
    BY <1>1
  <2> QED BY <2>1
<1> QED BY <1>1, <1>2, <1>3

\* The same remainder.
LEMMA MultSame ==
  ASSUME NEW b \in Nat \ {0}, NEW x \in Int, NEW y \in Int
  PROVE  (x - y) % b = 0 <=> x % b = y % b
<1>1. x % b \in 0 .. b - 1 /\ y % b \in 0 .. b - 1
  BY DivOf
<1>2. PICK r \in Int, s \in Int, z \in Int : r = x % b /\ s = y % b /\ z = r - s
  BY <1>1, SMTT(30)
<1>3. (x - r) % b = 0 /\ (y - s) % b = 0
  BY <1>2, MultRem
<1>4. PICK u \in Int, v \in Int, d \in Int, w \in Int : u = x - r /\ v = y - s /\ d = x - y /\ w = u - v
  OBVIOUS
<1>5. u % b = 0 /\ v % b = 0
  BY <1>3, <1>4
<1>6. w % b = 0
  BY <1>4, <1>5, MultSum
<1>7. z = d - w /\ d = w + z
  BY <1>2, <1>4
<1>a. d % b = 0 => z % b = 0
  BY <1>6, <1>7, MultSum
<1>8. z % b = 0 => z = 0
  BY <1>1, <1>2, MultSmall
<1>9. z = 0 => d % b = 0
  BY <1>6, <1>7
<1> QED BY <1>2, <1>4, <1>8, <1>9, <1>a

LEMMA DivLess ==
  ASSUME NEW b \in Nat \ {0}, NEW x \in Int, NEW y \in Int
  PROVE  /\ x <= y => x \div b <= y \div b
         /\ x \div b < y \div b => b * (y \div b) > x
<1>1. PICK q \in Int, r \in 0 .. b - 1 : q = x \div b /\ x = b * q + r
  BY DivOf
<1>2. PICK p \in Int, s \in 0 .. b - 1 : p = y \div b /\ y = b * p + s
  BY DivOf
<1>3. ASSUME q < p PROVE b * p > x /\ y > x
  <2>1. b * (p - q) >= b /\ b * (p - q) = b * p - b * q
    BY <1>3
  <2> QED BY <1>1, <1>2, <2>1
<1>4. ASSUME p < q PROVE y < x
  <2>1. b * (q - p) >= b /\ b * (q - p) = b * q - b * p
    BY <1>4
  <2> QED BY <1>1, <1>2, <2>1
<1> QED BY <1>1, <1>2, <1>3, <1>4

-----------------------------------------------------------------------------
(* Indices and block numbers.                                               *)

LEMMA Numbers ==
  ASSUME Settings
  PROVE  /\ BLOCK_SIZE \in Nat \ {0} /\ BLOCK_SIZE > 1 /\ InitialSize \in Nat \ {0}
         /\ Wrap \in Nat \ {0} /\ Wrap % BLOCK_SIZE = 0 /\ Wrap \div 2 \in Nat
         /\ Wrap - (Wrap \div 2) >= Wrap \div 2 /\ Wrap > Wrap \div 2
         /\ MaxItems \in Nat /\ MaxBulk \in Nat /\ MaxItems < Wrap \div 2
         /\ MaxItems + (InitialSize + 2) * BLOCK_SIZE < Wrap \div 2
         /\ null \notin Block /\ IsFiniteSet(Consumer)
<1>1. /\ BLOCK_SIZE \in Nat \ {0} /\ BLOCK_SIZE > 1 /\ InitialSize \in Nat \ {0}
      /\ Wrap \in Nat /\ Wrap % BLOCK_SIZE = 0 /\ MaxItems \in Nat /\ MaxBulk \in Nat
      /\ MaxItems + (InitialSize + 2) * BLOCK_SIZE < Wrap \div 2
      /\ null \notin Block /\ IsFiniteSet(Consumer)
  BY DEF Settings, CountsAssumption, BlocksAssumption
<1>2. PICK k \in Nat : k = (InitialSize + 2) * BLOCK_SIZE
  BY <1>1
<1>3. MaxItems + k < Wrap \div 2 /\ k \in Nat
  BY <1>1, <1>2
<1>4. /\ Wrap # 0 /\ Wrap \div 2 \in Nat /\ MaxItems < Wrap \div 2
      /\ Wrap - (Wrap \div 2) >= Wrap \div 2 /\ Wrap > Wrap \div 2
  BY <1>1, <1>3
<1> QED BY <1>1, <1>4

LEMMA StartIs ==
  ASSUME Settings, start \in Starts
  PROVE  start \in Index /\ start \in Nat /\ start % BLOCK_SIZE = 0
BY Numbers DEF Settings, CountsAssumption, BlocksAssumption, Index

LEMMA AtIs ==
  ASSUME Settings, start \in Starts, NEW d \in Int
  PROVE  /\ At(d) \in Index /\ At(d) \in Nat
         /\ (At(d) - (start + d)) % Wrap = 0
         /\ At(d) % BLOCK_SIZE = d % BLOCK_SIZE
<1>1. Wrap \in Nat \ {0} /\ BLOCK_SIZE \in Nat \ {0} /\ Wrap % BLOCK_SIZE = 0 /\ start \in Int
      /\ start % BLOCK_SIZE = 0
  BY Numbers, StartIs
<1>2. PICK x \in Int : x = start + d
  BY <1>1
<1>3. At(d) = x % Wrap
  BY <1>2 DEF At, Plus
<1>4. At(d) \in Index /\ At(d) \in Nat
  BY <1>1, <1>3, DivOf DEF Index
<1>5. (At(d) - x) % Wrap = 0
  BY <1>1, <1>3, MultRem
<1>6. At(d) % BLOCK_SIZE = d % BLOCK_SIZE
  <2>1. PICK a \in Int, y \in Int, z \in Int : a = At(d) /\ y = a - x /\ z = a - d
    BY <1>4
  <2>2. PICK k \in Int : y = Wrap * k
    BY <1>1, <1>5, <2>1, MultIs
  <2>3. PICK w \in Int : Wrap = BLOCK_SIZE * w
    BY <1>1, MultIs
  <2>4. y = BLOCK_SIZE * (w * k) /\ w * k \in Int
    BY <1>1, <2>2, <2>3
  <2>5. y % BLOCK_SIZE = 0
    BY <1>1, <2>4, MultIs
  <2>6. z = y + start
    BY <1>1, <1>2, <2>1
  <2>7. z % BLOCK_SIZE = 0
    BY <1>1, <2>5, <2>6, MultSum
  <2> QED BY <1>1, <2>1, <2>7, MultSame
<1> QED BY <1>2, <1>4, <1>5, <1>6

\* Arithmetic on indices is arithmetic on distances.
LEMMA WrapSame ==
  ASSUME Settings, NEW x \in Int, NEW y \in Int, (x - y) % Wrap = 0
  PROVE  x % Wrap = y % Wrap
BY Numbers, MultSame

LEMMA PlusAt ==
  ASSUME Settings, start \in Starts, NEW d \in Int, NEW e \in Int
  PROVE  Plus(At(d), e) = At(d + e) /\ Minus(At(d), e) = At(d - e)
<1>1. PICK a \in Int : a = At(d) /\ (a - (start + d)) % Wrap = 0
  BY AtIs
<1>2. start \in Int
  BY StartIs
<1>3. PICK x \in Int, y \in Int, z \in Int : x = a + e /\ y = start + (d + e) /\ z = a - (start + d)
  BY <1>1, <1>2
<1>4. x - y = z
  BY <1>1, <1>2, <1>3
<1>5. x % Wrap = y % Wrap
  BY <1>1, <1>3, <1>4, WrapSame
<1>6. PICK u \in Int, v \in Int : u = a - e /\ v = start + (d - e)
  BY <1>1, <1>2
<1>7. u - v = z
  BY <1>1, <1>2, <1>3, <1>6
<1>8. u % Wrap = v % Wrap
  BY <1>1, <1>3, <1>6, <1>7, WrapSame
<1> QED BY <1>1, <1>3, <1>5, <1>6, <1>8 DEF Plus, Minus, At

LEMMA MinusAt ==
  ASSUME Settings, start \in Starts, NEW d \in Int, NEW e \in Int
  PROVE  /\ Minus(At(d), At(e)) = (d - e) % Wrap
         /\ 0 <= d - e /\ d - e < Wrap => Minus(At(d), At(e)) = d - e
         /\ 0 < e - d /\ e - d < Wrap => Minus(At(d), At(e)) = Wrap - (e - d)
<1>1. PICK a \in Int : a = At(d) /\ (a - (start + d)) % Wrap = 0
  BY AtIs
<1>2. PICK b \in Int : b = At(e) /\ (b - (start + e)) % Wrap = 0
  BY AtIs
<1>3. start \in Int /\ Wrap \in Nat \ {0}
  BY StartIs, Numbers
<1>4. PICK x \in Int, y \in Int, u \in Int, v \in Int :
        x = a - b /\ y = d - e /\ u = a - (start + d) /\ v = b - (start + e)
  BY <1>1, <1>2, <1>3
<1>5. x - y = u - v /\ u % Wrap = 0 /\ v % Wrap = 0
  BY <1>1, <1>2, <1>3, <1>4
<1>6. x % Wrap = y % Wrap
  <2>1. PICK w \in Int, z \in Int : w = u - v /\ z = x - y
    OBVIOUS
  <2>2. w % Wrap = 0 /\ z = w
    BY <1>3, <1>5, <2>1, MultSum
  <2> QED BY <2>1, <2>2, WrapSame
<1>7. Minus(At(d), At(e)) = y % Wrap
  BY <1>1, <1>2, <1>4, <1>6 DEF Minus
<1>8. ASSUME 0 <= y, y < Wrap PROVE y % Wrap = y
  BY <1>3, <1>8
<1>9. ASSUME y < 0, -y < Wrap PROVE y % Wrap = Wrap + y
  <2>1. Wrap + y \in 0 .. Wrap - 1 /\ y = Wrap * (-1) + (Wrap + y) /\ -1 \in Int
    BY <1>3, <1>9
  <2> QED BY <1>3, <2>1, DivIs
<1> QED BY <1>3, <1>4, <1>7, <1>8, <1>9

LEMMA DistIs ==
  ASSUME Settings, start \in Starts
  PROVE  /\ \A d \in Index : Dist(At(d)) = d
         /\ \A i \in Index : Dist(i) \in Index /\ Dist(i) \in Nat /\ At(Dist(i)) = i
         /\ At(0) = start
<1>1. Wrap \in Nat \ {0} /\ start \in Int /\ start \in Index
  BY Numbers, StartIs
<1>2. At(0) = start
  BY <1>1 DEF At, Plus, Index
<1>3. \A d \in Index : Dist(At(d)) = d
  <2> SUFFICES ASSUME NEW d \in Index PROVE Dist(At(d)) = d
    OBVIOUS
  <2>1. d \in Int /\ 0 <= d - 0 /\ d - 0 < Wrap /\ d - 0 = d
    BY <1>1 DEF Index
  <2>2. Minus(At(d), At(0)) = d
    BY <2>1, MinusAt
  <2> QED BY <1>2, <2>2 DEF Dist
<1>4. ASSUME NEW i \in Index PROVE Dist(i) \in Index /\ Dist(i) \in Nat /\ At(Dist(i)) = i
  <2>1. PICK x \in Int : x = i - start
    BY <1>1 DEF Index
  <2>2. PICK d \in Int : d = Dist(i) /\ d = x % Wrap /\ d \in Index /\ d \in Nat
    BY <1>1, <2>1, DivOf DEF Dist, Minus, Index
  <2>3. (d - x) % Wrap = 0
    BY <1>1, <2>2, MultRem
  <2>4. PICK y \in Int : y = start + d
    BY <1>1
  <2>5. y - i = d - x
    BY <1>1, <2>1, <2>4 DEF Index
  <2>6. i \in Int /\ (y - i) % Wrap = 0
    BY <1>1, <2>3, <2>5 DEF Index
  <2>7. y % Wrap = i % Wrap
    BY <2>6, WrapSame
  <2>8. i % Wrap = i
    BY <1>1 DEF Index
  <2> QED BY <2>2, <2>4, <2>7, <2>8 DEF At, Plus
<1> QED BY <1>2, <1>3, <1>4

LEMMA LessAt ==
  ASSUME Settings, start \in Starts, NEW d \in Int, NEW e \in Int,
         d - e < Wrap \div 2, e - d < Wrap \div 2
  PROVE  Less(At(d), At(e)) <=> d < e
<1>1. /\ Wrap \in Nat \ {0} /\ Wrap \div 2 \in Nat /\ Wrap > Wrap \div 2
      /\ Wrap - (Wrap \div 2) >= Wrap \div 2
  BY Numbers
<1>2. PICK h \in Nat : h = Wrap \div 2
  BY <1>1
<1>3. d < e => Minus(At(d), At(e)) = Wrap - (e - d)
  BY <1>1, <1>2, MinusAt
<1>4. ~ d < e => Minus(At(d), At(e)) = d - e
  BY <1>1, <1>2, MinusAt
<1>5. Less(At(d), At(e)) <=> Minus(At(d), At(e)) > h
  BY <1>2 DEF Less, Minus
<1> QED BY <1>1, <1>2, <1>3, <1>4, <1>5

\* Items and their blocks.
LEMMA BlockNoIs ==
  ASSUME Settings
  PROVE  /\ \A d \in Int : /\ BlockNo(d) \in Int /\ d % BLOCK_SIZE \in Place
                           /\ ItemOf(BlockNo(d), d % BLOCK_SIZE) = d
         /\ \A n \in Int, k \in Place : /\ ItemOf(n, k) \in Int
                                        /\ BlockNo(ItemOf(n, k)) = n
                                        /\ ItemOf(n, k) % BLOCK_SIZE = k
<1>1. BLOCK_SIZE \in Nat \ {0} /\ InitialSize \in Nat
  BY Numbers
<1>2. ASSUME NEW d \in Int
      PROVE  /\ BlockNo(d) \in Int /\ d % BLOCK_SIZE \in Place
             /\ ItemOf(BlockNo(d), d % BLOCK_SIZE) = d
  <2>1. PICK q \in Int, r \in Place : q = d \div BLOCK_SIZE /\ r = d % BLOCK_SIZE /\ d = BLOCK_SIZE * q + r
    BY <1>1, DivOf DEF Place
  <2>2. BlockNo(d) = InitialSize + q
    BY <2>1 DEF BlockNo
  <2>3. (InitialSize + q) - InitialSize = q
    BY <1>1
  <2>4. ItemOf(BlockNo(d), r) = q * BLOCK_SIZE + r
    BY <2>2, <2>3 DEF ItemOf
  <2>5. q * BLOCK_SIZE = BLOCK_SIZE * q
    BY <1>1
  <2> QED BY <1>1, <2>1, <2>2, <2>4, <2>5
<1>3. ASSUME NEW n \in Int, NEW k \in Place
      PROVE  /\ ItemOf(n, k) \in Int
             /\ BlockNo(ItemOf(n, k)) = n
             /\ ItemOf(n, k) % BLOCK_SIZE = k
  <2>1. PICK q \in Int : q = n - InitialSize
    BY <1>1
  <2>2. PICK x \in Int : x = BLOCK_SIZE * q + k
    BY <1>1 DEF Place
  <2>3. ItemOf(n, k) = x
    BY <1>1, <2>1, <2>2 DEF ItemOf, Place
  <2>4. x \div BLOCK_SIZE = q /\ x % BLOCK_SIZE = k
    BY <1>1, <2>2, DivIs DEF Place
  <2> QED BY <1>1, <2>1, <2>3, <2>4 DEF BlockNo
<1> QED BY <1>2, <1>3

LEMMA BlockNoUp ==
  ASSUME Settings, NEW d \in Int, NEW e \in Int
  PROVE  /\ d <= e => BlockNo(d) <= BlockNo(e)
         /\ BlockNo(d) < BlockNo(e) => d < e
         /\ d >= 0 => BlockNo(d) >= InitialSize
         /\ d < 0 => BlockNo(d) < InitialSize
         /\ d >= -1 /\ d <= MaxItems => BlockNo(d) \in Number
<1>1. BLOCK_SIZE \in Nat \ {0} /\ InitialSize \in Nat \ {0} /\ MaxItems \in Nat
  BY Numbers
<1>2. \A x, y \in Int : x <= y => BlockNo(x) <= BlockNo(y)
  <2> SUFFICES ASSUME NEW x \in Int, NEW y \in Int, x <= y PROVE BlockNo(x) <= BlockNo(y)
    OBVIOUS
  <2>1. x \div BLOCK_SIZE <= y \div BLOCK_SIZE /\ x \div BLOCK_SIZE \in Int /\ y \div BLOCK_SIZE \in Int
    BY <1>1, DivLess, DivOf
  <2> QED BY <1>1, <2>1 DEF BlockNo
<1>3. BlockNo(0) = InitialSize
  <2>1. 0 = BLOCK_SIZE * 0 + 0 /\ 0 \in 0 .. BLOCK_SIZE - 1
    BY <1>1
  <2> QED BY <1>1, <2>1, DivIs DEF BlockNo
<1>4. BlockNo(-1) = InitialSize - 1
  <2>1. -1 = BLOCK_SIZE * (-1) + (BLOCK_SIZE - 1) /\ BLOCK_SIZE - 1 \in 0 .. BLOCK_SIZE - 1 /\ -1 \in Int
    BY <1>1
  <2>2. (-1) \div BLOCK_SIZE = -1
    BY <1>1, <2>1, DivIs
  <2> QED BY <1>1, <2>2 DEF BlockNo
<1>5. \A x \in Int : BlockNo(x) \in Int
  BY BlockNoIs
<1>6. d < 0 => BlockNo(d) <= BlockNo(-1)
  BY <1>2
<1>7. d >= -1 => BlockNo(d) >= BlockNo(-1)
  BY <1>2
<1>8. d <= MaxItems => BlockNo(d) <= BlockNo(MaxItems)
  BY <1>1, <1>2
<1>9. d >= 0 => BlockNo(d) >= BlockNo(0)
  BY <1>2
<1>a. ~ d < e => BlockNo(e) <= BlockNo(d)
  BY <1>2
<1> QED BY <1>1, <1>2, <1>3, <1>4, <1>5, <1>6, <1>7, <1>8, <1>9, <1>a DEF Number

\* The numbers of the blocks lie within half of the range of the indices.
LEMMA NumberFits ==
  ASSUME Settings
  PROVE  /\ Number \subseteq Nat /\ BlockNo(MaxItems) \in Nat
         /\ \A n, m \in Number : (n - m) * BLOCK_SIZE < Wrap \div 2
<1>1. /\ BLOCK_SIZE \in Nat \ {0} /\ InitialSize \in Nat \ {0} /\ MaxItems \in Nat
      /\ MaxItems + (InitialSize + 2) * BLOCK_SIZE < Wrap \div 2 /\ Wrap \div 2 \in Nat
  BY Numbers
<1>2. PICK q \in Int, r \in 0 .. BLOCK_SIZE - 1 : q = MaxItems \div BLOCK_SIZE /\ MaxItems = BLOCK_SIZE * q + r
  <2>1. MaxItems \in Int /\ BLOCK_SIZE \in Nat \ {0}
    BY <1>1
  <2> QED BY <2>1, DivParts, Zenon
<1>3. BlockNo(MaxItems) = InitialSize + q
  BY <1>2 DEF BlockNo
<1>4. q >= 0
  <2>1. BlockNo(MaxItems) >= InitialSize
    BY <1>1, BlockNoUp
  <2> QED BY <1>1, <1>3, <2>1
<1>5. BLOCK_SIZE * q + BLOCK_SIZE * InitialSize < Wrap \div 2
  <2>1. (InitialSize + 2) * BLOCK_SIZE = BLOCK_SIZE * InitialSize + 2 * BLOCK_SIZE
    BY <1>1
  <2>2. PICK a \in Int, b \in Int : a = BLOCK_SIZE * q /\ b = BLOCK_SIZE * InitialSize
    BY <1>1, <1>2
  <2>3. MaxItems = a + r /\ (InitialSize + 2) * BLOCK_SIZE = b + 2 * BLOCK_SIZE
    BY <1>2, <2>1, <2>2
  <2>4. a + b < Wrap \div 2
    BY <1>1, <1>2, <2>3
  <2> QED BY <2>2, <2>4
<1>6. ASSUME NEW n \in Number, NEW m \in Number PROVE (n - m) * BLOCK_SIZE < Wrap \div 2
  <2>1. n \in Int /\ m \in Int /\ n <= InitialSize + q /\ m >= 0
    BY <1>1, <1>2, <1>3 DEF Number
  <2>2. PICK z \in Nat : z = (InitialSize + q) - (n - m)
    BY <1>1, <1>2, <1>4, <2>1
  <2>3. BLOCK_SIZE * z >= 0
    BY <1>1
  <2>4. (n - m) * BLOCK_SIZE = BLOCK_SIZE * q + BLOCK_SIZE * InitialSize - BLOCK_SIZE * z
    BY <1>1, <1>2, <2>1, <2>2
  <2>5. PICK a \in Int, b \in Int, c \in Int :
           a = BLOCK_SIZE * q /\ b = BLOCK_SIZE * InitialSize /\ c = BLOCK_SIZE * z
    BY <1>1, <1>2
  <2> QED BY <1>1, <1>5, <2>3, <2>4, <2>5
<1> QED BY <1>1, <1>2, <1>3, <1>4, <1>6 DEF Number

LEMMA KeyIs ==
  ASSUME Settings, start \in Starts
  PROVE  /\ \A n \in Int : KeyOf(n) = At((n - InitialSize) * BLOCK_SIZE)
         /\ \A n \in Int : KeyOf(n) \in Index /\ KeyOf(n) # INVALID
         /\ \A n \in Int, m \in Int : Blocks(KeyOf(n), m) = KeyOf(n + m)
         /\ \A d \in Int : Base(At(d)) = KeyOf(BlockNo(d))
<1>1. /\ BLOCK_SIZE \in Nat \ {0} /\ BLOCK_SIZE > 1 /\ InitialSize \in Nat \ {0} /\ Wrap \in Nat \ {0}
  BY Numbers
<1>2. ASSUME NEW n \in Int PROVE KeyOf(n) = At((n - InitialSize) * BLOCK_SIZE)
  BY DEF KeyOf, At, Blocks, Plus
<1>3. ASSUME NEW n \in Int PROVE KeyOf(n) \in Index /\ KeyOf(n) # INVALID
  <2>1. PICK d \in Int : d = (n - InitialSize) * BLOCK_SIZE
    BY <1>1
  <2>2. d = BLOCK_SIZE * (n - InitialSize) /\ n - InitialSize \in Int
    BY <1>1, <2>1
  <2>3. d % BLOCK_SIZE = 0
    BY <1>1, <2>2, MultIs
  <2>4. At(d) \in Index /\ At(d) % BLOCK_SIZE = 0
    BY <2>3, AtIs
  <2>5. 1 % BLOCK_SIZE = 1
    BY <1>1
  <2> QED BY <1>2, <2>1, <2>4, <2>5 DEF INVALID
<1>4. ASSUME NEW n \in Int, NEW m \in Int PROVE Blocks(KeyOf(n), m) = KeyOf(n + m)
  <2>1. PICK d \in Int, e \in Int, f \in Int :
          /\ d = (n - InitialSize) * BLOCK_SIZE /\ e = m * BLOCK_SIZE
          /\ f = (n + m - InitialSize) * BLOCK_SIZE
    BY <1>1
  <2>2. f = d + e
    BY <1>1, <2>1
  <2>3. KeyOf(n) = At(d) /\ KeyOf(n + m) = At(f)
    <3>1. PICK p \in Int : p = n + m
      OBVIOUS
    <3>0. p - InitialSize = n + (m - InitialSize)
      BY <1>1, <3>1
    <3>2. f = (p - InitialSize) * BLOCK_SIZE
      BY <2>1, <3>0
    <3>3. KeyOf(p) = At(f)
      BY <1>2, <3>2
    <3> QED BY <1>2, <2>1, <3>1, <3>3
  <2>4. Plus(At(d), e) = At(d + e)
    BY PlusAt
  <2> QED BY <2>1, <2>2, <2>3, <2>4 DEF Blocks, Plus
<1>5. ASSUME NEW d \in Int PROVE Base(At(d)) = KeyOf(BlockNo(d))
  <2>1. PICK n \in Int, r \in Place : n = BlockNo(d) /\ r = d % BLOCK_SIZE /\ ItemOf(n, r) = d
    BY BlockNoIs
  <2>2. PICK e \in Int : e = (n - InitialSize) * BLOCK_SIZE
    BY <1>1
  <2>3. d = e + r /\ r \in Int /\ e = d - r
    BY <2>1, <2>2 DEF ItemOf, Place
  <2>4. PICK a \in Nat : a = At(d) /\ a \in Index /\ a % BLOCK_SIZE = r
    BY <2>1, AtIs
  <2>5. Minus(a, r) = At(e)
    BY <2>3, <2>4, PlusAt
  <2>6. a - r \in 0 .. Wrap - 1
    <3>1. PICK q \in Int : a = BLOCK_SIZE * q + r
      <4>1. a \in Int /\ BLOCK_SIZE \in Nat \ {0}
        BY <1>1, <2>4
      <4>2. PICK q \in Int, s \in 0 .. BLOCK_SIZE - 1 : a = BLOCK_SIZE * q + s /\ s = a % BLOCK_SIZE
        BY <4>1, DivParts, Zenon
      <4> QED BY <2>4, <4>2
    <3>2. PICK t \in Int : t = BLOCK_SIZE * q
      BY <1>1
    <3>3. ~ q < 0
      <4> SUFFICES ASSUME q < 0 PROVE FALSE
        OBVIOUS
      <4>1. BLOCK_SIZE * (-q) >= BLOCK_SIZE /\ BLOCK_SIZE * (-q) = -t
        BY <1>1, <3>2
      <4> QED BY <1>1, <3>1, <3>2, <4>1 DEF Place
    <3>4. t >= 0
      BY <1>1, <3>2, <3>3
    <3> QED BY <1>1, <2>4, <3>1, <3>2, <3>4 DEF Place, Index
  <2>7. Minus(a, r) = a - r
    BY <1>1, <2>6 DEF Minus
  <2> QED BY <1>2, <2>1, <2>2, <2>4, <2>5, <2>7 DEF Base
<1> QED BY <1>2, <1>3, <1>4, <1>5

LEMMA OffsetIs ==
  ASSUME Settings, start \in Starts, NEW n \in Number, NEW m \in Number
  PROVE  /\ BlockOffset(KeyOf(n), KeyOf(m)) = n - m
         /\ KeyOf(n) = KeyOf(m) => n = m
         /\ n >= m => Minus(KeyOf(n), KeyOf(m)) \div BLOCK_SIZE = n - m
<1>1. /\ BLOCK_SIZE \in Nat \ {0} /\ InitialSize \in Nat \ {0} /\ Wrap \in Nat \ {0}
      /\ Wrap \div 2 \in Nat /\ Wrap > Wrap \div 2 /\ Wrap - (Wrap \div 2) >= Wrap \div 2
  BY Numbers
<1>2. n \in Int /\ m \in Int
  BY NumberFits
<1>3. PICK d \in Int, e \in Int, x \in Int :
        d = (n - InitialSize) * BLOCK_SIZE /\ e = (m - InitialSize) * BLOCK_SIZE /\ x = n - m
  BY <1>1, <1>2
<1>4. d - e = x * BLOCK_SIZE /\ e - d = (-x) * BLOCK_SIZE
  BY <1>1, <1>2, <1>3
<1>5. (n - m) * BLOCK_SIZE < Wrap \div 2 /\ (m - n) * BLOCK_SIZE < Wrap \div 2
  BY NumberFits
<1>6. m - n = -x
  BY <1>2, <1>3
<1>7. x * BLOCK_SIZE < Wrap \div 2 /\ (-x) * BLOCK_SIZE < Wrap \div 2
  BY <1>3, <1>5, <1>6
<1>8. KeyOf(n) = At(d) /\ KeyOf(m) = At(e)
  BY <1>2, <1>3, KeyIs
<1>9. ASSUME NEW y \in Nat PROVE (y * BLOCK_SIZE) \div BLOCK_SIZE = y
  <2>1. y * BLOCK_SIZE = BLOCK_SIZE * y + 0 /\ 0 \in 0 .. BLOCK_SIZE - 1 /\ y * BLOCK_SIZE \in Int
    BY <1>1
  <2> QED BY <1>1, <2>1, DivIs
<1>a. ASSUME NEW y \in Nat \ {0} PROVE y * BLOCK_SIZE > 0
  BY <1>1
<1>b. PICK h \in Nat : h = Wrap \div 2
  BY <1>1
<1>c. CASE x >= 0
  <2>1. PICK t \in Nat : t = x * BLOCK_SIZE
    BY <1>1, <1>c
  <2>2. Minus(At(d), At(e)) = t /\ t < h
    <3>1. d - e = t /\ t < h /\ t < Wrap
      BY <1>1, <1>4, <1>7, <1>b, <2>1
    <3> QED BY <3>1, MinusAt
  <2>3. t \div BLOCK_SIZE = x
    BY <1>9, <1>c, <2>1
  <2>4. KeyOf(n) = KeyOf(m) => t = 0
    <3>1. Minus(At(d), At(d)) = 0
      BY <1>1, MinusAt
    <3> QED BY <1>8, <2>2, <3>1
  <2>5. t = 0 => x = 0
    BY <1>a, <1>c, <2>1
  <2> QED BY <1>2, <1>3, <1>8, <1>b, <2>2, <2>3, <2>4, <2>5 DEF BlockOffset
<1>d. CASE x < 0
  <2>1. PICK t \in Nat \ {0} : t = (-x) * BLOCK_SIZE
    BY <1>1, <1>a, <1>d
  <2>2. Minus(At(d), At(e)) = Wrap - t /\ t < h /\ Minus(At(e), At(d)) = t
    <3>1. e - d = t /\ t < h /\ t < Wrap /\ 0 < t
      BY <1>1, <1>4, <1>7, <1>b, <2>1
    <3>2. Minus(At(d), At(e)) = Wrap - t
      BY <3>1, MinusAt
    <3>3. Minus(At(e), At(d)) = t
      BY <3>1, MinusAt
    <3> QED BY <3>1, <3>2, <3>3
  <2>3. t \div BLOCK_SIZE = -x
    BY <1>9, <1>d, <2>1
  <2>4. KeyOf(n) # KeyOf(m)
    <3>1. Minus(At(d), At(d)) = 0
      BY <1>1, MinusAt
    <3> QED BY <1>1, <1>8, <1>b, <2>2, <3>1
  <2>5. ~ Wrap - t < h
    BY <1>1, <1>b, <2>2
  <2> QED BY <1>2, <1>3, <1>8, <1>b, <1>d, <2>2, <2>3, <2>4, <2>5 DEF BlockOffset
<1> QED BY <1>3, <1>c, <1>d

-----------------------------------------------------------------------------
(* The tables and the ring of their entries.                                *)

LEMMA WindowHits ==
  ASSUME NEW b \in Nat \ {0}, NEW z \in Int, NEW x \in Int
  PROVE  \E n \in x .. x + b - 1 : (n - z) % b = 0
<1>1. PICK y \in Int, r \in Int : y = z - x /\ r = y % b /\ r \in 0 .. b - 1
  BY DivOf
<1>2. PICK n \in Int, u \in Int : n = x + r /\ u = r - y
  OBVIOUS
<1>3. u % b = 0
  BY <1>1, <1>2, MultRem
<1>4. n - z = u /\ n \in x .. x + b - 1
  BY <1>1, <1>2
<1> QED BY <1>3, <1>4

LEMMA HeaderIs ==
  ASSUME TypeOK
  PROVE  /\ L \in Nat \ {0} /\ L \in DOMAIN headers /\ DOMAIN headers = 1 .. L
         /\ \A h \in DOMAIN headers :
              /\ capacity(h) \in Nat \ {0} /\ Caps(h) = DOMAIN headers[h].index
              /\ headers[h].index \in [Caps(h) -> Entries]
              /\ headers[h].tail \in Nat
              /\ \A z \in Int : z % capacity(h) \in Caps(h) /\ Entry(h, z) \in Entries
<1>1. L \in Nat \ {0} /\ L \in DOMAIN headers /\ DOMAIN headers = 1 .. L
  BY DEF TypeOK, L
<1>2. ASSUME NEW h \in DOMAIN headers
      PROVE  /\ capacity(h) \in Nat \ {0} /\ Caps(h) = DOMAIN headers[h].index
             /\ headers[h].index \in [Caps(h) -> Entries]
             /\ headers[h].tail \in Nat
             /\ \A z \in Int : z % capacity(h) \in Caps(h) /\ Entry(h, z) \in Entries
  <2>1. headers[h] \in Header
    BY DEF TypeOK
  <2>2. PICK k \in Nat \ {0} : headers[h].index \in [0 .. k - 1 -> Entries]
    BY <2>1 DEF Header
  <2>3. Cardinality(0 .. k - 1) = k
    BY FS_Interval
  <2>4. DOMAIN headers[h].index = 0 .. k - 1 /\ capacity(h) = k
    BY <2>2, <2>3 DEF capacity
  <2>5. Caps(h) = 0 .. k - 1
    BY <2>4 DEF Caps
  <2>6. ASSUME NEW z \in Int PROVE z % k \in 0 .. k - 1 /\ Entry(h, z) \in Entries
    <3>1. z % k \in 0 .. k - 1
      BY DivOf
    <3>2. Entry(h, z) = headers[h].index[z % k]
      BY <2>4 DEF Entry
    <3> QED BY <2>2, <3>1, <3>2
  <2> QED BY <2>1, <2>2, <2>4, <2>5, <2>6 DEF Header
<1> QED BY <1>1, <1>2

\* Two places are one entry when they are a multiple of the capacity apart.
LEMMA EntriesApart ==
  ASSUME TypeOK, HeadersInv, NEW h \in DOMAIN headers, NEW x \in Int, NEW y \in Int
  PROVE  /\ Entry(h, x) = Entry(h, y) <=> (x - y) % capacity(h) = 0
         /\ x \in Caps(h) => Entry(h, x) = headers[h].index[x]
<1>1. PICK k \in Nat \ {0} : k = capacity(h) /\ Caps(h) = 0 .. k - 1
  BY HeaderIs DEF Caps
<1>2. x % k \in Caps(h) /\ y % k \in Caps(h)
  BY <1>1, DivOf
<1>3. Entry(h, x) = Entry(h, y) <=> x % k = y % k
  BY <1>1, <1>2 DEF HeadersInv, Entry
<1>4. (x - y) % k = 0 <=> x % k = y % k
  BY MultSame
<1>5. x \in 0 .. k - 1 => x % k = x
  OBVIOUS
<1> QED BY <1>1, <1>3, <1>4, <1>5 DEF Entry

LEMMA EntriesOf ==
  ASSUME TypeOK, HeadersInv, Top \in Int
  PROVE  /\ \A n \in Int : EntryOf(n) \in Entries
         /\ \A n, m \in Int : EntryOf(n) = EntryOf(m) <=> (n - m) % capacity(L) = 0
         /\ \A e \in Entries, x \in Int : \E n \in x .. x + capacity(L) - 1 : e = EntryOf(n)
<1>1. L \in DOMAIN headers /\ capacity(L) \in Nat \ {0} /\ headers[L].tail \in Nat
  BY HeaderIs
<1>2. PICK C \in Nat \ {0}, t \in Nat, o \in Int : C = capacity(L) /\ t = headers[L].tail /\ o = Top
  BY <1>1
<1>3. \A n \in Int : EntryOf(n) = Entry(L, t + (n - o)) /\ t + (n - o) \in Int
  BY <1>2 DEF EntryOf
<1>4. \A n \in Int : EntryOf(n) \in Entries
  BY <1>1, <1>3, HeaderIs
<1>5. ASSUME NEW n \in Int, NEW m \in Int
      PROVE  EntryOf(n) = EntryOf(m) <=> (n - m) % C = 0
  <2>1. PICK x \in Int, y \in Int : x = t + (n - o) /\ y = t + (m - o)
    OBVIOUS
  <2>2. x - y = n - m
    BY <2>1
  <2>3. Entry(L, x) = Entry(L, y) <=> (x - y) % C = 0
    BY <1>1, <1>2, EntriesApart
  <2>4. EntryOf(n) = Entry(L, x) /\ EntryOf(m) = Entry(L, y)
    BY <1>3, <2>1
  <2> QED BY <2>2, <2>3, <2>4
<1>6. ASSUME NEW e \in Entries, NEW x \in Int
      PROVE  \E n \in x .. x + C - 1 : e = EntryOf(n)
  <2>1. PICK p \in Caps(L) : e = headers[L].index[p]
    BY DEF HeadersInv
  <2>2. p \in Int /\ e = Entry(L, p)
    <3>1. p \in Int
      BY <1>2 DEF Caps
    <3> QED BY <1>1, <2>1, <3>1, EntriesApart
  <2>3. PICK z \in Int : z = p - t + o
    BY <2>2
  <2>4. PICK n \in x .. x + C - 1 : (n - z) % C = 0
    BY WindowHits
  <2>5. PICK y \in Int : y = t + (n - o)
    OBVIOUS
  <2>6. y - p = n - z
    BY <2>2, <2>3, <2>5
  <2>7. Entry(L, y) = Entry(L, p)
    BY <1>1, <1>2, <2>2, <2>4, <2>6, EntriesApart
  <2>8. n \in Int /\ e = EntryOf(n)
    BY <1>3, <2>2, <2>5, <2>7
  <2> QED BY <2>8
<1> QED BY <1>2, <1>4, <1>5, <1>6

\* What the numbers are at any time.
LEMMA Basics ==
  ASSUME Settings, TypeOK, Fit
  PROVE  /\ start \in Starts /\ start \in Int
         /\ Published \in Nat /\ tailIndex = At(Published) /\ Published <= MaxItems
         /\ Claimed \in Nat /\ headIndex = At(Claimed) /\ Claimed <= Published
         /\ LastNo \in Number /\ LastNo + 1 >= InitialSize /\ LastNo \in Int
         /\ Len(pl.allocated) \in Nat /\ pl.undone \in Nat /\ pl.n \in Nat
         /\ Low \in Int /\ Top \in Int /\ Extra \in {0, 1} /\ Top = Low + Extra
         /\ Low = LastNo + Len(pl.allocated) - pl.undone
<1>1. start \in Starts /\ start \in Int
  BY StartIs DEF TypeOK
<1>2. tailIndex \in Index /\ headIndex \in Index
  BY DEF Fit, CountsType
<1>3. Published = Dist(tailIndex) /\ Claimed = Dist(headIndex)
  BY DEF Published, Claimed, Dist
<1>4. /\ Published \in Nat /\ tailIndex = At(Published)
      /\ Claimed \in Nat /\ headIndex = At(Claimed)
  BY <1>1, <1>2, <1>3, DistIs
<1>5. Published <= MaxItems /\ Claimed <= Published /\ MaxItems \in Nat /\ InitialSize \in Nat \ {0}
  BY Numbers DEF Fit
<1>6. PICK d \in Int : d = Published - 1 /\ d >= -1 /\ d <= MaxItems
  BY <1>4, <1>5
<1>7. LastNo \in Number /\ LastNo \in Int
  BY <1>6, BlockNoUp, BlockNoIs DEF LastNo
<1>8. LastNo + 1 >= InitialSize
  <2>1. BlockNo(-1) = InitialSize - 1
    <3>1. BLOCK_SIZE \in Nat \ {0}
      BY Numbers
    <3>2. -1 = BLOCK_SIZE * (-1) + (BLOCK_SIZE - 1) /\ BLOCK_SIZE - 1 \in 0 .. BLOCK_SIZE - 1 /\ -1 \in Int
      BY <3>1
    <3>3. (-1) \div BLOCK_SIZE = -1
      BY <3>1, <3>2, DivIs
    <3> QED BY <1>5, <3>3 DEF BlockNo
  <2>2. BlockNo(-1) <= BlockNo(d)
    BY <1>6, BlockNoUp
  <2> QED BY <1>5, <1>6, <1>7, <2>1, <2>2 DEF LastNo
<1>9. Len(pl.allocated) \in Nat /\ pl.undone \in Nat /\ pl.n \in Nat
  BY DEF TypeOK
<1> QED BY <1>1, <1>4, <1>5, <1>7, <1>8, <1>9 DEF Low, Top, Extra

LEMMA Placed ==
  ASSUME Settings, TypeOK, Fit, HeadersInv, NEW v \in Number, NEW w \in Number, Ring(v, w)
  PROVE  /\ \A n \in Number, e \in Entries : Has(e, n) =>
              n \in w - capacity(L) + 1 .. w /\ v <= n /\ e = EntryOf(n)
         /\ \A e \in Entries : Valid(e) => \E n \in Number : Has(e, n)
<1>1. start \in Starts /\ Top \in Int
  BY Basics
<1>2. capacity(L) \in Nat \ {0} /\ w \in Int /\ v \in Nat
  BY HeaderIs, NumberFits
<1>3. PICK C \in Nat \ {0} : C = capacity(L)
  BY <1>2
<1>4. ASSUME NEW e \in Entries, Valid(e)
      PROVE  \E n \in Number : n \in w - C + 1 .. w /\ v <= n /\ e = EntryOf(n) /\ Has(e, n)
  <2>1. PICK x \in Int : x = w - C + 1 /\ x + C - 1 = w
    BY <1>2
  <2>5. PICK n \in x .. x + C - 1 : e = EntryOf(n)
    BY <1>1, <1>3, EntriesOf
  <2>2. n \in w - C + 1 .. w
    BY <2>1
  <2>3. v <= n /\ Has(e, n)
    BY <1>3, <1>4, <2>2, <2>5 DEF Ring
  <2>4. n \in Number
    BY <1>2, <2>2, <2>3, NumberFits DEF Number
  <2> QED BY <2>2, <2>3, <2>4, <2>5
<1>5. ASSUME NEW n \in Number, NEW e \in Entries, Has(e, n)
      PROVE  n \in w - C + 1 .. w /\ v <= n /\ e = EntryOf(n)
  <2>1. Valid(e)
    <3>1. n \in Int
      BY NumberFits
    <3>2. KeyOf(n) # INVALID
      BY <1>1, <3>1, KeyIs
    <3> QED BY <1>5, <3>2 DEF Valid, Has
  <2>2. PICK m \in Number : m \in w - C + 1 .. w /\ v <= m /\ e = EntryOf(m) /\ Has(e, m)
    BY <1>4, <2>1
  <2>3. n = m
    BY <1>1, <1>5, <2>2, OffsetIs DEF Has
  <2> QED BY <2>2, <2>3
<1> QED BY <1>3, <1>4, <1>5

\* A block has at most one entry, an entry at most one block.
LEMMA OneKey ==
  ASSUME Settings, TypeOK, Fit, HeadersInv, RingInv
  PROVE  /\ \A n \in Number, e, f \in Entries : Has(e, n) /\ Has(f, n) => e = f
         /\ \A n, m \in Number, e \in Entries : Has(e, n) /\ Has(e, m) => n = m
         /\ \A e \in Entries, n \in Number : Has(e, n) => Valid(e)
         /\ \A e \in Entries : Valid(e) => \E n \in Number : Has(e, n)
<1>1. PICK v, w \in Number : Ring(v, w)
  BY DEF RingInv
<1>2. start \in Starts
  BY Basics
<1>3. \A n, m \in Number, e \in Entries : Has(e, n) /\ Has(e, m) => n = m
  BY <1>2, OffsetIs DEF Has
<1>4. ASSUME NEW e \in Entries, NEW n \in Number, Has(e, n) PROVE Valid(e)
  <2>1. n \in Int
    BY NumberFits
  <2>2. KeyOf(n) # INVALID
    BY <1>2, <2>1, KeyIs
  <2> QED BY <1>4, <2>2 DEF Valid, Has
<1>5. \A n \in Number, e, f \in Entries : Has(e, n) /\ Has(f, n) => e = f
  BY <1>1, Placed
<1>6. \A e \in Entries : Valid(e) => \E n \in Number : Has(e, n)
  BY <1>1, Placed
<1> QED BY <1>3, <1>4, <1>5, <1>6

LEMMA Phases ==
  ASSUME Settings, TypeOK, Fit, HeadersInv, RingInv, PhaseInv, NEW h \in DOMAIN headers
  PROVE  \A p \in Caps(h), n \in Number : Has(headers[h].index[p], n) => InPhase(h, p, n)
<1>1. CASE h < L
  BY <1>1 DEF PhaseInv
<1>2. CASE h = L
  <2>1. PICK v, w \in Number : Ring(v, w)
    BY DEF RingInv
  <2>2. start \in Starts /\ Top \in Int
    BY Basics
  <2>3. PICK C \in Nat \ {0}, t \in Nat, o \in Int : C = capacity(L) /\ t = headers[L].tail /\ o = Top
    BY <2>2, HeaderIs
  <2>4. ASSUME NEW p \in Caps(L), NEW n \in Number, Has(headers[L].index[p], n)
        PROVE  p \in Int /\ n \in Int /\ (p - (t + (n - o))) % C = 0
    <3>1. p \in Int /\ n \in Int
      BY <2>3, NumberFits DEF Caps
    <3>2. L \in DOMAIN headers /\ headers[L].index[p] \in Entries
      BY HeaderIs
    <3>3. headers[L].index[p] = EntryOf(n) /\ headers[L].index[p] = Entry(L, p)
      <4>1. headers[L].index[p] = EntryOf(n)
        BY <2>1, <2>4, <3>2, Placed
      <4>2. headers[L].index[p] = Entry(L, p)
        BY <2>4, <3>1, <3>2, EntriesApart
      <4> QED BY <4>1, <4>2
    <3>4. PICK y \in Int : y = t + (n - o)
      BY <3>1
    <3>5. Entry(L, p) = Entry(L, y)
      BY <2>3, <3>3, <3>4 DEF EntryOf
    <3> QED BY <2>3, <3>1, <3>2, <3>4, <3>5, EntriesApart
  <2>5. ASSUME NEW p \in Caps(L), NEW n \in Number, Has(headers[L].index[p], n),
               NEW q \in Caps(L), NEW k \in Number, Has(headers[L].index[q], k)
        PROVE  (q - p - k + n) % C = 0
    <3>1. /\ p \in Int /\ n \in Int /\ (p - (t + (n - o))) % C = 0
          /\ q \in Int /\ k \in Int /\ (q - (t + (k - o))) % C = 0
      BY <2>4, <2>5
    <3>2. PICK x \in Int, y \in Int : x = p - (t + (n - o)) /\ y = q - (t + (k - o))
      BY <3>1
    <3>3. (y - x) % C = 0
      BY <3>1, <3>2, MultSum
    <3>4. y - x = q - p - k + n
      BY <3>1, <3>2
    <3> QED BY <3>3, <3>4
  <2> QED BY <1>2, <2>3, <2>5 DEF InPhase
<1>3. h < L \/ h = L
  BY HeaderIs
<1> QED BY <1>1, <1>2, <1>3

-----------------------------------------------------------------------------
(* The enqueuing thread's expressions, in block numbers.                    *)

LEMMA NeededIs ==
  ASSUME Settings, TypeOK, Fit
  PROVE  /\ \A m \in Int : NewBase(m) = KeyOf(LastNo + m + 1)
         /\ \A n \in Nat \ {0} : Published + n <= MaxItems =>
              /\ Needed(n) = BlockNo(Published + n - 1) - LastNo
              /\ BlockNo(Published + n - 1) \in Number /\ BlockNo(Published + n - 1) >= LastNo
              /\ Base(Plus(tailIndex, n - 1)) = KeyOf(BlockNo(Published + n - 1))
<1>1. /\ start \in Starts /\ Published \in Nat /\ tailIndex = At(Published) /\ MaxItems \in Nat
      /\ LastNo \in Number /\ LastNo \in Int
  BY Basics, Numbers
<1>2. Base(Minus(tailIndex, 1)) = KeyOf(LastNo)
  <2>1. PICK d \in Int : d = Published - 1
    BY <1>1
  <2>2. Minus(At(Published), 1) = At(d)
    BY <1>1, <2>1, PlusAt
  <2>3. Base(At(d)) = KeyOf(BlockNo(d))
    BY <1>1, KeyIs
  <2> QED BY <1>1, <2>1, <2>2, <2>3 DEF LastNo
<1>3. ASSUME NEW m \in Int PROVE NewBase(m) = KeyOf(LastNo + m + 1)
  <2>1. PICK k \in Int : k = m + 1
    OBVIOUS
  <2>2. LastNo + k = LastNo + m + 1
    BY <1>1, <2>1
  <2>3. Blocks(KeyOf(LastNo), k) = KeyOf(LastNo + k)
    BY <1>1, KeyIs
  <2> QED BY <1>2, <2>1, <2>2, <2>3 DEF NewBase
<1>4. ASSUME NEW n \in Nat \ {0}, Published + n <= MaxItems
      PROVE  /\ Needed(n) = BlockNo(Published + n - 1) - LastNo
             /\ BlockNo(Published + n - 1) \in Number /\ BlockNo(Published + n - 1) >= LastNo
             /\ Base(Plus(tailIndex, n - 1)) = KeyOf(BlockNo(Published + n - 1))
  <2>1. PICK e \in Int : e = n - 1 /\ e >= 0
    OBVIOUS
  <2>2. PICK d \in Int : d = Published + e /\ d >= 0 /\ d <= MaxItems /\ d >= Published - 1
    BY <1>1, <1>4, <2>1
  <2>3. d = Published + n - 1
    BY <1>1, <2>1, <2>2
  <2>4. Plus(At(Published), e) = At(d)
    BY <1>1, <2>2, PlusAt
  <2>5. Base(At(d)) = KeyOf(BlockNo(d))
    BY <1>1, KeyIs
  <2>6. BlockNo(d) \in Number /\ BlockNo(d) \in Int
    BY <2>2, BlockNoUp, BlockNoIs
  <2>7. BlockNo(d) >= LastNo
    <3>1. PICK x \in Int : x = Published - 1 /\ x <= d
      BY <1>1, <2>2
    <3>2. BlockNo(x) <= BlockNo(d)
      BY <3>1, BlockNoUp
    <3> QED BY <1>1, <2>6, <3>1, <3>2 DEF LastNo
  <2>8. Minus(KeyOf(BlockNo(d)), KeyOf(LastNo)) \div BLOCK_SIZE = BlockNo(d) - LastNo
    BY <1>1, <2>6, <2>7, OffsetIs
  <2>9. Base(Plus(tailIndex, n - 1)) = KeyOf(BlockNo(d))
    BY <1>1, <2>1, <2>4, <2>5
  <2>a. Needed(n) = BlockNo(d) - LastNo
    BY <1>2, <2>8, <2>9 DEF Needed
  <2> QED BY <2>3, <2>6, <2>7, <2>9, <2>a
<1> QED BY <1>3, <1>4

\* In a call.
LEMMA CallIs ==
  ASSUME Settings, TypeOK, Fit, ProducerInv, ppc # "idle"
  PROVE  /\ pl.n \in Nat \ {0} /\ NeededNo \in Nat
         /\ LastNo + NeededNo \in Number /\ LastNo + NeededNo = BlockNo(Published + pl.n - 1)
         /\ LastNeeded = KeyOf(LastNo + NeededNo)
         /\ next = KeyOf(LastNo + Len(pl.allocated) + 1)
         /\ Len(pl.allocated) <= NeededNo
<1>1. /\ pl.n \in Nat /\ pl.n > 0 /\ Published + pl.n <= MaxItems /\ Len(pl.allocated) <= NeededNo
      /\ Len(pl.allocated) \in Int /\ LastNo \in Int /\ LastNo \in Number
  <2>1. pl.n > 0 /\ Published + pl.n <= MaxItems /\ Len(pl.allocated) <= NeededNo
    BY DEF ProducerInv, EnqueueInv
  <2> QED BY <2>1, Basics
<1>0. pl.n \in Nat \ {0}
  BY <1>1
<1>2. /\ BlockNo(Published + pl.n - 1) \in Number /\ BlockNo(Published + pl.n - 1) >= LastNo
      /\ Base(Plus(tailIndex, pl.n - 1)) = KeyOf(BlockNo(Published + pl.n - 1))
  BY <1>0, <1>1, NeededIs
<1>3. PICK m \in Int : m = BlockNo(Published + pl.n - 1) /\ m \in Number /\ m >= LastNo
  BY <1>2, NumberFits
<1>4. NeededNo \in Nat /\ LastNo + NeededNo = m
  BY <1>1, <1>3 DEF NeededNo
<1>5. next = KeyOf(LastNo + Len(pl.allocated) + 1)
  BY <1>1, NeededIs DEF next
<1> QED BY <1>1, <1>2, <1>3, <1>4, <1>5 DEF LastNeeded

-----------------------------------------------------------------------------
(* What steps leave alone.                                                  *)

\* The enqueuing thread's steps change nothing that consumers have counted.
LEMMA ProducerFrame ==
  ASSUME UNCHANGED <<start, headIndex, cpc, cl>>
  PROVE  /\ Holding' = Holding /\ Claimed' = Claimed
         /\ \A n : KeyOf(n)' = KeyOf(n)
         /\ \A d : At(d)' = At(d)
         /\ \A d : NotCounted(d)' <=> NotCounted(d)
         /\ \A n : Left_(n)' = Left_(n)
         /\ \A n : Pend(n)' <=> Pend(n)
         /\ \A c : Lo(c)' = Lo(c) /\ Hi(c)' = Hi(c) /\ From(c)' = From(c)
         /\ SharesInv' <=> SharesInv
<1>1. Holding' = Holding /\ Claimed' = Claimed
  BY DEF Holding, Claimed
<1>2. \A n : KeyOf(n)' = KeyOf(n)
  BY DEF KeyOf
<1>3. \A d : At(d)' = At(d)
  BY DEF At
<1>4. \A c : Lo(c)' = Lo(c) /\ Hi(c)' = Hi(c) /\ From(c)' = From(c)
  BY DEF Lo, Hi, From, Dist
<1>5. \A d : NotCounted(d)' <=> NotCounted(d)
  BY <1>1, <1>4 DEF NotCounted
<1>6. \A n : Left_(n)' = Left_(n)
  BY <1>5 DEF Left_
<1>7. \A n : Dropping(n)' <=> Dropping(n)
  BY <1>1, <1>4 DEF Dropping
<1>8. \A n : Pend(n)' <=> Pend(n)
  BY <1>6, <1>7 DEF Pend
<1>9. SharesInv' <=> SharesInv
  BY <1>1, <1>4 DEF SharesInv
<1> QED BY <1>1, <1>2, <1>3, <1>4, <1>5, <1>6, <1>8, <1>9

LEMMA KeepPlaces ==
  ASSUME headers' = headers
  PROVE  /\ L' = L /\ DOMAIN headers' = DOMAIN headers
         /\ \A h : capacity(h)' = capacity(h) /\ Caps(h)' = Caps(h)
         /\ \A h, z : Entry(h, z)' = Entry(h, z)
         /\ Top' = Top => \A n : EntryOf(n)' = EntryOf(n)
<1>1. L' = L /\ DOMAIN headers' = DOMAIN headers
  BY DEF L
<1>2. \A h : capacity(h)' = capacity(h)
  BY DEF capacity
<1>3. \A h : Caps(h)' = Caps(h)
  BY <1>2 DEF Caps
<1>4. \A h, z : Entry(h, z)' = Entry(h, z)
  BY <1>2 DEF Entry
<1> QED BY <1>1, <1>2, <1>3, <1>4 DEF EntryOf

SameKeys == Entries' = Entries /\ \A e \in Entries : entries'[e].key = entries[e].key

LEMMA KeepTypes ==
  ASSUME TypeOK,
         UNCHANGED <<start, headers, entries, slots, elementsCompletelyDequeued, tailBlock, free>>,
         pl' \in [n : 0 .. MaxBulk, allocated : Seq(Block), block : Block \cup {null}, undone : Nat],
         ppc' \in PCs
  PROVE  TypeOK'
<1>1. Header' = Header /\ EntryType' = EntryType
  BY DEF Header, EntryType, Entries
<1> QED BY <1>1 DEF TypeOK

LEMMA KeepTables ==
  ASSUME HeadersInv, headers' = headers, Entries' = Entries
  PROVE  HeadersInv'
BY KeepPlaces DEF HeadersInv

LEMMA KeepRing ==
  ASSUME TypeOK, RingInv, headers' = headers, start' = start, SameKeys, Top \in Int, HeadersInv,
         LastNo' = LastNo, Low' = Low, Top' = Top,
         ppc' \in {"expose", "block", "value", "rewind", "clear"}
           => ppc \in {"expose", "block", "value", "rewind", "clear"},
         ppc' # "grow", pl'.allocated # <<>> => pl.allocated # <<>>
  PROVE  RingInv'
<1>1. PICK v, w \in Number : Ring(v, w)
  BY DEF RingInv
<1>2. v \in Number' /\ w \in Number'
  BY <1>1 DEF Number, BlockNo
<1>3. /\ capacity(L)' = capacity(L) /\ \A n : EntryOf(n)' = EntryOf(n)
  BY KeepPlaces
<1>4. \A n \in Int : EntryOf(n) \in Entries
  BY EntriesOf
<1>5. \A n \in Int : /\ Has(EntryOf(n), n)' <=> Has(EntryOf(n), n)
                     /\ Valid(EntryOf(n))' <=> Valid(EntryOf(n))
  BY <1>3, <1>4 DEF SameKeys, Has, Valid, KeyOf
<1>6. w - capacity(L) + 1 \in Int /\ w \in Int
  BY <1>1, HeaderIs DEF Number
<1>7. Ring(v, w)'
  BY <1>1, <1>3, <1>5, <1>6 DEF Ring
<1> QED BY <1>2, <1>7 DEF RingInv

\* The tables have the entries that they had.
SameTables ==
  /\ L' = L /\ DOMAIN headers' = DOMAIN headers
  /\ \A h \in DOMAIN headers : headers'[h].index = headers[h].index

LEMMA KeepPhase ==
  ASSUME TypeOK, PhaseInv, SameTables, start' = start, SameKeys
  PROVE  /\ PhaseInv'
         /\ \A h \in DOMAIN headers : \A pos, n : InPhase(h, pos, n) => InPhase(h, pos, n)'
<1>1. /\ L' = L /\ DOMAIN headers' = DOMAIN headers
      /\ \A h \in DOMAIN headers : capacity(h)' = capacity(h) /\ Caps(h)' = Caps(h)
  BY DEF SameTables, capacity, Caps
<1>2. ASSUME NEW h \in DOMAIN headers, NEW p \in Caps(h)
      PROVE  /\ Valid(headers[h].index[p])' <=> Valid(headers[h].index[p])
             /\ \A n : Has(headers[h].index[p], n)' <=> Has(headers[h].index[p], n)
  <2>1. headers[h].index[p] \in Entries
    BY HeaderIs
  <2>2. headers'[h].index[p] = headers[h].index[p]
    BY DEF SameTables
  <2> QED BY <2>1, <2>2 DEF SameKeys, Has, Valid, KeyOf
<1>3. Number' = Number
  BY DEF Number, BlockNo
<1>4. ASSUME NEW h \in DOMAIN headers, NEW pos, NEW n
      PROVE  InPhase(h, pos, n) <=> InPhase(h, pos, n)'
  BY <1>1, <1>2, <1>3 DEF InPhase
<1>5. PhaseInv'
  BY <1>1, <1>2, <1>3, <1>4 DEF PhaseInv
<1> QED BY <1>4, <1>5

\* What is in the index should be.
LEMMA HeldWanted ==
  ASSUME Settings, TypeOK, Fit, HeadersInv, RingInv, HeldInv
  PROVE  \A n \in Number, e \in Entries : Held(n, e) => Want(n)
<1> SUFFICES ASSUME NEW n \in Number, NEW e \in Entries, Held(n, e) PROVE Want(n)
  OBVIOUS
<1>1. Has(e, n) /\ entries[e].value # null
  BY DEF Held
<1>2. PICK m \in Number : Has(e, m) /\ Want(m)
  BY <1>1 DEF HeldInv
<1>3. n = m
  BY <1>1, <1>2, OneKey
<1> QED BY <1>2, <1>3

\* The index holds the blocks that it held.
SameHeld == /\ Entries \subseteq Entries' /\ \A e \in Entries' \ Entries : entries'[e].value = null
            /\ \A e \in Entries : entries'[e].value = entries[e].value
            /\ \A n \in Number : \A e \in Entries : Held(n, e)' <=> Held(n, e)

LEMMA KeepHeld ==
  ASSUME Settings, TypeOK, Fit, HeadersInv, RingInv, HeldInv, start' = start, SameHeld, LastNo' = LastNo,
         \A n \in Number : n > LastNo /\ Want(n) => pl'.allocated[n - LastNo] = pl.allocated[n - LastNo],
         \A n \in Number : Want(n)' <=> Want(n)
  PROVE  HeldInv'
<1>1. /\ Number' = Number /\ Entries \subseteq Entries' /\ \A e \in Entries : entries'[e].value = entries[e].value
      /\ \A e \in Entries' \ Entries : entries'[e].value = null
      /\ \A n \in Number : \A e \in Entries : Held(n, e)' <=> Held(n, e)
  BY DEF Number, BlockNo, SameHeld
<1>2. \A n \in Number, e \in Entries : Held(n, e) => Want(n)
  BY HeldWanted
<1>0. \A e \in Entries' : \A n : Held(n, e)' => e \in Entries
  BY <1>1 DEF Held
<1>3. ASSUME NEW e \in Entries', entries'[e].value # null
      PROVE  \E n \in Number : Has(e, n)' /\ Want(n)'
  <2>0. e \in Entries
    BY <1>1, <1>3
  <2>1. PICK n \in Number : Has(e, n) /\ Want(n)
    BY <1>1, <1>3, <2>0 DEF HeldInv
  <2>2. Held(n, e)
    BY <1>1, <1>3, <2>0, <2>1 DEF Held
  <2>3. Held(n, e)'
    BY <1>1, <2>0, <2>2
  <2> QED BY <2>1, <2>3 DEF Held
<1>4. \A n \in Number : Want(n)' => \E e \in Entries' : Held(n, e)'
  BY <1>1 DEF HeldInv
<1>5. \A n \in Number : \A e \in Entries' : Held(n, e)' /\ n > LastNo => entries'[e].value = pl'.allocated[n - LastNo]
  BY <1>0, <1>1, <1>2 DEF HeldInv
<1>6. \A e, f \in Entries' : entries'[e].value = entries'[f].value /\ entries'[e].value # null => e = f
  BY <1>1 DEF HeldInv
<1> QED BY <1>1, <1>3, <1>4, <1>5, <1>6 DEF HeldInv

LEMMA KeepBlocks ==
  ASSUME BlockInv, start' = start, SameHeld, free' = free,
         elementsCompletelyDequeued' = elementsCompletelyDequeued, slots' = slots,
         \A n \in Number, k \in Place : Unread(ItemOf(n, k))' <=> Unread(ItemOf(n, k)),
         \A n \in Number : Left_(n)' = Left_(n),
         {pl.block} \cup {pl.allocated[i] : i \in DOMAIN pl.allocated}
            \subseteq {pl'.block} \cup {pl'.allocated[i] : i \in DOMAIN pl'.allocated} \cup {null},
         {cl[c].block : c \in {d \in Consumer : cpc[d] = "free"}}
            \subseteq {cl'[c].block : c \in {d \in Consumer : cpc'[d] = "free"}},
         null \notin Block
  PROVE  BlockInv'
<1>1. /\ Number' = Number /\ Entries \subseteq Entries' /\ \A e \in Entries : entries'[e].value = entries[e].value
      /\ \A e \in Entries' \ Entries : entries'[e].value = null
  BY DEF Number, BlockNo, SameHeld
<1>2. /\ \A n \in Number : \A e \in Entries : Held(n, e)' <=> Held(n, e)
      /\ \A e \in Entries' : \A n : Held(n, e)' => e \in Entries
  BY <1>1 DEF SameHeld, Held
<1>3. \A b : \A n \in Number : Filled(b, n)' <=> Filled(b, n)
  BY DEF Filled, At, ItemOf
<1>4. \A b : Empty(b)' <=> Empty(b)
  BY DEF Empty
<1>5. \A n \in Number, e \in Entries : Held(n, e) =>
         /\ entries[e].value \notin free
         /\ elementsCompletelyDequeued[entries[e].value] + Cardinality(Left_(n)) = BLOCK_SIZE
         /\ Filled(entries[e].value, n)
  BY DEF BlockInv
<1>6. \A b \in free : Empty(b)
  BY DEF BlockInv
<1>7. Indexed' = Indexed
  BY <1>1 DEF Indexed
<1>8. Block \subseteq free' \cup Indexed' \cup {pl'.block}
          \cup {pl'.allocated[i] : i \in DOMAIN pl'.allocated}
          \cup {cl'[c].block : c \in {d \in Consumer : cpc'[d] = "free"}}
  BY <1>7 DEF BlockInv
<1> QED BY <1>1, <1>2, <1>3, <1>4, <1>5, <1>6, <1>8 DEF BlockInv

\* Blocks that consumers other than the one that takes a step look for.
Staying(n) == \/ Left_(n) # {}
              \/ \E c \in Holding : cpc[c] = "drop" /\ cpc'[c] = "drop" /\ BlockNo(Lo(c) - 1) = n

LEMMA StayingIs ==
  ASSUME UNCHANGED cpc
  PROVE  \A n : Staying(n) <=> Pend(n)
BY DEF Staying, Pend, Dropping

\* What a step may not change of the index, for a consumer that reads: entries
\* of blocks with items, and phases.
IndexKept ==
  /\ \A h \in DOMAIN headers :
       /\ h \in DOMAIN headers'
       /\ headers[h].index = headers'[h].index
       /\ \A p \in Caps(h) : Valid(headers[h].index[p]) => Valid(headers[h].index[p])'
       /\ \A pos \in Int, n \in Number :
            (\E m \in Number : Positioned(h, m)) /\ InPhase(h, pos, n) => InPhase(h, pos, n)'
  /\ \A n \in Number, e \in Entries : n <= LastNo /\ Held(n, e) /\ Staying(n) =>
        e \in Entries' /\ Held(n, e)' /\ entries'[e].value = entries[e].value

\* Items that a consumer has are in blocks of the index.
LEMMA ReadersItems ==
  ASSUME Settings, TypeOK, Fit, HeldInv, NEW c \in Holding, ConsumerInv(c)
  PROVE  /\ Lo(c) \in Int /\ Hi(c) \in Int /\ From(c) \in Int
         /\ Lo(c) \in Nat /\ Hi(c) \in Nat /\ From(c) \in Nat
         /\ From(c) <= Lo(c) /\ Lo(c) <= Hi(c) /\ Hi(c) <= Claimed
         /\ \A d \in From(c) .. Hi(c) - 1 :
              /\ NotCounted(d) /\ BlockNo(d) \in Number /\ BlockNo(d) <= LastNo /\ Pend(BlockNo(d))
              /\ BlockNo(d) >= InitialSize /\ d % BLOCK_SIZE \in Left_(BlockNo(d))
<1>1. /\ start \in Starts /\ cl[c] \in Reading /\ c \in Consumer
      /\ 0 <= From(c) /\ From(c) <= Lo(c) /\ Lo(c) <= Hi(c) /\ Hi(c) <= Claimed
  BY DEF ConsumerInv, TypeOK, Holding
<1>2. cl[c].index \in Index /\ cl[c].end \in Index
  BY <1>1 DEF Reading
<1>3. Lo(c) \in Nat /\ Hi(c) \in Nat
  BY <1>1, <1>2, DistIs DEF Lo, Hi
<1>4. From(c) \in Int
  <2>1. CASE cpc[c] # "empty"
    BY <1>3, <2>1 DEF From
  <2>2. CASE cpc[c] = "empty"
    <3>1. JustRead(cl[c]) \in Int
      <4>1. cl[c].items \in Seq(Index \cup {Dead})
        BY <1>1 DEF Reading
      <4>2. Len(cl[c].items) \in Nat
        BY <4>1
      <4>3. Minus(cl[c].index, 1) \in Int
        BY <1>2, Numbers DEF Minus, Index
      <4>4. Minus(cl[c].index, 1) % BLOCK_SIZE \in Int
        BY <4>3, Numbers, DivOf
      <4> QED BY <4>2, <4>4 DEF JustRead, Fewer
    <3> QED BY <1>3, <3>1 DEF From
  <2> QED BY <2>1, <2>2
<1>5. ASSUME NEW d \in From(c) .. Hi(c) - 1
      PROVE  /\ NotCounted(d) /\ BlockNo(d) \in Number /\ BlockNo(d) <= LastNo /\ Pend(BlockNo(d))
             /\ BlockNo(d) >= InitialSize /\ d % BLOCK_SIZE \in Left_(BlockNo(d))
  <2>1. d \in Int /\ 0 <= d /\ From(c) <= d /\ d < Hi(c)
    BY <1>1, <1>3, <1>4
  <2>2. NotCounted(d)
    BY <2>1 DEF NotCounted
  <2>3. /\ Claimed <= Published /\ Published <= MaxItems /\ Published \in Nat /\ Claimed \in Nat
        /\ MaxItems \in Nat
    BY Basics, Numbers
  <2>4. d >= -1 /\ d <= MaxItems /\ d <= Published - 1
    BY <1>1, <1>3, <2>1, <2>3
  <2>5. BlockNo(d) \in Number /\ BlockNo(d) >= InitialSize
    BY <2>1, <2>4, BlockNoUp
  <2>6. BlockNo(d) <= LastNo
    <3>1. Published - 1 \in Int
      BY <2>3
    <3> QED BY <2>1, <2>4, <3>1, BlockNoUp DEF LastNo
  <2>7. d % BLOCK_SIZE \in Place /\ ItemOf(BlockNo(d), d % BLOCK_SIZE) = d
    BY <2>1, BlockNoIs
  <2>8. d % BLOCK_SIZE \in Left_(BlockNo(d))
    BY <2>2, <2>7 DEF Left_
  <2>9. Pend(BlockNo(d))
    BY <2>8 DEF Pend
  <2> QED BY <2>2, <2>5, <2>6, <2>8, <2>9
<1> QED BY <1>1, <1>3, <1>4, <1>5

LEMMA KeepConsumer ==
  ASSUME Settings, TypeOK, Fit, HeldInv, NEW c \in Holding, ConsumerInv(c),
         start' = start, cpc'[c] = cpc[c], cl'[c] = cl[c], Claimed <= Claimed', Claimed' \in Int,
         IndexKept,
         \A n \in Int : Left_(n) = {} => Left_(n)' = {},
         cpc[c] = "free" => LET b == cl[c].block
                            IN  /\ b \in Block \ (free' \cup Indexed' \cup {pl'.block}) /\ Empty(b)'
                                /\ \A i \in DOMAIN pl'.allocated : pl'.allocated[i] # b
  PROVE  ConsumerInv(c)'
<1>l. PICK l, h, no : /\ l = cl[c] /\ h = l.header
                      /\ no = IF cpc[c] \in {"entry", "read"} THEN BlockNo(Lo(c)) ELSE BlockNo(Lo(c) - 1)
  OBVIOUS
<1>m. cl'[c] = l
  BY <1>l
<1>1. Lo(c)' = Lo(c) /\ Hi(c)' = Hi(c) /\ From(c)' = From(c) /\ \A d : BlockNo(d)' = BlockNo(d)
  BY DEF Lo, Hi, From, Dist, BlockNo
<1>0. no = IF cpc'[c] \in {"entry", "read"} THEN BlockNo(Lo(c))' ELSE BlockNo(Lo(c) - 1)'
  BY <1>l, <1>1
<1>2. /\ Lo(c) \in Int /\ Hi(c) \in Int /\ From(c) \in Int /\ Lo(c) \in Nat
      /\ From(c) <= Lo(c) /\ Lo(c) <= Hi(c) /\ Hi(c) <= Claimed /\ Claimed \in Int
      /\ \A d \in From(c) .. Hi(c) - 1 : BlockNo(d) \in Number /\ BlockNo(d) <= LastNo /\ Staying(BlockNo(d))
  BY ReadersItems, Basics DEF Staying
<1>3. /\ l \in Reading'
      /\ 0 <= From(c)' /\ From(c)' <= Lo(c)' /\ Lo(c)' <= Hi(c)' /\ Hi(c)' <= Claimed'
      /\ l.items # <<>> /\ Lo(c)' < Hi(c)' => Lo(c)' % BLOCK_SIZE = 0
      /\ IF cpc'[c] \in {"empty", "drop", "free"} THEN l.items # <<>> /\ Lo(c)' > 0 ELSE Lo(c)' < Hi(c)'
      /\ cpc'[c] = "empty" => JustRead(cl[c])' > 0 /\ BlockNo(From(c))' = BlockNo(Lo(c) - 1)'
  <2>1. l \in Reading /\ l \in Reading'
    BY <1>l DEF ConsumerInv, Reading
  <2> QED BY <1>l, <1>1, <1>2, <2>1 DEF ConsumerInv
<1>4. ASSUME cpc[c] # "header"
      PROVE  /\ h \in DOMAIN headers /\ h \in DOMAIN headers'
             /\ headers'[h].index = headers[h].index
             /\ \A d \in From(c) .. Hi(c) - 1 : Positioned(h, BlockNo(d)) /\ Positioned(h, BlockNo(d))'
  <2>1. h \in DOMAIN headers /\ h \in DOMAIN headers' /\ headers'[h].index = headers[h].index
    BY <1>l, <1>4 DEF ConsumerInv, IndexKept
  <2>2. Caps(h)' = Caps(h)
    BY <2>1 DEF Caps, capacity
  <2>3. ASSUME NEW d \in From(c) .. Hi(c) - 1
        PROVE  Positioned(h, BlockNo(d)) /\ Positioned(h, BlockNo(d))'
    <3>1. PICK p \in Caps(h) : Held(BlockNo(d), headers[h].index[p])
      BY <1>l, <1>4 DEF ConsumerInv, Positioned
    <3>2. headers[h].index[p] \in Entries
      BY <2>1, HeaderIs
    <3>3. Held(BlockNo(d), headers[h].index[p])'
      BY <1>1, <1>2, <2>1, <3>1, <3>2 DEF IndexKept, Held, Has
    <3> QED BY <2>2, <3>1, <3>3 DEF Positioned
  <2> QED BY <2>1, <2>3
<1>5. cpc[c] = "key" => l.pos \in Caps(h)' /\ Valid(headers[h].index[l.pos])'
  <2> SUFFICES ASSUME cpc[c] = "key" PROVE l.pos \in Caps(h)' /\ Valid(headers[h].index[l.pos])'
    OBVIOUS
  <2>1. l.pos \in Caps(h) /\ Valid(headers[h].index[l.pos])
    BY <1>l DEF ConsumerInv
  <2> QED BY <1>4, <2>1 DEF IndexKept, Caps, capacity
<1>6. ASSUME cpc[c] \in {"entry", "read", "empty", "drop"} \/ (cpc[c] = "free" /\ Lo(c) < Hi(c))
      PROVE  InPhase(h, l.pos, no)'
  <2>1. InPhase(h, l.pos, no) /\ l.pos \in Int
    BY <1>l, <1>6 DEF ConsumerInv, Reading
  <2>2. no \in Number
    <3>1. CASE cpc[c] \in {"entry", "read"}
      <4>1. Lo(c) < Hi(c) /\ From(c) = Lo(c)
        BY <1>l, <3>1 DEF ConsumerInv, From
      <4>2. Lo(c) \in From(c) .. Hi(c) - 1
        BY <1>2, <4>1
      <4> QED BY <1>l, <1>2, <3>1, <4>2
    <3>2. CASE ~ cpc[c] \in {"entry", "read"}
      <4>1. Lo(c) - 1 \in Int /\ Lo(c) - 1 >= -1 /\ Lo(c) - 1 <= MaxItems
        <5>1. Claimed <= MaxItems /\ MaxItems \in Nat
          BY Basics, Numbers
        <5> QED BY <1>2, <5>1
      <4>2. BlockNo(Lo(c) - 1) \in Number
        BY <4>1, BlockNoUp
      <4> QED BY <1>l, <3>2, <4>2
    <3> QED BY <3>1, <3>2
  <2>3. \E m \in Number : Positioned(h, m)
    <3>1. CASE cpc[c] \in {"read", "empty", "drop"}
      <4>1. Held(no, Entry(h, l.pos))
        BY <1>l, <3>1 DEF ConsumerInv
      <4>2. h \in DOMAIN headers
        BY <1>4, <3>1
      <4>3. l.pos % capacity(h) \in Caps(h)
        BY <2>1, <4>2, HeaderIs
      <4> QED BY <2>2, <4>1, <4>3 DEF Positioned, Entry
    <3>2. CASE cpc[c] \in {"entry", "free"}
      <4>1. Lo(c) < Hi(c) /\ From(c) = Lo(c)
        BY <1>l, <1>6, <3>2 DEF ConsumerInv, From
      <4>2. Lo(c) \in From(c) .. Hi(c) - 1
        BY <1>2, <4>1
      <4> QED BY <1>2, <1>4, <3>2, <4>2
    <3> QED BY <1>6, <3>1, <3>2
  <2>4. InPhase(h, l.pos, no)' <=> (\A p \in Caps(h)', k \in Number' :
           Has(headers[h].index[p], k)' => (p - l.pos - k + no) % capacity(h)' = 0)
    BY <1>0 DEF InPhase
  <2>5. h \in DOMAIN headers
    BY <1>4, <1>6
  <2>6. \A pos \in Int, n \in Number :
            (\E m \in Number : Positioned(h, m)) /\ InPhase(h, pos, n) => InPhase(h, pos, n)'
    BY <2>5 DEF IndexKept
  <2> QED BY <2>1, <2>2, <2>3, <2>6
<1>7. ASSUME cpc[c] \in {"read", "empty", "drop"}
      PROVE  Held(no, Entry(h, l.pos))' /\ l.block = entries'[Entry(h, l.pos)'].value
  <2>1. Held(no, Entry(h, l.pos)) /\ l.block = entries[Entry(h, l.pos)].value /\ l.pos \in Int
    BY <1>l, <1>7 DEF ConsumerInv, Reading
  <2>2. h \in DOMAIN headers /\ headers'[h].index = headers[h].index
    BY <1>4, <1>7
  <2>3. Entry(h, l.pos) \in Entries
    BY <2>1, <2>2, HeaderIs
  <2>4. Entry(h, l.pos)' = Entry(h, l.pos)
    BY <2>2 DEF Entry, capacity
  <2>5. no \in Number /\ no <= LastNo /\ Staying(no)
    <3>1. CASE cpc[c] = "read"
      <4>1. Lo(c) < Hi(c) /\ From(c) = Lo(c) /\ no = BlockNo(Lo(c))
        BY <1>l, <3>1 DEF ConsumerInv, From
      <4>2. Lo(c) \in From(c) .. Hi(c) - 1
        BY <1>2, <4>1
      <4> QED BY <1>2, <4>1, <4>2
    <3>2. CASE cpc[c] = "empty"
      <4>1. JustRead(cl[c]) > 0 /\ BlockNo(From(c)) = no
        BY <1>l, <3>2 DEF ConsumerInv
      <4>2. From(c) = Lo(c) - JustRead(cl[c])
        BY <3>2 DEF From
      <4>3. Len(cl[c].items) \in Nat
        BY <1>l DEF ConsumerInv, Reading
      <4>4. JustRead(cl[c]) \in Int
        <5>1. cl[c].index \in Index
          BY <1>l DEF ConsumerInv, Reading
        <5>2. Minus(cl[c].index, 1) \in Int
          BY <5>1, Numbers DEF Minus, Index
        <5>3. Minus(cl[c].index, 1) % BLOCK_SIZE \in Int
          BY <5>2, Numbers, DivOf
        <5> QED BY <4>3, <5>3 DEF JustRead, Fewer
      <4>5. From(c) \in From(c) .. Hi(c) - 1
        BY <1>2, <4>1, <4>2, <4>4
      <4> QED BY <1>2, <4>1, <4>5
    <3>3. CASE cpc[c] = "drop"
      <4>1. no = BlockNo(Lo(c) - 1)
        BY <1>l, <3>3
      <4>2. Staying(no)
        BY <3>3, <4>1 DEF Staying
      <4>3. Lo(c) - 1 \in Int /\ Lo(c) - 1 >= -1 /\ Lo(c) - 1 <= MaxItems /\ Lo(c) - 1 <= Published - 1
            /\ Published - 1 \in Int
        <5>1. Claimed <= Published /\ Published <= MaxItems /\ MaxItems \in Nat /\ Published \in Nat
          BY Basics, Numbers
        <5> QED BY <1>2, <5>1
      <4>4. BlockNo(Lo(c) - 1) \in Number /\ BlockNo(Lo(c) - 1) <= LastNo
        BY <4>3, BlockNoUp DEF LastNo
      <4> QED BY <4>1, <4>2, <4>4
    <3> QED BY <1>7, <3>1, <3>2, <3>3
  <2>6. Held(no, Entry(h, l.pos))' <=> Has(Entry(h, l.pos), no)' /\ entries'[Entry(h, l.pos)'].value # null
    BY <2>4 DEF Held
  <2>7. Held(no, Entry(h, l.pos))' /\ entries'[Entry(h, l.pos)].value = entries[Entry(h, l.pos)].value
    BY <1>0, <2>1, <2>3, <2>4, <2>5 DEF IndexKept, Held, Has
  <2> QED BY <2>1, <2>4, <2>7
<1>8. cpc[c] = "drop" => Left_(no)' = {}
  <2>1. cpc[c] = "drop" => Left_(no) = {}
    BY <1>l DEF ConsumerInv
  <2>2. Lo(c) \in Int /\ Lo(c) - 1 \in Int
    BY <1>2
  <2>3. no \in Int
    BY <1>l, <2>2, BlockNoIs
  <2> QED BY <2>1, <2>3
<1>9. cpc[c] = "free" => /\ l.block \in Block \ (free' \cup Indexed' \cup {pl'.block}) /\ Empty(l.block)'
                         /\ \A i \in DOMAIN pl'.allocated : pl'.allocated[i] # l.block
  BY <1>l
<1> QED BY <1>m, <1>0, <1>l, <1>1, <1>3, <1>4, <1>5, <1>6, <1>7, <1>8, <1>9 DEF ConsumerInv

\* The invariant, as long as the queue is not destroyed.
Living == IInv /\ ppc # "destroyed"

LEMMA LivingParts ==
  ASSUME Living
  PROVE  /\ TypeOK /\ HeadersInv /\ RingInv /\ PhaseInv /\ HeldInv /\ BlockInv /\ ProducerInv /\ SharesInv
         /\ \A c \in Holding : ConsumerInv(c)
BY DEF Living, IInv

LEMMA IndexSame ==
  ASSUME Settings, Living, SameTables, start' = start, entries' = entries
  PROVE  IndexKept /\ PhaseInv' /\ SameHeld
<1>1. TypeOK /\ PhaseInv
  BY LivingParts
<1>2. SameKeys
  BY DEF SameKeys, Entries
<1>3. /\ PhaseInv'
      /\ \A h \in DOMAIN headers : \A pos, n : InPhase(h, pos, n) => InPhase(h, pos, n)'
  BY <1>1, <1>2, KeepPhase
<1>4. \A n, e : Has(e, n)' <=> Has(e, n)
  BY DEF Has, KeyOf
<1>5. \A n, e : Held(n, e)' <=> Held(n, e)
  BY <1>4 DEF Held
<1>6. \A h \in DOMAIN headers : \A p : Valid(headers[h].index[p]) => Valid(headers[h].index[p])'
  BY DEF Valid, SameTables
<1> QED BY <1>3, <1>5, <1>6 DEF IndexKept, SameTables, SameHeld, Entries

\* The consumers, at a step of the enqueuing thread.
LEMMA ProducerConsumers ==
  ASSUME Settings, Fit, Living, UNCHANGED <<start, headIndex, cpc, cl>>, IndexKept,
         \A b \in Block : b \notin free \cup Indexed \cup {pl.block} /\ Empty(b)
                          /\ (\A i \in DOMAIN pl.allocated : pl.allocated[i] # b)
                          => b \notin free' \cup Indexed' \cup {pl'.block} /\ Empty(b)'
                             /\ (\A i \in DOMAIN pl'.allocated : pl'.allocated[i] # b)
  PROVE  (\A c \in Holding' : ConsumerInv(c)') /\ SharesInv'
<1>1. TypeOK /\ HeldInv /\ SharesInv /\ \A c \in Holding : ConsumerInv(c)
  BY LivingParts
<1>2. Holding' = Holding /\ Claimed' = Claimed /\ (SharesInv' <=> SharesInv) /\ \A n : Left_(n)' = Left_(n)
  BY ProducerFrame
<1>3. Claimed \in Nat
  BY <1>1, Basics
<1>4. ASSUME NEW c \in Holding PROVE ConsumerInv(c)'
  <2>1. ConsumerInv(c)
    BY <1>1
  <2>2. cpc[c] = "free" => LET b == cl[c].block
                           IN  /\ b \in Block \ (free' \cup Indexed' \cup {pl'.block}) /\ Empty(b)'
                               /\ \A i \in DOMAIN pl'.allocated : pl'.allocated[i] # b
    <3> SUFFICES ASSUME cpc[c] = "free"
                 PROVE  /\ cl[c].block \in Block \ (free' \cup Indexed' \cup {pl'.block}) /\ Empty(cl[c].block)'
                        /\ \A i \in DOMAIN pl'.allocated : pl'.allocated[i] # cl[c].block
      OBVIOUS
    <3>0. PICK b : b = cl[c].block
      OBVIOUS
    <3>1. /\ b \in Block \ (free \cup Indexed \cup {pl.block}) /\ Empty(b)
          /\ \A i \in DOMAIN pl.allocated : pl.allocated[i] # b
      BY <2>1, <3>0 DEF ConsumerInv
    <3>2. b \notin free' \cup Indexed' \cup {pl'.block} /\ Empty(b)'
          /\ (\A i \in DOMAIN pl'.allocated : pl'.allocated[i] # b)
      BY <3>1
    <3>3. Empty(b)' <=> Empty(cl[c].block)'
      BY <3>0 DEF Empty
    <3> QED BY <3>0, <3>1, <3>2, <3>3
  <2>3. Claimed <= Claimed' /\ Claimed' \in Int
    BY <1>2, <1>3
  <2> QED BY <1>1, <1>2, <2>1, <2>2, <2>3, KeepConsumer
<1> QED BY <1>1, <1>2, <1>4

\* Steps of the enqueuing thread that move no block and no item.
LEMMA KeepTail ==
  ASSUME Settings, Fit, Living, UNCHANGED <<start, headIndex, cpc, cl, tailBlock>>, IndexKept,
         LastNo' = LastNo, ppc # "publish", ppc' # "publish"
  PROVE  TailInv'
<1> SUFFICES ASSUME LastNo >= InitialSize, Pend(LastNo)'
             PROVE  \E e \in Entries' : Held(LastNo, e)' /\ entries'[e].value = tailBlock
  BY DEF TailInv
<1>1. Staying(LastNo) /\ Pend(LastNo)
  <2>1. \A m : Pend(m)' <=> Pend(m)
    BY ProducerFrame
  <2> QED BY <2>1, StayingIs
<1>2. TailInv /\ LastNo \in Number /\ LastNo \in Int
  BY LivingParts, Basics DEF ProducerInv
<1>3. PICK e \in Entries : Held(LastNo, e) /\ entries[e].value = tailBlock
  BY <1>1, <1>2 DEF TailInv
<1>4. e \in Entries' /\ entries'[e].value = entries[e].value
  BY <1>1, <1>2, <1>3 DEF IndexKept
<1>5. PICK n \in Number : n = LastNo
  BY <1>2
<1>6. Held(n, e)'
  BY <1>1, <1>2, <1>3, <1>5 DEF IndexKept
<1>7. Held(LastNo, e)'
  BY <1>5, <1>6
<1> QED BY <1>3, <1>4, <1>7

LEMMA ProducerKeeps ==
  ASSUME Settings, Fit, Living, UNCHANGED <<start, counts, cpc, cl, blocks>>, SameHeld, IndexKept,
         pl'.allocated = pl.allocated, pl'.block = pl.block, \A i \in Int : Kept(i)' <=> Kept(i),
         ppc # "publish", ppc' # "publish"
  PROVE  /\ HeldInv' /\ BlockInv' /\ SharesInv'
         /\ \A c \in Holding' : ConsumerInv(c)'
         /\ HandInv' /\ AllocatedInv' /\ (tailBlock' = tailBlock => TailInv')
<1>0. TypeOK /\ HeadersInv /\ RingInv /\ HeldInv /\ BlockInv /\ null \notin Block
  BY LivingParts, Numbers
<1>1. /\ Entries \subseteq Entries' /\ \A e \in Entries : entries'[e].value = entries[e].value
      /\ \A e \in Entries' \ Entries : entries'[e].value = null
  BY DEF SameHeld
<1>2. UNCHANGED <<start, headIndex, tailIndex, cpc, cl, slots, elementsCompletelyDequeued, free>>
  BY DEF counts, blocks
<1>3. Published' = Published /\ Claimed' = Claimed /\ LastNo' = LastNo /\ LastNo \in Int
  BY <1>0, <1>2, Basics DEF Published, Claimed, LastNo, BlockNo
<1>4. /\ \A n : Pend(n)' <=> Pend(n)
      /\ \A n : Left_(n)' = Left_(n)
      /\ \A d : NotCounted(d)' <=> NotCounted(d)
      /\ Holding' = Holding /\ \A c : Lo(c)' = Lo(c) /\ Hi(c)' = Hi(c)
  BY <1>2, ProducerFrame
<1>5. \A n \in Number : Want(n)' <=> Want(n)
  <2> SUFFICES ASSUME NEW n \in Number PROVE Want(n)' <=> Want(n)
    OBVIOUS
  <2>1. n - LastNo \in Int
    BY <1>3, NumberFits
  <2> QED BY <1>3, <1>4, <2>1 DEF Want
<1>6. HeldInv'
  BY <1>0, <1>3, <1>5, KeepHeld
<1>7. \A d : Unread(d)' <=> Unread(d)
  BY <1>3, <1>4 DEF Unread
<1>8. BlockInv'
  BY <1>0, <1>2, <1>4, <1>7, KeepBlocks
<1>9. \A b : Empty(b)' <=> Empty(b)
  BY <1>2 DEF Empty
<1>a. Indexed' = Indexed
  BY <1>1 DEF Indexed
<1>b. (\A c \in Holding' : ConsumerInv(c)') /\ SharesInv'
  BY <1>2, <1>9, <1>a, ProducerConsumers
<1>c. HandInv' /\ AllocatedInv'
  <2>1. HandInv /\ AllocatedInv
    BY LivingParts DEF ProducerInv
  <2>2. HandInv'
    BY <1>2, <1>9, <1>a, <2>1 DEF HandInv
  <2>3. \A i \in DOMAIN pl.allocated : i \in Int
    BY <1>0 DEF TypeOK
  <2>4. AllocatedInv'
    BY <1>2, <1>9, <1>a, <2>1, <2>3 DEF AllocatedInv
  <2> QED BY <2>2, <2>4
<1>d. tailBlock' = tailBlock => TailInv'
  BY <1>2, <1>3, KeepTail
<1> QED BY <1>6, <1>8, <1>b, <1>c, <1>d

-----------------------------------------------------------------------------
(* The enqueuing thread's steps.                                            *)

LEMMA CallKept ==
  ASSUME Settings, Fit, Living, CallEnqueue
  PROVE  Living'
<1>0. /\ TypeOK /\ HeadersInv /\ RingInv /\ PhaseInv /\ HeldInv /\ BlockInv /\ ProducerInv
      /\ ppc = "idle" /\ pl = NoEnqueue
  BY LivingParts DEF ProducerInv, EnqueueInv, CallEnqueue
<1>1. PICK n \in 1 .. MaxBulk :
        /\ Minus(tailIndex, start) + n <= MaxItems
        /\ pl' = [NoEnqueue EXCEPT !.n = n]
        /\ ppc' = IF Needed(n) > 0 THEN "room" ELSE "construct"
        /\ UNCHANGED <<start, counts, cpc, cl, index, blocks, tailBlock>>
  BY DEF CallEnqueue
<1>2. /\ UNCHANGED <<start, counts, cpc, cl, headers, entries, slots, elementsCompletelyDequeued, free, tailBlock>>
      /\ UNCHANGED blocks /\ UNCHANGED headIndex /\ UNCHANGED tailIndex
      /\ pl' = [n |-> n, allocated |-> <<>>, block |-> null, undone |-> 0]
      /\ pl.allocated = <<>> /\ pl.block = null /\ pl.undone = 0
      /\ MaxBulk \in Nat /\ n \in Nat \ {0} /\ ppc' \in {"room", "construct"}
  BY <1>0, <1>1, Numbers DEF index, blocks, NoEnqueue, counts
<1>3. TypeOK'
  <2>1. pl' \in [n : 0 .. MaxBulk, allocated : Seq(Block), block : Block \cup {null}, undone : Nat]
    BY <1>2
  <2>2. ppc' \in PCs
    BY <1>2 DEF PCs
  <2> QED BY <1>0, <1>2, <2>1, <2>2, KeepTypes
<1>4. Published' = Published /\ LastNo' = LastNo /\ Published + n <= MaxItems /\ LastNo \in Int
  BY <1>0, <1>1, <1>2, Basics DEF Published, LastNo, BlockNo
<1>5. Low' = Low /\ Top' = Top /\ Top \in Int /\ Low = LastNo
  <2>1. Low' = Low /\ Top \in Int /\ Low = LastNo
    BY <1>0, <1>2, <1>4, Basics DEF Low
  <2> QED BY <1>0, <1>1, <2>1 DEF Top, Extra
<1>6. HeadersInv' /\ RingInv'
  <2>1. SameKeys /\ Entries' = Entries
    BY <1>2 DEF SameKeys, Entries
  <2>2. ppc' \notin {"expose", "block", "value", "rewind", "clear", "grow"}
    BY <1>1
  <2> QED BY <1>0, <1>2, <1>4, <1>5, <2>1, <2>2, KeepTables, KeepRing
<1>7. /\ PhaseInv' /\ HeldInv' /\ BlockInv' /\ SharesInv'
      /\ \A c \in Holding' : ConsumerInv(c)'
      /\ HandInv' /\ AllocatedInv' /\ TailInv'
  <2>1. SameTables
    BY <1>2 DEF SameTables, L
  <2>2. \A i \in Int : Kept(i)' <=> Kept(i)
    BY <1>0, <1>1, <1>2 DEF Kept
  <2>3. IndexKept /\ PhaseInv' /\ SameHeld
    BY <1>2, <2>1, IndexSame
  <2> QED BY <1>0, <1>1, <1>2, <2>2, <2>3, ProducerKeeps
<1>8. ProducerInv'
  <2>1. /\ Needed(n) = BlockNo(Published + n - 1) - LastNo
        /\ BlockNo(Published + n - 1) >= LastNo /\ BlockNo(Published + n - 1) \in Number
    BY <1>0, <1>2, <1>4, NeededIs
  <2>2. NeededNo' = Needed(n) /\ NeededNo' \in Nat
    <3>1. BlockNo(Published + n - 1) \in Int
      BY <2>1, NumberFits
    <3>2. NeededNo' = BlockNo(Published + n - 1) - LastNo
      BY <1>2, <1>4 DEF NeededNo, BlockNo
    <3> QED BY <1>4, <2>1, <3>1, <3>2
  <2>3. /\ pl'.n > 0 /\ Published' + pl'.n <= MaxItems /\ Len(pl'.allocated) = 0
        /\ ppc' = "room" => Len(pl'.allocated) < NeededNo'
        /\ ppc' = "construct" => Len(pl'.allocated) = NeededNo'
        /\ pl'.undone = 0 /\ pl'.block = null
    BY <1>1, <1>2, <1>4, <2>2
  <2>4. EnqueueInv'
    BY <1>1, <1>2, <2>2, <2>3 DEF EnqueueInv
  <2> QED BY <1>7, <2>4 DEF ProducerInv
<1> QED BY <1>1, <1>3, <1>6, <1>7, <1>8 DEF Living, IInv

\* Steps that only go to another place.
LEMMA GoKept ==
  ASSUME Settings, Fit, Living, UNCHANGED <<start, counts, cpc, cl, index, blocks, tailBlock, pl>>,
         Extra' = Extra, EnqueueInv', ppc' \in PCs \ {"publish", "undo tail", "destroyed"},
         ppc \notin {"publish", "undo tail"},
         ppc' \in {"expose", "block", "value", "rewind", "clear"}
           => ppc \in {"expose", "block", "value", "rewind", "clear"},
         ppc' = "grow" => RingInv'
  PROVE  Living'
<1>0. TypeOK /\ HeadersInv /\ RingInv /\ ProducerInv
  BY LivingParts
<1>1. /\ UNCHANGED <<start, headers, entries, slots, elementsCompletelyDequeued, free, tailBlock, pl>>
      /\ UNCHANGED <<tailIndex, headIndex>>
  BY DEF index, blocks, counts
<1>2. TypeOK'
  <2>1. pl' \in [n : 0 .. MaxBulk, allocated : Seq(Block), block : Block \cup {null}, undone : Nat]
    BY <1>0, <1>1 DEF TypeOK
  <2> QED BY <1>0, <1>1, <2>1, KeepTypes
<1>3. Published' = Published /\ LastNo' = LastNo /\ Low' = Low /\ Top' = Top /\ Top \in Int
  <2>1. Published' = Published /\ LastNo' = LastNo
    BY <1>1 DEF Published, LastNo, BlockNo
  <2>2. Low' = Low
    BY <1>1, <2>1 DEF Low
  <2> QED BY <1>0, <2>1, <2>2, Basics DEF Top
<1>4. HeadersInv' /\ RingInv'
  <2>1. SameKeys /\ Entries' = Entries
    BY <1>1 DEF SameKeys, Entries
  <2> QED BY <1>0, <1>1, <1>3, <2>1, KeepTables, KeepRing
<1>5. /\ PhaseInv' /\ HeldInv' /\ BlockInv' /\ SharesInv'
      /\ \A c \in Holding' : ConsumerInv(c)'
      /\ HandInv' /\ AllocatedInv' /\ TailInv'
  <2>1. SameTables
    BY <1>1 DEF SameTables, L
  <2>2. \A i \in Int : Kept(i)' <=> Kept(i)
    BY <1>1 DEF Kept
  <2>3. IndexKept /\ PhaseInv' /\ SameHeld
    BY <1>1, <2>1, IndexSame
  <2> QED BY <1>1, <2>2, <2>3, ProducerKeeps
<1> QED BY <1>2, <1>4, <1>5 DEF Living, IInv, ProducerInv

LEMMA RoomKept ==
  ASSUME Settings, Fit, Living, Room
  PROVE  Living'
<1>1. /\ UNCHANGED <<start, counts, cpc, cl, index, blocks, tailBlock, pl>>
      /\ ppc = "room" /\ ppc' \in {"insert", "undo"}
  BY DEF Room
<1>2. Extra' = Extra
  BY <1>1 DEF Extra
<1>3. EnqueueInv'
  <2>1. EnqueueInv
    BY LivingParts DEF ProducerInv
  <2>2. Published' = Published /\ NeededNo' = NeededNo
    BY <1>1 DEF Published, NeededNo, LastNo, BlockNo, counts
  <2> QED BY <1>1, <2>1, <2>2 DEF EnqueueInv
<1> QED BY <1>1, <1>2, <1>3, GoKept DEF PCs

\* The index's tail moves by k places.
LEMMA MoveTailIs ==
  ASSUME Settings, Fit, Living, NEW k \in Int, MoveTail(k), Top' = Top + k,
         UNCHANGED <<start, counts, cpc, cl, entries, blocks, tailBlock>>,
         pl'.allocated = pl.allocated, pl'.block = pl.block, \A i \in Int : Kept(i)' <=> Kept(i),
         pl' \in [n : 0 .. MaxBulk, allocated : Seq(Block), block : Block \cup {null}, undone : Nat],
         ppc' \in PCs \ {"publish", "destroyed"}, ppc # "publish"
  PROVE  /\ TypeOK' /\ HeadersInv' /\ PhaseInv' /\ HeldInv' /\ BlockInv' /\ SharesInv'
         /\ \A c \in Holding' : ConsumerInv(c)'
         /\ HandInv' /\ AllocatedInv' /\ TailInv'
         /\ LastNo' = LastNo /\ Published' = Published /\ Number' = Number
         /\ capacity(L)' = capacity(L) /\ capacity(L) \in Nat \ {0}
         /\ \A n \in Int : /\ EntryOf(n)' = EntryOf(n)
                           /\ Has(EntryOf(n), n)' <=> Has(EntryOf(n), n)
                           /\ Valid(EntryOf(n))' <=> Valid(EntryOf(n))
<1>0. TypeOK /\ HeadersInv /\ ProducerInv
  BY LivingParts
<1>1. /\ UNCHANGED <<slots, elementsCompletelyDequeued, free, tailIndex, headIndex>>
  BY DEF blocks, counts
<1>2. /\ L \in DOMAIN headers /\ capacity(L) \in Nat \ {0} /\ headers[L].tail \in Nat
      /\ headers[L].index \in [Caps(L) -> Entries]
  BY <1>0, HeaderIs
<1>3. PICK C \in Nat \ {0}, t \in Nat, s \in Int, u \in Nat :
        C = capacity(L) /\ t = headers[L].tail /\ s = t + k /\ u = s % C /\ u \in 0 .. C - 1
  <2>1. PICK C \in Nat \ {0}, t \in Nat, s \in Int : C = capacity(L) /\ t = headers[L].tail /\ s = t + k
    BY <1>2
  <2>2. s % C \in 0 .. C - 1 /\ s % C \in Nat
    BY DivOf
  <2> QED BY <2>1, <2>2
<1>4. headers' = [headers EXCEPT ![L].tail = u]
  BY <1>3 DEF MoveTail, L
<1>5. headers' \in Seq(Header) /\ headers' # <<>> /\ L' = L /\ DOMAIN headers' = DOMAIN headers
  <2>1. headers \in Seq(Header) /\ headers[L] \in Header
    BY <1>0, <1>2 DEF TypeOK
  <2>2. [headers[L] EXCEPT !.tail = u] \in Header
    BY <2>1 DEF Header
  <2>3. headers' = [headers EXCEPT ![L] = [headers[L] EXCEPT !.tail = u]]
    BY <1>4
  <2> QED BY <1>0, <1>2, <2>1, <2>2, <2>3, SMTT(30) DEF TypeOK, L
<1>6. /\ \A h \in DOMAIN headers : headers'[h].index = headers[h].index
      /\ headers'[L].tail = u
      /\ \A h \in DOMAIN headers : h # L => headers'[h].tail = headers[h].tail
  <2>1. headers \in Seq(Header) /\ headers[L] \in Header
    BY <1>0, <1>2 DEF TypeOK
  <2>2. PICK r : r = [headers[L] EXCEPT !.tail = u]
    OBVIOUS
  <2>3. headers' = [headers EXCEPT ![L] = r]
    BY <1>4, <2>2
  <2>4. r.index = headers[L].index /\ r.tail = u
    BY <2>1, <2>2 DEF Header
  <2>5. \A h \in DOMAIN headers : headers'[h] = IF h = L THEN r ELSE headers[h]
    BY <2>1, <2>3
  <2> QED BY <1>2, <2>4, <2>5
<1>7. SameTables
  BY <1>5, <1>6 DEF SameTables
<1>8. \A h \in DOMAIN headers : capacity(h)' = capacity(h) /\ Caps(h)' = Caps(h)
  BY <1>6 DEF capacity, Caps
<1>9. TypeOK'
  <2>1. Header' = Header /\ EntryType' = EntryType
    BY DEF Header, EntryType, Entries
  <2> QED BY <1>0, <1>1, <1>5, <2>1 DEF TypeOK
<1>a. HeadersInv'
  <2>1. Caps(L) = 0 .. C - 1
    BY <1>3 DEF Caps
  <2>2. Entries' = Entries
    BY DEF Entries
  <2>3. ASSUME NEW h \in DOMAIN headers
        PROVE  /\ headers'[h].tail \in Caps(h)'
               /\ \A p, q \in Caps(h)' : headers'[h].index[p] = headers'[h].index[q] => p = q
               /\ capacity(L)' % capacity(h)' = 0
    <3>1. /\ headers[h].tail \in Caps(h)
          /\ \A p, q \in Caps(h) : headers[h].index[p] = headers[h].index[q] => p = q
          /\ capacity(L) % capacity(h) = 0
      BY <1>0 DEF HeadersInv
    <3>2. headers'[h].tail \in Caps(h)
      BY <1>3, <1>6, <2>1, <3>1
    <3> QED BY <1>2, <1>6, <1>8, <3>1, <3>2, <1>5, SMTT(30)
  <2>4. \A e \in Entries : \E p \in Caps(L)' : headers'[L].index[p] = e
    <3>1. \A e \in Entries : \E p \in Caps(L) : headers[L].index[p] = e
      BY <1>0 DEF HeadersInv
    <3>2. headers'[L].index = headers[L].index /\ Caps(L)' = Caps(L)
      <4>1. Caps(L)' = 0 .. capacity(L)' - 1 /\ Caps(L) = 0 .. capacity(L) - 1
        BY DEF Caps
      <4>2. capacity(L)' = Cardinality(DOMAIN headers'[L].index)
        BY <1>5 DEF capacity
      <4> QED BY <1>2, <1>6, <4>1, <4>2 DEF capacity
    <3> QED BY <3>1, <3>2
  <2> QED BY <1>5, <2>2, <2>3, <2>4 DEF HeadersInv
<1>b. /\ PhaseInv' /\ HeldInv' /\ BlockInv' /\ SharesInv'
      /\ \A c \in Holding' : ConsumerInv(c)'
      /\ HandInv' /\ AllocatedInv' /\ TailInv'
  <2>1. IndexKept /\ PhaseInv' /\ SameHeld
    BY <1>7, IndexSame
  <2> QED BY <2>1, ProducerKeeps
<1>c. LastNo' = LastNo /\ Published' = Published /\ Number' = Number
  BY <1>1 DEF LastNo, Published, BlockNo, Number
<1>d. ASSUME NEW n \in Int
      PROVE  EntryOf(n)' = EntryOf(n)
  <2>1. PICK o \in Int, p \in Int : o = Top /\ p = o + k /\ p = Top'
    BY <1>0, Basics
  <2>0. u \in Int /\ t \in Int /\ s = t + k
    BY <1>3
  <2>2. PICK x \in Int, y \in Int, z \in Int : x = t + (n - o) /\ y = u + (n - p) /\ z = u - s
    OBVIOUS
  <2>3. z % C = 0
    BY <1>3, <2>2, MultRem
  <2>4. y - x = z
    BY <2>0, <2>1, <2>2
  <2>5. y % C = x % C
    <3>1. (y - x) % C = 0
      BY <2>3, <2>4
    <3> QED BY <3>1, MultSame
  <2>6. EntryOf(n) = headers[L].index[x % C]
    BY <1>3, <2>1, <2>2 DEF EntryOf, Entry
  <2>7. EntryOf(n)' = headers'[L].index[y % C]
    BY <1>2, <1>3, <1>5, <1>6, <1>8, <2>1, <2>2 DEF EntryOf, Entry
  <2> QED BY <1>2, <1>6, <2>5, <2>6, <2>7
<1>e. \A n \in Int : EntryOf(n)' = EntryOf(n)
                     /\ (Has(EntryOf(n), n)' <=> Has(EntryOf(n), n))
                     /\ (Valid(EntryOf(n))' <=> Valid(EntryOf(n)))
  BY <1>d DEF Has, Valid, KeyOf
<1> QED BY <1>2, <1>5, <1>8, <1>9, <1>a, <1>b, <1>c, <1>e

LEMMA ExposeKept ==
  ASSUME Settings, Fit, Living, Expose
  PROVE  Living'
<1>0. TypeOK /\ HeadersInv /\ RingInv /\ EnqueueInv
  BY LivingParts DEF ProducerInv
<1>1. /\ UNCHANGED <<start, counts, cpc, cl, entries, blocks, tailBlock, pl>>
      /\ ppc = "expose" /\ ppc' = "block" /\ MoveTail(1)
  BY DEF Expose
<1>2. Low' = Low /\ Top' = Top + 1 /\ Low \in Int
  <2>1. Low' = Low
    BY <1>1 DEF Low, LastNo, BlockNo, Published, counts
  <2>2. Low \in Int
    BY <1>0, Basics
  <2> QED BY <1>1, <2>1, <2>2 DEF Top, Extra
<1>3. /\ TypeOK' /\ HeadersInv' /\ PhaseInv' /\ HeldInv' /\ BlockInv' /\ SharesInv'
      /\ \A c \in Holding' : ConsumerInv(c)'
      /\ HandInv' /\ AllocatedInv' /\ TailInv'
      /\ LastNo' = LastNo /\ Published' = Published /\ Number' = Number
      /\ capacity(L)' = capacity(L) /\ capacity(L) \in Nat \ {0}
      /\ \A n \in Int : /\ EntryOf(n)' = EntryOf(n)
                        /\ Has(EntryOf(n), n)' <=> Has(EntryOf(n), n)
                        /\ Valid(EntryOf(n))' <=> Valid(EntryOf(n))
  <2>1. \A i \in Int : Kept(i)' <=> Kept(i)
    BY <1>1 DEF Kept
  <2>2. ppc' \in PCs \ {"publish", "destroyed"}
    BY <1>1 DEF PCs
  <2>3. pl' \in [n : 0 .. MaxBulk, allocated : Seq(Block), block : Block \cup {null}, undone : Nat]
    BY <1>0, <1>1 DEF TypeOK
  <2> QED BY <1>1, <1>2, <2>1, <2>2, <2>3, MoveTailIs
<1>4. RingInv'
  <2>1. PICK v, w \in Number : Ring(v, w)
    BY <1>0 DEF RingInv
  <2>2. w \in Int
    BY <2>1, NumberFits
  <2>3. Ring(v, w)'
    BY <1>1, <1>2, <1>3, <2>1, <2>2 DEF Ring
  <2> QED BY <1>3, <2>1, <2>3 DEF RingInv
<1>5. EnqueueInv'
  <2>1. NeededNo' = NeededNo
    BY <1>1, <1>3 DEF NeededNo, BlockNo
  <2> QED BY <1>0, <1>1, <1>3, <2>1 DEF EnqueueInv
<1> QED BY <1>1, <1>3, <1>4, <1>5 DEF Living, IInv, ProducerInv

LEMMA RewindKept ==
  ASSUME Settings, Fit, Living, Rewind
  PROVE  Living'
<1>0. TypeOK /\ HeadersInv /\ RingInv /\ EnqueueInv
  BY LivingParts DEF ProducerInv
<1>1. /\ UNCHANGED <<start, counts, cpc, cl, entries, blocks, tailBlock, pl>>
      /\ ppc = "rewind" /\ ppc' = "clear" /\ MoveTail(-1)
  BY DEF Rewind
<1>2. Low' = Low /\ Top' = Top + (-1) /\ Low \in Int
  <2>1. Low' = Low
    BY <1>1 DEF Low, LastNo, BlockNo, Published, counts
  <2>2. Low \in Int
    BY <1>0, Basics
  <2> QED BY <1>1, <2>1, <2>2 DEF Top, Extra
<1>3. /\ TypeOK' /\ HeadersInv' /\ PhaseInv' /\ HeldInv' /\ BlockInv' /\ SharesInv'
      /\ \A c \in Holding' : ConsumerInv(c)'
      /\ HandInv' /\ AllocatedInv' /\ TailInv'
      /\ LastNo' = LastNo /\ Published' = Published /\ Number' = Number
      /\ capacity(L)' = capacity(L) /\ capacity(L) \in Nat \ {0}
      /\ \A n \in Int : /\ EntryOf(n)' = EntryOf(n)
                        /\ Has(EntryOf(n), n)' <=> Has(EntryOf(n), n)
                        /\ Valid(EntryOf(n))' <=> Valid(EntryOf(n))
  <2>1. \A i \in Int : Kept(i)' <=> Kept(i)
    BY <1>1 DEF Kept
  <2>2. ppc' \in PCs \ {"publish", "destroyed"}
    BY <1>1 DEF PCs
  <2>3. pl' \in [n : 0 .. MaxBulk, allocated : Seq(Block), block : Block \cup {null}, undone : Nat]
    BY <1>0, <1>1 DEF TypeOK
  <2> QED BY <1>1, <1>2, <2>1, <2>2, <2>3, MoveTailIs
<1>4. RingInv'
  <2>1. PICK v, w \in Number : Ring(v, w)
    BY <1>0 DEF RingInv
  <2>2. w \in Int
    BY <2>1, NumberFits
  <2>3. Ring(v, w)'
    BY <1>1, <1>2, <1>3, <2>1, <2>2 DEF Ring
  <2> QED BY <1>3, <2>1, <2>3 DEF RingInv
<1>5. EnqueueInv'
  <2>1. NeededNo' = NeededNo
    BY <1>1, <1>3 DEF NeededNo, BlockNo
  <2> QED BY <1>0, <1>1, <1>3, <2>1 DEF EnqueueInv
<1> QED BY <1>1, <1>3, <1>4, <1>5 DEF Living, IInv, ProducerInv

LEMMA UndoTailKept ==
  ASSUME Settings, Fit, Living, UndoTail
  PROVE  Living'
<1>0. TypeOK /\ HeadersInv /\ RingInv /\ EnqueueInv
  BY LivingParts DEF ProducerInv
<1>1. /\ UNCHANGED <<start, counts, cpc, cl, entries, blocks, tailBlock>>
      /\ ppc = "undo tail" /\ ppc' = "undo" /\ MoveTail(-1)
  BY DEF UndoTail
<1>q. pl' = [pl EXCEPT !.undone = @ + 1]
  BY DEF UndoTail
<1>p. ppc = "undo tail" /\ ppc' = "undo"
  BY <1>1
<1>2. /\ pl'.allocated = pl.allocated /\ pl'.block = pl.block /\ pl'.n = pl.n
      /\ pl'.undone = pl.undone + 1
      /\ pl' \in [n : 0 .. MaxBulk, allocated : Seq(Block), block : Block \cup {null}, undone : Nat]
      /\ pl.undone \in Nat /\ Len(pl.allocated) \in Nat /\ pl.allocated \in Seq(Block)
  <2>1. pl \in [n : 0 .. MaxBulk, allocated : Seq(Block), block : Block \cup {null}, undone : Nat]
    BY <1>0 DEF TypeOK
  <2>2. pl.undone + 1 \in Nat /\ pl.undone \in Nat /\ Len(pl.allocated) \in Nat /\ pl.allocated \in Seq(Block)
    BY <2>1
  <2> QED BY <1>q, <2>1, <2>2
<1>3. Low' = Low - 1 /\ Top' = Top + (-1) /\ Low \in Int /\ LastNo \in Int /\ Low - 1 >= LastNo
  <2>1. Low \in Int /\ LastNo \in Int
    BY <1>0, Basics
  <2>2. LastNo' = LastNo
    BY <1>1 DEF LastNo, BlockNo, Published, counts
  <2>3. Low' = Low - 1
    <3>1. PICK x \in Int, y \in Nat, z \in Nat : x = LastNo /\ y = Len(pl.allocated) /\ z = pl.undone
      BY <1>2, <2>1
    <3>2. Low = x + y - z
      BY <3>1 DEF Low
    <3>3. Low' = x + y - (z + 1)
      BY <1>2, <2>2, <3>1 DEF Low
    <3> QED BY <3>1, <3>2, <3>3, SMTT(30)
  <2>4. pl.undone < Len(pl.allocated)
    BY <1>0, <1>1 DEF EnqueueInv
  <2>5. Low - 1 >= LastNo
    BY <1>2, <2>1, <2>4 DEF Low
  <2>6. Extra = 0 /\ Extra' = 0
    BY <1>p DEF Extra
  <2>7. Top = Low /\ Top' = Low'
    BY <2>1, <2>3, <2>6 DEF Top
  <2> QED BY <2>1, <2>3, <2>5, <2>7
<1>4. /\ TypeOK' /\ HeadersInv' /\ PhaseInv' /\ HeldInv' /\ BlockInv' /\ SharesInv'
      /\ \A c \in Holding' : ConsumerInv(c)'
      /\ HandInv' /\ AllocatedInv' /\ TailInv'
      /\ LastNo' = LastNo /\ Published' = Published /\ Number' = Number
      /\ capacity(L)' = capacity(L) /\ capacity(L) \in Nat \ {0}
      /\ \A n \in Int : /\ EntryOf(n)' = EntryOf(n)
                        /\ Has(EntryOf(n), n)' <=> Has(EntryOf(n), n)
                        /\ Valid(EntryOf(n))' <=> Valid(EntryOf(n))
  <2>1. \A i \in Int : Kept(i)' <=> Kept(i)
    <3>1. pl.undone \in Nat /\ pl'.undone = pl.undone + 1
      BY <1>2
    <3>2. \A i : Kept(i) <=> i > pl.undone + 1
      BY <1>p DEF Kept
    <3>3. \A i : Kept(i)' <=> i > pl'.undone + 0
      BY <1>p DEF Kept
    <3> QED BY <3>1, <3>2, <3>3
  <2>2. ppc' \in PCs \ {"publish", "destroyed"}
    BY <1>p DEF PCs
  <2>3. /\ pl'.allocated = pl.allocated /\ pl'.block = pl.block /\ Top' = Top + (-1) /\ -1 \in Int
        /\ pl' \in [n : 0 .. MaxBulk, allocated : Seq(Block), block : Block \cup {null}, undone : Nat]
    BY <1>2, <1>3
  <2>4. MoveTail(-1) /\ UNCHANGED <<start, counts, cpc, cl, entries, blocks, tailBlock>> /\ ppc # "publish"
    BY <1>1
  <2> QED BY <2>1, <2>2, <2>3, <2>4, MoveTailIs
<1>5. pl.allocated # <<>>
  <2>1. pl.undone < Len(pl.allocated)
    BY <1>0, <1>1 DEF EnqueueInv
  <2> QED BY <1>2, <2>1
<1>6. RingInv'
  <2>1. PICK v, w \in Number : Ring(v, w)
    BY <1>0 DEF RingInv
  <2>2. w \in Int
    BY <2>1, NumberFits
  <2>0. /\ ppc' = "undo" /\ pl'.allocated = pl.allocated /\ Low' = Low - 1 /\ Low \in Int /\ LastNo \in Int
        /\ Low - 1 >= LastNo /\ LastNo' = LastNo
        /\ capacity(L)' = capacity(L) /\ capacity(L) \in Nat \ {0}
    BY <1>p, <1>2, <1>3, <1>4
  <2>4. \A n \in Int : /\ Has(EntryOf(n), n)' <=> Has(EntryOf(n), n)
                       /\ Valid(EntryOf(n))' <=> Valid(EntryOf(n))
    BY <1>4
  <2>5. \A n \in w - capacity(L) + 1 .. w :
           n \in Int /\ IF v <= n THEN Has(EntryOf(n), n) ELSE ~Valid(EntryOf(n))
    BY <2>0, <2>1, <2>2 DEF Ring
  <2>6. v <= LastNo + 1 /\ Low <= w /\ w <= LastNo + capacity(L)
    BY <1>5, <2>1 DEF Ring
  <2>3. Ring(v, w)'
    BY <2>0, <2>2, <2>4, <2>5, <2>6 DEF Ring
  <2> QED BY <1>4, <2>1, <2>3 DEF RingInv
<1>7. EnqueueInv'
  <2>1. NeededNo' = NeededNo
    BY <1>1, <1>2, <1>4 DEF NeededNo, BlockNo
  <2>2. pl.undone < Len(pl.allocated)
    BY <1>0, <1>1 DEF EnqueueInv
  <2>3. /\ pl.n > 0 /\ Published + pl.n <= MaxItems /\ Len(pl.allocated) <= NeededNo /\ pl.block = null
    BY <1>0, <1>p DEF EnqueueInv
  <2>4. /\ pl'.n > 0 /\ Published' + pl'.n <= MaxItems /\ Len(pl'.allocated) <= NeededNo' /\ pl'.block = null
        /\ pl'.undone <= Len(pl'.allocated)
    BY <1>2, <1>4, <2>1, <2>2, <2>3
  <2> QED BY <1>p, <2>4 DEF EnqueueInv
<1> QED BY <1>1, <1>4, <1>6, <1>7 DEF Living, IInv, ProducerInv

\* The entry that Insert takes.
LEMMA InsertFacts ==
  ASSUME Settings, Fit, Living, ppc = "insert", NEW e, e = Entry(L, headers[L].tail + 1),
         entries[e].key = INVALID \/ entries[e].value = null
  PROVE  /\ e \in Entries /\ e = EntryOf(Top + 1) /\ entries[e].value = null
         /\ Top = Low /\ Top \in Int /\ LastNo \in Int /\ LastNo <= Top /\ Top + 1 \in Number
         /\ next = KeyOf(Top + 1) /\ pl.undone = 0
         /\ pl.allocated # <<>> => Top + 1 <= LastNo + capacity(L)
         /\ \E v, w \in Number : Ring(v, w) /\ (w > Top => Has(e, Top + 1))
         /\ \A m \in Number : Has(e, m) => (m - (Top + 1)) % capacity(L) = 0
<1>0. TypeOK /\ HeadersInv /\ RingInv /\ HeldInv /\ ProducerInv /\ EnqueueInv
  BY LivingParts DEF ProducerInv
<1>1. /\ LastNo \in Int /\ Low \in Int /\ Top \in Int /\ Len(pl.allocated) \in Nat
      /\ Low = LastNo + Len(pl.allocated) - pl.undone /\ Top = Low /\ start \in Starts
      /\ L \in DOMAIN headers /\ capacity(L) \in Nat \ {0} /\ headers[L].tail \in Nat
      /\ pl.allocated \in Seq(Block)
  <2>1. Extra = 0
    BY DEF Extra
  <2>2. pl.allocated \in Seq(Block)
    BY <1>0 DEF TypeOK
  <2> QED BY <1>0, <2>1, <2>2, Basics, HeaderIs
<1>2. pl.undone = 0 /\ Len(pl.allocated) < NeededNo
  <2>1. pl.undone \in Nat /\ ~ pl.undone > 0
    BY <1>0, Basics DEF EnqueueInv
  <2> QED BY <1>0, <2>1 DEF EnqueueInv
<1>3. /\ Top = LastNo + Len(pl.allocated)
      /\ next = KeyOf(LastNo + Len(pl.allocated) + 1)
      /\ LastNo + NeededNo \in Number /\ NeededNo \in Nat
  BY <1>0, <1>1, <1>2, CallIs
<1>4. PICK N1 \in Int : N1 = Top + 1
  BY <1>1
<1>5. N1 \in Number /\ LastNo <= Top /\ next = KeyOf(N1) /\ N1 \in Nat
  <2>1. N1 = LastNo + Len(pl.allocated) + 1 /\ N1 <= LastNo + NeededNo
    BY <1>1, <1>2, <1>3, <1>4
  <2>2. LastNo >= 0
    BY <1>0, Basics DEF Number
  <2>3. N1 \in Number
    BY <1>3, <2>1, <2>2, <1>1, NumberFits, SMTT(30) DEF Number
  <2> QED BY <1>1, <1>3, <2>1, <2>3, NumberFits, SMTT(30)
<1>6. e = EntryOf(N1)
  <2>1. PICK t \in Nat : t = headers[L].tail
    BY <1>1
  <2>2. N1 - Top = 1
    BY <1>1, <1>4
  <2> QED BY <2>1, <2>2 DEF EntryOf
<1>7. e \in Entries
  BY <1>0, <1>1, <1>4, <1>6, EntriesOf
<1>8. entries[e].value = null
  <2>1. \A n \in Number : Has(e, n) => Valid(e)
    BY <1>0, <1>7, OneKey
  <2>2. entries[e].value # null => \E n \in Number : Has(e, n)
    BY <1>0, <1>7 DEF HeldInv
  <2> QED BY <2>1, <2>2 DEF Valid
<1>9. PICK v, w \in Number : Ring(v, w)
  BY <1>0 DEF RingInv
<1>a. /\ \A n \in Number, f \in Entries : Has(f, n) =>
            n \in w - capacity(L) + 1 .. w /\ v <= n /\ f = EntryOf(n)
  BY <1>0, <1>9, Placed
<1>b. w \in Int /\ v \in Int
  BY <1>9, NumberFits
<1>c. w > Top => Has(e, N1)
  <2> SUFFICES ASSUME w > Top PROVE Has(e, N1)
    OBVIOUS
  <2>1. w <= Low + capacity(L) /\ v <= LastNo + 1
    BY <1>9 DEF Ring
  <2>2. N1 \in w - capacity(L) + 1 .. w /\ v <= N1
    BY <1>1, <1>4, <1>5, <1>b, <2>1
  <2>3. Has(EntryOf(N1), N1)
    BY <1>9, <2>2 DEF Ring
  <2> QED BY <1>6, <2>3
<1>d. \A m \in Number : Has(e, m) => (m - N1) % capacity(L) = 0
  <2> SUFFICES ASSUME NEW m \in Number, Has(e, m) PROVE (m - N1) % capacity(L) = 0
    OBVIOUS
  <2>1. e = EntryOf(m) /\ m \in Int
    BY <1>7, <1>a, NumberFits
  <2> QED BY <1>0, <1>1, <1>6, <2>1, EntriesOf
<1>e. pl.allocated # <<>> => N1 <= LastNo + capacity(L)
  <2> SUFFICES ASSUME pl.allocated # <<>>, N1 > LastNo + capacity(L) PROVE FALSE
    BY <1>1
  <2>1. w <= LastNo + capacity(L) /\ Low <= w
    BY <1>9 DEF Ring
  <2>2. PICK n \in Int : n = LastNo + 1
    BY <1>1
  <2>3. n = N1 - capacity(L) /\ n <= N1
    BY <1>1, <1>4, <1>b, <2>1, <2>2, SMTT(30)
  <2>4. 1 \in DOMAIN pl.allocated
    BY <1>1
  <2>5. n \in Number
    <3>1. LastNo >= 0
      BY <1>0, Basics DEF Number
    <3> QED BY <1>1, <1>5, <2>2, <2>3, <3>1, NumberFits DEF Number
  <2>6. Want(n)
    <3>1. n - LastNo = 1 /\ n > LastNo
      BY <1>1, <2>2
    <3>2. Kept(1)
      BY <1>2 DEF Kept
    <3> QED BY <2>4, <3>1, <3>2 DEF Want
  <2>7. PICK f \in Entries : Held(n, f)
    BY <1>0, <2>5, <2>6 DEF HeldInv
  <2>8. f = EntryOf(n)
    BY <1>a, <2>5, <2>7 DEF Held
  <2>9. EntryOf(n) = EntryOf(N1)
    <3>1. PICK x \in Int : x = n - N1
      OBVIOUS
    <3>2. x = capacity(L) * (-1) /\ -1 \in Int
      BY <1>1, <2>3, <3>1
    <3>3. x % capacity(L) = 0
      BY <1>1, <3>2, MultIs
    <3> QED BY <1>0, <1>1, <3>1, <3>3, EntriesOf
  <2> QED BY <1>6, <1>8, <2>7, <2>8, <2>9 DEF Held
<1> QED BY <1>1, <1>2, <1>4, <1>5, <1>6, <1>7, <1>8, <1>9, <1>c, <1>d, <1>e

LEMMA PhaseShift ==
  ASSUME Settings, TypeOK, NEW h \in DOMAIN headers, NEW p \in Int, NEW m \in Int, NEW n \in Int,
         InPhase(h, p, m), (n - m) % capacity(h) = 0
  PROVE  InPhase(h, p, n)
<1>1. PICK C \in Nat \ {0} : C = capacity(h)
  BY HeaderIs
<1>2. ASSUME NEW q \in Caps(h), NEW k \in Number, Has(headers[h].index[q], k)
      PROVE  (q - p - k + n) % C = 0
  <2>1. q \in Int /\ k \in Int
    BY <1>1, NumberFits DEF Caps
  <2>2. PICK x \in Int, y \in Int : x = q - p - k + m /\ y = n - m
    BY <2>1
  <2>3. x % C = 0 /\ y % C = 0
    BY <1>1, <1>2, <2>2 DEF InPhase
  <2>4. (x + y) % C = 0
    BY <2>3, MultSum
  <2>5. x + y = q - p - k + n
    BY <2>1, <2>2
  <2> QED BY <2>4, <2>5
<1> QED BY <1>1, <1>2 DEF InPhase

\* Places of the newest table, in block numbers.
LEMMA PlaceOf ==
  ASSUME Settings, TypeOK, Fit, HeadersInv, NEW p \in Caps(L), NEW n \in Int, headers[L].index[p] = EntryOf(n)
  PROVE  p \in Int /\ (p - (headers[L].tail + (n - Top))) % capacity(L) = 0
<1>1. PICK C \in Nat \ {0}, t \in Nat, o \in Int : C = capacity(L) /\ t = headers[L].tail /\ o = Top
  BY Basics, HeaderIs
<1>2. p \in Int /\ L \in DOMAIN headers
  BY <1>1, HeaderIs DEF Caps
<1>3. PICK y \in Int : y = t + (n - o)
  OBVIOUS
<1>4. Entry(L, p) = Entry(L, y)
  <2>1. headers[L].index[p] = Entry(L, p)
    BY <1>2, EntriesApart
  <2> QED BY <1>1, <1>3, <2>1 DEF EntryOf
<1>5. (p - y) % C = 0
  BY <1>1, <1>2, <1>3, <1>4, EntriesApart
<1> QED BY <1>1, <1>2, <1>3, <1>5

\* The entry e is given to block n instead of m, a multiple of the capacity before:
\* phases stay.
LEMMA PhaseMoves ==
  ASSUME Settings, TypeOK, Fit, HeadersInv, RingInv, PhaseInv, NEW e \in Entries, NEW n \in Number,
         e = EntryOf(n), \A m \in Number : Has(e, m) => (m - n) % capacity(L) = 0,
         headers' = headers, start' = start, Entries' = Entries, entries'[e].key = KeyOf(n),
         \A f \in Entries : f # e => entries'[f].key = entries[f].key
  PROVE  /\ PhaseInv'
         /\ \A h \in DOMAIN headers : \A pos \in Int, m \in Number :
              (\E k \in Number : Positioned(h, k)) /\ InPhase(h, pos, m) => InPhase(h, pos, m)'
<1>1. /\ L' = L /\ DOMAIN headers' = DOMAIN headers
      /\ \A h : capacity(h)' = capacity(h) /\ Caps(h)' = Caps(h)
      /\ start \in Starts /\ n \in Int
  BY KeepPlaces, Basics, NumberFits
<1>2. Number' = Number
  BY DEF Number, BlockNo
<1>3. /\ \A f \in Entries : f # e => /\ Valid(f)' <=> Valid(f)
                                     /\ \A k : Has(f, k)' <=> Has(f, k)
      /\ Valid(e)'
      /\ \A k \in Number : Has(e, k)' => k = n
  <2>1. KeyOf(n) # INVALID /\ \A k \in Number : KeyOf(k) = KeyOf(n) => k = n
    BY <1>1, KeyIs, OffsetIs
  <2> QED BY <2>1 DEF Valid, Has, KeyOf
<1>4. ASSUME NEW h \in DOMAIN headers, NEW pos \in Int, NEW m \in Number, InPhase(h, pos, m),
             h < L \/ \E k \in Number : Positioned(h, k)
      PROVE  InPhase(h, pos, m)'
  <2>1. PICK C \in Nat \ {0}, c \in Nat \ {0} :
          C = capacity(L) /\ c = capacity(h) /\ C % c = 0 /\ Caps(h) = 0 .. c - 1
    <3>1. L \in DOMAIN headers /\ capacity(L) \in Nat \ {0} /\ capacity(h) \in Nat \ {0}
      BY HeaderIs
    <3> QED BY <3>1 DEF HeadersInv, Caps
  <2>2. ASSUME NEW p \in Caps(h), NEW k \in Number, Has(headers[h].index[p], k)'
        PROVE  (p - pos - k + m) % c = 0
    <3>0. headers[h].index[p] \in Entries
      BY HeaderIs
    <3>4. k \in Int /\ m \in Int
      BY NumberFits
    <3>1. p \in Int /\ k \in Int /\ m \in Int /\ headers[h].index[p] \in Entries
      BY <2>1, <3>0, <3>4
    <3>2. CASE headers[h].index[p] # e
      <4>1. Has(headers[h].index[p], k)
        BY <1>3, <2>2, <3>1, <3>2
      <4> QED BY <1>4, <2>1, <4>1 DEF InPhase
    <3>3. CASE headers[h].index[p] = e
      <4>1. k = n
        BY <1>3, <2>2, <3>3
      <4>2. CASE Valid(e)
        <5>1. PICK j \in Number : Has(e, j)
          BY <4>2, OneKey
        <5>2. j \in Int /\ (j - n) % C = 0
          BY <2>1, <5>1, NumberFits
        <5>3. (p - pos - j + m) % c = 0
          BY <1>4, <2>1, <3>3, <5>1 DEF InPhase
        <5>4. PICK x \in Int, y \in Int, z \in Int : x = p - pos - j + m /\ y = j - n /\ z = x + y
          BY <1>1, <3>1, <5>2
        <5>5. y % c = 0
          <6>1. PICK a \in Int : y = C * a
            BY <5>2, <5>4, MultIs
          <6>0. C \in Int /\ C % c = 0
            BY <2>1
          <6>2. PICK b \in Int : C = c * b
            BY <6>0, MultIs
          <6>3. y = c * (b * a) /\ b * a \in Int
            BY <6>1, <6>2
          <6> QED BY <6>3, MultIs
        <5>6. z % c = 0
          BY <5>3, <5>4, <5>5, MultSum
        <5>7. z = p - pos - k + m
          BY <1>1, <3>1, <4>1, <5>2, <5>4
        <5> QED BY <5>6, <5>7
      <4>3. CASE ~ Valid(e)
        <5>1. h = L
          <6>1. ~ h < L
            BY <3>3, <4>3 DEF PhaseInv
          <6> QED BY <6>1, HeaderIs
        <5>2. PICK j \in Number : Positioned(L, j)
          BY <1>4, <5>1, HeaderIs
        <5>3. PICK q \in Caps(L) : Has(headers[L].index[q], j)
          BY <5>2 DEF Positioned, Held
        <5>4. headers[L].index[q] = EntryOf(j) /\ j \in Int
          <6>1. PICK v, w \in Number : Ring(v, w)
            BY DEF RingInv
          <6>2. headers[L].index[q] \in Entries
            BY HeaderIs
          <6> QED BY <5>3, <6>1, <6>2, Placed, NumberFits
        <5>5. PICK t \in Int, o \in Int : t = headers[L].tail /\ o = Top
          <6>1. headers[L].tail \in Nat
            BY HeaderIs
          <6>2. Top \in Int
            BY Basics
          <6> QED BY <6>1, <6>2
        <5>6. q \in Int /\ (q - (t + (j - o))) % C = 0
          BY <2>1, <5>4, <5>5, PlaceOf
        <5>7. (p - (t + (n - o))) % C = 0
          BY <1>1, <2>1, <3>3, <5>1, <5>5, PlaceOf, SMTT(30)
        <5>8. (q - pos - j + m) % C = 0
          BY <1>4, <2>1, <5>1, <5>3 DEF InPhase
        <5>9. PICK x \in Int, y \in Int, z \in Int :
                x = q - (t + (j - o)) /\ y = p - (t + (n - o)) /\ z = q - pos - j + m
          BY <1>1, <3>1, <5>4, <5>6
        <5>a. (y - x) % C = 0
          BY <5>6, <5>7, <5>9, MultSum
        <5>b. (z + (y - x)) % C = 0
          <6>1. PICK u \in Int : u = y - x
            OBVIOUS
          <6>2. u % C = 0 /\ z % C = 0
            BY <5>8, <5>9, <5>a, <6>1
          <6> QED BY <6>1, <6>2, MultSum
        <5>c. z + (y - x) = p - pos - k + m
          BY <1>1, <3>1, <4>1, <5>4, <5>6, <5>9
        <5> QED BY <2>1, <5>1, <5>b, <5>c
      <4> QED BY <4>2, <4>3
    <3> QED BY <3>2, <3>3
  <2>3. headers'[h].index = headers[h].index
    OBVIOUS
  <2> QED BY <1>1, <1>2, <2>1, <2>2, <2>3 DEF InPhase
<1>5. PhaseInv'
  <2>1. ASSUME NEW h \in DOMAIN headers, h < L, NEW p \in Caps(h)
        PROVE  /\ Valid(headers[h].index[p])'
               /\ \A k \in Number : Has(headers[h].index[p], k)' => InPhase(h, p, k)'
    <3>1. headers[h].index[p] \in Entries /\ Valid(headers[h].index[p]) /\ p \in Int
      <4>1. capacity(h) \in Nat /\ headers[h].index[p] \in Entries
        BY HeaderIs
      <4>2. p \in Int
        BY <4>1 DEF Caps
      <4> QED BY <2>1, <4>1, <4>2 DEF PhaseInv
    <3>2. Valid(headers[h].index[p])'
      BY <1>3, <3>1
    <3>3. ASSUME NEW k \in Number, Has(headers[h].index[p], k)' PROVE InPhase(h, p, k)'
      <4>1. CASE headers[h].index[p] # e
        <5>1. Has(headers[h].index[p], k)
          BY <1>3, <3>1, <3>3, <4>1
        <5>2. InPhase(h, p, k)
          BY <2>1, <5>1 DEF PhaseInv
        <5> QED BY <1>4, <2>1, <3>1, <5>2
      <4>2. CASE headers[h].index[p] = e
        <5>1. PICK j \in Number : Has(e, j)
          BY <3>1, <4>2, OneKey
        <5>2. j \in Int /\ (n - j) % capacity(h) = 0
          <6>0. j \in Int
            BY NumberFits
          <6>1. PICK C \in Nat \ {0}, c \in Nat \ {0} : C = capacity(L) /\ c = capacity(h) /\ C % c = 0
            <7>1. L \in DOMAIN headers /\ capacity(L) \in Nat \ {0} /\ capacity(h) \in Nat \ {0}
              BY HeaderIs
            <7> QED BY <7>1 DEF HeadersInv
          <6>2. PICK y \in Int : y = j - n
            BY <1>1, <6>0
          <6>3. y % C = 0
            BY <5>1, <6>1, <6>2
          <6>4. PICK a \in Int : y = C * a
            BY <6>3, MultIs
          <6>9. C \in Int /\ C % c = 0
            BY <6>1
          <6>5. PICK b \in Int : C = c * b
            BY <6>9, MultIs
          <6>6. PICK x \in Int : x = n - j
            BY <1>1, <6>0
          <6>7. x = c * (b * (-a)) /\ b * (-a) \in Int
            <7>1. y = c * (b * a) /\ -y = c * (b * (-a))
              BY <6>4, <6>5
            <7>2. x = -y
              BY <1>1, <6>0, <6>2, <6>6
            <7> QED BY <7>1, <7>2
          <6>8. x % c = 0
            BY <6>7, MultIs
          <6> QED BY <6>0, <6>1, <6>6, <6>8
        <5>3. InPhase(h, p, j)
          BY <2>1, <4>2, <5>1 DEF PhaseInv
        <5>4. k = n
          BY <1>3, <3>3, <4>2
        <5>5. InPhase(h, p, n)
          BY <1>1, <3>1, <5>2, <5>3, PhaseShift
        <5> QED BY <1>4, <2>1, <3>1, <5>4, <5>5
      <4> QED BY <4>1, <4>2
    <3> QED BY <3>2, <3>3
  <2> QED BY <1>1, <1>2, <2>1 DEF PhaseInv
<1>6. \A h \in DOMAIN headers : \A pos \in Int, m \in Number :
              (\E k \in Number : Positioned(h, k)) /\ InPhase(h, pos, m) => InPhase(h, pos, m)'
  BY <1>4
<1> QED BY <1>5, <1>6

LEMMA InsertKept ==
  ASSUME Settings, Fit, Living, Insert
  PROVE  Living'
<1>0. /\ TypeOK /\ HeadersInv /\ RingInv /\ PhaseInv /\ ProducerInv /\ EnqueueInv
      /\ ppc = "insert" /\ UNCHANGED <<start, counts, cpc, cl, headers, blocks, tailBlock, pl>>
  BY LivingParts DEF ProducerInv, Insert
<1>e. PICK e : e = Entry(L, headers[L].tail + 1)
  OBVIOUS
<1>n. /\ UNCHANGED <<slots, elementsCompletelyDequeued, free, tailIndex, headIndex>>
      /\ UNCHANGED <<start, counts, cpc, cl, headers, blocks, tailBlock, pl>>
      /\ ppc' \in {"expose", "grow"} /\ \A i \in Int : Kept(i)' <=> Kept(i)
  <2>1. ppc' \in {"expose", "grow"}
    BY DEF Insert
  <2>2. \A i \in Int : Kept(i)' <=> Kept(i)
    BY <1>0, <2>1 DEF Kept
  <2> QED BY <1>0, <2>1, <2>2 DEF blocks, counts
<1>m. EnqueueInv' /\ LastNo' = LastNo /\ Low' = Low /\ Top' = Top /\ Extra' = Extra
  <2>1. Published' = Published /\ NeededNo' = NeededNo /\ LastNo' = LastNo
    BY <1>0 DEF Published, NeededNo, LastNo, BlockNo, counts
  <2>2. ppc' \in {"expose", "grow"} /\ pl' = pl
    BY <1>0 DEF Insert
  <2>3. EnqueueInv'
    BY <1>0, <2>1, <2>2 DEF EnqueueInv
  <2>4. Low' = Low /\ Extra' = Extra
    BY <1>0, <2>1, <2>2 DEF Low, Extra
  <2> QED BY <2>1, <2>3, <2>4 DEF Top
<1>1. CASE ~ (entries[e].key = INVALID \/ entries[e].value = null)
  <2>1. ppc' = "grow" /\ UNCHANGED entries
    BY <1>1, <1>e DEF Insert, L
  <2>2. UNCHANGED <<start, counts, cpc, cl, index, blocks, tailBlock, pl>>
    BY <1>0, <2>1 DEF index
  <2>3. RingInv'
    <3>1. PICK v, w \in Number : Ring(v, w)
      BY <1>0 DEF RingInv
    <3>2. PICK C \in Nat \ {0} : C = capacity(L)
      BY <1>0, HeaderIs
    <3>3. /\ Top = Low /\ Low \in Int /\ LastNo \in Int /\ Low = LastNo + Len(pl.allocated) - pl.undone
          /\ pl.undone \in Nat /\ Len(pl.allocated) \in Nat /\ pl.allocated \in Seq(Block)
      <4>1. Extra = 0
        BY <1>0 DEF Extra
      <4>2. pl.allocated \in Seq(Block)
        BY <1>0 DEF TypeOK
      <4> QED BY <1>0, <4>1, <4>2, Basics
    <3>4. v \in Int /\ w \in Int /\ v <= LastNo + 1 /\ Low <= w /\ w <= Low + C
          /\ (pl.allocated # <<>> => w <= LastNo + C)
          /\ \A n \in w - C + 1 .. w : IF v <= n THEN Has(EntryOf(n), n) ELSE ~Valid(EntryOf(n))
      BY <3>1, <3>2, NumberFits DEF Ring
    <3>5. PICK N1 \in Int : N1 = Top + 1
      BY <3>3
    <3>6. e = EntryOf(N1) /\ e \in Entries
      <4>1. PICK t \in Nat : t = headers[L].tail
        BY <1>0, HeaderIs
      <4>2. N1 - Top = 1
        BY <3>3, <3>5
      <4>3. e = EntryOf(N1)
        BY <1>e, <4>1, <4>2 DEF EntryOf
      <4> QED BY <1>0, <3>3, <4>3, EntriesOf
    <3>7. PICK m \in Number : Has(e, m) /\ Want(m)
      BY <1>1, <3>6, LivingParts DEF HeldInv
    <3>8. m \in Int /\ m <= Low
      <4>1. m \in Int
        BY NumberFits
      <4>2. m > LastNo => m - LastNo \in DOMAIN pl.allocated
        BY <3>7 DEF Want
      <4>3. pl.undone = 0
        BY <1>0, <3>3 DEF EnqueueInv
      <4> QED BY <3>3, <4>1, <4>2, <4>3
    <3>9. w = Low
      <4> SUFFICES ASSUME w > Low PROVE FALSE
        BY <3>3, <3>4
      <4>0. LastNo <= Low /\ N1 = Low + 1 /\ Low \in Int /\ LastNo \in Int
        <5>1. pl.undone = 0
          BY <1>0, <3>3 DEF EnqueueInv
        <5> QED BY <3>3, <3>5, <5>1
      <4>1. N1 \in w - C + 1 .. w /\ v <= N1
        BY <3>2, <3>4, <4>0
      <4>2. Has(e, N1) /\ N1 \in Number
        <5>1. Has(e, N1)
          BY <3>4, <3>6, <4>1
        <5>2. v >= 0 /\ w <= BlockNo(MaxItems) /\ BlockNo(MaxItems) \in Int
          BY <3>1, NumberFits DEF Number
        <5> QED BY <3>4, <4>1, <5>1, <5>2 DEF Number
      <4>3. m = N1
        BY <1>0, <3>6, <3>7, <4>2, OneKey
      <4> QED BY <3>3, <3>5, <3>8, <4>3
    <3>a. v <= w - C + 1
      <4>0. w = Top /\ w \in Int
        BY <3>3, <3>4, <3>9
      <4>1. PICK n \in Int : n = w - C + 1 /\ n = N1 - C
        BY <3>5, <4>0
      <4>2. e = EntryOf(n)
        <5>1. PICK x \in Int : x = N1 - n
          OBVIOUS
        <5>2. x = C * 1 + 0 /\ 1 \in Int
          BY <4>1, <5>1
        <5>3. x % C = 0
          BY <5>2, MultIs
        <5> QED BY <1>0, <3>2, <3>3, <3>6, <5>1, <5>3, EntriesOf
      <4>3. Valid(e)
        BY <1>1 DEF Valid
      <4>4. n \in w - C + 1 .. w
        BY <3>4, <4>1
      <4> QED BY <3>4, <4>1, <4>2, <4>3, <4>4
    <3>b. /\ \A n : EntryOf(n)' = EntryOf(n) /\ Number' = Number /\ capacity(L)' = capacity(L)
      <4>1. /\ \A n : EntryOf(n)' = EntryOf(n) /\ capacity(L)' = capacity(L)
        BY <1>0, <1>m, KeepPlaces
      <4> QED BY <1>n, <4>1 DEF Number, BlockNo
    <3>c. \A n : (Has(EntryOf(n), n)' <=> Has(EntryOf(n), n)) /\ (Valid(EntryOf(n))' <=> Valid(EntryOf(n)))
      BY <1>0, <2>1, <3>b DEF Has, Valid, KeyOf
    <3>d. Ring(v, w)'
      BY <1>0, <1>m, <2>1, <3>2, <3>4, <3>9, <3>a, <3>b, <3>c DEF Ring
    <3> QED BY <3>1, <3>b, <3>d DEF RingInv
  <2>4. ppc' \in PCs \ {"publish", "undo tail", "destroyed"}
    BY <2>1 DEF PCs
  <2> QED BY <1>0, <1>m, <2>1, <2>2, <2>3, <2>4, GoKept
<1>2. CASE entries[e].key = INVALID \/ entries[e].value = null
  <2>1. entries' = [entries EXCEPT ![e].key = next] /\ ppc' = "expose"
    BY <1>2, <1>e DEF Insert, L
  <2>2. /\ e \in Entries /\ e = EntryOf(Top + 1) /\ entries[e].value = null
        /\ Top = Low /\ Top \in Int /\ LastNo \in Int /\ LastNo <= Top /\ Top + 1 \in Number
        /\ next = KeyOf(Top + 1) /\ pl.undone = 0
        /\ pl.allocated # <<>> => Top + 1 <= LastNo + capacity(L)
        /\ \E v, w \in Number : Ring(v, w) /\ (w > Top => Has(e, Top + 1))
        /\ \A m \in Number : Has(e, m) => (m - (Top + 1)) % capacity(L) = 0
    BY <1>0, <1>2, <1>e, InsertFacts
  <2>3. PICK N1 \in Number : N1 = Top + 1
    BY <2>2
  <2>4. N1 \in Int /\ e = EntryOf(N1) /\ next = KeyOf(N1) /\ start \in Starts
        /\ \A m \in Number : Has(e, m) => (m - N1) % capacity(L) = 0
    BY <2>2, <2>3, NumberFits DEF TypeOK, Living, IInv
  <2>5. /\ Entries' = Entries /\ entries' \in Seq(EntryType)
        /\ entries'[e].key = KeyOf(N1) /\ entries'[e].value = null
        /\ \A f \in Entries : f # e => entries'[f] = entries[f]
    <3>1. KeyOf(N1) \in Index
      BY <2>4, KeyIs
    <3>2. entries \in Seq(EntryType) /\ entries[e] \in EntryType /\ e \in DOMAIN entries
      BY <1>0, <2>2 DEF TypeOK, Entries
    <3>3. PICK r : r = [entries[e] EXCEPT !.key = KeyOf(N1)]
      OBVIOUS
    <3>4. r \in EntryType /\ r.key = KeyOf(N1) /\ r.value = null
      BY <2>2, <3>1, <3>2, <3>3 DEF EntryType
    <3>5. entries' = [entries EXCEPT ![e] = r]
      BY <2>1, <2>4, <3>3
    <3> QED BY <3>2, <3>4, <3>5 DEF Entries
  <2>6. TypeOK'
    <3>1. Header' = Header /\ EntryType' = EntryType
      BY <2>5 DEF Header, EntryType, Entries
    <3>2. ppc' \in PCs
      BY <2>1 DEF PCs
    <3> QED BY <1>0, <1>n, <2>5, <3>1, <3>2 DEF TypeOK
  <2>7. HeadersInv'
    BY <1>0, <1>n, <2>5, KeepTables
  <2>8. PhaseInv' /\ \A h \in DOMAIN headers : \A pos \in Int, m \in Number :
              (\E k \in Number : Positioned(h, k)) /\ InPhase(h, pos, m) => InPhase(h, pos, m)'
    BY <1>0, <1>n, <2>2, <2>3, <2>4, <2>5, PhaseMoves
  <2>9. SameHeld
    <3>1. \A f \in Entries : entries'[f].value = entries[f].value
      BY <2>2, <2>5
    <3>2. ASSUME NEW n \in Number, NEW f \in Entries PROVE Held(n, f)' <=> Held(n, f)
      <4>1. CASE f = e
        BY <2>2, <2>5, <4>1 DEF Held
      <4>2. CASE f # e
        BY <1>n, <2>5, <4>2 DEF Held, Has, KeyOf
      <4> QED BY <4>1, <4>2
    <3> QED BY <2>5, <3>1, <3>2 DEF SameHeld
  <2>a. IndexKept
    <3>1. ASSUME NEW h \in DOMAIN headers, NEW p \in Caps(h), Valid(headers[h].index[p])
          PROVE  Valid(headers[h].index[p])'
      <4>1. headers[h].index[p] \in Entries /\ headers'[h].index = headers[h].index
        BY <1>0, <1>n, HeaderIs
      <4>2. KeyOf(N1) # INVALID
        BY <2>4, KeyIs
      <4> QED BY <2>5, <3>1, <4>1, <4>2 DEF Valid
    <3>2. headers' = headers
      BY <1>0
    <3> QED BY <2>8, <2>9, <3>1, <3>2 DEF IndexKept, SameHeld
  <2>b. /\ HeldInv' /\ BlockInv' /\ SharesInv'
        /\ \A c \in Holding' : ConsumerInv(c)'
        /\ HandInv' /\ AllocatedInv' /\ TailInv'
    <3>1. ppc # "publish" /\ ppc' # "publish" /\ pl' = pl /\ tailBlock' = tailBlock
      BY <1>0, <2>1
    <3> QED BY <1>n, <2>9, <2>a, <3>1, ProducerKeeps
  <2>c. RingInv'
    <3>1. PICK v, w \in Number : Ring(v, w) /\ (w > Top => Has(e, N1))
      BY <2>2, <2>3
    <3>2. PICK C \in Nat \ {0} : C = capacity(L)
      BY <1>0, HeaderIs
    <3>3. /\ \A n : EntryOf(n)' = EntryOf(n) /\ Number' = Number /\ capacity(L)' = capacity(L)
      <4>1. /\ \A n : EntryOf(n)' = EntryOf(n) /\ capacity(L)' = capacity(L)
        BY <1>0, <1>m, KeepPlaces
      <4> QED BY <1>n, <4>1 DEF Number, BlockNo
    <3>4. v \in Int /\ w \in Int /\ v <= LastNo + 1 /\ Low <= w /\ w <= Low + C
          /\ (pl.allocated # <<>> => w <= LastNo + C)
          /\ \A n \in w - C + 1 .. w : IF v <= n THEN Has(EntryOf(n), n) ELSE ~Valid(EntryOf(n))
      BY <3>1, <3>2, NumberFits DEF Ring
    <3>5. \A f \in Entries : f # e => /\ Valid(f)' <=> Valid(f)
                                      /\ \A n : Has(f, n)' <=> Has(f, n)
      BY <1>n, <2>5 DEF Valid, Has, KeyOf
    <3>6. Has(e, N1)'
      BY <1>n, <2>5 DEF Has, KeyOf
    <3>7. \A n \in Int : EntryOf(n) \in Entries /\ (EntryOf(n) = e => (n - N1) % C = 0)
      <4>1. /\ \A n \in Int : EntryOf(n) \in Entries
            /\ \A n, k \in Int : EntryOf(n) = EntryOf(k) <=> (n - k) % C = 0
        BY <1>0, <2>2, <3>2, EntriesOf
      <4>2. N1 \in Int /\ e = EntryOf(N1)
        BY <2>2, <2>4
      <4> QED BY <4>1, <4>2
    <3>8. PICK x \in Number : x = IF w > Top THEN w ELSE N1
      BY <3>1, <2>3
    <3>9. /\ x \in Int /\ Low < x /\ x <= Low + C /\ (pl.allocated # <<>> => x <= LastNo + C)
          /\ N1 \in x - C + 1 .. x /\ v <= N1 /\ (x = w \/ (x = N1 /\ w = N1 - 1))
      BY <2>2, <2>3, <2>4, <3>2, <3>4, <3>8
    <3>a. ASSUME NEW n \in x - C + 1 .. x
          PROVE  IF v <= n THEN Has(EntryOf(n), n)' ELSE ~Valid(EntryOf(n))'
      <4>0. n \in Int
        BY <3>9
      <4>1. CASE n = N1
        BY <2>4, <3>3, <3>6, <3>9, <4>1
      <4>2. CASE n # N1
        <5>1. EntryOf(n) # e
          <6> SUFFICES ASSUME EntryOf(n) = e PROVE FALSE
            OBVIOUS
          <6>1. PICK z \in Int : z = n - N1
            BY <2>4, <4>0
          <6>2. z % C = 0 /\ z < C /\ -z < C
            BY <2>4, <3>7, <3>9, <4>0, <6>1
          <6>3. z = 0
            BY <6>2, MultSmall
          <6> QED BY <2>4, <4>0, <4>2, <6>1, <6>3
        <5>2. n \in w - C + 1 .. w
          BY <2>4, <3>4, <3>9, <4>0, <4>2
        <5>3. IF v <= n THEN Has(EntryOf(n), n) ELSE ~Valid(EntryOf(n))
          BY <3>4, <5>2
        <5>4. EntryOf(n) \in Entries /\ EntryOf(n)' = EntryOf(n)
          BY <3>3, <3>7, <4>0
        <5> QED BY <3>5, <5>1, <5>3, <5>4
      <4> QED BY <4>1, <4>2
    <3>b. /\ v <= LastNo' + 1
          /\ Low' <= x /\ x <= Low' + capacity(L)'
          /\ Low' < x
          /\ pl'.allocated # <<>> => x <= LastNo' + capacity(L)'
      BY <1>0, <1>m, <2>2, <3>2, <3>3, <3>4, <3>9
    <3>c. \A n \in x - capacity(L)' + 1 .. x :
             IF v <= n THEN Has(EntryOf(n), n)' ELSE ~Valid(EntryOf(n))'
      BY <3>2, <3>3, <3>a
    <3>d. Ring(v, x)'
      BY <2>1, <3>3, <3>b, <3>c DEF Ring
    <3> QED BY <3>1, <3>3, <3>d DEF RingInv
  <2> QED BY <1>m, <2>1, <2>6, <2>7, <2>8, <2>b, <2>c DEF Living, IInv, ProducerInv
<1> QED BY <1>1, <1>2

\* The bigger table, and its new entries.
NewTable(C, t) == [tail |-> C - 1, index |-> [i \in 0 .. 2 * C - 1 |->
                     IF i < C THEN Entry(L, t + 1 + i) ELSE Len(entries) + 1 + i - C]]
Fresh(C) == [i \in 1 .. C |-> [key |-> INVALID, value |-> null]]
Grown(C, t) == headers' = Append(headers, NewTable(C, t)) /\ entries' = entries \o Fresh(C)

GrownTo(C, t, N) ==
  /\ entries' \in Seq(EntryType) /\ headers' \in Seq([tail : Nat, index : UNION {[0 .. k - 1 -> Entries'] : k \in Nat \ {0}}]) /\ headers' # <<>>
  /\ L' = N /\ DOMAIN headers' = DOMAIN headers \cup {N}
  /\ Entries \subseteq Entries' /\ \A e \in Entries : entries'[e] = entries[e]
  /\ \A e \in Entries' \ Entries : entries'[e].key = INVALID /\ entries'[e].value = null
  /\ \A h \in DOMAIN headers : headers'[h] = headers[h]
  /\ headers'[N].tail = C - 1 /\ capacity(N)' = 2 * C /\ Caps(N)' = 0 .. 2 * C - 1
  /\ \A i \in 0 .. C - 1 : headers'[N].index[i] = Entry(L, t + 1 + i) /\ Entry(L, t + 1 + i) \in Entries
  /\ \A i \in C .. 2 * C - 1 : headers'[N].index[i] \in Entries' \ Entries
  /\ HeadersInv'

LEMMA GrowTables ==
  ASSUME Settings, Fit, Living, NEW C \in Nat \ {0}, C = capacity(L), NEW t \in Nat, t = headers[L].tail,
         NEW N, N = L + 1, Grown(C, t)
  PROVE  GrownTo(C, t, N)
<1>0. TypeOK /\ HeadersInv /\ start \in Starts
  BY LivingParts DEF TypeOK
<1>1. PICK m \in Nat : m = Len(entries) /\ Entries = 1 .. m
  <2>1. entries \in Seq(EntryType)
    BY <1>0 DEF TypeOK
  <2> QED BY <2>1 DEF Entries
<1>2. 0 \in Nat /\ INVALID \in Index
  <2>1. Wrap \in Nat /\ Wrap > 1
    <3>1. MaxItems \in Nat /\ Wrap \in Nat /\ Wrap \div 2 \in Nat /\ MaxItems < Wrap \div 2 /\ Wrap > Wrap \div 2
      BY Numbers
    <3> QED BY <3>1
  <2> QED BY <2>1 DEF INVALID, Index
<1>3. /\ entries \in Seq(EntryType) /\ Fresh(C) \in Seq(EntryType) /\ Len(Fresh(C)) = C
      /\ \A i \in 1 .. C : Fresh(C)[i].key = INVALID /\ Fresh(C)[i].value = null
  <2>1. [key |-> INVALID, value |-> null] \in EntryType
    BY <1>2 DEF EntryType
  <2>2. PICK r : r = [key |-> INVALID, value |-> null] /\ r \in EntryType /\ r.key = INVALID /\ r.value = null
    BY <2>1
  <2>3. Fresh(C) = [i \in 1 .. C |-> r]
    BY <2>2 DEF Fresh
  <2>4. Fresh(C) \in Seq(EntryType) /\ Len(Fresh(C)) = C
    BY <2>2, <2>3
  <2>5. \A i \in 1 .. C : Fresh(C)[i] = r
    BY <2>3
  <2> QED BY <1>0, <2>2, <2>4, <2>5 DEF TypeOK
<1>4. /\ entries' \in Seq(EntryType) /\ Entries' = 1 .. m + C
      /\ \A e \in 1 .. m : entries'[e] = entries[e]
      /\ \A e \in m + 1 .. m + C : entries'[e].key = INVALID /\ entries'[e].value = null
  <2>1. PICK z : z = Fresh(C)
    OBVIOUS
  <2>2. /\ z \in Seq(EntryType) /\ Len(z) = C
        /\ \A i \in 1 .. C : z[i].key = INVALID /\ z[i].value = null
    BY <1>3, <2>1
  <2>3. entries' = entries \o z
    BY <2>1 DEF Grown
  <2>4. \A e \in 1 .. m + C : entries'[e] = IF e <= m THEN entries[e] ELSE z[e - m]
    BY <1>1, <1>3, <2>2, <2>3
  <2>5. \A e \in m + 1 .. m + C : e - m \in 1 .. C /\ ~ e <= m /\ e \in 1 .. m + C
    OBVIOUS
  <2>6. \A e \in m + 1 .. m + C : entries'[e].key = INVALID /\ entries'[e].value = null
    BY <2>2, <2>4, <2>5
  <2>7. entries' \in Seq(EntryType) /\ Entries' = 1 .. m + C
    BY <1>1, <1>3, <2>2, <2>3, SMTT(30) DEF Entries
  <2>8. \A e \in 1 .. m : entries'[e] = entries[e]
    <3>1. \A e \in 1 .. m : e \in 1 .. m + C /\ e <= m
      OBVIOUS
    <3> QED BY <2>4, <3>1
  <2> QED BY <2>6, <2>7, <2>8
<1>5. /\ Entries \subseteq Entries' /\ \A e \in Entries : entries'[e] = entries[e]
      /\ \A e \in Entries' \ Entries : entries'[e].key = INVALID /\ entries'[e].value = null
  <2>1. \A e \in Entries' \ Entries : e \in m + 1 .. m + C
    BY <1>1, <1>4
  <2> QED BY <1>1, <1>4, <2>1
<1>6. L \in DOMAIN headers /\ \A i \in Int : Entry(L, i) \in Entries
  BY <1>0, HeaderIs
<1>r. PICK new : new = NewTable(C, t)
  OBVIOUS
<1>7. /\ \A i \in 0 .. C - 1 : new.index[i] = Entry(L, t + 1 + i) /\ Entry(L, t + 1 + i) \in Entries
      /\ \A i \in C .. 2 * C - 1 : new.index[i] = m + 1 + i - C /\ m + 1 + i - C \in Entries' \ Entries
      /\ new.tail = C - 1 /\ DOMAIN new.index = 0 .. 2 * C - 1
  <2>1. \A i \in 0 .. 2 * C - 1 : new.index[i] = IF i < C THEN Entry(L, t + 1 + i) ELSE m + 1 + i - C
    BY <1>1, <1>r DEF NewTable
  <2>2. new.tail = C - 1 /\ DOMAIN new.index = 0 .. 2 * C - 1
    BY <1>r DEF NewTable
  <2>3. \A i \in 0 .. C - 1 : i \in 0 .. 2 * C - 1 /\ i < C /\ t + 1 + i \in Int
    OBVIOUS
  <2>4. \A i \in C .. 2 * C - 1 : i \in 0 .. 2 * C - 1 /\ ~ i < C /\ m + 1 + i - C \in m + 1 .. m + C
    OBVIOUS
  <2>5. \A x \in m + 1 .. m + C : x \in Entries' \ Entries
    BY <1>1, <1>4
  <2> QED BY <1>6, <2>1, <2>2, <2>3, <2>4, <2>5
<1>8. new \in Header'
  <2>1. \A i \in 0 .. 2 * C - 1 : new.index[i] \in Entries'
    <3>1. \A i \in 0 .. 2 * C - 1 : i \in 0 .. C - 1 \/ i \in C .. 2 * C - 1
      OBVIOUS
    <3> QED BY <1>5, <1>7, <3>1
  <2>2. new.index = [i \in 0 .. 2 * C - 1 |-> new.index[i]]
    BY <1>r DEF NewTable
  <2>3. new.index \in [0 .. 2 * C - 1 -> Entries']
    BY <2>1, <2>2
  <2>4. PICK k \in Nat \ {0} : k = 2 * C
    OBVIOUS
  <2>5. new.index \in UNION {[0 .. j - 1 -> Entries'] : j \in Nat \ {0}}
    BY <2>3, <2>4
  <2>6. new.tail \in Nat /\ new = [tail |-> new.tail, index |-> new.index]
    BY <1>7, <1>r DEF NewTable
  <2> QED BY <2>5, <2>6 DEF Header
<1>9. headers \in Seq(Header')
  <2>1. Header \subseteq Header'
    <3> SUFFICES ASSUME NEW x \in Header PROVE x \in Header'
      OBVIOUS
    <3>1. PICK k \in Nat \ {0} : x.index \in [0 .. k - 1 -> Entries]
      BY DEF Header
    <3>2. x.index \in [0 .. k - 1 -> Entries']
      BY <1>5, <3>1
    <3>3. x.index \in UNION {[0 .. j - 1 -> Entries'] : j \in Nat \ {0}}
      BY <3>2
    <3>4. x.tail \in Nat /\ x = [tail |-> x.tail, index |-> x.index]
      BY DEF Header
    <3> QED BY <3>3, <3>4 DEF Header
  <2> QED BY <1>0, <2>1 DEF TypeOK
<1>a. /\ headers' \in Seq(Header') /\ headers' # <<>> /\ L' = N /\ DOMAIN headers' = DOMAIN headers \cup {N}
      /\ \A h \in DOMAIN headers : headers'[h] = headers[h]
      /\ headers'[N] = new /\ N \notin DOMAIN headers /\ L \in Nat
  <2>1. headers' = Append(headers, new)
    BY <1>r DEF Grown
  <2>2. PICK S : S = Header'
    OBVIOUS
  <2>3. headers \in Seq(S) /\ new \in S /\ N = Len(headers) + 1
    BY <1>8, <1>9, <2>2 DEF L
  <2>4. headers' \in Seq(S) /\ headers' # <<>> /\ L' = N
    BY <2>1, <2>3 DEF L
  <2>5. L \in Nat /\ N \notin DOMAIN headers
    BY <2>3 DEF L
  <2>6. DOMAIN headers' = DOMAIN headers \cup {N} /\ headers'[N] = new /\ \A h \in DOMAIN headers : headers'[h] = headers[h]
    BY <2>1, <2>3
  <2> QED BY <2>2, <2>4, <2>5, <2>6
<1>b. capacity(N)' = 2 * C /\ Caps(N)' = 0 .. 2 * C - 1
  <2>1. Cardinality(0 .. 2 * C - 1) = 2 * C
    <3>1. PICK k \in Nat \ {0} : k = 2 * C
      OBVIOUS
    <3>2. Cardinality(0 .. k - 1) = k
      BY FS_Interval
    <3> QED BY <3>1, <3>2
  <2>2. capacity(N)' = Cardinality(DOMAIN headers'[N].index)
    BY <1>a DEF capacity
  <2>3. capacity(N)' = 2 * C
    BY <1>7, <1>a, <2>1, <2>2
  <2> QED BY <2>3 DEF Caps
<1>c. \A h \in DOMAIN headers : capacity(h)' = capacity(h) /\ Caps(h)' = Caps(h)
  BY <1>a DEF capacity, Caps
<1>d. ASSUME NEW h \in DOMAIN headers'
      PROVE  /\ headers'[h].tail \in Caps(h)'
             /\ \A p, q \in Caps(h)' : headers'[h].index[p] = headers'[h].index[q] => p = q
             /\ capacity(L)' % capacity(h)' = 0
  <2>1. CASE h \in DOMAIN headers
    <3>1. /\ headers[h].tail \in Caps(h)
          /\ \A p, q \in Caps(h) : headers[h].index[p] = headers[h].index[q] => p = q
          /\ C % capacity(h) = 0 /\ capacity(h) \in Nat \ {0}
      BY <1>0, <2>1, HeaderIs DEF HeadersInv
    <3>2. (2 * C) % capacity(h) = 0
      <4>1. PICK c \in Nat \ {0}, x \in Int : c = capacity(h) /\ x = C
        BY <3>1
      <4>2. (x + x) % c = 0
        BY <3>1, <4>1, MultSum
      <4> QED BY <4>1, <4>2
    <3>3. capacity(L)' = 2 * C
      <4>1. capacity(L)' = Cardinality(DOMAIN headers'[L'].index)
        BY DEF capacity
      <4>2. capacity(N)' = Cardinality(DOMAIN headers'[N].index)
        BY <1>a DEF capacity
      <4> QED BY <1>a, <1>b, <4>1, <4>2
    <3> QED BY <1>a, <1>c, <2>1, <3>1, <3>2, <3>3
  <2>2. CASE h = N
    <3>1. headers'[h].tail \in Caps(N)'
      BY <1>7, <1>a, <1>b, <2>2
    <3>2. ASSUME NEW p \in 0 .. 2 * C - 1, NEW q \in 0 .. 2 * C - 1, new.index[p] = new.index[q]
          PROVE  p = q
      <4>1. CASE p < C /\ q < C
        <5>1. Entry(L, t + 1 + p) = Entry(L, t + 1 + q)
          <6>1. p \in 0 .. C - 1 /\ q \in 0 .. C - 1
            BY <4>1
          <6> QED BY <1>7, <3>2, <6>1
        <5>2. PICK x \in Int, y \in Int : x = t + 1 + p /\ y = t + 1 + q
          OBVIOUS
        <5>3. (x - y) % C = 0
          BY <1>0, <1>6, <5>1, <5>2, EntriesApart
        <5>4. PICK z \in Int : z = x - y /\ z = p - q
          BY <5>2
        <5>5. z % C = 0 /\ z < C /\ -z < C
          BY <4>1, <5>3, <5>4
        <5>6. z = 0
          BY <5>5, MultSmall
        <5> QED BY <5>4, <5>6
      <4>2. CASE p < C /\ ~ q < C
        <5>1. p \in 0 .. C - 1 /\ q \in C .. 2 * C - 1
          BY <4>2
        <5> QED BY <1>7, <3>2, <5>1
      <4>3. CASE ~ p < C /\ q < C
        <5>1. q \in 0 .. C - 1 /\ p \in C .. 2 * C - 1
          BY <4>3
        <5> QED BY <1>7, <3>2, <5>1
      <4>4. CASE ~ p < C /\ ~ q < C
        <5>1. q \in C .. 2 * C - 1 /\ p \in C .. 2 * C - 1
          BY <4>4
        <5>2. m + 1 + p - C = m + 1 + q - C
          BY <1>7, <3>2, <5>1
        <5> QED BY <5>2
      <4> QED BY <4>1, <4>2, <4>3, <4>4
    <3>3. capacity(L)' = capacity(h)' /\ capacity(h)' = 2 * C
      <4>1. capacity(L)' = Cardinality(DOMAIN headers'[L'].index)
        BY DEF capacity
      <4>2. capacity(h)' = Cardinality(DOMAIN headers'[h].index)
        BY DEF capacity
      <4>3. capacity(N)' = Cardinality(DOMAIN headers'[N].index)
        BY <1>a DEF capacity
      <4> QED BY <1>a, <1>b, <2>2, <4>1, <4>2, <4>3
    <3>4. (2 * C) % (2 * C) = 0
      <4>1. PICK k \in Nat \ {0} : k = 2 * C
        OBVIOUS
      <4>2. k % k = 0
        OBVIOUS
      <4> QED BY <4>1, <4>2
    <3>5. Caps(h)' = 0 .. 2 * C - 1
      BY <3>3 DEF Caps
    <3>6. headers'[h] = new
      BY <1>a, <2>2
    <3> QED BY <1>b, <3>1, <3>2, <3>3, <3>4, <3>5, <3>6
  <2> QED BY <1>a, <2>1, <2>2
<1>e. ASSUME NEW e \in Entries' PROVE \E p \in 0 .. 2 * C - 1 : new.index[p] = e
  <2>1. CASE e \in Entries
    <3>1. PICK q \in Caps(L) : headers[L].index[q] = e
      BY <1>0, <2>1 DEF HeadersInv
    <3>2. q \in Int /\ e = Entry(L, q)
      <4>1. q \in Int
        BY DEF Caps
      <4> QED BY <1>0, <1>6, <3>1, <4>1, EntriesApart
    <3>3. PICK z \in Int : z = q - (t + 1)
      BY <3>2
    <3>4. PICK i \in 0 .. C - 1 : (i - z) % C = 0
      <4>1. 0 \in Int /\ 0 + C - 1 = C - 1
        OBVIOUS
      <4>2. \E i \in 0 .. 0 + C - 1 : (i - z) % C = 0
        BY <4>1, WindowHits
      <4> QED BY <4>1, <4>2
    <3>5. PICK x \in Int : x = t + 1 + i
      OBVIOUS
    <3>6. x - q = i - z
      BY <3>2, <3>3, <3>5
    <3>7. Entry(L, x) = Entry(L, q)
      BY <1>0, <1>6, <3>2, <3>4, <3>6, EntriesApart
    <3>8. i \in 0 .. C - 1 /\ i \in 0 .. 2 * C - 1
      OBVIOUS
    <3> QED BY <1>7, <3>2, <3>5, <3>7, <3>8
  <2>2. CASE e \notin Entries
    <3>1. e \in m + 1 .. m + C
      BY <1>1, <1>4, <2>2
    <3>2. PICK i \in C .. 2 * C - 1 : i = e - m - 1 + C
      BY <3>1
    <3>3. m + 1 + i - C = e /\ i \in 0 .. 2 * C - 1
      BY <3>1, <3>2
    <3> QED BY <1>7, <3>2, <3>3
  <2> QED BY <2>1, <2>2
<1>f. HeadersInv'
  <2>1. \A e \in Entries' : \E p \in Caps(L)' : headers'[L'].index[p] = e
    <3>1. Caps(L)' = 0 .. 2 * C - 1
      <4>1. Caps(L)' = 0 .. Cardinality(DOMAIN headers'[L'].index) - 1
        BY DEF Caps, capacity
      <4>2. Caps(N)' = 0 .. Cardinality(DOMAIN headers'[N].index) - 1
        BY <1>a DEF Caps, capacity
      <4> QED BY <1>a, <1>b, <4>1, <4>2
    <3> QED BY <1>a, <1>e, <3>1
  <2> QED BY <1>d, <2>1 DEF HeadersInv
<1> QED BY <1>4, <1>5, <1>7, <1>a, <1>b, <1>f DEF GrownTo, Header

LEMMA GrowKept ==
  ASSUME Settings, Fit, Living, Grow
  PROVE  Living'
<1>0. /\ TypeOK /\ HeadersInv /\ RingInv /\ PhaseInv /\ ProducerInv /\ EnqueueInv
      /\ ppc = "grow" /\ UNCHANGED <<start, counts, cpc, cl, blocks, tailBlock, pl>>
      /\ start \in Starts
  BY LivingParts DEF ProducerInv, Grow, TypeOK
<1>1. PICK C \in Nat \ {0}, t \in Nat, N \in Nat : C = capacity(L) /\ t = headers[L].tail /\ N = L + 1
  <2>1. L \in Nat /\ capacity(L) \in Nat \ {0} /\ headers[L].tail \in Nat
    BY <1>0, HeaderIs
  <2> QED BY <2>1
<1>n. /\ UNCHANGED <<slots, elementsCompletelyDequeued, free, tailIndex, headIndex>>
      /\ UNCHANGED <<start, counts, cpc, cl, blocks, tailBlock, pl>>
      /\ ppc' \in {"insert", "undo"} /\ \A i \in Int : Kept(i)' <=> Kept(i)
  <2>1. ppc' \in {"insert", "undo"}
    BY DEF Grow
  <2>2. \A i \in Int : Kept(i)' <=> Kept(i)
    BY <1>0, <2>1 DEF Kept
  <2> QED BY <1>0, <2>1, <2>2 DEF blocks, counts
<1>m. EnqueueInv' /\ LastNo' = LastNo /\ Low' = Low /\ Top' = Top /\ Extra' = Extra /\ Extra = 0
  <2>1. Published' = Published /\ NeededNo' = NeededNo /\ LastNo' = LastNo
    BY <1>n DEF Published, NeededNo, LastNo, BlockNo
  <2>2. EnqueueInv'
    BY <1>0, <1>n, <2>1 DEF EnqueueInv
  <2>3. Low' = Low /\ Extra' = Extra /\ Extra = 0
    BY <1>0, <1>n, <2>1 DEF Low, Extra
  <2> QED BY <2>1, <2>2, <2>3 DEF Top
<1>2. CASE ppc' = "undo" /\ UNCHANGED index
  <2>1. UNCHANGED <<start, counts, cpc, cl, index, blocks, tailBlock, pl>>
    BY <1>n, <1>2
  <2>2. ppc' \in PCs \ {"publish", "undo tail", "destroyed"}
    BY <1>2 DEF PCs
  <2> QED BY <1>0, <1>2, <1>m, <2>1, <2>2, GoKept
<1>3. CASE Grown(C, t) /\ ppc' = "insert"
  <2>1. /\ entries' \in Seq(EntryType)' /\ headers' \in Seq(Header)' /\ headers' # <<>>
        /\ L' = N /\ DOMAIN headers' = DOMAIN headers \cup {N}
        /\ Entries \subseteq Entries' /\ \A e \in Entries : entries'[e] = entries[e]
        /\ \A e \in Entries' \ Entries : entries'[e].key = INVALID /\ entries'[e].value = null
        /\ \A h \in DOMAIN headers : headers'[h] = headers[h]
        /\ headers'[N].tail = C - 1 /\ capacity(N)' = 2 * C /\ Caps(N)' = 0 .. 2 * C - 1
        /\ \A i \in 0 .. C - 1 : headers'[N].index[i] = Entry(L, t + 1 + i) /\ Entry(L, t + 1 + i) \in Entries
        /\ \A i \in C .. 2 * C - 1 : headers'[N].index[i] \in Entries' \ Entries
        /\ HeadersInv'
    <3>1. GrownTo(C, t, N)
      BY <1>1, <1>3, GrowTables
    <3> QED BY <3>1 DEF GrownTo, EntryType, Header
  <2>2. TypeOK'
    <3>1. ppc' \in PCs
      BY <1>3 DEF PCs
    <3> QED BY <1>0, <1>n, <2>1, <3>1 DEF TypeOK
  <2>3. \A e \in Entries : /\ Valid(e)' <=> Valid(e)
                           /\ \A n : Has(e, n)' <=> Has(e, n)
                           /\ \A n : Held(n, e)' <=> Held(n, e)
    BY <1>n, <2>1 DEF Valid, Has, KeyOf, Held
  <2>4. Number' = Number
    BY <1>n DEF Number, BlockNo
  <2>5. SameHeld
    BY <2>1, <2>3 DEF SameHeld
  <2>6. ASSUME NEW h \in DOMAIN headers
        PROVE  /\ headers'[h].index = headers[h].index /\ capacity(h)' = capacity(h) /\ Caps(h)' = Caps(h)
               /\ \A p \in Caps(h) : Valid(headers[h].index[p])' <=> Valid(headers[h].index[p])
               /\ \A pos, n : InPhase(h, pos, n)' <=> InPhase(h, pos, n)
    <3>1. headers'[h].index = headers[h].index /\ capacity(h)' = capacity(h) /\ Caps(h)' = Caps(h)
      BY <2>1 DEF capacity, Caps
    <3>2. \A p \in Caps(h) : headers[h].index[p] \in Entries
      BY <1>0, HeaderIs
    <3>3. \A p \in Caps(h) : \A n : Has(headers[h].index[p], n)' <=> Has(headers[h].index[p], n)
      BY <2>3, <3>1, <3>2
    <3>4. \A p \in Caps(h) : Valid(headers[h].index[p])' <=> Valid(headers[h].index[p])
      BY <2>3, <3>1, <3>2
    <3> QED BY <2>4, <3>1, <3>3, <3>4 DEF InPhase
  <2>7. IndexKept
    <3>1. \A h \in DOMAIN headers : h \in DOMAIN headers'
      BY <2>1
    <3>2. \A n \in Number, e \in Entries : n <= LastNo /\ Held(n, e) /\ Staying(n) =>
             e \in Entries' /\ Held(n, e)' /\ entries'[e].value = entries[e].value
      BY <2>1, <2>3
    <3> QED BY <2>6, <3>1, <3>2 DEF IndexKept
  <2>8. PICK v, w \in Number : Ring(v, w)
    BY <1>0 DEF RingInv
  <2>9. /\ v \in Nat /\ w \in Nat /\ v <= LastNo + 1 /\ w = Low /\ w = Top /\ v <= w - C + 1
        /\ LastNo \in Int /\ Low \in Int /\ Top \in Int
        /\ pl.allocated # <<>> => w <= LastNo + C
        /\ \A n \in w - C + 1 .. w : IF v <= n THEN Has(EntryOf(n), n) ELSE ~Valid(EntryOf(n))
    <3>1. LastNo \in Int /\ Low \in Int /\ Top \in Int /\ Top = Low
      BY <1>0, <1>m, Basics
    <3> QED BY <1>0, <1>1, <2>8, <3>1, NumberFits DEF Ring
  <2>a. PhaseInv'
    <3>1. ASSUME NEW p \in Caps(L) PROVE Valid(headers[L].index[p])
      <4>1. L \in DOMAIN headers /\ headers[L].index[p] \in Entries
        BY <1>0, HeaderIs
      <4>2. PICK x \in Int : x = w - C + 1 /\ x + C - 1 = w
        BY <2>9
      <4>3. PICK n \in x .. x + C - 1 : headers[L].index[p] = EntryOf(n)
        BY <1>0, <1>1, <2>9, <4>1, EntriesOf
      <4>4. n \in w - C + 1 .. w /\ v <= n /\ n \in Int
        BY <2>9, <4>2
      <4>5. n \in Number
        BY <2>8, <2>9, <4>4, NumberFits DEF Number
      <4>6. Has(headers[L].index[p], n)
        BY <2>9, <4>3, <4>4
      <4> QED BY <1>0, <4>1, <4>5, <4>6, OneKey
    <3>2. ASSUME NEW h \in DOMAIN headers', h < N
          PROVE  /\ h \in DOMAIN headers
                 /\ \A p \in Caps(h) : Valid(headers[h].index[p])
                 /\ \A p \in Caps(h), n \in Number : Has(headers[h].index[p], n) => InPhase(h, p, n)
      <4>1. L \in Nat /\ DOMAIN headers = 1 .. L
        BY <1>0, HeaderIs
      <4>2. h \in DOMAIN headers /\ (h = L \/ h < L)
        BY <1>1, <2>1, <3>2, <4>1
      <4>3. \A p \in Caps(h) : Valid(headers[h].index[p])
        BY <1>0, <3>1, <4>2 DEF PhaseInv
      <4> QED BY <1>0, <4>2, <4>3, Phases
    <3>3. ASSUME NEW h \in DOMAIN headers', h < N
          PROVE  /\ \A p \in Caps(h)' : Valid(headers[h].index[p])'
                 /\ \A p \in Caps(h)', n \in Number' : Has(headers[h].index[p], n)' => InPhase(h, p, n)'
      <4>1. /\ h \in DOMAIN headers
            /\ \A p \in Caps(h) : Valid(headers[h].index[p])
            /\ \A p \in Caps(h), n \in Number : Has(headers[h].index[p], n) => InPhase(h, p, n)
        BY <3>2, <3>3
      <4>2. \A p \in Caps(h) : headers[h].index[p] \in Entries
        BY <1>0, <4>1, HeaderIs
      <4>3. headers'[h].index = headers[h].index
        BY <2>6, <4>1
      <4>4. \A p \in Caps(h), n \in Number : Has(headers[h].index[p], n)' => InPhase(h, p, n)'
        BY <2>3, <2>6, <4>1, <4>2, <4>3
      <4>5. \A p \in Caps(h) : Valid(headers[h].index[p])'
        BY <2>6, <4>1
      <4> QED BY <2>4, <2>6, <4>1, <4>4, <4>5
    <3> QED BY <2>1, <3>3 DEF PhaseInv
  <2>b. /\ HeldInv' /\ BlockInv' /\ SharesInv'
        /\ \A c \in Holding' : ConsumerInv(c)'
        /\ HandInv' /\ AllocatedInv' /\ TailInv'
    <3>1. ppc # "publish" /\ ppc' # "publish" /\ pl' = pl /\ tailBlock' = tailBlock
      BY <1>0, <1>3
    <3> QED BY <1>n, <2>5, <2>7, <3>1, ProducerKeeps
  <2>c. RingInv'
    <3>0. PICK C2 \in Nat \ {0} : C2 = 2 * C
      OBVIOUS
    <3>1. capacity(L)' = C2
      <4>1. capacity(L)' = Cardinality(DOMAIN headers'[L'].index)
        BY DEF capacity
      <4>2. capacity(N)' = Cardinality(DOMAIN headers'[N].index)
        BY DEF capacity
      <4> QED BY <2>1, <3>0, <4>1, <4>2
    <3>2. ASSUME NEW n \in Int
          PROVE  EntryOf(n)' = headers'[N].index[(C - 1 + (n - Top)) % C2]
      <4>1. EntryOf(n)' = headers'[L'].index[(headers'[L'].tail + (n - Top')) % capacity(L)']
        BY DEF EntryOf, Entry, capacity
      <4> QED BY <1>m, <2>1, <3>1, <4>1
    <3>3. ASSUME NEW n \in w - C + 1 .. w PROVE EntryOf(n)' = EntryOf(n)
      <4>0. n \in Int
        BY <2>9
      <4>1. PICK i \in 0 .. C - 1 : i = C - 1 + (n - Top)
        BY <2>9
      <4>2. i % C2 = i
        BY <3>0, <4>1
      <4>3. EntryOf(n)' = Entry(L, t + 1 + i)
        BY <2>1, <3>2, <4>0, <4>1, <4>2
      <4>4. PICK x \in Int, y \in Int, z \in Int : x = t + 1 + i /\ y = t + (n - Top) /\ z = x - y
        <5>1. i \in Int /\ Top \in Int /\ t \in Int
          BY <2>9
        <5> QED BY <4>0, <5>1
      <4>5. z = C * 1 + 0 /\ 1 \in Int
        BY <2>9, <4>1, <4>4
      <4>6. z % C = 0
        BY <4>5, MultIs
      <4>7. Entry(L, x) = Entry(L, y)
        <5>1. L \in DOMAIN headers
          BY <1>0, HeaderIs
        <5> QED BY <1>0, <1>1, <4>4, <4>6, <5>1, EntriesApart
      <4>8. EntryOf(n) = Entry(L, y)
        BY <1>1, <4>4 DEF EntryOf
      <4> QED BY <4>3, <4>4, <4>7, <4>8
    <3>4. ASSUME NEW n \in w - C2 + 1 .. w - C PROVE EntryOf(n)' \in Entries' \ Entries
      <4>1. PICK j \in Int, i \in C .. C2 - 1 : j = C - 1 + (n - Top) /\ i = j + C2
        BY <2>9, <3>0
      <4>2. j = C2 * (-1) + i /\ i \in 0 .. C2 - 1 /\ -1 \in Int
        BY <4>1, <3>0
      <4>3. j % C2 = i
        BY <4>2, DivIs
      <4>4. i \in C .. 2 * C - 1
        BY <3>0
      <4>5. n \in Int
        BY <2>9, <3>0
      <4>6. EntryOf(n)' = headers'[N].index[i]
        BY <3>2, <4>1, <4>3, <4>5
      <4> QED BY <2>1, <4>4, <4>6
    <3>5. PICK u \in Number : u = w - C + 1
      <4>1. w - C + 1 \in Int /\ w - C + 1 >= v /\ w - C + 1 <= w
        BY <2>9
      <4> QED BY <2>8, <2>9, <4>1, NumberFits DEF Number
    <3>6. ASSUME NEW n \in w - C2 + 1 .. w
          PROVE  IF u <= n THEN Has(EntryOf(n), n)' ELSE ~Valid(EntryOf(n))'
      <4>0. n \in Int /\ u \in Int
        BY <2>9, <3>5
      <4>1. CASE u <= n
        <5>1. n \in w - C + 1 .. w /\ v <= n
          BY <2>9, <3>5, <4>0, <4>1
        <5>2. Has(EntryOf(n), n) /\ EntryOf(n)' = EntryOf(n)
          BY <2>9, <3>3, <5>1
        <5>3. EntryOf(n) \in Entries
          BY <1>0, <2>9, <4>0, EntriesOf
        <5> QED BY <2>3, <4>1, <5>2, <5>3
      <4>2. CASE ~ u <= n
        <5>1. n \in w - C2 + 1 .. w - C
          BY <2>9, <3>5, <4>0, <4>2
        <5>2. EntryOf(n)' \in Entries' \ Entries
          BY <3>4, <5>1
        <5>3. ~Valid(EntryOf(n))'
          BY <2>1, <5>2 DEF Valid
        <5> QED BY <4>2, <5>3
      <4> QED BY <4>1, <4>2
    <3>7. /\ u <= LastNo' + 1 /\ Low' <= w /\ w <= Low' + C2
          /\ pl'.allocated # <<>> => w <= LastNo' + C2
      <4>1. u <= LastNo + 1
        <5>1. CASE pl.allocated = <<>>
          <6>0. Low = LastNo + Len(pl.allocated) - pl.undone /\ pl.undone \in Nat
            BY <1>0, Basics
          <6>1. Low = LastNo + 0 - pl.undone /\ pl.undone \in Nat
            BY <5>1, <6>0
          <6>2. LastNo \in Int /\ Low \in Int /\ u = Low - C + 1
            BY <2>9, <3>5
          <6> QED BY <6>1, <6>2
        <5>2. CASE pl.allocated # <<>>
          BY <2>9, <3>5, <5>2
        <5> QED BY <5>1, <5>2
      <4> QED BY <1>m, <1>n, <2>9, <3>0, <4>1
    <3>8. Ring(u, w)'
      BY <1>3, <3>1, <3>6, <3>7 DEF Ring
    <3> QED BY <2>4, <2>8, <3>5, <3>8 DEF RingInv
  <2> QED BY <1>3, <1>m, <2>1, <2>2, <2>a, <2>b, <2>c DEF Living, IInv, ProducerInv
<1>4. (Grown(C, t) /\ ppc' = "insert") \/ (ppc' = "undo" /\ UNCHANGED index)
  <2>1. (Grown(capacity(L), headers[L].tail) /\ ppc' = "insert") \/ (ppc' = "undo" /\ UNCHANGED index)
    BY Zenon DEF Grow, Grown, NewTable, Fresh, L
  <2> QED BY <1>1, <2>1
<1> QED BY <1>2, <1>3, <1>4

\* Blocks of the index are in use, each for a block of items.
LEMMA HeldBlocks ==
  ASSUME TypeOK, HeldInv, BlockInv
  PROVE  /\ \A e \in Entries : entries[e].value # null =>
              /\ entries[e].value \in Block \ free
              /\ \E n \in Number : Held(n, e) /\ Want(n)
         /\ Indexed \subseteq Block \ free
<1>1. ASSUME NEW e \in Entries, entries[e].value # null
      PROVE  entries[e].value \in Block \ free /\ \E n \in Number : Held(n, e) /\ Want(n)
  <2>1. PICK n \in Number : Has(e, n) /\ Want(n)
    BY <1>1 DEF HeldInv
  <2>2. Held(n, e)
    BY <1>1, <2>1 DEF Held
  <2>3. entries[e].value \notin free
    BY <2>2 DEF BlockInv
  <2>4. entries \in Seq(EntryType)
    BY DEF TypeOK
  <2>5. entries[e] \in EntryType
    BY <2>4 DEF Entries
  <2> QED BY <1>1, <2>1, <2>2, <2>3, <2>5 DEF EntryType
<1>2. Indexed \subseteq Block \ free
  BY <1>1 DEF Indexed
<1> QED BY <1>1, <1>2

LEMMA RequisitionKept ==
  ASSUME Settings, Fit, Living, Requisition
  PROVE  Living'
<1>0. /\ TypeOK /\ HeadersInv /\ RingInv /\ HeldInv /\ BlockInv /\ ProducerInv /\ EnqueueInv /\ HandInv /\ AllocatedInv
      /\ ppc = "block" /\ UNCHANGED <<start, counts, cpc, cl, index, slots, tailBlock>>
      /\ null \notin Block
  BY LivingParts, Numbers DEF ProducerInv, Requisition
<1>1. CASE ppc' = "rewind" /\ UNCHANGED <<elementsCompletelyDequeued, free, pl>>
  <2>1. UNCHANGED <<start, counts, cpc, cl, index, blocks, tailBlock, pl>> /\ Extra' = Extra
    BY <1>0, <1>1 DEF blocks, Extra
  <2>2. EnqueueInv'
    <3>1. Published' = Published /\ NeededNo' = NeededNo
      BY <1>0, <1>1 DEF Published, NeededNo, LastNo, BlockNo, counts
    <3> QED BY <1>0, <1>1, <3>1 DEF EnqueueInv
  <2>3. ppc' \in PCs \ {"publish", "undo tail", "destroyed"}
    BY <1>1 DEF PCs
  <2> QED BY <1>0, <1>1, <2>1, <2>2, <2>3, GoKept
<1>2. ASSUME NEW b \in free, free' = free \ {b}, ppc' = "value", pl' = [pl EXCEPT !.block = b],
             elementsCompletelyDequeued' = [elementsCompletelyDequeued EXCEPT ![b] = 0]
      PROVE  Living'
  <2>1. /\ b \in Block /\ b # null
        /\ pl \in [n : 0 .. MaxBulk, allocated : Seq(Block), block : Block \cup {null}, undone : Nat]
        /\ elementsCompletelyDequeued \in [Block -> 0 .. BLOCK_SIZE]
    BY <1>0 DEF TypeOK
  <2>2. /\ pl'.n = pl.n /\ pl'.allocated = pl.allocated /\ pl'.undone = pl.undone /\ pl'.block = b
        /\ pl' \in [n : 0 .. MaxBulk, allocated : Seq(Block), block : Block \cup {null}, undone : Nat]
    BY <1>2, <2>1
  <2>3. /\ elementsCompletelyDequeued' \in [Block -> 0 .. BLOCK_SIZE] /\ elementsCompletelyDequeued'[b] = 0
        /\ \A x \in Block : x # b => elementsCompletelyDequeued'[x] = elementsCompletelyDequeued[x]
    <3>1. BLOCK_SIZE \in Nat
      BY Numbers
    <3> QED BY <1>2, <2>1, <3>1
  <2>p. ppc' = "value" /\ free' = free \ {b} /\ free \subseteq Block
    BY <1>0, <1>2 DEF TypeOK
  <2>4. UNCHANGED <<start, headers, entries, slots, tailBlock, tailIndex, headIndex, cpc, cl>>
    BY <1>0 DEF index, counts
  <2>5. /\ Published' = Published /\ LastNo' = LastNo /\ Low' = Low /\ Top' = Top /\ Top \in Int
        /\ NeededNo' = NeededNo /\ Number' = Number /\ Entries' = Entries
        /\ \A i \in Int : Kept(i)' <=> Kept(i)
    <3>1. Published' = Published /\ LastNo' = LastNo /\ Number' = Number /\ Entries' = Entries
      BY <2>4 DEF Published, LastNo, BlockNo, Number, Entries
    <3>2. Low' = Low /\ Extra' = Extra
      BY <1>0, <2>2, <2>p, <3>1 DEF Low, Extra
    <3>3. Top \in Int
      BY <1>0, Basics
    <3>4. NeededNo' = NeededNo
      BY <2>2, <3>1 DEF NeededNo, BlockNo
    <3>5. \A i \in Int : Kept(i)' <=> Kept(i)
      BY <1>0, <2>2, <2>p DEF Kept
    <3> QED BY <3>1, <3>2, <3>3, <3>4, <3>5 DEF Top
  <2>6. TypeOK'
    <3>1. Header' = Header /\ EntryType' = EntryType
      BY <2>4, <2>5 DEF Header, EntryType
    <3>2. ppc' \in PCs /\ free' \subseteq Block
      BY <2>p DEF PCs
    <3> QED BY <1>0, <2>2, <2>3, <2>4, <3>1, <3>2 DEF TypeOK
  <2>7. HeadersInv' /\ RingInv'
    <3>1. SameKeys
      BY <2>4, <2>5 DEF SameKeys
    <3> QED BY <1>0, <2>2, <2>4, <2>5, <2>p, <3>1, KeepTables, KeepRing
  <2>8. IndexKept /\ PhaseInv' /\ SameHeld
    <3>1. SameTables
      BY <2>4 DEF SameTables, L
    <3> QED BY <2>4, <3>1, IndexSame
  <2>9. HeldInv'
    <3>1. \A n \in Number : Want(n)' <=> Want(n)
      <4>1. \A n : Pend(n)' <=> Pend(n)
        BY <2>4, ProducerFrame
      <4>2. LastNo \in Int
        BY <1>0, Basics
      <4>3. \A n \in Number : n - LastNo \in Int
        BY <4>2, NumberFits
      <4> QED BY <2>2, <2>5, <4>1, <4>3 DEF Want
    <3> QED BY <1>0, <2>2, <2>4, <2>5, <2>8, <3>1, KeepHeld
  <2>a. Indexed' = Indexed /\ Indexed \subseteq Block \ free
    BY <1>0, <2>4, <2>5, HeldBlocks DEF Indexed
  <2>b. \A x : Empty(x)' <=> Empty(x)
    BY <2>4 DEF Empty
  <2>c. BlockInv'
    <3>1. \A n : Left_(n)' = Left_(n)
      BY <2>4, ProducerFrame
    <3>2. \A d : Unread(d)' <=> Unread(d)
      <4>1. Holding' = Holding /\ Claimed' = Claimed /\ \A c : Lo(c)' = Lo(c) /\ Hi(c)' = Hi(c)
        BY <2>4, ProducerFrame
      <4> QED BY <1>0, <2>5, <2>p, <4>1 DEF Unread
    <3>3. \A x, n : Filled(x, n)' <=> Filled(x, n)
      BY <2>4, <3>2 DEF Filled, At, ItemOf
    <3>4. \A n \in Number, e \in Entries : Held(n, e)' <=> Held(n, e)
      BY <2>8 DEF SameHeld
    <3>5. ASSUME NEW n \in Number, NEW e \in Entries, Held(n, e)
          PROVE  /\ entries[e].value \notin free'
                 /\ elementsCompletelyDequeued'[entries[e].value] + Cardinality(Left_(n)) = BLOCK_SIZE
                 /\ Filled(entries[e].value, n)
      <4>1. entries[e].value \in Block \ free
        BY <1>0, <3>5, HeldBlocks DEF Held
      <4>2. /\ elementsCompletelyDequeued[entries[e].value] + Cardinality(Left_(n)) = BLOCK_SIZE
            /\ Filled(entries[e].value, n)
        BY <1>0, <3>5 DEF BlockInv
      <4> QED BY <2>3, <2>p, <4>1, <4>2
    <3>6. \A x \in free' : Empty(x)
      BY <1>0, <2>p DEF BlockInv
    <3>7. Block \subseteq free' \cup Indexed' \cup {pl'.block} \cup {pl'.allocated[i] : i \in DOMAIN pl'.allocated}
                     \cup {cl'[c].block : c \in {d \in Consumer : cpc'[d] = "free"}}
      <4>1. pl.block = null
        BY <1>0 DEF EnqueueInv
      <4> QED BY <1>0, <2>2, <2>4, <2>a, <2>p, <4>1 DEF BlockInv
    <3> QED BY <2>4, <2>5, <2>b, <3>1, <3>3, <3>4, <3>5, <3>6, <3>7 DEF BlockInv
  <2>d. HandInv' /\ AllocatedInv'
    <3>1. Empty(b)
      BY <1>0 DEF BlockInv
    <3>2. \A i \in DOMAIN pl.allocated : pl.allocated[i] # b /\ i \in Int
      BY <1>0, <2>1 DEF AllocatedInv
    <3>3. HandInv'
      BY <2>2, <2>3, <2>a, <2>b, <2>p, <3>1, <3>2 DEF HandInv
    <3>4. AllocatedInv'
      BY <1>0, <2>2, <2>5, <2>a, <2>b, <2>p, <3>2 DEF AllocatedInv
    <3> QED BY <3>3, <3>4
  <2>e. TailInv'
    BY <1>0, <2>4, <2>5, <2>8, <2>p, KeepTail
  <2>f. (\A c \in Holding' : ConsumerInv(c)') /\ SharesInv'
    <3>1. ASSUME NEW x \in Block, x \notin free \cup Indexed \cup {pl.block}, Empty(x),
                 \A i \in DOMAIN pl.allocated : pl.allocated[i] # x
          PROVE  x \notin free' \cup Indexed' \cup {pl'.block} /\ Empty(x)'
                 /\ (\A i \in DOMAIN pl'.allocated : pl'.allocated[i] # x)
      BY <2>2, <2>a, <2>b, <2>p, <3>1
    <3> QED BY <2>4, <2>8, <3>1, ProducerConsumers
  <2>g. EnqueueInv'
    BY <1>0, <2>1, <2>2, <2>5, <2>p DEF EnqueueInv
  <2> QED BY <2>6, <2>7, <2>8, <2>9, <2>c, <2>d, <2>e, <2>f, <2>g, <2>p DEF Living, IInv, ProducerInv
<1> QED BY <1>1, <1>2 DEF Requisition

LEMMA ClearKept ==
  ASSUME Settings, Fit, Living, Clear
  PROVE  Living'
<1>0. /\ TypeOK /\ HeadersInv /\ RingInv /\ HeldInv /\ BlockInv /\ ProducerInv /\ EnqueueInv
      /\ ppc = "clear" /\ ppc' = "undo"
      /\ UNCHANGED <<start, counts, cpc, cl, headers, blocks, tailBlock, pl>>
      /\ entries' = [entries EXCEPT ![Entry(L, headers[L].tail + 1)].value = null]
  BY LivingParts DEF ProducerInv, Clear, L
<1>1. PICK e : e = Entry(L, headers[L].tail + 1)
  OBVIOUS
<1>2. /\ Top = Low /\ Low \in Int /\ LastNo \in Int /\ Low = LastNo + Len(pl.allocated)
      /\ Len(pl.allocated) \in Nat /\ pl.allocated \in Seq(Block)
  <2>1. Extra = 0
    BY <1>0 DEF Extra
  <2>2. pl.allocated \in Seq(Block)
    BY <1>0 DEF TypeOK
  <2>3. pl.undone = 0
    <3>1. pl.undone \in Nat
      BY <1>0, Basics
    <3> QED BY <1>0, <3>1 DEF EnqueueInv
  <2> QED BY <1>0, <2>1, <2>2, <2>3, Basics
<1>3. PICK N1 \in Int : N1 = Top + 1
  BY <1>2
<1>4. e = EntryOf(N1) /\ e \in Entries
  <2>1. PICK t \in Nat : t = headers[L].tail
    BY <1>0, HeaderIs
  <2>2. N1 - Top = 1
    BY <1>2, <1>3
  <2>3. e = EntryOf(N1)
    BY <1>1, <2>1, <2>2 DEF EntryOf
  <2> QED BY <1>0, <1>2, <2>3, EntriesOf
<1>5. PICK v, w \in Number : Ring(v, w)
  BY <1>0 DEF RingInv
<1>6. N1 \in Number /\ Has(e, N1)
  <2>1. PICK C \in Nat \ {0} : C = capacity(L)
    BY <1>0, HeaderIs
  <2>2. /\ v \in Nat /\ w \in Nat /\ v <= LastNo + 1 /\ Low < w /\ w <= Low + C
        /\ \A n \in w - C + 1 .. w : IF v <= n THEN Has(EntryOf(n), n) ELSE ~Valid(EntryOf(n))
    BY <1>0, <1>5, <2>1, NumberFits DEF Ring
  <2>3. N1 \in w - C + 1 .. w /\ v <= N1
    BY <1>2, <1>3, <2>1, <2>2
  <2>4. N1 \in Number
    BY <1>5, <2>2, <2>3, NumberFits DEF Number
  <2> QED BY <1>4, <2>2, <2>3, <2>4
<1>7. entries[e].value = null
  <2> SUFFICES ASSUME entries[e].value # null PROVE FALSE
    OBVIOUS
  <2>1. Want(N1)
    BY <1>0, <1>4, <1>6, HeldWanted DEF Held
  <2>2. N1 > LastNo /\ N1 - LastNo = Len(pl.allocated) + 1
    BY <1>2, <1>3
  <2> QED BY <1>2, <2>1, <2>2 DEF Want
<1>8. entries' = entries
  <2>1. entries \in Seq(EntryType)
    BY <1>0 DEF TypeOK
  <2>2. entries[e] \in EntryType
    BY <1>4, <2>1 DEF Entries
  <2>3. [entries[e] EXCEPT !.value = null] = entries[e]
    BY <1>7, <2>2 DEF EntryType
  <2>4. PICK r : r = [entries[e] EXCEPT !.value = null]
    OBVIOUS
  <2>5. entries' = [entries EXCEPT ![e] = r] /\ r = entries[e]
    BY <1>0, <1>1, <2>3, <2>4
  <2> QED BY <2>1, <2>5
<1>9. UNCHANGED <<start, counts, cpc, cl, index, blocks, tailBlock, pl>> /\ Extra' = Extra
  BY <1>0, <1>8 DEF index, Extra
<1>a. EnqueueInv'
  <2>1. Published' = Published /\ NeededNo' = NeededNo
    BY <1>0 DEF Published, NeededNo, LastNo, BlockNo, counts
  <2> QED BY <1>0, <2>1 DEF EnqueueInv
<1>b. ppc' \in PCs \ {"publish", "undo tail", "destroyed"}
  BY <1>0 DEF PCs
<1> QED BY <1>0, <1>9, <1>a, <1>b, GoKept

\* A block after the published items has them all to come.
LEMMA NewBlock ==
  ASSUME Settings, Fit, Living, NEW n \in Int, n > LastNo
  PROVE  /\ Left_(n) = Place /\ Cardinality(Left_(n)) = BLOCK_SIZE
         /\ ppc # "publish" => \A k \in Place : ~Unread(ItemOf(n, k))
<1>0. TypeOK /\ HeldInv /\ \A c \in Holding : ConsumerInv(c)
  BY LivingParts
<1>1. Published \in Nat /\ Claimed \in Nat /\ Claimed <= Published
  BY <1>0, Basics
<1>2. \A c \in Holding : Lo(c) \in Int /\ Hi(c) \in Int /\ Hi(c) <= Claimed
  BY <1>0, ReadersItems
<1>3. ASSUME NEW k \in Place PROVE ItemOf(n, k) \in Int /\ ItemOf(n, k) >= Published
  <2>1. PICK d \in Int : d = ItemOf(n, k) /\ BlockNo(d) = n
    BY BlockNoIs
  <2>2. PICK p \in Int : p = Published - 1 /\ LastNo = BlockNo(p)
    BY <1>1 DEF LastNo
  <2>3. BlockNo(p) < BlockNo(d) => p < d
    BY <2>1, <2>2, BlockNoUp
  <2> QED BY <1>1, <2>1, <2>2, <2>3
<1>4. ASSUME NEW k \in Place PROVE NotCounted(ItemOf(n, k)) /\ (ppc # "publish" => ~Unread(ItemOf(n, k)))
  <2>1. PICK d \in Int : d = ItemOf(n, k) /\ d >= Published
    BY <1>3
  <2>2. NotCounted(ItemOf(n, k))
    BY <1>1, <2>1 DEF NotCounted
  <2>3. ASSUME ppc # "publish" PROVE ~Unread(ItemOf(n, k))
    <3>1. Unread(d) <=> (Claimed <= d /\ d < Published + 0) \/ \E c \in Holding : Lo(c) <= d /\ d < Hi(c)
      BY <2>3 DEF Unread
    <3> QED BY <1>1, <1>2, <2>1, <3>1
  <2> QED BY <2>2, <2>3
<1>5. Left_(n) = Place
  BY <1>4 DEF Left_
<1>6. Cardinality(Place) = BLOCK_SIZE
  <2>1. BLOCK_SIZE - 1 \in Int /\ 0 <= BLOCK_SIZE - 1 /\ BLOCK_SIZE \in Int
    BY Numbers
  <2>2. Cardinality(0 .. BLOCK_SIZE - 1) = (BLOCK_SIZE - 1) - 0 + 1
    BY <2>1, FS_Interval
  <2> QED BY <2>1, <2>2 DEF Place
<1> QED BY <1>4, <1>5, <1>6

LEMMA StoreValueKept ==
  ASSUME Settings, Fit, Living, StoreValue
  PROVE  Living'
<1>0. /\ TypeOK /\ HeadersInv /\ RingInv /\ PhaseInv /\ HeldInv /\ BlockInv
      /\ ProducerInv /\ EnqueueInv /\ HandInv /\ AllocatedInv
      /\ ppc = "value" /\ UNCHANGED <<start, counts, cpc, cl, headers, blocks, tailBlock>>
      /\ null \notin Block /\ start \in Starts
  BY LivingParts, Numbers DEF ProducerInv, StoreValue, TypeOK
<1>1. PICK e, b : e = LastEntry /\ b = pl.block
  OBVIOUS
<1>2. /\ UNCHANGED <<slots, elementsCompletelyDequeued, free, tailIndex, headIndex>>
      /\ UNCHANGED <<start, cpc, cl, headers, tailBlock>>
  BY <1>0 DEF blocks, counts
<1>3. /\ pl \in [n : 0 .. MaxBulk, allocated : Seq(Block), block : Block \cup {null}, undone : Nat]
      /\ b \in Block /\ b # null /\ pl.undone = 0 /\ pl.allocated \in Seq(Block)
  <2>1. pl \in [n : 0 .. MaxBulk, allocated : Seq(Block), block : Block \cup {null}, undone : Nat]
    BY <1>0 DEF TypeOK
  <2>2. pl.block # null
    BY <1>0 DEF EnqueueInv
  <2>3. pl.undone = 0
    BY <1>0, <2>1 DEF EnqueueInv
  <2> QED BY <1>1, <2>1, <2>2, <2>3
<1>4. PICK A \in Nat : A = Len(pl.allocated)
  BY <1>3
<1>5. PICK T \in Int : /\ T = Top /\ Low = LastNo + A /\ T = LastNo + A + 1 /\ LastNo \in Int /\ LastNo \in Number
                       /\ Extra = 1 /\ Low + 1 = T /\ T > LastNo /\ T - LastNo = A + 1
  <2>1. Extra = 1
    BY <1>0 DEF Extra
  <2>2. /\ LastNo \in Int /\ LastNo \in Number /\ Low = LastNo + A - 0 /\ Top = Low + 1
    BY <1>0, <1>3, <1>4, <2>1, Basics
  <2> QED BY <1>4, <2>1, <2>2
<1>6. e = EntryOf(T) /\ e \in Entries
  <2>1. PICK t \in Nat : t = headers[L].tail
    BY <1>0, HeaderIs
  <2>2. T - Top = 0
    BY <1>5
  <2>3. e = EntryOf(T)
    BY <1>1, <2>1, <2>2 DEF EntryOf, LastEntry, L
  <2> QED BY <1>0, <1>5, <2>3, EntriesOf
<1>7. PICK v, w \in Number : Ring(v, w)
  BY <1>0 DEF RingInv
<1>8. PICK C \in Nat \ {0} : C = capacity(L)
  BY <1>0, HeaderIs
<1>9. /\ v \in Nat /\ w \in Nat /\ v <= LastNo + 1 /\ T <= w /\ w <= Low + C
      /\ (pl.allocated # <<>> => w <= LastNo + C)
      /\ \A n \in w - C + 1 .. w : IF v <= n THEN Has(EntryOf(n), n) ELSE ~Valid(EntryOf(n))
  <2>1. Low < w
    BY <1>0, <1>7 DEF Ring
  <2>2. w \in Int
    BY <1>7, NumberFits
  <2>3. T <= w
    BY <1>5, <2>1, <2>2
  <2> QED BY <1>7, <1>8, <2>3, NumberFits DEF Ring
<1>a. T \in Number /\ Has(e, T)
  <2>1. T \in w - C + 1 .. w /\ v <= T
    BY <1>5, <1>8, <1>9
  <2>2. T \in Number
    BY <1>7, <1>9, <2>1, NumberFits DEF Number
  <2> QED BY <1>6, <1>9, <2>1, <2>2
<1>b. ~Want(T) /\ entries[e].value = null
  <2>1. ~Want(T)
    <3>1. T - LastNo \notin DOMAIN pl.allocated
      BY <1>3, <1>4, <1>5
    <3> QED BY <1>5, <3>1 DEF Want
  <2> QED BY <1>0, <1>6, <1>a, <2>1, HeldWanted DEF Held
<1>c. /\ Entries' = Entries /\ entries' \in Seq(EntryType)
      /\ entries'[e].key = entries[e].key /\ entries'[e].value = b
      /\ \A f \in Entries : f # e => entries'[f] = entries[f]
  <2>1. entries \in Seq(EntryType) /\ entries[e] \in EntryType /\ e \in DOMAIN entries
    BY <1>0, <1>6 DEF TypeOK, Entries
  <2>2. PICK r : r = [entries[e] EXCEPT !.value = b]
    OBVIOUS
  <2>3. r \in EntryType /\ r.key = entries[e].key /\ r.value = b
    BY <1>3, <2>1, <2>2 DEF EntryType
  <2>4. entries' = [entries EXCEPT ![e] = r]
    BY <1>1, <2>2 DEF StoreValue
  <2> QED BY <2>1, <2>3, <2>4 DEF Entries
<1>d. /\ pl' \in [n : 0 .. MaxBulk, allocated : Seq(Block), block : Block \cup {null}, undone : Nat]
      /\ pl'.n = pl.n /\ pl'.undone = 0 /\ pl'.block = null
      /\ pl'.allocated \in Seq(Block) /\ Len(pl'.allocated) = A + 1 /\ pl'.allocated # <<>>
      /\ pl'.allocated[A + 1] = b
      /\ \A i \in DOMAIN pl.allocated : pl'.allocated[i] = pl.allocated[i]
      /\ DOMAIN pl.allocated = 1 .. A /\ DOMAIN pl'.allocated = 1 .. A + 1
  <2>1. pl' = [pl EXCEPT !.allocated = Append(pl.allocated, b), !.block = null]
    BY <1>1 DEF StoreValue
  <2>2. PICK s : s = Append(pl.allocated, b)
    OBVIOUS
  <2>3. /\ s \in Seq(Block) /\ Len(s) = A + 1 /\ s[A + 1] = b
        /\ \A i \in DOMAIN pl.allocated : s[i] = pl.allocated[i]
        /\ DOMAIN pl.allocated = 1 .. A /\ DOMAIN s = 1 .. A + 1
    BY <1>3, <1>4, <2>2
  <2>4. pl'.n = pl.n /\ pl'.undone = 0 /\ pl'.block = null /\ pl'.allocated = s
        /\ pl' \in [n : 0 .. MaxBulk, allocated : Seq(Block), block : Block \cup {null}, undone : Nat]
    BY <1>3, <2>1, <2>2, <2>3
  <2> QED BY <2>3, <2>4
<1>f. /\ pl.n \in Nat \ {0} /\ NeededNo \in Nat /\ A < NeededNo
      /\ ppc' = IF A + 1 = NeededNo THEN "construct" ELSE "room"
  <2>1. /\ pl.n \in Nat \ {0} /\ NeededNo \in Nat
        /\ LastNo + NeededNo \in Number
        /\ LastNeeded = KeyOf(LastNo + NeededNo)
        /\ next = KeyOf(LastNo + A + 1)
    BY <1>0, <1>4, CallIs
  <2>2. A < NeededNo
    BY <1>0, <1>4 DEF EnqueueInv
  <2>3. PICK m \in Number : m = LastNo + NeededNo
    BY <2>1
  <2>4. next = KeyOf(T) /\ LastNeeded = KeyOf(m) /\ m \in Int
    BY <1>5, <2>1, <2>3, NumberFits
  <2>5. KeyOf(T) = KeyOf(m) <=> T = m
    BY <1>0, <1>a, OffsetIs
  <2>6. ppc' = IF next = LastNeeded THEN "construct" ELSE "room"
    BY DEF StoreValue
  <2>7. T = m <=> A + 1 = NeededNo
    BY <1>5, <2>1, <2>3
  <2> QED BY <2>1, <2>2, <2>4, <2>5, <2>6, <2>7
<1>g. /\ Published' = Published /\ LastNo' = LastNo /\ Number' = Number /\ NeededNo' = NeededNo
      /\ Low' = T /\ Extra' = 0 /\ Top' = Top /\ ppc' \in {"construct", "room"}
  <2>1. Published' = Published /\ LastNo' = LastNo /\ Number' = Number
    BY <1>2 DEF Published, LastNo, BlockNo, Number
  <2>2. NeededNo' = NeededNo
    BY <1>d, <2>1 DEF NeededNo, BlockNo
  <2>3. ppc' \in {"construct", "room"}
    BY <1>f
  <2>4. Extra' = 0
    BY <2>3 DEF Extra
  <2>5. Low' = T
    BY <1>4, <1>5, <1>d, <2>1 DEF Low
  <2> QED BY <1>5, <2>1, <2>2, <2>3, <2>4, <2>5 DEF Top
<1>y. \A i \in Int : (Kept(i) <=> i > 0) /\ (Kept(i)' <=> i > 0)
  <2>1. pl.undone = 0 /\ pl'.undone = 0 /\ ppc # "undo tail" /\ ppc' # "undo tail"
    BY <1>0, <1>3, <1>d, <1>g
  <2>2. (\A i : Kept(i) <=> i > pl.undone + 0) /\ \A i : Kept(i)' <=> i > pl'.undone + 0
    BY <2>1 DEF Kept
  <2>3. 0 + 0 = 0
    OBVIOUS
  <2> QED BY <2>1, <2>2, <2>3
<1>h. EnqueueInv'
  <2>1. ppc # "idle" => pl.n > 0 /\ Published + pl.n <= MaxItems
    BY <1>0 DEF EnqueueInv
  <2> QED BY <1>0, <1>4, <1>d, <1>f, <1>g, <2>1 DEF EnqueueInv
<1>i. TypeOK'
  <2>1. Header' = Header /\ EntryType' = EntryType
    BY <1>c DEF Header, EntryType, Entries
  <2>2. ppc' \in PCs
    BY <1>g DEF PCs
  <2> QED BY <1>0, <1>2, <1>c, <1>d, <2>1, <2>2 DEF TypeOK
<1>j. HeadersInv'
  BY <1>0, <1>2, <1>c, KeepTables
<1>k. SameKeys /\ SameTables
  <2>1. SameTables
    BY <1>2 DEF SameTables, L
  <2> QED BY <1>c, <2>1 DEF SameKeys
<1>l. PhaseInv' /\ \A h \in DOMAIN headers : \A pos, n : InPhase(h, pos, n) => InPhase(h, pos, n)'
  BY <1>0, <1>2, <1>k, KeepPhase
<1>m. RingInv'
  <2>1. /\ \A n : EntryOf(n)' = EntryOf(n) /\ capacity(L)' = capacity(L)
    BY <1>2, <1>g, KeepPlaces
  <2>2. \A n \in Int : EntryOf(n) \in Entries
    BY <1>0, <1>5, EntriesOf
  <2>3. \A f \in Entries : /\ Valid(f)' <=> Valid(f)
                           /\ \A n : Has(f, n)' <=> Has(f, n)
    BY <1>2, <1>c DEF Valid, Has, KeyOf
  <2>4. ASSUME NEW n \in w - C + 1 .. w
        PROVE  IF v <= n THEN Has(EntryOf(n), n)' ELSE ~Valid(EntryOf(n))'
    <3>1. n \in Int
      BY <1>9
    <3>2. IF v <= n THEN Has(EntryOf(n), n) ELSE ~Valid(EntryOf(n))
      BY <1>9
    <3>3. EntryOf(n) \in Entries
      BY <2>2, <3>1
    <3> QED BY <2>1, <2>3, <3>2, <3>3
  <2>5. v <= LastNo' + 1 /\ Low' <= w /\ w <= Low' + C /\ w <= LastNo' + C
    <3>1. pl.allocated = <<>> => A = 0
      BY <1>4
    <3>2. w <= LastNo + C
      BY <1>5, <1>8, <1>9, <3>1, SMTT(30)
    <3> QED BY <1>5, <1>8, <1>9, <1>g, <3>2
  <2>6. Ring(v, w)'
    BY <1>8, <1>g, <2>1, <2>4, <2>5 DEF Ring
  <2> QED BY <1>7, <1>g, <2>6 DEF RingInv
<1>n. \A n \in Number, f \in Entries : Held(n, f)' <=> IF f = e THEN n = T ELSE Held(n, f)
  <2>1. \A n \in Number : Has(e, n) => n = T
    BY <1>0, <1>6, <1>a, OneKey
  <2>2. \A n \in Number : Held(n, e)' <=> n = T
    BY <1>2, <1>3, <1>a, <1>c, <2>1 DEF Held, Has, KeyOf
  <2>3. \A n \in Number : \A f \in Entries \ {e} : Held(n, f)' <=> Held(n, f)
    BY <1>2, <1>c DEF Held, Has, KeyOf
  <2> QED BY <2>2, <2>3
<1>o. \A n \in Number : Want(n)' <=> Want(n) \/ n = T
  <2> SUFFICES ASSUME NEW n \in Number PROVE Want(n)' <=> Want(n) \/ n = T
    OBVIOUS
  <2>1. n \in Int /\ (Pend(n)' <=> Pend(n))
    BY <1>2, ProducerFrame, NumberFits
  <2>2. \A i \in Int : (Kept(i) <=> i > 0) /\ (Kept(i)' <=> i > 0)
    BY <1>y
  <2>3. PICK i \in Int : i = n - LastNo
    BY <1>5, <2>1
  <2>4. n > LastNo <=> i > 0
    BY <1>5, <2>1, <2>3
  <2>5. Want(n) <=> IF i > 0 THEN i \in 1 .. A ELSE n >= InitialSize /\ Pend(n)
    BY <1>d, <2>2, <2>3, <2>4 DEF Want
  <2>6. Want(n)' <=> IF i > 0 THEN i \in 1 .. A + 1 ELSE n >= InitialSize /\ Pend(n)
    BY <1>d, <1>g, <2>1, <2>2, <2>3, <2>4 DEF Want
  <2>7. n = T <=> i = A + 1
    BY <1>5, <2>1, <2>3
  <2> QED BY <1>4, <2>5, <2>6, <2>7
<1>p. /\ b \notin free /\ b \notin Indexed /\ (\A i \in DOMAIN pl.allocated : pl.allocated[i] # b)
      /\ elementsCompletelyDequeued[b] = 0 /\ Empty(b)
  <2>1. pl.block # null
    BY <1>1, <1>3
  <2>2. /\ b \notin free \cup Indexed \cup {pl.allocated[i] : i \in DOMAIN pl.allocated}
        /\ elementsCompletelyDequeued[b] = 0 /\ Empty(b)
    BY <1>0, <1>1, <2>1 DEF HandInv
  <2> QED BY <2>2
<1>q. HeldInv'
  <2>1. ASSUME NEW f \in Entries, entries'[f].value # null
        PROVE  \E n \in Number : Has(f, n)' /\ Want(n)'
    <3>1. CASE f = e
      <4>1. Has(e, T)' /\ Want(T)'
        BY <1>2, <1>a, <1>c, <1>o DEF Has, KeyOf
      <4> QED BY <1>a, <3>1, <4>1
    <3>2. CASE f # e
      <4>1. PICK n \in Number : Has(f, n) /\ Want(n)
        BY <1>0, <1>c, <2>1, <3>2 DEF HeldInv
      <4>2. Has(f, n)' /\ Want(n)'
        BY <1>2, <1>c, <1>o, <3>2, <4>1 DEF Has, KeyOf
      <4> QED BY <4>2
    <3> QED BY <3>1, <3>2
  <2>2. ASSUME NEW n \in Number, Want(n)' PROVE \E f \in Entries : Held(n, f)'
    <3>1. CASE n = T
      BY <1>6, <1>n, <3>1
    <3>2. CASE n # T
      <4>1. Want(n)
        BY <1>o, <2>2, <3>2
      <4>2. PICK f \in Entries : Held(n, f)
        BY <1>0, <4>1 DEF HeldInv
      <4>3. f # e
        BY <1>b, <4>2 DEF Held
      <4> QED BY <1>n, <4>2, <4>3
    <3> QED BY <3>1, <3>2
  <2>3. ASSUME NEW n \in Number, NEW f \in Entries, Held(n, f)', n > LastNo
        PROVE  entries'[f].value = pl'.allocated[n - LastNo]
    <3>1. CASE f = e
      BY <1>5, <1>c, <1>d, <1>n, <2>3, <3>1
    <3>2. CASE f # e
      <4>1. Held(n, f)
        BY <1>n, <2>3, <3>2
      <4>2. entries[f].value = pl.allocated[n - LastNo]
        BY <1>0, <2>3, <4>1 DEF HeldInv
      <4>3. Want(n)
        BY <1>0, <4>1, HeldWanted
      <4>4. n - LastNo \in DOMAIN pl.allocated
        BY <2>3, <4>3 DEF Want
      <4> QED BY <1>c, <1>d, <3>2, <4>2, <4>4
    <3> QED BY <3>1, <3>2
  <2>4. ASSUME NEW f \in Entries, NEW g \in Entries, entries'[f].value = entries'[g].value, entries'[f].value # null
        PROVE  f = g
    <3>1. \A x \in Entries : x # e => entries'[x].value = entries[x].value /\ entries[x].value # b
      <4>1. \A x \in Entries : entries[x].value \in Indexed \cup {null}
        BY DEF Indexed
      <4> QED BY <1>3, <1>c, <1>p, <4>1
    <3>2. CASE f = e \/ g = e
      BY <1>c, <2>4, <3>1, <3>2
    <3>3. CASE f # e /\ g # e
      BY <1>0, <2>4, <3>1, <3>3 DEF HeldInv
    <3> QED BY <3>2, <3>3
  <2> QED BY <1>c, <1>g, <2>1, <2>2, <2>3, <2>4 DEF HeldInv
<1>r. Indexed' = Indexed \cup {b}
  <2>1. \A f \in Entries : entries'[f].value = IF f = e THEN b ELSE entries[f].value
    BY <1>c
  <2> QED BY <1>3, <1>6, <1>b, <1>c, <2>1 DEF Indexed
<1>s. /\ \A x : Empty(x)' <=> Empty(x)
      /\ \A n : Left_(n)' = Left_(n)
      /\ \A d : Unread(d)' <=> Unread(d)
      /\ \A x, n : Filled(x, n)' <=> Filled(x, n)
  <2>1. \A x : Empty(x)' <=> Empty(x)
    BY <1>2 DEF Empty
  <2>2. Holding' = Holding /\ Claimed' = Claimed /\ (\A c : Lo(c)' = Lo(c) /\ Hi(c)' = Hi(c))
        /\ \A n : Left_(n)' = Left_(n)
    BY <1>2, ProducerFrame
  <2>3. \A d : Unread(d)' <=> Unread(d)
    BY <1>0, <1>g, <2>2 DEF Unread
  <2>4. \A x, n : Filled(x, n)' <=> Filled(x, n)
    BY <1>2, <2>3 DEF Filled, At, ItemOf
  <2> QED BY <2>1, <2>2, <2>3, <2>4
<1>t. BlockInv'
  <2>1. ASSUME NEW n \in Number, NEW f \in Entries, Held(n, f)'
        PROVE  /\ entries'[f].value \notin free
               /\ elementsCompletelyDequeued[entries'[f].value] + Cardinality(Left_(n)) = BLOCK_SIZE
               /\ Filled(entries'[f].value, n)
    <3>1. CASE f = e
      <4>1. n = T /\ entries'[f].value = b
        BY <1>c, <1>n, <2>1, <3>1
      <4>2. Cardinality(Left_(T)) = BLOCK_SIZE /\ \A k \in Place : ~Unread(ItemOf(T, k))
        BY <1>0, <1>5, NewBlock
      <4>3. Filled(b, T)
        BY <1>p, <4>2 DEF Filled, Empty
      <4>4. BLOCK_SIZE \in Nat
        BY Numbers
      <4> QED BY <1>p, <4>1, <4>2, <4>3, <4>4
    <3>2. CASE f # e
      <4>1. Held(n, f) /\ entries'[f].value = entries[f].value
        BY <1>c, <1>n, <2>1, <3>2
      <4> QED BY <1>0, <4>1 DEF BlockInv
    <3> QED BY <3>1, <3>2
  <2>2. \A x \in free : Empty(x)
    BY <1>0 DEF BlockInv
  <2>3. Block \subseteq free \cup Indexed' \cup {pl'.block} \cup {pl'.allocated[i] : i \in DOMAIN pl'.allocated}
                     \cup {cl[c].block : c \in {d \in Consumer : cpc[d] = "free"}}
    <3>1. Block \subseteq free \cup Indexed \cup {pl.block} \cup {pl.allocated[i] : i \in DOMAIN pl.allocated}
                     \cup {cl[c].block : c \in {d \in Consumer : cpc[d] = "free"}}
      BY <1>0 DEF BlockInv
    <3>2. {pl.allocated[i] : i \in DOMAIN pl.allocated} \subseteq {pl'.allocated[i] : i \in DOMAIN pl'.allocated}
      BY <1>4, <1>d
    <3> QED BY <1>1, <1>r, <3>1, <3>2
  <2> QED BY <1>2, <1>c, <1>g, <1>s, <2>1, <2>2, <2>3 DEF BlockInv
<1>u. HandInv' /\ AllocatedInv'
  <2>1. HandInv'
    BY <1>d DEF HandInv
  <2>2. ASSUME NEW i \in DOMAIN pl'.allocated
        PROVE  /\ pl'.allocated[i] \notin free
               /\ \A j \in DOMAIN pl'.allocated : pl'.allocated[j] = pl'.allocated[i] => i = j
               /\ Kept(i)'
    <3>1. \A j \in 1 .. A + 1 : j = A + 1 \/ j \in DOMAIN pl.allocated
      BY <1>4, <1>d
    <3>2. \A j \in DOMAIN pl.allocated : pl.allocated[j] \notin free
                                         /\ \A k \in DOMAIN pl.allocated : pl.allocated[k] = pl.allocated[j] => j = k
      BY <1>0 DEF AllocatedInv
    <3>3. Kept(i)'
      <4>1. i \in Int /\ i > 0
        BY <1>4, <1>d
      <4> QED BY <1>y, <4>1
    <3>4. pl'.allocated[i] \notin free
      BY <1>d, <1>p, <3>1, <3>2
    <3>5. ASSUME NEW j \in DOMAIN pl'.allocated, pl'.allocated[j] = pl'.allocated[i] PROVE i = j
      <4>1. (i = A + 1 \/ i \in DOMAIN pl.allocated) /\ (j = A + 1 \/ j \in DOMAIN pl.allocated)
        BY <1>d, <3>1
      <4> QED BY <1>d, <1>p, <3>2, <3>5, <4>1
    <3> QED BY <3>3, <3>4, <3>5
  <2>3. AllocatedInv'
    BY <1>2, <2>2 DEF AllocatedInv
  <2> QED BY <2>1, <2>3
<1>v. IndexKept
  <2>1. ASSUME NEW h \in DOMAIN headers, NEW p \in Caps(h), Valid(headers[h].index[p])
        PROVE  Valid(headers[h].index[p])'
    <3>1. headers[h].index[p] \in Entries /\ headers'[h].index = headers[h].index
      BY <1>0, <1>2, HeaderIs
    <3> QED BY <1>k, <2>1, <3>1 DEF Valid, SameKeys
  <2>2. \A n \in Number, f \in Entries : n <= LastNo /\ Held(n, f) /\ Staying(n) =>
           f \in Entries' /\ Held(n, f)' /\ entries'[f].value = entries[f].value
    <3>1. \A n \in Number, f \in Entries : Held(n, f) => f # e
      BY <1>b DEF Held
    <3> QED BY <1>c, <1>n, <3>1
  <2> QED BY <1>2, <1>l, <2>1, <2>2 DEF IndexKept
<1>w. (\A c \in Holding' : ConsumerInv(c)') /\ SharesInv'
  <2>1. ASSUME NEW x \in Block, x \notin free \cup Indexed \cup {pl.block}, Empty(x),
               \A i \in DOMAIN pl.allocated : pl.allocated[i] # x
        PROVE  x \notin free' \cup Indexed' \cup {pl'.block} /\ Empty(x)'
               /\ (\A i \in DOMAIN pl'.allocated : pl'.allocated[i] # x)
    <3>1. x # b /\ x # null
      BY <1>0, <1>1, <2>1
    <3>2. \A i \in DOMAIN pl'.allocated : i = A + 1 \/ i \in DOMAIN pl.allocated
      BY <1>4, <1>d
    <3>3. \A i \in DOMAIN pl'.allocated : pl'.allocated[i] # x
      BY <1>d, <2>1, <3>1, <3>2
    <3> QED BY <1>2, <1>d, <1>r, <1>s, <2>1, <3>1, <3>3
  <2> QED BY <1>2, <1>v, <2>1, ProducerConsumers
<1>x. TailInv'
  BY <1>0, <1>2, <1>g, <1>v, KeepTail
<1> QED BY <1>g, <1>h, <1>i, <1>j, <1>l, <1>m, <1>q, <1>t, <1>u, <1>w, <1>x DEF Living, IInv, ProducerInv

\* The entry that a search from block m finds for block n.
LEMMA FindIs ==
  ASSUME Settings, TypeOK, Fit, HeadersInv, NEW m \in Number, NEW n \in Number, m = Top, Has(LastEntry, m)
  PROVE  Entry(L, Find(L, headers[L].tail, entries[LastEntry].key, KeyOf(n))) = EntryOf(n)
<1>1. PICK t \in Nat, C \in Nat \ {0} : t = headers[L].tail /\ C = capacity(L) /\ L \in DOMAIN headers
  BY HeaderIs
<1>2. m \in Int /\ n \in Int /\ start \in Starts
  BY NumberFits DEF TypeOK
<1>3. BlockOffset(KeyOf(n), entries[LastEntry].key) = n - m
  BY <1>2, OffsetIs DEF Has
<1>4. PICK x \in Int, y \in Int : x = t + (n - m) /\ y = x % C
  <2>1. PICK x \in Int : x = t + (n - m)
    BY <1>1, <1>2
  <2>2. x % C \in Int
    BY <1>1, DivOf
  <2> QED BY <2>1, <2>2
<1>5. Find(L, headers[L].tail, entries[LastEntry].key, KeyOf(n)) = y /\ EntryOf(n) = Entry(L, x)
  BY <1>1, <1>3, <1>4 DEF Find, EntryOf
<1>6. (y - x) % C = 0
  BY <1>4, MultRem
<1>7. Entry(L, y) = Entry(L, x)
  BY <1>1, <1>6, EntriesApart
<1> QED BY <1>5, <1>7

LEMMA UndoneKept ==
  ASSUME Settings, Fit, Living, Undo, pl.undone < Len(pl.allocated)
  PROVE  Living'
<1>0. /\ TypeOK /\ HeadersInv /\ RingInv /\ PhaseInv /\ HeldInv /\ BlockInv
      /\ ProducerInv /\ EnqueueInv /\ HandInv /\ AllocatedInv
      /\ ppc = "undo" /\ ppc' = "undo tail"
      /\ UNCHANGED <<start, counts, cpc, cl, headers, slots, elementsCompletelyDequeued, tailBlock, free, pl>>
      /\ null \notin Block /\ start \in Starts
  BY LivingParts, Numbers DEF ProducerInv, Undo, TypeOK
<1>1. UNCHANGED <<tailIndex, headIndex, slots, elementsCompletelyDequeued, free, start, cpc, cl, headers, tailBlock, pl>>
  BY <1>0 DEF counts
<1>2. PICK A \in Nat, u \in Nat : A = Len(pl.allocated) /\ u = pl.undone
  BY <1>0, Basics
<1>3. /\ pl \in [n : 0 .. MaxBulk, allocated : Seq(Block), block : Block \cup {null}, undone : Nat]
      /\ pl.allocated \in Seq(Block) /\ DOMAIN pl.allocated = 1 .. A /\ u < A /\ pl.allocated # <<>>
  <2>1. pl \in [n : 0 .. MaxBulk, allocated : Seq(Block), block : Block \cup {null}, undone : Nat]
    BY <1>0 DEF TypeOK
  <2>2. pl.allocated \in Seq(Block)
    BY <2>1
  <2> QED BY <1>2, <2>1, <2>2
<1>4. PICK T \in Int, m \in Int, j \in Int :
        /\ T = Top /\ Low = T /\ T = LastNo + A - u /\ LastNo \in Int /\ LastNo \in Number
        /\ j = u + 1 /\ m = LastNo + j /\ m - LastNo = j /\ m > LastNo /\ T > LastNo /\ j \in 1 .. A
  <2>1. Extra = 0
    BY <1>0 DEF Extra
  <2>2. LastNo \in Int /\ LastNo \in Number /\ Low = LastNo + A - u /\ Top = Low + 0 /\ Low \in Int
    BY <1>0, <1>2, <2>1, Basics
  <2>3. PICK j \in Int : j = u + 1
    OBVIOUS
  <2>4. PICK m \in Int : m = LastNo + j
    BY <2>2
  <2> QED BY <1>2, <1>3, <2>2, <2>3, <2>4, SMTT(30)
<1>5. m \in Number /\ KeyOf(m) = NewBase(u)
  <2>1. LastNo + NeededNo \in Number /\ A <= NeededNo /\ NeededNo \in Nat
    BY <1>0, <1>2, CallIs
  <2>2. m >= 0 /\ m <= LastNo + NeededNo
    BY <1>4, <2>1, NumberFits DEF Number
  <2>3. m \in Number
    BY <2>1, <2>2, NumberFits DEF Number
  <2>4. NewBase(u) = KeyOf(LastNo + u + 1)
    <3>1. \A i \in Int : NewBase(i) = KeyOf(LastNo + i + 1)
      BY <1>0, NeededIs
    <3>2. u \in Int
      OBVIOUS
    <3> QED BY <3>1, <3>2
  <2> QED BY <1>4, <2>3, <2>4
<1>6. /\ \A i \in Int : (Kept(i) <=> i > u) /\ (Kept(i)' <=> i > j)
  <2>1. (\A i : Kept(i) <=> i > pl.undone + 0) /\ \A i : Kept(i)' <=> i > pl'.undone + 1
    BY <1>0 DEF Kept
  <2>2. pl'.undone = u
    BY <1>1, <1>2
  <2> QED BY <1>2, <1>4, <2>1, <2>2, SMTT(30)
<1>7. Has(LastEntry, T) /\ T \in Number
  <2>1. PICK v, w \in Number : Ring(v, w)
    BY <1>0 DEF RingInv
  <2>2. PICK C \in Nat \ {0} : C = capacity(L)
    BY <1>0, HeaderIs
  <2>3. /\ v \in Nat /\ w \in Nat /\ v <= LastNo + 1 /\ T <= w /\ w <= LastNo + C
        /\ \A n \in w - C + 1 .. w : IF v <= n THEN Has(EntryOf(n), n) ELSE ~Valid(EntryOf(n))
    BY <1>3, <1>4, <2>1, <2>2, NumberFits DEF Ring
  <2>4. T \in w - C + 1 .. w /\ v <= T
    BY <1>4, <2>2, <2>3
  <2>5. T \in Number
    BY <1>4, <2>1, <2>3, <2>4, NumberFits DEF Number
  <2>6. Has(EntryOf(T), T)
    BY <2>3, <2>4
  <2>7. LastEntry = EntryOf(T)
    <3>1. PICK t \in Nat : t = headers[L].tail
      BY <1>0, HeaderIs
    <3>2. T - Top = 0
      BY <1>4
    <3> QED BY <3>1, <3>2 DEF EntryOf, LastEntry, L
  <2> QED BY <2>5, <2>6, <2>7
<1>8. PICK e \in Entries : e = EntryOf(m)
  BY <1>0, <1>4, EntriesOf
<1>9. entries' = [entries EXCEPT ![e].value = null]
  <2>1. Entry(L, Find(L, headers[L].tail, entries[LastEntry].key, NewBase(pl.undone))) = e
    BY <1>0, <1>2, <1>4, <1>5, <1>7, <1>8, FindIs
  <2> QED BY <2>1 DEF Undo, L
<1>a. Held(m, e) /\ Want(m) /\ entries[e].value = pl.allocated[j]
  <2>1. Want(m)
    BY <1>3, <1>4, <1>6 DEF Want
  <2>2. PICK f \in Entries : Held(m, f)
    BY <1>0, <1>5, <2>1 DEF HeldInv
  <2>3. f = e
    <3>1. PICK v, w \in Number : Ring(v, w)
      BY <1>0 DEF RingInv
    <3> QED BY <1>0, <1>5, <1>8, <2>2, <3>1, Placed DEF Held
  <2> QED BY <1>0, <1>4, <1>5, <2>1, <2>2, <2>3 DEF HeldInv
<1>c. /\ Entries' = Entries /\ entries' \in Seq(EntryType)
      /\ entries'[e].key = entries[e].key /\ entries'[e].value = null
      /\ \A f \in Entries : f # e => entries'[f] = entries[f]
  <2>1. entries \in Seq(EntryType) /\ entries[e] \in EntryType /\ e \in DOMAIN entries
    <3>1. entries \in Seq(EntryType) /\ e \in DOMAIN entries
      BY <1>0 DEF TypeOK, Entries
    <3> QED BY <3>1
  <2>2. PICK r : r = [entries[e] EXCEPT !.value = null]
    OBVIOUS
  <2>3. r \in EntryType /\ r.key = entries[e].key /\ r.value = null
    BY <2>1, <2>2 DEF EntryType
  <2>4. entries' = [entries EXCEPT ![e] = r]
    BY <1>9, <2>2
  <2> QED BY <2>1, <2>3, <2>4 DEF Entries
<1>g. /\ Published' = Published /\ LastNo' = LastNo /\ Number' = Number /\ NeededNo' = NeededNo
      /\ Low' = Low /\ Extra' = Extra /\ Top' = Top
  <2>1. Published' = Published /\ LastNo' = LastNo /\ Number' = Number
    BY <1>1 DEF Published, LastNo, BlockNo, Number
  <2>2. NeededNo' = NeededNo
    BY <1>1, <2>1 DEF NeededNo, BlockNo
  <2>4. Extra' = Extra
    BY <1>0 DEF Extra
  <2>5. Low' = Low
    BY <1>1, <2>1 DEF Low
  <2> QED BY <2>1, <2>2, <2>4, <2>5 DEF Top
<1>h. EnqueueInv'
  BY <1>0, <1>1, <1>2, <1>3, <1>g DEF EnqueueInv
<1>i. TypeOK'
  <2>1. Header' = Header /\ EntryType' = EntryType
    BY <1>c DEF Header, EntryType, Entries
  <2>2. ppc' \in PCs
    BY <1>0 DEF PCs
  <2> QED BY <1>0, <1>1, <1>c, <2>1, <2>2 DEF TypeOK
<1>j. HeadersInv'
  BY <1>0, <1>1, <1>c, KeepTables
<1>k. SameKeys /\ SameTables
  <2>1. SameTables
    BY <1>1 DEF SameTables, L
  <2> QED BY <1>c, <2>1 DEF SameKeys
<1>l. PhaseInv' /\ \A h \in DOMAIN headers : \A pos, n : InPhase(h, pos, n) => InPhase(h, pos, n)'
  BY <1>0, <1>1, <1>k, KeepPhase
<1>m. RingInv'
  BY <1>0, <1>1, <1>4, <1>g, <1>k, KeepRing
<1>n. \A n \in Number, f \in Entries : /\ Held(n, f)' <=> f # e /\ Held(n, f)
                                       /\ Has(f, n) => (f = e <=> n = m)
  <2>1. ASSUME NEW n \in Number, NEW f \in Entries, Has(f, n) PROVE f = e <=> n = m
    <3>1. Has(e, m) /\ m \in Number
      BY <1>5, <1>a DEF Held
    <3>2. f = e => n = m
      BY <1>0, <2>1, <3>1, OneKey
    <3>3. ASSUME n = m PROVE f = e
      <4>1. Has(f, m)
        BY <2>1, <3>3
      <4>2. \A x, y \in Entries : Has(x, m) /\ Has(y, m) => x = y
        BY <1>0, <3>1, OneKey
      <4> QED BY <3>1, <4>1, <4>2
    <3> QED BY <3>2, <3>3
  <2>2. \A n : ~Held(n, e)'
    BY <1>c DEF Held
  <2>3. \A n \in Number : \A f \in Entries \ {e} : Held(n, f)' <=> Held(n, f)
    BY <1>1, <1>c DEF Held, Has, KeyOf
  <2> QED BY <2>1, <2>2, <2>3
<1>o. \A n \in Number : Want(n)' <=> Want(n) /\ n # m
  <2> SUFFICES ASSUME NEW n \in Number PROVE Want(n)' <=> Want(n) /\ n # m
    OBVIOUS
  <2>1. n \in Int /\ (Pend(n)' <=> Pend(n))
    BY <1>1, ProducerFrame, NumberFits
  <2>3. PICK i \in Int : i = n - LastNo
    BY <1>4, <2>1
  <2>4. n > LastNo <=> i > 0
    BY <1>4, <2>1, <2>3
  <2>5. Want(n) <=> IF i > 0 THEN i \in 1 .. A /\ i > u ELSE n >= InitialSize /\ Pend(n)
    BY <1>3, <1>6, <2>3, <2>4 DEF Want
  <2>6. Want(n)' <=> IF i > 0 THEN i \in 1 .. A /\ i > j ELSE n >= InitialSize /\ Pend(n)
    BY <1>1, <1>3, <1>6, <1>g, <2>1, <2>3, <2>4 DEF Want
  <2>7. (n = m <=> i = j) /\ j = u + 1 /\ j > 0
    BY <1>4, <2>1, <2>3
  <2> QED BY <2>5, <2>6, <2>7
<1>q. HeldInv'
  <2>1. ASSUME NEW f \in Entries, entries'[f].value # null
        PROVE  \E n \in Number : Has(f, n)' /\ Want(n)'
    <3>1. f # e /\ entries[f].value # null
      BY <1>c, <2>1
    <3>2. PICK n \in Number : Has(f, n) /\ Want(n)
      BY <1>0, <3>1 DEF HeldInv
    <3>3. n # m
      BY <1>n, <3>1, <3>2
    <3>4. Has(f, n)' /\ Want(n)'
      BY <1>1, <1>c, <1>o, <3>1, <3>2, <3>3 DEF Has, KeyOf
    <3> QED BY <3>4
  <2>2. ASSUME NEW n \in Number, Want(n)' PROVE \E f \in Entries : Held(n, f)'
    <3>1. Want(n) /\ n # m
      BY <1>o, <2>2
    <3>2. PICK f \in Entries : Held(n, f)
      BY <1>0, <3>1 DEF HeldInv
    <3>3. f # e
      BY <1>n, <3>1, <3>2 DEF Held
    <3> QED BY <1>n, <3>2, <3>3
  <2>3. ASSUME NEW n \in Number, NEW f \in Entries, Held(n, f)', n > LastNo
        PROVE  entries'[f].value = pl.allocated[n - LastNo]
    <3>1. f # e /\ Held(n, f)
      BY <1>n, <2>3
    <3> QED BY <1>0, <1>c, <2>3, <3>1 DEF HeldInv
  <2>4. ASSUME NEW f \in Entries, NEW g \in Entries, entries'[f].value = entries'[g].value, entries'[f].value # null
        PROVE  f = g
    <3>1. f # e /\ g # e
      BY <1>c, <2>4
    <3>2. entries[f].value = entries[g].value /\ entries[f].value # null
      BY <1>c, <2>4, <3>1
    <3> QED BY <1>0, <3>2 DEF HeldInv
  <2> QED BY <1>1, <1>c, <1>g, <2>1, <2>2, <2>3, <2>4 DEF HeldInv
<1>r. Indexed' \subseteq Indexed /\ pl.allocated[j] \notin Indexed' /\ Indexed \subseteq Indexed' \cup {pl.allocated[j]}
  <2>1. \A f \in Entries : entries'[f].value = IF f = e THEN null ELSE entries[f].value
    BY <1>c
  <2>2. \A f \in Entries : entries[f].value = pl.allocated[j] => f = e
    BY <1>0, <1>a DEF HeldInv, Held
  <2>3. pl.allocated[j] # null
    BY <1>a DEF Held
  <2> QED BY <1>8, <1>a, <1>c, <2>1, <2>2, <2>3 DEF Indexed
<1>s. /\ \A x : Empty(x)' <=> Empty(x)
      /\ \A n : Left_(n)' = Left_(n)
      /\ \A d : Unread(d)' <=> Unread(d)
      /\ \A x, n : Filled(x, n)' <=> Filled(x, n)
  <2>1. \A x : Empty(x)' <=> Empty(x)
    BY <1>1 DEF Empty
  <2>2. Holding' = Holding /\ Claimed' = Claimed /\ (\A c : Lo(c)' = Lo(c) /\ Hi(c)' = Hi(c))
        /\ \A n : Left_(n)' = Left_(n)
    BY <1>1, ProducerFrame
  <2>3. \A d : Unread(d)' <=> Unread(d)
    BY <1>0, <1>g, <2>2 DEF Unread
  <2>4. \A x, n : Filled(x, n)' <=> Filled(x, n)
    BY <1>1, <2>3 DEF Filled, At, ItemOf
  <2> QED BY <2>1, <2>2, <2>3, <2>4
<1>t. BlockInv'
  <2>1. ASSUME NEW n \in Number, NEW f \in Entries, Held(n, f)'
        PROVE  /\ entries'[f].value \notin free
               /\ elementsCompletelyDequeued[entries'[f].value] + Cardinality(Left_(n)) = BLOCK_SIZE
               /\ Filled(entries'[f].value, n)
    <3>1. Held(n, f) /\ entries'[f].value = entries[f].value
      BY <1>c, <1>n, <2>1
    <3> QED BY <1>0, <3>1 DEF BlockInv
  <2>2. \A x \in free : Empty(x)
    BY <1>0 DEF BlockInv
  <2>3. Block \subseteq free \cup Indexed' \cup {pl.block} \cup {pl.allocated[i] : i \in DOMAIN pl.allocated}
                     \cup {cl[c].block : c \in {d \in Consumer : cpc[d] = "free"}}
    <3>1. Block \subseteq free \cup Indexed \cup {pl.block} \cup {pl.allocated[i] : i \in DOMAIN pl.allocated}
                     \cup {cl[c].block : c \in {d \in Consumer : cpc[d] = "free"}}
      BY <1>0 DEF BlockInv
    <3>2. pl.allocated[j] \in {pl.allocated[i] : i \in DOMAIN pl.allocated}
      BY <1>3, <1>4
    <3> QED BY <1>r, <3>1, <3>2
  <2> QED BY <1>1, <1>c, <1>g, <1>s, <2>1, <2>2, <2>3 DEF BlockInv
<1>u. HandInv' /\ AllocatedInv'
  <2>1. HandInv'
    <3>1. pl.block = null
      BY <1>0 DEF EnqueueInv
    <3> QED BY <1>1, <3>1 DEF HandInv
  <2>2. Empty(pl.allocated[j])
    <3>1. Filled(pl.allocated[j], m)
      BY <1>0, <1>5, <1>8, <1>a DEF BlockInv
    <3>2. \A k \in Place : ~Unread(ItemOf(m, k))
      BY <1>0, <1>4, NewBlock
    <3> QED BY <3>1, <3>2 DEF Filled, Empty
  <2>3. ASSUME NEW i \in DOMAIN pl.allocated, ~Kept(i)'
        PROVE  pl.allocated[i] \notin Indexed' /\ Empty(pl.allocated[i])
    <3>1. CASE i = j
      BY <1>r, <2>2, <3>1
    <3>2. CASE i # j
      <4>1. ~Kept(i)
        BY <1>3, <1>4, <1>6, <2>3, <3>2
      <4>2. pl.allocated[i] \notin Indexed /\ Empty(pl.allocated[i])
        BY <1>0, <4>1 DEF AllocatedInv
      <4> QED BY <1>r, <4>2
    <3> QED BY <3>1, <3>2
  <2>4. \A i \in DOMAIN pl.allocated :
          /\ pl.allocated[i] \notin free
          /\ \A k \in DOMAIN pl.allocated : pl.allocated[k] = pl.allocated[i] => i = k
    BY <1>0 DEF AllocatedInv
  <2>5. AllocatedInv'
    BY <1>1, <1>s, <2>3, <2>4 DEF AllocatedInv
  <2> QED BY <2>1, <2>5
<1>v. IndexKept
  <2>1. ASSUME NEW h \in DOMAIN headers, NEW p \in Caps(h), Valid(headers[h].index[p])
        PROVE  Valid(headers[h].index[p])'
    <3>1. headers[h].index[p] \in Entries /\ headers'[h].index = headers[h].index
      BY <1>0, <1>1, HeaderIs
    <3> QED BY <1>k, <2>1, <3>1 DEF Valid, SameKeys
  <2>2. \A n \in Number, f \in Entries : n <= LastNo /\ Held(n, f) /\ Staying(n) =>
           f \in Entries' /\ Held(n, f)' /\ entries'[f].value = entries[f].value
    <3> SUFFICES ASSUME NEW n \in Number, NEW f \in Entries, n <= LastNo, Held(n, f)
                 PROVE  f \in Entries' /\ Held(n, f)' /\ entries'[f].value = entries[f].value
      OBVIOUS
    <3>1. n # m
      BY <1>4, NumberFits
    <3>2. f # e
      BY <1>n, <3>1 DEF Held
    <3> QED BY <1>c, <1>n, <3>2
  <2> QED BY <1>1, <1>l, <2>1, <2>2 DEF IndexKept
<1>w. (\A c \in Holding' : ConsumerInv(c)') /\ SharesInv'
  BY <1>1, <1>r, <1>s, <1>v, ProducerConsumers
<1>x. TailInv'
  BY <1>0, <1>1, <1>g, <1>v, KeepTail
<1> QED BY <1>0, <1>h, <1>i, <1>j, <1>l, <1>m, <1>q, <1>t, <1>u, <1>w, <1>x DEF Living, IInv, ProducerInv

LEMMA FailedKept ==
  ASSUME Settings, Fit, Living, Undo, ~ (pl.undone < Len(pl.allocated))
  PROVE  Living'
<1>0. /\ TypeOK /\ HeadersInv /\ RingInv /\ PhaseInv /\ HeldInv /\ BlockInv
      /\ ProducerInv /\ EnqueueInv /\ HandInv /\ AllocatedInv
      /\ ppc = "undo" /\ ppc' = "idle" /\ pl' = NoEnqueue
      /\ UNCHANGED <<start, counts, cpc, cl, headers, slots, elementsCompletelyDequeued, tailBlock, entries>>
      /\ free' = free \cup {pl.allocated[i] : i \in DOMAIN pl.allocated}
      /\ null \notin Block /\ start \in Starts
  BY LivingParts, Numbers DEF ProducerInv, Undo, TypeOK, Failed
<1>1. UNCHANGED <<tailIndex, headIndex, slots, elementsCompletelyDequeued, start, cpc, cl, headers, entries, tailBlock>>
  BY <1>0 DEF counts
<1>2. PICK A \in Nat : A = Len(pl.allocated) /\ A = pl.undone
  <2>1. Len(pl.allocated) \in Nat /\ pl.undone \in Nat
    BY <1>0, Basics
  <2>2. pl.undone <= Len(pl.allocated)
    BY <1>0 DEF EnqueueInv
  <2> QED BY <2>1, <2>2
<1>3. /\ pl \in [n : 0 .. MaxBulk, allocated : Seq(Block), block : Block \cup {null}, undone : Nat]
      /\ pl.allocated \in Seq(Block) /\ DOMAIN pl.allocated = 1 .. A
  <2>1. pl \in [n : 0 .. MaxBulk, allocated : Seq(Block), block : Block \cup {null}, undone : Nat]
    BY <1>0 DEF TypeOK
  <2>2. pl.allocated \in Seq(Block) /\ DOMAIN pl.allocated = 1 .. Len(pl.allocated)
    BY <2>1
  <2> QED BY <1>2, <2>1, <2>2
<1>4. /\ pl' \in [n : 0 .. MaxBulk, allocated : Seq(Block), block : Block \cup {null}, undone : Nat]
      /\ pl'.n = 0 /\ pl'.allocated = <<>> /\ pl'.block = null /\ pl'.undone = 0
      /\ Len(pl'.allocated) = 0 /\ DOMAIN pl'.allocated = {}
  <2>1. 0 \in 0 .. MaxBulk /\ <<>> \in Seq(Block) /\ Len(<<>>) = 0 /\ DOMAIN <<>> = {}
    BY Numbers
  <2> QED BY <1>0, <2>1 DEF NoEnqueue
<1>5. /\ Published' = Published /\ LastNo' = LastNo /\ Number' = Number
      /\ Low' = Low /\ Extra' = Extra /\ Top' = Top /\ Top \in Int /\ LastNo \in Int
  <2>1. Published' = Published /\ LastNo' = LastNo /\ Number' = Number
    BY <1>1 DEF Published, LastNo, BlockNo, Number
  <2>2. Extra' = Extra
    BY <1>0 DEF Extra
  <2>3. LastNo \in Int /\ Top \in Int
    BY <1>0, Basics
  <2>4. Low = LastNo /\ Low' = LastNo
    BY <1>2, <1>4, <2>1, <2>3 DEF Low
  <2> QED BY <2>1, <2>2, <2>3, <2>4 DEF Top
<1>6. \A i \in 1 .. A : ~Kept(i)
  <2>1. \A i : Kept(i) <=> i > pl.undone + 0
    BY <1>0 DEF Kept
  <2> QED BY <1>2, <2>1
<1>7. {pl.allocated[i] : i \in DOMAIN pl.allocated} \cap Indexed = {}
      /\ \A i \in DOMAIN pl.allocated : Empty(pl.allocated[i]) /\ pl.allocated[i] \in Block
  BY <1>0, <1>3, <1>6 DEF AllocatedInv
<1>8. EnqueueInv'
  BY <1>0, <1>4 DEF EnqueueInv
<1>9. TypeOK'
  <2>1. Header' = Header /\ EntryType' = EntryType
    BY <1>1 DEF Header, EntryType, Entries
  <2>2. ppc' \in PCs
    BY <1>0 DEF PCs
  <2>3. free' \subseteq Block
    BY <1>0, <1>7 DEF TypeOK
  <2> QED BY <1>0, <1>1, <1>4, <2>1, <2>2, <2>3 DEF TypeOK
<1>a. HeadersInv' /\ RingInv'
  <2>1. Entries' = Entries /\ SameKeys
    BY <1>1 DEF Entries, SameKeys
  <2> QED BY <1>0, <1>1, <1>4, <1>5, <2>1, KeepTables, KeepRing
<1>b. IndexKept /\ PhaseInv' /\ SameHeld
  <2>1. SameTables
    BY <1>1 DEF SameTables, L
  <2> QED BY <1>1, <2>1, IndexSame
<1>c. \A n \in Number : (Want(n)' <=> Want(n)) /\ (n > LastNo => ~Want(n))
  <2> SUFFICES ASSUME NEW n \in Number PROVE (Want(n)' <=> Want(n)) /\ (n > LastNo => ~Want(n))
    OBVIOUS
  <2>1. n \in Int /\ (Pend(n)' <=> Pend(n))
    BY <1>1, ProducerFrame, NumberFits
  <2>2. n > LastNo => ~Want(n)
    BY <1>3, <1>6 DEF Want
  <2>3. n > LastNo => ~Want(n)'
    BY <1>4, <1>5 DEF Want
  <2>4. ~ n > LastNo => (Want(n)' <=> Want(n))
    BY <1>5, <2>1 DEF Want
  <2> QED BY <2>2, <2>3, <2>4
<1>d. HeldInv'
  BY <1>0, <1>1, <1>5, <1>b, <1>c, KeepHeld
<1>e. Indexed' = Indexed /\ Indexed \subseteq Block \ free /\ Entries' = Entries
  BY <1>0, <1>1, HeldBlocks DEF Indexed, Entries
<1>f. /\ \A x : Empty(x)' <=> Empty(x)
      /\ \A n : Left_(n)' = Left_(n)
      /\ \A d : Unread(d)' <=> Unread(d)
      /\ \A x, n : Filled(x, n)' <=> Filled(x, n)
  <2>1. \A x : Empty(x)' <=> Empty(x)
    BY <1>1 DEF Empty
  <2>2. Holding' = Holding /\ Claimed' = Claimed /\ (\A c : Lo(c)' = Lo(c) /\ Hi(c)' = Hi(c))
        /\ \A n : Left_(n)' = Left_(n)
    BY <1>1, ProducerFrame
  <2>3. \A d : Unread(d)' <=> Unread(d)
    BY <1>0, <1>5, <2>2 DEF Unread
  <2>4. \A x, n : Filled(x, n)' <=> Filled(x, n)
    BY <1>1, <2>3 DEF Filled, At, ItemOf
  <2> QED BY <2>1, <2>2, <2>3, <2>4
<1>g. BlockInv'
  <2>1. ASSUME NEW n \in Number, NEW f \in Entries, Held(n, f)
        PROVE  /\ entries[f].value \notin free'
               /\ elementsCompletelyDequeued[entries[f].value] + Cardinality(Left_(n)) = BLOCK_SIZE
               /\ Filled(entries[f].value, n)
    <3>1. entries[f].value \in Indexed
      BY <2>1 DEF Held, Indexed
    <3>2. entries[f].value \notin free'
      BY <1>0, <1>7, <1>e, <3>1
    <3> QED BY <1>0, <2>1, <3>2 DEF BlockInv
  <2>2. \A x \in free' : Empty(x)
    BY <1>0, <1>7 DEF BlockInv
  <2>3. Block \subseteq free' \cup Indexed \cup {pl'.block} \cup {pl'.allocated[i] : i \in DOMAIN pl'.allocated}
                     \cup {cl[c].block : c \in {d \in Consumer : cpc[d] = "free"}}
    <3>1. pl.block = null
      BY <1>0 DEF EnqueueInv
    <3> QED BY <1>0, <3>1 DEF BlockInv
  <2>4. \A n \in Number, f \in Entries : Held(n, f)' <=> Held(n, f)
    BY <1>b DEF SameHeld
  <2> QED BY <1>1, <1>5, <1>e, <1>f, <2>1, <2>2, <2>3, <2>4 DEF BlockInv
<1>h. HandInv' /\ AllocatedInv'
  BY <1>4 DEF HandInv, AllocatedInv
<1>i. (\A c \in Holding' : ConsumerInv(c)') /\ SharesInv'
  <2>1. ASSUME NEW x \in Block, x \notin free \cup Indexed \cup {pl.block}, Empty(x),
               \A i \in DOMAIN pl.allocated : pl.allocated[i] # x
        PROVE  x \notin free' \cup Indexed' \cup {pl'.block} /\ Empty(x)'
               /\ (\A i \in DOMAIN pl'.allocated : pl'.allocated[i] # x)
    <3>1. x # null
      BY <1>0
    <3> QED BY <1>0, <1>4, <1>e, <1>f, <2>1, <3>1
  <2> QED BY <1>1, <1>b, <2>1, ProducerConsumers
<1>j. TailInv'
  BY <1>0, <1>1, <1>5, <1>b, KeepTail
<1> QED BY <1>0, <1>8, <1>9, <1>a, <1>b, <1>d, <1>g, <1>h, <1>i, <1>j DEF Living, IInv, ProducerInv

LEMMA UndoKept ==
  ASSUME Settings, Fit, Living, Undo
  PROVE  Living'
BY UndoneKept, FailedKept

\* The items of the call go to blocks of the index.
LEMMA TargetIs ==
  ASSUME Settings, Fit, Living, ppc = "construct", NEW d \in Int, Published <= d, d < Published + pl.n
  PROVE  /\ BlockNo(d) \in Number /\ At(d) \in Index /\ At(d) % BLOCK_SIZE = d % BLOCK_SIZE
         /\ \E e \in Entries : Held(BlockNo(d), e) /\ entries[e].value = TargetBlock(At(d))
<1>0. /\ TypeOK /\ HeadersInv /\ RingInv /\ HeldInv /\ ProducerInv /\ EnqueueInv /\ TailInv /\ start \in Starts
  BY LivingParts DEF ProducerInv, TypeOK
<1>1. PICK p \in Nat, q \in Int, n \in Nat : /\ p = Published /\ q = p - 1 /\ n = pl.n /\ p + n <= MaxItems /\ n > 0
                                             /\ tailIndex = At(p) /\ LastNo = BlockNo(q) /\ Claimed <= p
                                             /\ LastNo \in Int /\ LastNo \in Number /\ MaxItems \in Nat
                                             /\ LastNo + NeededNo = BlockNo(p + n - 1)
  <2>1. /\ Published \in Nat /\ tailIndex = At(Published) /\ pl.n \in Nat /\ LastNo \in Int
        /\ Claimed <= Published /\ LastNo \in Number /\ MaxItems \in Nat
    BY <1>0, Basics, Numbers
  <2>2. Published + pl.n <= MaxItems /\ pl.n > 0
    BY <1>0 DEF EnqueueInv
  <2>3. LastNo + NeededNo = BlockNo(Published + pl.n - 1)
    BY <1>0, CallIs
  <2>4. PICK q \in Int : q = Published - 1
    BY <2>1
  <2> QED BY <2>1, <2>2, <2>3, <2>4 DEF LastNo
<1>2. PICK m \in Int, N \in Int : /\ m = BlockNo(d) /\ m \in Number /\ m >= LastNo /\ N = NeededNo /\ m <= LastNo + N
                                  /\ LastNo + N \in Number
                                  /\ N \in Nat /\ Len(pl.allocated) = N /\ LastNeeded = KeyOf(LastNo + N)
  <2>1. d >= -1 /\ d <= MaxItems /\ q <= d /\ d <= p + n - 1
    BY <1>1
  <2>2. BlockNo(d) \in Number /\ BlockNo(q) <= BlockNo(d) /\ BlockNo(d) <= BlockNo(p + n - 1)
    BY <1>1, <2>1, BlockNoUp
  <2>3. NeededNo \in Nat /\ LastNeeded = KeyOf(LastNo + NeededNo) /\ LastNo + NeededNo \in Number
    BY <1>0, CallIs
  <2>4. Len(pl.allocated) = NeededNo
    BY <1>0 DEF EnqueueInv
  <2>5. BlockNo(d) \in Int
    BY <2>2, NumberFits
  <2> QED BY <1>1, <2>2, <2>3, <2>4, <2>5
<1>3. /\ At(d) \in Index /\ At(d) % BLOCK_SIZE = d % BLOCK_SIZE /\ Base(At(d)) = KeyOf(m)
      /\ tailIndex % BLOCK_SIZE = p % BLOCK_SIZE /\ Base(tailIndex) = KeyOf(BlockNo(p))
      /\ BlockNo(p) \in Number
  <2>1. BlockNo(p) \in Number
    <3>1. p >= -1 /\ p <= MaxItems /\ p \in Int
      BY <1>1
    <3> QED BY <3>1, BlockNoUp
  <2>2. At(d) \in Index /\ At(d) % BLOCK_SIZE = d % BLOCK_SIZE /\ Base(At(d)) = KeyOf(m)
    BY <1>0, <1>2, AtIs, KeyIs
  <2>3. p \in Int
    OBVIOUS
  <2>4. tailIndex % BLOCK_SIZE = p % BLOCK_SIZE /\ Base(tailIndex) = KeyOf(BlockNo(p))
    BY <1>0, <1>1, <2>3, AtIs, KeyIs
  <2> QED BY <2>1, <2>2, <2>4
<1>4. CASE m = LastNo
  <2>1. BlockNo(p) = LastNo
    <3>1. BlockNo(q) <= BlockNo(p) /\ BlockNo(p) <= BlockNo(d)
      BY <1>1, BlockNoUp
    <3>2. BlockNo(p) \in Int
      BY <1>3, NumberFits
    <3> QED BY <1>1, <1>2, <1>4, <3>1, <3>2
  <2>2. p % BLOCK_SIZE # 0
    <3> SUFFICES ASSUME p % BLOCK_SIZE = 0 PROVE FALSE
      OBVIOUS
    <3>1. /\ ItemOf(LastNo, p % BLOCK_SIZE) = p
          /\ ItemOf(LastNo, q % BLOCK_SIZE) = q /\ q % BLOCK_SIZE \in Place
      BY <1>1, <2>1, BlockNoIs
    <3>2. PICK x \in Int : x = (LastNo - InitialSize) * BLOCK_SIZE
      BY <1>1, Numbers
    <3>3. p = x + 0 /\ q = x + (q % BLOCK_SIZE) /\ q % BLOCK_SIZE >= 0 /\ q % BLOCK_SIZE \in Int
      BY <3>1, <3>2 DEF ItemOf, Place
    <3> QED BY <1>1, <3>3
  <2>3. TargetBlock(At(d)) = tailBlock
    BY <1>2, <1>3, <1>4, <2>1, <2>2 DEF TargetBlock
  <2>4. LastNo >= InitialSize
    BY <1>1, <2>1, BlockNoUp
  <2>5. Pend(LastNo)
    <3>1. NotCounted(d)
      <4>1. Claimed \in Nat
        BY <1>0, Basics
      <4> QED BY <1>1, <4>1 DEF NotCounted
    <3>2. d % BLOCK_SIZE \in Place /\ ItemOf(LastNo, d % BLOCK_SIZE) = d
      BY <1>2, <1>4, BlockNoIs
    <3> QED BY <3>1, <3>2 DEF Pend, Left_
  <2>6. \E e \in Entries : Held(LastNo, e) /\ entries[e].value = tailBlock
    BY <1>0, <2>4, <2>5 DEF TailInv
  <2> QED BY <1>2, <1>3, <1>4, <2>3, <2>6
<1>5. CASE m > LastNo
  <2>1. PICK j \in Int : j = m - LastNo /\ j \in 1 .. N
    BY <1>1, <1>2, <1>5
  <2>2. m # BlockNo(p) \/ p % BLOCK_SIZE = 0
    <3> SUFFICES ASSUME m = BlockNo(p), p % BLOCK_SIZE # 0 PROVE FALSE
      OBVIOUS
    <3>1. /\ ItemOf(m, p % BLOCK_SIZE) = p /\ p % BLOCK_SIZE \in Place
          /\ BlockNo(ItemOf(m, (p % BLOCK_SIZE) - 1)) = m
      <4>1. ItemOf(m, p % BLOCK_SIZE) = p /\ p % BLOCK_SIZE \in Place
        BY BlockNoIs
      <4>2. (p % BLOCK_SIZE) - 1 \in Place
        <5>1. BLOCK_SIZE \in Nat
          BY Numbers
        <5> QED BY <4>1, <5>1 DEF Place
      <4>3. BlockNo(ItemOf(m, (p % BLOCK_SIZE) - 1)) = m
        BY <4>2, BlockNoIs
      <4> QED BY <4>1, <4>3
    <3>2. PICK x \in Int : x = (m - InitialSize) * BLOCK_SIZE
      BY Numbers
    <3>3. p % BLOCK_SIZE \in Int
      BY <3>1 DEF Place
    <3>4. ItemOf(m, (p % BLOCK_SIZE) - 1) = q
      BY <1>1, <3>1, <3>2, <3>3 DEF ItemOf
    <3> QED BY <1>1, <1>5, <3>1, <3>4
  <2>3. TargetBlock(At(d)) = pl.allocated[j]
    <3>1. KeyOf(m) = KeyOf(BlockNo(p)) => m = BlockNo(p)
      BY <1>0, <1>2, <1>3, OffsetIs
    <3>2. BlockOffset(LastNeeded, KeyOf(m)) = LastNo + N - m
      <4>1. PICK z \in Number : z = LastNo + N
        BY <1>2
      <4>2. BlockOffset(KeyOf(z), KeyOf(m)) = z - m
        BY <1>0, <1>2, OffsetIs
      <4>3. LastNeeded = KeyOf(z)
        BY <1>2, <4>1
      <4>4. z - m = LastNo + N - m
        BY <1>1, <1>2, <4>1
      <4>5. BlockOffset(LastNeeded, KeyOf(m)) = BlockOffset(KeyOf(z), KeyOf(m))
        BY <4>3
      <4> QED BY <4>2, <4>4, <4>5
    <3>3. Len(pl.allocated) - (LastNo + N - m) = j
      BY <1>1, <1>2, <2>1
    <3>4. ~ (tailIndex % BLOCK_SIZE # 0 /\ Base(At(d)) = Base(tailIndex))
      BY <1>3, <2>2, <3>1
    <3> QED BY <1>3, <3>2, <3>3, <3>4 DEF TargetBlock
  <2>4. Want(m)
    <3>1. Kept(j)
      <4>1. pl.undone = 0
        <5>1. pl.undone \in Nat
          BY <1>0, Basics
        <5> QED BY <1>0, <5>1 DEF EnqueueInv
      <4>2. Kept(j) <=> j > pl.undone + 0
        BY DEF Kept
      <4> QED BY <2>1, <4>1, <4>2
    <3>2. DOMAIN pl.allocated = 1 .. N
      <4>1. pl.allocated \in Seq(Block)
        BY <1>0 DEF TypeOK
      <4> QED BY <1>2, <4>1
    <3> QED BY <1>5, <2>1, <3>1, <3>2 DEF Want
  <2>5. PICK e \in Entries : Held(m, e)
    BY <1>0, <1>2, <2>4 DEF HeldInv
  <2>6. entries[e].value = pl.allocated[j]
    BY <1>0, <1>2, <1>5, <2>1, <2>5 DEF HeldInv
  <2> QED BY <1>2, <1>3, <2>3, <2>5, <2>6
<1> QED BY <1>1, <1>2, <1>4, <1>5

\* Two of them with the same block and place are the same.
LEMMA TargetsApart ==
  ASSUME Settings, Fit, Living, ppc = "construct",
         NEW d \in Int, Published <= d, d < Published + pl.n, NEW n \in Number, NEW e \in Entries, Held(n, e)
  PROVE  TargetBlock(At(d)) = entries[e].value <=> BlockNo(d) = n
<1>0. TypeOK /\ HeadersInv /\ RingInv /\ HeldInv
  BY LivingParts
<1>1. PICK m \in Number : m = BlockNo(d)
  BY TargetIs
<1>2. PICK f \in Entries : Held(m, f) /\ entries[f].value = TargetBlock(At(d))
  BY <1>1, TargetIs
<1>3. Has(e, n) /\ Has(f, m) /\ entries[e].value # null /\ entries[f].value # null
  BY <1>2 DEF Held
<1>4. entries[f].value = entries[e].value => f = e
  BY <1>0, <1>3 DEF HeldInv
<1>5. f = e => m = n
  BY <1>0, <1>3, OneKey
<1>6. ASSUME m = n PROVE f = e
  <2>1. Has(e, m)
    BY <1>3, <1>6
  <2>2. \A x, y \in Entries : Has(x, m) /\ Has(y, m) => x = y
    BY <1>0, OneKey
  <2> QED BY <1>3, <2>1, <2>2
<1> QED BY <1>1, <1>2, <1>4, <1>5, <1>6

\* What the items of the call leave in the blocks.
LEMMA Constructed ==
  ASSUME Settings, Fit, Living, Construct
  PROVE  /\ slots' \in [Block -> [Place -> Index \cup {Dead}]]
         /\ \A n \in Number, e \in Entries, k \in Place : Held(n, e) =>
              slots'[entries[e].value][k] =
                IF Published <= ItemOf(n, k) /\ ItemOf(n, k) < Published + pl.n THEN At(ItemOf(n, k))
                ELSE slots[entries[e].value][k]
         /\ \A b \in Block \ Indexed : slots'[b] = slots[b]
         /\ \E e \in Entries : Held(LastNo + NeededNo, e) /\ entries[e].value = tailBlock'
         /\ tailBlock' \in Block
<1>0. /\ TypeOK /\ HeldInv /\ BlockInv /\ ProducerInv /\ ppc = "construct" /\ start \in Starts
  BY LivingParts DEF ProducerInv, TypeOK, Construct
<1>1. PICK p \in Nat, n \in Nat \ {0} : p = Published /\ n = pl.n /\ tailIndex = At(p) /\ p + n <= MaxItems
  <2>1. Published \in Nat /\ tailIndex = At(Published) /\ pl.n \in Nat
    BY <1>0, Basics
  <2>2. Published + pl.n <= MaxItems /\ pl.n > 0
    BY <1>0 DEF ProducerInv, EnqueueInv
  <2> QED BY <2>1, <2>2
<1>2. PICK new : new = {Plus(tailIndex, k) : k \in 0 .. n - 1}
  OBVIOUS
<1>3. new = {At(d) : d \in p .. p + n - 1}
  <2>1. \A k \in 0 .. n - 1 : Plus(tailIndex, k) = At(p + k) /\ p + k \in p .. p + n - 1
    <3> SUFFICES ASSUME NEW k \in 0 .. n - 1 PROVE Plus(tailIndex, k) = At(p + k) /\ p + k \in p .. p + n - 1
      OBVIOUS
    <3>1. p \in Int /\ k \in Int /\ p + k \in p .. p + n - 1
      OBVIOUS
    <3>2. Plus(At(p), k) = At(p + k)
      BY <1>0, <3>1, PlusAt
    <3> QED BY <1>1, <3>1, <3>2
  <2>2. \A d \in p .. p + n - 1 : d - p \in 0 .. n - 1 /\ p + (d - p) = d
    OBVIOUS
  <2>3. \A d \in p .. p + n - 1 : At(d) \in new
    <3> SUFFICES ASSUME NEW d \in p .. p + n - 1 PROVE At(d) \in new
      OBVIOUS
    <3>1. PICK k \in 0 .. n - 1 : k = d - p /\ p + k = d
      BY <2>2
    <3> QED BY <1>2, <2>1, <3>1
  <2> QED BY <1>2, <2>1, <2>3
<1>4. \A b \in Block, k \in Place : slots'[b][k] =
        IF \E i \in new : TargetBlock(i) = b /\ i % BLOCK_SIZE = k
        THEN CHOOSE i \in new : TargetBlock(i) = b /\ i % BLOCK_SIZE = k ELSE slots[b][k]
  BY <1>1, <1>2 DEF Construct, Place
<1>5. slots' = [b \in Block |-> [k \in Place |->
        IF \E i \in new : TargetBlock(i) = b /\ i % BLOCK_SIZE = k
        THEN CHOOSE i \in new : TargetBlock(i) = b /\ i % BLOCK_SIZE = k ELSE slots[b][k]]]
  BY <1>1, <1>2 DEF Construct, Place
<1>6. \A d \in p .. p + n - 1 : d \in Int /\ Published <= d /\ d < Published + pl.n
  BY <1>1
<1>7. \A i \in new : i \in Index
  BY <1>0, <1>3, <1>6, AtIs
<1>8. slots \in [Block -> [Place -> Index \cup {Dead}]]
  BY <1>0 DEF TypeOK
<1>9. slots' \in [Block -> [Place -> Index \cup {Dead}]]
  <2>1. ASSUME NEW b \in Block, NEW k \in Place
        PROVE  (IF \E i \in new : TargetBlock(i) = b /\ i % BLOCK_SIZE = k
                THEN CHOOSE i \in new : TargetBlock(i) = b /\ i % BLOCK_SIZE = k ELSE slots[b][k]) \in Index \cup {Dead}
    BY <1>7, <1>8
  <2> QED BY <1>5, <2>1
<1>a. ASSUME NEW x \in Number, NEW e \in Entries, NEW k \in Place, Held(x, e)
      PROVE  slots'[entries[e].value][k] =
                IF Published <= ItemOf(x, k) /\ ItemOf(x, k) < Published + pl.n THEN At(ItemOf(x, k))
                ELSE slots[entries[e].value][k]
  <2>1. PICK b \in Block : b = entries[e].value
    BY <1>0, <1>a, HeldBlocks DEF Held
  <2>2. PICK z \in Int : z = ItemOf(x, k) /\ BlockNo(z) = x /\ z % BLOCK_SIZE = k
    <3>1. x \in Int
      BY NumberFits
    <3> QED BY <3>1, BlockNoIs
  <2>3. ASSUME NEW d \in p .. p + n - 1
        PROVE  TargetBlock(At(d)) = b /\ At(d) % BLOCK_SIZE = k <=> d = z
    <3>1. TargetBlock(At(d)) = b <=> BlockNo(d) = x
      BY <1>0, <1>6, <1>a, <2>1, TargetsApart
    <3>2. At(d) % BLOCK_SIZE = d % BLOCK_SIZE
      BY <1>0, <1>6, AtIs
    <3>3. ItemOf(BlockNo(d), d % BLOCK_SIZE) = d
      BY <1>6, BlockNoIs
    <3> QED BY <2>2, <3>1, <3>2, <3>3
  <2>4. CASE z \in p .. p + n - 1
    <3>1. At(z) \in new /\ TargetBlock(At(z)) = b /\ At(z) % BLOCK_SIZE = k
      BY <1>3, <2>3, <2>4
    <3>2. \A i \in new : TargetBlock(i) = b /\ i % BLOCK_SIZE = k => i = At(z)
      BY <1>3, <2>3
    <3>3. slots'[b][k] = CHOOSE i \in new : TargetBlock(i) = b /\ i % BLOCK_SIZE = k
      BY <1>4, <3>1
    <3>4. slots'[b][k] = At(z)
      BY <3>1, <3>2, <3>3
    <3> QED BY <1>1, <2>1, <2>2, <2>4, <3>4
  <2>5. CASE z \notin p .. p + n - 1
    <3>1. ~ \E i \in new : TargetBlock(i) = b /\ i % BLOCK_SIZE = k
      BY <1>3, <2>3, <2>5
    <3>2. slots'[b][k] = slots[b][k]
      BY <1>4, <3>1
    <3> QED BY <1>1, <2>1, <2>2, <2>5, <3>2
  <2> QED BY <2>4, <2>5
<1>b. ASSUME NEW b \in Block \ Indexed PROVE slots'[b] = slots[b]
  <2>1. ASSUME NEW i \in new PROVE TargetBlock(i) # b
    <3>1. PICK d \in p .. p + n - 1 : i = At(d)
      BY <1>3
    <3>2. PICK e \in Entries : Held(BlockNo(d), e) /\ entries[e].value = TargetBlock(At(d))
      BY <1>0, <1>6, TargetIs
    <3>3. TargetBlock(At(d)) \in Indexed
      BY <3>2 DEF Held, Indexed
    <3> QED BY <3>1, <3>3
  <2>2. \A k \in Place : slots'[b][k] = slots[b][k]
    BY <1>4, <2>1
  <2>3. slots'[b] \in [Place -> Index \cup {Dead}] /\ slots[b] \in [Place -> Index \cup {Dead}]
    BY <1>8, <1>9
  <2> QED BY <2>2, <2>3
<1>c. \E e \in Entries : Held(LastNo + NeededNo, e) /\ entries[e].value = tailBlock'
  <2>1. PICK d \in Int : d = p + n - 1 /\ d = p + (n - 1) /\ d \in p .. p + n - 1
    BY <1>1
  <2>2. tailBlock' = TargetBlock(At(d))
    <3>1. tailBlock' = TargetBlock(Plus(tailIndex, n - 1))
      BY <1>1 DEF Construct
    <3>2. p \in Int /\ n - 1 \in Int
      OBVIOUS
    <3> QED BY <1>0, <1>1, <2>1, <3>1, <3>2, PlusAt
  <2>3. \E e \in Entries : Held(BlockNo(d), e) /\ entries[e].value = TargetBlock(At(d))
    BY <1>0, <1>6, <2>1, TargetIs
  <2>4. LastNo + NeededNo = BlockNo(d)
    BY <1>0, <1>1, <2>1, CallIs
  <2> QED BY <2>2, <2>3, <2>4
<1>d. tailBlock' \in Block
  BY <1>0, <1>c, HeldBlocks DEF Held
<1> QED BY <1>9, <1>a, <1>b, <1>c, <1>d

LEMMA ConstructKept ==
  ASSUME Settings, Fit, Living, Construct
  PROVE  Living'
<1>0. /\ TypeOK /\ HeadersInv /\ RingInv /\ HeldInv /\ BlockInv
      /\ ProducerInv /\ EnqueueInv /\ HandInv /\ AllocatedInv
      /\ ppc = "construct" /\ ppc' = "publish"
      /\ UNCHANGED <<start, counts, cpc, cl, index, elementsCompletelyDequeued, free, pl>>
      /\ null \notin Block /\ start \in Starts
  BY LivingParts, Numbers DEF ProducerInv, Construct, TypeOK
<1>1. UNCHANGED <<tailIndex, headIndex, headers, entries, elementsCompletelyDequeued, free, start, cpc, cl, pl>>
  BY <1>0 DEF counts, index
<1>2. /\ slots' \in [Block -> [Place -> Index \cup {Dead}]]
      /\ \A n \in Number, e \in Entries, k \in Place : Held(n, e) =>
              slots'[entries[e].value][k] =
                IF Published <= ItemOf(n, k) /\ ItemOf(n, k) < Published + pl.n THEN At(ItemOf(n, k))
                ELSE slots[entries[e].value][k]
      /\ \A b \in Block \ Indexed : slots'[b] = slots[b]
      /\ \E e \in Entries : Held(LastNo + NeededNo, e) /\ entries[e].value = tailBlock'
      /\ tailBlock' \in Block
  BY Constructed
<1>3. /\ Published' = Published /\ LastNo' = LastNo /\ Number' = Number /\ NeededNo' = NeededNo
      /\ Low' = Low /\ Extra' = Extra /\ Top' = Top /\ Top \in Int /\ LastNo \in Int
      /\ Entries' = Entries /\ Indexed' = Indexed
  <2>1. Published' = Published /\ LastNo' = LastNo /\ Number' = Number /\ Entries' = Entries /\ Indexed' = Indexed
    BY <1>1 DEF Published, LastNo, BlockNo, Number, Entries, Indexed
  <2>2. Extra' = Extra /\ Low' = Low /\ NeededNo' = NeededNo
    BY <1>0, <1>1, <2>1 DEF Extra, Low, NeededNo, BlockNo
  <2>3. LastNo \in Int /\ Top \in Int
    BY <1>0, Basics
  <2> QED BY <2>1, <2>2, <2>3 DEF Top
<1>4. EnqueueInv'
  <2>1. pl.undone = 0
    <3>1. pl.undone \in Nat
      BY <1>0, Basics
    <3> QED BY <1>0, <3>1 DEF EnqueueInv
  <2> QED BY <1>0, <1>1, <1>3, <2>1 DEF EnqueueInv
<1>5. TypeOK'
  <2>1. Header' = Header /\ EntryType' = EntryType
    BY <1>3 DEF Header, EntryType
  <2>2. ppc' \in PCs
    BY <1>0 DEF PCs
  <2> QED BY <1>0, <1>1, <1>2, <2>1, <2>2 DEF TypeOK
<1>6. HeadersInv' /\ RingInv'
  <2>1. SameKeys
    BY <1>1, <1>3 DEF SameKeys
  <2> QED BY <1>0, <1>1, <1>3, <2>1, KeepTables, KeepRing
<1>7. IndexKept /\ PhaseInv' /\ SameHeld
  <2>1. SameTables
    BY <1>1 DEF SameTables, L
  <2> QED BY <1>1, <2>1, IndexSame
<1>8. \A i \in Int : Kept(i)' <=> Kept(i)
  BY <1>0, <1>1 DEF Kept
<1>9. HeldInv'
  <2>1. \A n \in Number : Want(n)' <=> Want(n)
    <3>1. \A n : Pend(n)' <=> Pend(n)
      BY <1>1, ProducerFrame
    <3>2. \A n \in Number : n - LastNo \in Int
      BY <1>3, NumberFits
    <3> QED BY <1>1, <1>3, <1>8, <3>1, <3>2 DEF Want
  <2> QED BY <1>0, <1>1, <1>3, <1>7, <2>1, KeepHeld
<1>a. \A b \in Block \ Indexed : Empty(b)' <=> Empty(b)
  BY <1>2 DEF Empty
<1>b. /\ \A n : Left_(n)' = Left_(n)
      /\ \A d \in Int : Unread(d)' <=> Unread(d) \/ (Published <= d /\ d < Published + pl.n)
  <2>1. Holding' = Holding /\ Claimed' = Claimed /\ (\A c : Lo(c)' = Lo(c) /\ Hi(c)' = Hi(c))
        /\ \A n : Left_(n)' = Left_(n)
    BY <1>1, ProducerFrame
  <2>2. Claimed \in Nat /\ Published \in Nat /\ Claimed <= Published /\ pl.n \in Nat
    BY <1>0, Basics
  <2>3. ASSUME NEW d \in Int PROVE Unread(d)' <=> Unread(d) \/ (Published <= d /\ d < Published + pl.n)
    <3>1. Unread(d) <=> (Claimed <= d /\ d < Published + 0) \/ \E c \in Holding : Lo(c) <= d /\ d < Hi(c)
      BY <1>0 DEF Unread
    <3>2. Unread(d)' <=> (Claimed <= d /\ d < Published + pl.n) \/ \E c \in Holding : Lo(c) <= d /\ d < Hi(c)
      BY <1>0, <1>1, <1>3, <2>1 DEF Unread
    <3> QED BY <2>2, <3>1, <3>2
  <2> QED BY <2>1, <2>3
<1>c. BlockInv'
  <2>1. ASSUME NEW n \in Number, NEW e \in Entries, Held(n, e)
        PROVE  /\ entries[e].value \notin free
               /\ elementsCompletelyDequeued[entries[e].value] + Cardinality(Left_(n)) = BLOCK_SIZE
               /\ Filled(entries[e].value, n)'
    <3>1. /\ entries[e].value \notin free
          /\ elementsCompletelyDequeued[entries[e].value] + Cardinality(Left_(n)) = BLOCK_SIZE
          /\ Filled(entries[e].value, n)
      BY <1>0, <2>1 DEF BlockInv
    <3>2. PICK b : b = entries[e].value
      OBVIOUS
    <3>3. ASSUME NEW k \in Place
          PROVE  slots'[b][k] = IF Unread(ItemOf(n, k))' THEN At(ItemOf(n, k)) ELSE Dead
      <4>1. PICK d \in Int : d = ItemOf(n, k)
        BY NumberFits, BlockNoIs
      <4>2. slots[b][k] = IF Unread(d) THEN At(d) ELSE Dead
        BY <3>1, <3>2, <4>1 DEF Filled
      <4>3. slots'[b][k] = IF Published <= d /\ d < Published + pl.n THEN At(d) ELSE slots[b][k]
        BY <1>2, <2>1, <3>2, <4>1
      <4>4. Unread(d)' <=> Unread(d) \/ (Published <= d /\ d < Published + pl.n)
        BY <1>b
      <4>5. Unread(d)' <=> Unread(ItemOf(n, k))'
        BY <4>1 DEF Unread
      <4> QED BY <4>1, <4>2, <4>3, <4>4, <4>5
    <3>4. Filled(b, n)'
      <4>1. \A k : At(ItemOf(n, k))' = At(ItemOf(n, k)) /\ ItemOf(n, k)' = ItemOf(n, k)
        BY <1>1 DEF At, ItemOf
      <4> QED BY <3>3, <4>1 DEF Filled
    <3>5. Filled(b, n)' <=> Filled(entries[e].value, n)'
      BY <1>1, <3>2 DEF Filled
    <3> QED BY <3>1, <3>4, <3>5
  <2>2. \A x \in free : Empty(x)'
    <3>1. free \subseteq Block \ Indexed
      BY <1>0, HeldBlocks DEF TypeOK
    <3> QED BY <1>0, <1>a, <3>1 DEF BlockInv
  <2>3. Block \subseteq free \cup Indexed \cup {pl.block} \cup {pl.allocated[i] : i \in DOMAIN pl.allocated}
                     \cup {cl[c].block : c \in {d \in Consumer : cpc[d] = "free"}}
    BY <1>0 DEF BlockInv
  <2>4. \A n \in Number, e \in Entries : Held(n, e)' <=> Held(n, e)
    BY <1>7 DEF SameHeld
  <2>5. ASSUME NEW n \in Number, NEW e \in Entries, Held(n, e)'
        PROVE  /\ entries'[e].value \notin free'
               /\ elementsCompletelyDequeued'[entries'[e].value] + Cardinality(Left_(n)') = BLOCK_SIZE
               /\ Filled(entries[e].value, n)'
    <3>1. Held(n, e)
      BY <2>4, <2>5
    <3> QED BY <1>1, <1>b, <2>1, <3>1
  <2> QED BY <1>1, <1>3, <2>2, <2>3, <2>5 DEF BlockInv
<1>d. HandInv' /\ AllocatedInv'
  <2>1. pl.block = null
    BY <1>0 DEF EnqueueInv
  <2>2. HandInv'
    BY <1>1, <2>1 DEF HandInv
  <2>3. \A i \in DOMAIN pl.allocated : i \in Int /\ pl.allocated[i] \in Block
    BY <1>0 DEF TypeOK
  <2>4. ASSUME NEW i \in DOMAIN pl.allocated
        PROVE  /\ pl.allocated[i] \notin free
               /\ \A j \in DOMAIN pl.allocated : pl.allocated[j] = pl.allocated[i] => i = j
               /\ ~Kept(i)' => pl.allocated[i] \notin Indexed /\ Empty(pl.allocated[i])'
    <3>1. /\ pl.allocated[i] \notin free
          /\ \A j \in DOMAIN pl.allocated : pl.allocated[j] = pl.allocated[i] => i = j
          /\ ~Kept(i) => pl.allocated[i] \notin Indexed /\ Empty(pl.allocated[i])
      BY <1>0 DEF AllocatedInv
    <3>2. PICK b \in Block : b = pl.allocated[i]
      BY <2>3
    <3>3. Empty(b)' <=> Empty(pl.allocated[i])'
      BY <1>1, <3>2 DEF Empty
    <3> QED BY <1>8, <1>a, <2>3, <3>1, <3>2, <3>3
  <2>5. AllocatedInv'
    BY <1>1, <1>3, <2>4 DEF AllocatedInv
  <2> QED BY <2>2, <2>5
<1>e. (\A c \in Holding' : ConsumerInv(c)') /\ SharesInv'
  BY <1>1, <1>3, <1>7, <1>a, ProducerConsumers
<1>f. TailInv'
  <2>1. PICK e \in Entries : Held(LastNo + NeededNo, e) /\ entries[e].value = tailBlock'
    BY <1>2
  <2>2. PICK n : n = LastNo + NeededNo
    OBVIOUS
  <2>3. Held(n, e)'
    BY <1>1, <2>1, <2>2 DEF Held, Has, KeyOf
  <2>4. Held(LastNo + NeededNo, e)'
    BY <1>3, <2>2, <2>3 DEF Held, Has, KeyOf
  <2> QED BY <1>0, <1>1, <1>3, <2>1, <2>4 DEF TailInv
<1> QED BY <1>0, <1>4, <1>5, <1>6, <1>7, <1>9, <1>c, <1>d, <1>e, <1>f DEF Living, IInv, ProducerInv

LEMMA PublishKept ==
  ASSUME Settings, Fit, Living, Publish
  PROVE  Living'
<1>0. /\ TypeOK /\ HeadersInv /\ RingInv /\ HeldInv /\ BlockInv
      /\ ProducerInv /\ EnqueueInv /\ HandInv /\ AllocatedInv /\ TailInv
      /\ ppc = "publish" /\ ppc' = "idle" /\ pl' = NoEnqueue
      /\ UNCHANGED <<start, consumers, index, blocks, tailBlock>>
      /\ null \notin Block /\ start \in Starts
  BY LivingParts, Numbers DEF ProducerInv, Publish, TypeOK
<1>1. UNCHANGED <<headIndex, headers, entries, slots, elementsCompletelyDequeued, free, start, cpc, cl, tailBlock>>
  BY <1>0 DEF consumers, index, blocks
<1>2. PICK p \in Nat, n \in Nat \ {0}, N \in Nat, m \in Int, l \in Int :
        /\ p = Published /\ n = pl.n /\ tailIndex = At(p) /\ p + n <= MaxItems
        /\ N = NeededNo /\ N = Len(pl.allocated) /\ l = LastNo /\ l \in Number /\ l + 1 >= InitialSize
        /\ m = l + N /\ m \in Number /\ m = BlockNo(p + n - 1) /\ pl.undone = 0
  <2>1. /\ Published \in Nat /\ tailIndex = At(Published) /\ pl.n \in Nat /\ LastNo \in Int /\ LastNo \in Number
        /\ LastNo + 1 >= InitialSize /\ pl.undone \in Nat
    BY <1>0, Basics
  <2>2. Published + pl.n <= MaxItems /\ pl.n > 0 /\ NeededNo = Len(pl.allocated) /\ pl.undone = 0
    BY <1>0, <2>1 DEF EnqueueInv
  <2>3. NeededNo \in Nat /\ LastNo + NeededNo \in Number /\ LastNo + NeededNo = BlockNo(Published + pl.n - 1)
    BY <1>0, CallIs
  <2> QED BY <2>1, <2>2, <2>3
<1>3. Published' = p + n
  <2>1. PICK d \in Int : d = p + n
    OBVIOUS
  <2>2. tailIndex' = At(d)
    <3>1. tailIndex' = Plus(At(p), n)
      BY <1>2 DEF Publish
    <3>2. p \in Int /\ n \in Int
      OBVIOUS
    <3> QED BY <1>0, <2>1, <3>1, <3>2, PlusAt
  <2>3. d \in Index
    <3>1. MaxItems < Wrap /\ Wrap \in Int /\ MaxItems \in Int
      BY Numbers
    <3> QED BY <1>2, <2>1, <3>1, SMTT(30) DEF Index
  <2>4. Dist(At(d)) = d
    BY <1>0, <2>3, DistIs
  <2> QED BY <1>1, <2>1, <2>2, <2>4 DEF Published, Dist
<1>4. /\ pl' \in [n : 0 .. MaxBulk, allocated : Seq(Block), block : Block \cup {null}, undone : Nat]
      /\ pl'.n = 0 /\ pl'.allocated = <<>> /\ pl'.block = null /\ pl'.undone = 0
      /\ Len(pl'.allocated) = 0 /\ DOMAIN pl'.allocated = {}
  <2>1. 0 \in 0 .. MaxBulk /\ <<>> \in Seq(Block) /\ Len(<<>>) = 0 /\ DOMAIN <<>> = {}
    BY Numbers
  <2> QED BY <1>0, <2>1 DEF NoEnqueue
<1>5. /\ LastNo' = m /\ Number' = Number /\ Low' = m /\ Low = m /\ Extra' = 0 /\ Extra = 0
      /\ Top' = Top /\ Entries' = Entries /\ Indexed' = Indexed
  <2>1. LastNo' = m
    BY <1>2, <1>3 DEF LastNo, BlockNo
  <2>2. Number' = Number /\ Entries' = Entries /\ Indexed' = Indexed
    BY <1>1 DEF Number, BlockNo, Entries, Indexed
  <2>3. Extra' = 0 /\ Extra = 0
    BY <1>0 DEF Extra
  <2>4. Low' = m
    BY <1>4, <2>1 DEF Low
  <2>5. Low = m
    BY <1>2 DEF Low
  <2> QED BY <2>1, <2>2, <2>3, <2>4, <2>5 DEF Top
<1>6. TypeOK'
  <2>1. Header' = Header /\ EntryType' = EntryType
    BY <1>5 DEF Header, EntryType
  <2>2. ppc' \in PCs
    BY <1>0 DEF PCs
  <2> QED BY <1>0, <1>1, <1>4, <2>1, <2>2 DEF TypeOK
<1>7. HeadersInv'
  BY <1>0, <1>1, <1>5, KeepTables
<1>8. IndexKept /\ PhaseInv' /\ SameHeld
  <2>1. SameTables
    BY <1>1 DEF SameTables, L
  <2> QED BY <1>1, <2>1, IndexSame
<1>9. RingInv'
  <2>1. PICK v, w \in Number : Ring(v, w)
    BY <1>0 DEF RingInv
  <2>2. \A k : EntryOf(k)' = EntryOf(k) /\ capacity(L)' = capacity(L)
    BY <1>1, <1>5, KeepPlaces
  <2>3. \A k : (Has(EntryOf(k), k)' <=> Has(EntryOf(k), k)) /\ (Valid(EntryOf(k))' <=> Valid(EntryOf(k)))
    BY <1>1, <2>2 DEF Has, Valid, KeyOf
  <2>4. v <= LastNo' + 1
    <3>1. v \in Int
      BY <2>1, NumberFits
    <3>2. v <= l + 1
      BY <1>2, <2>1 DEF Ring
    <3>3. LastNo' = l + N
      BY <1>2, <1>5
    <3> QED BY <1>2, <3>1, <3>2, <3>3
  <2>5. Ring(v, w)'
    BY <1>0, <1>4, <1>5, <2>1, <2>2, <2>3, <2>4 DEF Ring
  <2> QED BY <1>5, <2>1, <2>5 DEF RingInv
<1>a. ASSUME NEW i \in 1 .. N PROVE Want(l + i)
  <2>1. DOMAIN pl.allocated = 1 .. N
    <3>1. pl.allocated \in Seq(Block)
      BY <1>0 DEF TypeOK
    <3> QED BY <1>2, <3>1
  <2>2. Kept(i)
    <3>1. Kept(i) <=> i > pl.undone + 0
      BY <1>0 DEF Kept
    <3> QED BY <1>2, <3>1
  <2>3. PICK x \in Int : x = l + i /\ x > LastNo /\ x - LastNo = i
    BY <1>2
  <2>4. Want(x)
    BY <2>1, <2>2, <2>3 DEF Want
  <2> QED BY <2>3, <2>4
<1>b. ASSUME NEW x \in Number PROVE Want(x)' <=> Want(x)
  <2>1. x \in Int /\ (Pend(x)' <=> Pend(x))
    BY <1>1, ProducerFrame, NumberFits
  <2>2. CASE x > m
    <3>1. ~Want(x)'
      BY <1>4, <1>5, <2>2 DEF Want
    <3>2. x > LastNo /\ x - LastNo \notin DOMAIN pl.allocated
      <4>1. pl.allocated \in Seq(Block)
        BY <1>0 DEF TypeOK
      <4>2. DOMAIN pl.allocated = 1 .. N
        BY <1>2, <4>1
      <4> QED BY <1>2, <2>1, <2>2, <4>2
    <3> QED BY <3>1, <3>2 DEF Want
  <2>3. CASE l < x /\ x <= m
    <3>1. PICK i \in 1 .. N : x = l + i
      <4>1. x - l \in 1 .. N /\ x = l + (x - l)
        BY <1>2, <2>1, <2>3
      <4> QED BY <4>1
    <3>2. Want(x)
      BY <1>a, <3>1
    <3>3. Left_(x) = Place
      BY <1>2, <2>1, <2>3, NewBlock
    <3>4. Place # {}
      BY Numbers DEF Place
    <3>5. Pend(x)'
      BY <2>1, <3>3, <3>4 DEF Pend
    <3>6. x >= InitialSize /\ ~ x > LastNo'
      <4>1. InitialSize \in Int
        BY Numbers
      <4> QED BY <1>2, <1>5, <2>1, <2>3, <4>1
    <3> QED BY <3>2, <3>5, <3>6 DEF Want
  <2>4. CASE x <= l
    <3>1. ~ x > LastNo /\ ~ x > LastNo'
      BY <1>2, <1>5, <2>1, <2>4
    <3> QED BY <2>1, <3>1 DEF Want
  <2> QED BY <1>2, <2>1, <2>2, <2>3, <2>4
<1>c. HeldInv'
  <2>1. \A x \in Number, e \in Entries : Held(x, e)' <=> Held(x, e)
    BY <1>8 DEF SameHeld
  <2>2. \A x, e : Has(e, x)' <=> Has(e, x)
    BY <1>1 DEF Has, KeyOf
  <2>3. ASSUME NEW x \in Number, NEW e \in Entries, Held(x, e), x > LastNo' PROVE FALSE
    <3>1. Want(x)'
      BY <1>0, <1>b, <2>3, HeldWanted
    <3> QED BY <1>4, <2>3, <3>1 DEF Want
  <2> QED BY <1>0, <1>1, <1>5, <1>b, <2>1, <2>2, <2>3 DEF HeldInv
<1>d. /\ \A x : Empty(x)' <=> Empty(x)
      /\ \A x : Left_(x)' = Left_(x)
      /\ \A d : Unread(d)' <=> Unread(d)
      /\ \A x, y : Filled(x, y)' <=> Filled(x, y)
  <2>1. \A x : Empty(x)' <=> Empty(x)
    BY <1>1 DEF Empty
  <2>2. Holding' = Holding /\ Claimed' = Claimed /\ (\A c : Lo(c)' = Lo(c) /\ Hi(c)' = Hi(c))
        /\ \A x : Left_(x)' = Left_(x)
    BY <1>1, ProducerFrame
  <2>3. \A d : Unread(d)' <=> Unread(d)
    <3>1. \A d : Unread(d) <=> (Claimed <= d /\ d < p + n) \/ \E c \in Holding : Lo(c) <= d /\ d < Hi(c)
      BY <1>0, <1>2 DEF Unread
    <3>2. \A d : Unread(d)' <=> (Claimed <= d /\ d < (p + n) + 0) \/ \E c \in Holding : Lo(c) <= d /\ d < Hi(c)
      BY <1>0, <1>3, <2>2 DEF Unread
    <3>3. (p + n) + 0 = p + n
      OBVIOUS
    <3> QED BY <3>1, <3>2, <3>3
  <2>4. \A x, y : Filled(x, y)' <=> Filled(x, y)
    BY <1>1, <2>3 DEF Filled, At, ItemOf
  <2> QED BY <2>1, <2>2, <2>3, <2>4
<1>e. BlockInv'
  <2>1. \A x \in Number, e \in Entries : Held(x, e)' <=> Held(x, e)
    BY <1>8 DEF SameHeld
  <2>2. Block \subseteq free \cup Indexed \cup {cl[c].block : c \in {d \in Consumer : cpc[d] = "free"}}
    <3>1. pl.block = null
      BY <1>0 DEF EnqueueInv
    <3>2. DOMAIN pl.allocated = 1 .. N
      <4>1. pl.allocated \in Seq(Block)
        BY <1>0 DEF TypeOK
      <4> QED BY <1>2, <4>1
    <3>3. ASSUME NEW i \in 1 .. N PROVE pl.allocated[i] \in Indexed
      <4>1. PICK x \in Int : x = l + i /\ x > LastNo /\ x - LastNo = i
        BY <1>2
      <4>2. x \in Number
        BY <1>2, <4>1, NumberFits, SMTT(30) DEF Number
      <4>3. PICK e \in Entries : Held(x, e)
        BY <1>0, <1>a, <4>1, <4>2 DEF HeldInv
      <4>4. entries[e].value = pl.allocated[i]
        BY <1>0, <4>1, <4>2, <4>3 DEF HeldInv
      <4> QED BY <4>3, <4>4 DEF Held, Indexed
    <3>4. Block \subseteq free \cup Indexed \cup {pl.block} \cup {pl.allocated[i] : i \in DOMAIN pl.allocated}
                     \cup {cl[c].block : c \in {d \in Consumer : cpc[d] = "free"}}
      BY <1>0 DEF BlockInv
    <3> QED BY <1>0, <3>1, <3>2, <3>3, <3>4
  <2>3. \A b \in free : Empty(b)
    BY <1>0 DEF BlockInv
  <2>4. \A x \in Number, e \in Entries : Held(x, e) =>
          /\ entries[e].value \notin free
          /\ elementsCompletelyDequeued[entries[e].value] + Cardinality(Left_(x)) = BLOCK_SIZE
          /\ Filled(entries[e].value, x)
    BY <1>0 DEF BlockInv
  <2> QED BY <1>1, <1>5, <1>d, <2>1, <2>2, <2>3, <2>4 DEF BlockInv
<1>f. EnqueueInv' /\ HandInv' /\ AllocatedInv'
  <2>1. HandInv' /\ AllocatedInv'
    BY <1>4 DEF HandInv, AllocatedInv
  <2> QED BY <1>0, <1>4, <2>1 DEF EnqueueInv
<1>g. (\A c \in Holding' : ConsumerInv(c)') /\ SharesInv'
  <2>1. ASSUME NEW x \in Block, x \notin free \cup Indexed \cup {pl.block}, Empty(x),
               \A i \in DOMAIN pl.allocated : pl.allocated[i] # x
        PROVE  x \notin free' \cup Indexed' \cup {pl'.block} /\ Empty(x)'
               /\ (\A i \in DOMAIN pl'.allocated : pl'.allocated[i] # x)
    <3>1. x # null
      BY <1>0
    <3> QED BY <1>1, <1>4, <1>5, <1>d, <2>1, <3>1
  <2> QED BY <1>1, <1>8, <2>1, ProducerConsumers
<1>h. TailInv'
  <2>1. PICK e \in Entries : Held(LastNo + NeededNo, e) /\ entries[e].value = tailBlock
    BY <1>0 DEF TailInv
  <2>2. Held(m, e)
    BY <1>2, <2>1
  <2>3. Held(m, e)'
    BY <1>2, <1>8, <2>2 DEF SameHeld
  <2>4. Held(LastNo, e)' <=> Held(m, e)'
    BY <1>5 DEF Held, Has, KeyOf
  <2> QED BY <1>0, <1>1, <1>5, <2>1, <2>3, <2>4 DEF TailInv
<1> QED BY <1>0, <1>6, <1>7, <1>8, <1>9, <1>c, <1>e, <1>f, <1>g, <1>h DEF Living, IInv, ProducerInv

\* The block of an item that nobody has claimed.
LEMMA BlockOfIs ==
  ASSUME Settings, Fit, Living, ppc = "idle", NEW d \in Int, Claimed <= d, d < Published
  PROVE  /\ BlockNo(d) \in Number /\ At(d) % BLOCK_SIZE = d % BLOCK_SIZE
         /\ \E e \in Entries : Held(BlockNo(d), e) /\ entries[e].value = BlockOf(At(d))
<1>0. /\ TypeOK /\ HeadersInv /\ RingInv /\ HeldInv /\ EnqueueInv /\ start \in Starts
  BY LivingParts DEF ProducerInv, TypeOK
<1>1. PICK p \in Nat, q \in Nat, l \in Int : /\ p = Published /\ q = Claimed /\ p <= MaxItems /\ l = LastNo
                                             /\ l \in Number /\ l = BlockNo(p - 1) /\ MaxItems \in Nat
  BY <1>0, Basics, Numbers DEF LastNo
<1>2. PICK n \in Int : n = BlockNo(d) /\ n \in Number /\ n <= l /\ n >= InitialSize
  <2>1. /\ d >= -1 /\ d <= MaxItems /\ d >= 0 /\ d <= p - 1 /\ p - 1 \in Int
    BY <1>1
  <2>2. BlockNo(d) \in Number /\ BlockNo(d) <= BlockNo(p - 1) /\ BlockNo(d) >= InitialSize
    BY <2>1, BlockNoUp
  <2>3. BlockNo(d) \in Int
    BY <2>2, NumberFits
  <2> QED BY <1>1, <2>2, <2>3
<1>3. Want(n)
  <2>1. NotCounted(d)
    BY DEF NotCounted
  <2>2. d % BLOCK_SIZE \in Place /\ ItemOf(n, d % BLOCK_SIZE) = d
    BY <1>2, BlockNoIs
  <2>3. Pend(n)
    BY <2>1, <2>2 DEF Pend, Left_
  <2>4. ~ n > LastNo
    BY <1>1, <1>2
  <2> QED BY <1>2, <2>3, <2>4 DEF Want
<1>4. PICK e \in Entries : Held(n, e)
  BY <1>0, <1>2, <1>3 DEF HeldInv
<1>5. PICK v, w \in Number : Ring(v, w)
  BY <1>0 DEF RingInv
<1>6. PICK C \in Nat \ {0} : C = capacity(L)
  BY <1>0, HeaderIs
<1>7. n \in w - C + 1 .. w /\ v <= n /\ e = EntryOf(n)
  <2>1. Has(e, n)
    BY <1>4 DEF Held
  <2> QED BY <1>0, <1>2, <1>5, <1>6, <2>1, Placed
<1>8. Top = l /\ Low = l
  <2>1. Extra = 0 /\ Len(pl.allocated) = 0 /\ pl.undone = 0
    <3>1. pl = NoEnqueue
      BY <1>0 DEF EnqueueInv
    <3>2. Len(<<>>) = 0
      OBVIOUS
    <3> QED BY <3>1, <3>2 DEF Extra, NoEnqueue
  <2> QED BY <1>0, <1>1, <2>1, Basics
<1>9. Has(LastEntry, l)
  <2>1. v \in Int /\ w \in Int /\ Low <= w
    BY <1>5, NumberFits DEF Ring
  <2>2. l \in w - C + 1 .. w /\ v <= l
    BY <1>2, <1>7, <1>8, <2>1
  <2>3. Has(EntryOf(l), l)
    BY <1>5, <1>6, <2>2 DEF Ring
  <2>4. LastEntry = EntryOf(l)
    <3>1. PICK t \in Nat : t = headers[L].tail
      BY <1>0, HeaderIs
    <3>2. l - Top = 0
      BY <1>8
    <3> QED BY <3>1, <3>2 DEF EntryOf, LastEntry, L
  <2> QED BY <2>3, <2>4
<1>a. BlockOf(At(d)) = entries[e].value
  <2>1. Base(At(d)) = KeyOf(n)
    BY <1>0, <1>2, KeyIs
  <2>2. Entry(L, Find(L, headers[L].tail, entries[LastEntry].key, KeyOf(n))) = EntryOf(n)
    BY <1>0, <1>1, <1>2, <1>8, <1>9, FindIs
  <2> QED BY <1>7, <2>1, <2>2 DEF BlockOf, L
<1>b. At(d) % BLOCK_SIZE = d % BLOCK_SIZE
  BY <1>0, AtIs
<1> QED BY <1>2, <1>4, <1>a, <1>b

LEMMA DestroyKept ==
  ASSUME Settings, Fit, Living, Destroy
  PROVE  IInv'
<1>0. /\ TypeOK /\ HeadersInv /\ RingInv /\ HeldInv /\ BlockInv /\ EnqueueInv /\ TailInv /\ start \in Starts
      /\ ppc = "idle" /\ ppc' = "destroyed" /\ null \notin Block
      /\ UNCHANGED <<start, cpc, cl, index, elementsCompletelyDequeued, tailBlock, pl>>
      /\ \A c \in Consumer : cpc[c] = "idle"
  BY LivingParts, Numbers DEF ProducerInv, TypeOK, Destroy, CAt
<1>1. PICK p \in Nat, q \in Nat, l \in Int :
         /\ p = Published /\ q = Claimed /\ q <= p /\ p <= MaxItems /\ l = LastNo
         /\ tailIndex = At(p) /\ headIndex = At(q)
         /\ l \in Number /\ l = BlockNo(p - 1) /\ MaxItems \in Nat
  BY <1>0, Basics, Numbers DEF LastNo
<1>2. Holding = {} /\ Holding' = {} /\ UNCHANGED <<headers, entries>>
  BY <1>0 DEF Holding, Places, index
<1>3. PICK S : S = Left /\ S = {At(d) : d \in q .. p - 1}
  <2>1. Minus(tailIndex, headIndex) = p - q
    <3>1. p - q < Wrap /\ 0 <= p - q /\ p \in Int /\ q \in Int
      <4>1. MaxItems < Wrap /\ Wrap \in Int
        BY Numbers
      <4> QED BY <1>1, <4>1
    <3> QED BY <1>0, <1>1, <3>1, MinusAt
  <2>2. \A k \in 0 .. p - q - 1 : Plus(headIndex, k) = At(q + k) /\ q + k \in q .. p - 1
    <3> SUFFICES ASSUME NEW k \in 0 .. p - q - 1 PROVE Plus(headIndex, k) = At(q + k) /\ q + k \in q .. p - 1
      OBVIOUS
    <3>1. q \in Int /\ k \in Int /\ q + k \in q .. p - 1
      OBVIOUS
    <3>2. Plus(At(q), k) = At(q + k)
      BY <1>0, <3>1, PlusAt
    <3> QED BY <1>1, <3>1, <3>2
  <2>3. Left = {Plus(headIndex, k) : k \in 0 .. p - q - 1}
    BY <2>1 DEF Left
  <2>4. ASSUME NEW d \in q .. p - 1 PROVE At(d) \in Left
    <3>1. d - q \in 0 .. p - q - 1 /\ q + (d - q) = d
      OBVIOUS
    <3>2. PICK k \in 0 .. p - q - 1 : q + k = d
      BY <3>1
    <3> QED BY <2>2, <2>3, <3>2
  <2> QED BY <2>2, <2>3, <2>4
<1>4. \A d \in q .. p - 1 : d \in Int /\ Claimed <= d /\ d < Published
  BY <1>1
<1>5. ASSUME NEW n \in Number, NEW e \in Entries, Held(n, e)
      PROVE  /\ \A d \in q .. p - 1 : BlockNo(d) = n <=> BlockOf(At(d)) = entries[e].value
             /\ n <= l /\ Want(n)
  <2>1. Want(n)
    BY <1>0, <1>5, HeldWanted
  <2>2. n <= l
    <3>1. pl.allocated = <<>> /\ DOMAIN <<>> = {}
      BY <1>0 DEF EnqueueInv, NoEnqueue
    <3>2. ~ n > LastNo
      BY <2>1, <3>1 DEF Want
    <3> QED BY <1>1, <3>2, NumberFits
  <2>3. ASSUME NEW d \in q .. p - 1 PROVE BlockNo(d) = n <=> BlockOf(At(d)) = entries[e].value
    <3>1. PICK m \in Number : m = BlockNo(d)
      BY <1>0, <1>4, BlockOfIs
    <3>2. PICK f \in Entries : Held(m, f) /\ entries[f].value = BlockOf(At(d))
      BY <1>0, <1>4, <3>1, BlockOfIs
    <3>3. Has(e, n) /\ Has(f, m) /\ entries[e].value # null
      BY <1>5, <3>2 DEF Held
    <3>4. entries[f].value = entries[e].value => f = e
      BY <1>0, <3>3 DEF HeldInv
    <3>5. f = e => m = n
      BY <1>0, <3>3, OneKey
    <3>6. ASSUME m = n PROVE f = e
      <4>1. Has(e, m)
        BY <3>3, <3>6
      <4>2. \A x, y \in Entries : Has(x, m) /\ Has(y, m) => x = y
        BY <1>0, OneKey
      <4> QED BY <3>3, <4>1, <4>2
    <3> QED BY <3>1, <3>2, <3>4, <3>5, <3>6
  <2> QED BY <2>1, <2>2, <2>3
<1>6. PICK last, first : /\ last = (IF S = {} THEN {} ELSE {BlockOf(Minus(tailIndex, 1))})
                         /\ first = {BlockOf(i) : i \in {j \in S : j = headIndex \/ j % BLOCK_SIZE = 0}}
  OBVIOUS
<1>7. free' = free \cup (first \ last)
               \cup (IF tailBlock # null /\ (S # {} \/ tailIndex % BLOCK_SIZE # 0) THEN {tailBlock} ELSE {})
  BY <1>3, <1>6 DEF Destroy
<1>8. \A d \in q .. p - 1 : BlockOf(At(d)) \in Block
  <2> SUFFICES ASSUME NEW d \in q .. p - 1 PROVE BlockOf(At(d)) \in Block
    OBVIOUS
  <2>1. PICK e \in Entries : Held(BlockNo(d), e) /\ entries[e].value = BlockOf(At(d))
    BY <1>0, <1>4, BlockOfIs
  <2> QED BY <1>0, <2>1, HeldBlocks DEF Held
<1>9. free' \subseteq Block
  <2>1. first \subseteq Block
    BY <1>3, <1>6, <1>8
  <2>2. free \subseteq Block /\ tailBlock \in Block \cup {null}
    BY <1>0 DEF TypeOK
  <2> QED BY <1>7, <2>1, <2>2
<1>a. ASSUME NEW n \in Number, NEW e \in Entries, Held(n, e) PROVE entries[e].value \in free'
  <2>1. /\ \A d \in q .. p - 1 : BlockNo(d) = n <=> BlockOf(At(d)) = entries[e].value
        /\ n <= l /\ Want(n) /\ n \in Int
    BY <1>5, <1>a, NumberFits
  <2>2. n >= InitialSize /\ Left_(n) # {}
    <3>1. ~ n > LastNo
      BY <1>1, <2>1
    <3>2. n >= InitialSize /\ Pend(n)
      BY <2>1, <3>1 DEF Want
    <3> QED BY <1>2, <3>2 DEF Pend, Dropping
  <2>3. PICK k \in Place, d \in Int : d = ItemOf(n, k) /\ q <= d /\ BlockNo(d) = n
    <3>1. PICK k \in Place : NotCounted(ItemOf(n, k))
      BY <2>2 DEF Left_
    <3>2. ItemOf(n, k) \in Int /\ BlockNo(ItemOf(n, k)) = n
      BY <2>1, BlockNoIs
    <3> QED BY <1>1, <1>2, <3>1, <3>2 DEF NotCounted
  <2>4. CASE n < l
    <3>1. d \in q .. p - 1
      <4>1. d < p - 1
        <5>1. p - 1 \in Int /\ BlockNo(d) < BlockNo(p - 1)
          BY <1>1, <2>3, <2>4
        <5> QED BY <5>1, BlockNoUp
      <4> QED BY <2>3, <4>1
    <3>2. PICK f \in Int : f = ItemOf(n, 0) /\ BlockNo(f) = n /\ f % BLOCK_SIZE = 0 /\ f <= d
      <4>1. 0 \in Place /\ k \in Int /\ k >= 0 /\ BLOCK_SIZE \in Int
        BY Numbers DEF Place
      <4>2. ItemOf(n, 0) \in Int /\ BlockNo(ItemOf(n, 0)) = n /\ ItemOf(n, 0) % BLOCK_SIZE = 0
        BY <2>1, <4>1, BlockNoIs
      <4>3. ItemOf(n, 0) <= d
        <5>1. PICK x \in Int : x = (n - InitialSize) * BLOCK_SIZE
          BY <2>1, <4>1, Numbers
        <5> QED BY <2>3, <4>1, <5>1 DEF ItemOf
      <4> QED BY <4>2, <4>3
    <3>3. \E i \in S : (i = headIndex \/ i % BLOCK_SIZE = 0) /\ BlockOf(i) = entries[e].value
      <4>1. CASE q <= f
        <5>1. f \in q .. p - 1
          BY <3>1, <3>2, <4>1
        <5>2. At(f) % BLOCK_SIZE = 0
          BY <1>0, <3>2, AtIs
        <5> QED BY <1>3, <2>1, <3>2, <5>1, <5>2
      <4>2. CASE ~ q <= f
        <5>1. q \in q .. p - 1
          BY <3>1
        <5>2. BlockNo(q) = n
          <6>1. BlockNo(f) <= BlockNo(q) /\ BlockNo(q) <= BlockNo(d)
            BY <2>3, <3>2, <4>2, BlockNoUp
          <6>2. BlockNo(q) \in Int
            <7>1. q \in Int
              OBVIOUS
            <7> QED BY <7>1, BlockNoIs
          <6> QED BY <2>1, <2>3, <3>2, <6>1, <6>2
        <5> QED BY <1>1, <1>3, <2>1, <5>1, <5>2
      <4> QED BY <4>1, <4>2
    <3>4. entries[e].value \in first
      BY <1>6, <3>3
    <3>5. entries[e].value \notin last
      <4>1. p - 1 \in q .. p - 1 /\ p \in Int
        BY <3>1
      <4>2. Minus(tailIndex, 1) = At(p - 1)
        BY <1>0, <1>1, <4>1, PlusAt
      <4>3. BlockNo(p - 1) # n
        BY <1>1, <2>1, <2>4
      <4>4. BlockOf(At(p - 1)) # entries[e].value
        BY <2>1, <4>1, <4>3
      <4> QED BY <1>6, <4>2, <4>4
    <3> QED BY <1>7, <3>4, <3>5
  <2>5. CASE n = l
    <3>1. entries[e].value = tailBlock
      <4>1. PICK f \in Entries : Held(LastNo, f) /\ entries[f].value = tailBlock
        <5>1. LastNo >= InitialSize /\ Pend(LastNo)
          BY <1>1, <2>2, <2>5 DEF Pend
        <5> QED BY <1>0, <5>1 DEF TailInv
      <4>2. Has(e, n) /\ Has(f, n)
        BY <1>1, <1>a, <2>5, <4>1 DEF Held
      <4>3. e = f
        BY <1>0, <4>2, OneKey
      <4> QED BY <4>1, <4>3
    <3>2. tailBlock # null
      BY <1>a, <3>1 DEF Held
    <3>3. S # {} \/ tailIndex % BLOCK_SIZE # 0
      <4> SUFFICES ASSUME S = {}, tailIndex % BLOCK_SIZE = 0 PROVE FALSE
        OBVIOUS
      <4>1. q = p
        <5>1. \A x \in q .. p - 1 : FALSE
          BY <1>3
        <5>2. q < p => q \in q .. p - 1
          OBVIOUS
        <5> QED BY <1>1, <5>1, <5>2
      <4>2. p % BLOCK_SIZE = 0 /\ p \in Int /\ p - 1 \in Int
        <5>1. p \in Int
          OBVIOUS
        <5> QED BY <1>0, <1>1, <5>1, AtIs
      <4>3. BlockNo(p) = l
        <5>1. p - 1 <= p /\ p <= d
          BY <2>3, <4>1, <4>2
        <5>2. BlockNo(p - 1) <= BlockNo(p) /\ BlockNo(p) <= BlockNo(d)
          BY <4>2, <5>1, BlockNoUp
        <5>3. BlockNo(p) \in Int
          BY <4>2, BlockNoIs
        <5> QED BY <1>1, <2>3, <2>5, <5>2, <5>3
      <4>4. /\ ItemOf(l, p % BLOCK_SIZE) = p
            /\ ItemOf(l, (p - 1) % BLOCK_SIZE) = p - 1 /\ (p - 1) % BLOCK_SIZE \in Place
        BY <1>1, <4>2, <4>3, BlockNoIs
      <4>5. PICK x \in Int, y \in Int : x = (l - InitialSize) * BLOCK_SIZE /\ y = (p - 1) % BLOCK_SIZE /\ y >= 0
        <5>1. (l - InitialSize) * BLOCK_SIZE \in Int
          BY <1>1, Numbers
        <5>2. (p - 1) % BLOCK_SIZE \in Int /\ (p - 1) % BLOCK_SIZE >= 0
          BY <4>4 DEF Place
        <5> QED BY <5>1, <5>2
      <4>6. p = x + 0 /\ p - 1 = x + y
        BY <4>2, <4>4, <4>5 DEF ItemOf
      <4> QED BY <4>5, <4>6
    <3> QED BY <1>7, <3>1, <3>2, <3>3
  <2> QED BY <1>1, <2>1, <2>4, <2>5
<1>b. Block \subseteq free \cup Indexed
  <2>1. pl.block = null /\ DOMAIN pl.allocated = {}
    <3>1. pl = NoEnqueue /\ DOMAIN <<>> = {}
      BY <1>0 DEF EnqueueInv
    <3> QED BY <3>1 DEF NoEnqueue
  <2>2. {c \in Consumer : cpc[c] = "free"} = {}
    BY <1>0
  <2>3. Block \subseteq free \cup Indexed \cup {pl.block} \cup {pl.allocated[i] : i \in DOMAIN pl.allocated}
                     \cup {cl[c].block : c \in {d \in Consumer : cpc[d] = "free"}}
    BY <1>0 DEF BlockInv
  <2> QED BY <1>0, <2>1, <2>2, <2>3
<1>c. \A b \in Indexed : \E n \in Number, e \in Entries : Held(n, e) /\ entries[e].value = b
  BY <1>0, HeldBlocks DEF Indexed
<1>d. free' = Block
  <2>1. free \subseteq free'
    BY <1>7
  <2> QED BY <1>9, <1>a, <1>b, <1>c, <2>1
<1>e. slots \in [Block -> [Place -> Index \cup {Dead}]]
  BY <1>0 DEF TypeOK
<1>f. slots' = [b \in Block |-> [k \in Place |->
              IF \E i \in S : BlockOf(i) = b /\ i % BLOCK_SIZE = k THEN Dead ELSE slots[b][k]]]
  <2>1. \A b \in Block : DOMAIN slots[b] = Place
    BY <1>e
  <2> QED BY <1>3, <2>1 DEF Destroy
<1>g. ASSUME NEW b \in Block, NEW k \in Place PROVE slots'[b][k] = Dead
  <2>1. slots'[b][k] = IF \E i \in S : BlockOf(i) = b /\ i % BLOCK_SIZE = k THEN Dead ELSE slots[b][k]
    BY <1>f
  <2>2. CASE b \in free
    BY <1>0, <2>1, <2>2 DEF BlockInv, Empty
  <2>3. CASE b \in Indexed
    <3>1. PICK n \in Number, e \in Entries : Held(n, e) /\ entries[e].value = b
      BY <1>c, <2>3
    <3>2. PICK d \in Int : d = ItemOf(n, k) /\ BlockNo(d) = n /\ d % BLOCK_SIZE = k
      BY NumberFits, BlockNoIs
    <3>3. slots[b][k] = IF Unread(d) THEN At(d) ELSE Dead
      BY <1>0, <3>1, <3>2 DEF BlockInv, Filled
    <3>4. Unread(d) <=> q <= d /\ d < p + 0
      BY <1>0, <1>1, <1>2 DEF Unread
    <3>5. CASE q <= d /\ d < p + 0
      <4>1. d \in q .. p - 1
        BY <3>5
      <4>2. BlockOf(At(d)) = b
        BY <1>5, <3>1, <3>2, <4>1
      <4>3. At(d) % BLOCK_SIZE = k
        BY <1>0, <3>2, AtIs
      <4> QED BY <1>3, <2>1, <4>1, <4>2, <4>3
    <3> QED BY <2>1, <3>3, <3>4, <3>5
  <2> QED BY <1>b, <2>2, <2>3
<1>h. TypeOK'
  <2>1. Header' = Header /\ EntryType' = EntryType
    BY <1>2 DEF Header, EntryType, Entries
  <2>2. ppc' \in PCs
    BY <1>0 DEF PCs
  <2>3. slots' \in [Block -> [Place -> Index \cup {Dead}]]
    <3>1. ASSUME NEW b \in Block, NEW k \in Place
          PROVE (IF \E i \in S : BlockOf(i) = b /\ i % BLOCK_SIZE = k THEN Dead ELSE slots[b][k]) \in Index \cup {Dead}
      BY <1>e
    <3> QED BY <1>f, <3>1
  <2> QED BY <1>0, <1>2, <1>9, <2>1, <2>2, <2>3 DEF TypeOK
<1>i. \A b \in Block : Empty(b)'
  BY <1>g DEF Empty
<1> QED BY <1>0, <1>2, <1>d, <1>h, <1>i DEF IInv

-----------------------------------------------------------------------------
(* The consumers' steps.                                                    *)

\* Steps that leave the index and the enqueuing thread alone.
LEMMA IndexStays ==
  ASSUME Settings, Fit, Living, UNCHANGED <<start, tailIndex, index, ppc, pl>>
  PROVE  /\ HeadersInv' /\ RingInv' /\ PhaseInv' /\ EnqueueInv' /\ IndexKept /\ SameHeld
         /\ LastNo' = LastNo /\ Published' = Published /\ NeededNo' = NeededNo /\ Number' = Number
         /\ Entries' = Entries /\ Indexed' = Indexed /\ Header' = Header /\ EntryType' = EntryType
         /\ \A n, e : Held(n, e)' <=> Held(n, e)
         /\ \A i : Kept(i)' <=> Kept(i)
         /\ \A d : BlockNo(d)' = BlockNo(d) /\ At(d)' = At(d)
         /\ \A n, k : ItemOf(n, k)' = ItemOf(n, k)
<1>0. TypeOK /\ HeadersInv /\ RingInv /\ EnqueueInv
  BY LivingParts DEF ProducerInv
<1>1. headers' = headers /\ entries' = entries
  BY DEF index
<1>2. /\ LastNo' = LastNo /\ Published' = Published /\ NeededNo' = NeededNo /\ Number' = Number
      /\ Entries' = Entries /\ Indexed' = Indexed /\ Low' = Low /\ Extra' = Extra /\ Top' = Top
      /\ Top \in Int
  <2>1. LastNo' = LastNo /\ Published' = Published /\ Number' = Number
    BY DEF LastNo, Published, Number, BlockNo
  <2>2. NeededNo' = NeededNo /\ Low' = Low /\ Extra' = Extra
    BY <2>1 DEF NeededNo, Low, Extra, BlockNo
  <2>3. Entries' = Entries /\ Indexed' = Indexed
    BY <1>1 DEF Entries, Indexed
  <2>4. Top \in Int
    BY <1>0, Basics
  <2> QED BY <2>1, <2>2, <2>3, <2>4 DEF Top
<1>3. HeadersInv' /\ RingInv'
  <2>1. SameKeys
    BY <1>1, <1>2 DEF SameKeys
  <2>2. HeadersInv'
    BY <1>0, <1>1, <1>2, KeepTables
  <2>3. RingInv'
    <3>1. PICK v, w \in Number : Ring(v, w)
      BY <1>0 DEF RingInv
    <3>2. \A k : EntryOf(k)' = EntryOf(k) /\ capacity(L)' = capacity(L)
      BY <1>1, <1>2, KeepPlaces
    <3>3. \A k : (Has(EntryOf(k), k)' <=> Has(EntryOf(k), k)) /\ (Valid(EntryOf(k))' <=> Valid(EntryOf(k)))
      BY <1>1, <3>2 DEF Has, Valid, KeyOf
    <3>4. Ring(v, w)'
      BY <1>2, <3>1, <3>2, <3>3 DEF Ring
    <3> QED BY <1>2, <3>1, <3>4 DEF RingInv
  <2> QED BY <2>2, <2>3
<1>4. IndexKept /\ PhaseInv' /\ SameHeld
  <2>1. SameTables
    BY <1>1 DEF SameTables, L
  <2> QED BY <1>1, <2>1, IndexSame
<1>5. EnqueueInv'
  BY <1>0, <1>2 DEF EnqueueInv
<1>6. \A n, e : Held(n, e)' <=> Held(n, e)
  BY <1>1 DEF Held, Has, KeyOf
<1>7. Header' = Header /\ EntryType' = EntryType
  BY <1>2 DEF Header, EntryType
<1>8. /\ \A i : Kept(i)' <=> Kept(i)
      /\ \A d : BlockNo(d)' = BlockNo(d) /\ At(d)' = At(d)
      /\ \A n, k : ItemOf(n, k)' = ItemOf(n, k)
  BY DEF Kept, BlockNo, At, ItemOf
<1> QED BY <1>2, <1>3, <1>4, <1>5, <1>6, <1>7, <1>8

\* Consumer c goes to another place, with l.
LEMMA Others ==
  ASSUME Fit, NEW c \in Consumer, NEW to, NEW l, CGoto(c, to), CSet(c, l), start' = start
  PROVE  /\ cpc'[c] = to /\ cl'[c] = l
         /\ \A d \in Consumer \ {c} : /\ cpc'[d] = cpc[d] /\ cl'[d] = cl[d]
                                      /\ Lo(d)' = Lo(d) /\ Hi(d)' = Hi(d) /\ From(d)' = From(d)
                                      /\ d \in Holding' <=> d \in Holding
         /\ Lo(c)' = Dist(l.index) /\ Hi(c)' = Dist(l.end)
         /\ From(c)' = IF to = "empty" THEN Dist(l.index) - JustRead(l) ELSE Dist(l.index)
         /\ c \in Holding' <=> to \in Places
<1>1. cpc \in [Consumer -> CountPlaces \cup OtherPlaces] /\ cl = [d \in Consumer |-> cl[d]]
  BY DEF Fit, CountsType
<1>2. /\ cpc'[c] = to /\ cl'[c] = l
      /\ \A d \in Consumer \ {c} : cpc'[d] = cpc[d] /\ cl'[d] = cl[d]
  <2>1. cpc' = [cpc EXCEPT ![c] = to] /\ cl' = [cl EXCEPT ![c] = l]
    BY DEF CGoto, CSet
  <2> QED BY <1>1, <2>1
<1>3. \A d \in Consumer \ {c} : Lo(d)' = Lo(d) /\ Hi(d)' = Hi(d) /\ From(d)' = From(d) /\ (d \in Holding' <=> d \in Holding)
  <2> SUFFICES ASSUME NEW d \in Consumer \ {c}
               PROVE  Lo(d)' = Lo(d) /\ Hi(d)' = Hi(d) /\ From(d)' = From(d) /\ (d \in Holding' <=> d \in Holding)
    OBVIOUS
  <2>1. cpc'[d] = cpc[d] /\ cl'[d] = cl[d]
    BY <1>2
  <2>2. Lo(d)' = Lo(d) /\ Hi(d)' = Hi(d)
    BY <2>1 DEF Lo, Hi, Dist
  <2>3. JustRead(cl[d])' = JustRead(cl[d])
    BY <2>1
  <2> QED BY <2>1, <2>2, <2>3 DEF From, Holding
<1>4. Lo(c)' = Dist(l.index) /\ Hi(c)' = Dist(l.end)
  BY <1>2 DEF Lo, Hi, Dist
<1>5. From(c)' = IF to = "empty" THEN Dist(l.index) - JustRead(l) ELSE Dist(l.index)
  <2>1. From(c)' = IF cpc'[c] = "empty" THEN Lo(c)' - JustRead(cl'[c]) ELSE Lo(c)'
    BY DEF From
  <2> QED BY <1>2, <1>4, <2>1
<1>6. c \in Holding' <=> to \in Places
  BY <1>2 DEF Holding
<1> QED BY <1>2, <1>3, <1>4, <1>5, <1>6

\* Steps by which consumer c looks for its block.
LEMMA LookKept ==
  ASSUME Settings, Fit, Living, NEW c \in Consumer, NEW to, NEW l, CGoto(c, to), CSet(c, l),
         UNCHANGED <<start, counts, index, blocks, tailBlock, ppc, pl>>,
         cpc[c] \in {"header", "tail", "key", "entry"}, to \in {"tail", "key", "entry", "read"},
         l.index = cl[c].index, l.end = cl[c].end, ConsumerInv(c)'
  PROVE  Living'
<1>0. /\ TypeOK /\ HeadersInv /\ RingInv /\ HeldInv /\ BlockInv /\ HandInv /\ AllocatedInv /\ TailInv /\ SharesInv
      /\ (\A d \in Holding : ConsumerInv(d)) /\ ppc # "destroyed" /\ null \notin Block
  BY LivingParts, Numbers DEF ProducerInv, Living
<1>1. UNCHANGED <<start, tailIndex, headIndex, headers, entries, slots, elementsCompletelyDequeued, free, tailBlock, ppc, pl>>
  BY DEF counts, index, blocks
<1>2. /\ HeadersInv' /\ RingInv' /\ PhaseInv' /\ EnqueueInv' /\ IndexKept /\ SameHeld
      /\ LastNo' = LastNo /\ Published' = Published /\ NeededNo' = NeededNo /\ Number' = Number
      /\ Entries' = Entries /\ Indexed' = Indexed /\ Header' = Header /\ EntryType' = EntryType
      /\ \A n, e : Held(n, e)' <=> Held(n, e)
      /\ \A i : Kept(i)' <=> Kept(i)
      /\ \A d : BlockNo(d)' = BlockNo(d) /\ At(d)' = At(d)
      /\ \A n, k : ItemOf(n, k)' = ItemOf(n, k)
  BY <1>1, IndexStays
<1>3. /\ cpc'[c] = to /\ cl'[c] = l
      /\ \A d \in Consumer \ {c} : /\ cpc'[d] = cpc[d] /\ cl'[d] = cl[d]
                                   /\ Lo(d)' = Lo(d) /\ Hi(d)' = Hi(d) /\ From(d)' = From(d)
                                   /\ d \in Holding' <=> d \in Holding
      /\ Lo(c)' = Dist(l.index) /\ Hi(c)' = Dist(l.end)
      /\ From(c)' = (IF to = "empty" THEN Dist(l.index) - JustRead(l) ELSE Dist(l.index))
      /\ c \in Holding' <=> to \in Places
  BY <1>1, Others
<1>4. c \in Holding /\ c \in Holding' /\ cpc[c] \notin {"drop", "free", "empty"} /\ cpc'[c] \notin {"drop", "free", "empty"}
  BY <1>3 DEF Holding, Places
<1>5. \A d \in Consumer : Lo(d)' = Lo(d) /\ Hi(d)' = Hi(d) /\ From(d)' = From(d)
  <2>1. Lo(c)' = Lo(c) /\ Hi(c)' = Hi(c)
    BY <1>3 DEF Lo, Hi
  <2>2. From(c)' = From(c)
    BY <1>3, <1>4, <2>1 DEF From
  <2> QED BY <1>3, <2>1, <2>2
<1>6. Holding' = Holding /\ Claimed' = Claimed /\ Holding \subseteq Consumer
  <2>1. Holding' \subseteq Consumer /\ Holding \subseteq Consumer
    BY DEF Holding
  <2>2. Holding' = Holding
    BY <1>3, <1>4, <2>1
  <2> QED BY <1>1, <2>1, <2>2 DEF Claimed
<1>7. /\ \A d : NotCounted(d)' <=> NotCounted(d)
      /\ \A d : Unread(d)' <=> Unread(d)
      /\ \A n : Dropping(n)' <=> Dropping(n)
  <2>1. \A d : NotCounted(d)' <=> NotCounted(d)
    BY <1>5, <1>6 DEF NotCounted
  <2>2. \A d : Unread(d)' <=> Unread(d)
    BY <1>1, <1>2, <1>5, <1>6 DEF Unread
  <2>3. \A d \in Holding : cpc'[d] = "drop" <=> cpc[d] = "drop"
    BY <1>3, <1>4, <1>6
  <2>4. \A n : Dropping(n)' <=> Dropping(n)
    BY <1>2, <1>5, <1>6, <2>3 DEF Dropping
  <2> QED BY <2>1, <2>2, <2>4
<1>8. /\ \A n : Left_(n)' = Left_(n)
      /\ \A n : Pend(n)' <=> Pend(n)
  <2>1. \A n : Left_(n)' = Left_(n)
    BY <1>2, <1>7 DEF Left_
  <2> QED BY <1>7, <2>1 DEF Pend
<1>9. TypeOK'
  BY <1>0, <1>1, <1>2 DEF TypeOK
<1>a. HeldInv'
  <2>1. \A n \in Number : Want(n)' <=> Want(n)
    BY <1>1, <1>2, <1>8 DEF Want
  <2> QED BY <1>0, <1>1, <1>2, <2>1, KeepHeld
<1>b. BlockInv'
  <2>1. {cl[d].block : d \in {e \in Consumer : cpc[e] = "free"}}
            \subseteq {cl'[d].block : d \in {e \in Consumer : cpc'[e] = "free"}}
    BY <1>3, <1>4
  <2>2. \A n \in Number, k \in Place : Unread(ItemOf(n, k))' <=> Unread(ItemOf(n, k))
    <3> SUFFICES ASSUME NEW n \in Number, NEW k \in Place PROVE Unread(ItemOf(n, k))' <=> Unread(ItemOf(n, k))
      OBVIOUS
    <3>1. PICK d : d = ItemOf(n, k)
      OBVIOUS
    <3>2. Unread(d)' <=> Unread(ItemOf(n, k))'
      BY <1>2, <3>1 DEF Unread
    <3> QED BY <1>7, <3>1, <3>2
  <2> QED BY <1>0, <1>1, <1>2, <1>8, <2>1, <2>2, KeepBlocks
<1>c. HandInv' /\ AllocatedInv' /\ TailInv'
  <2>1. \A b : Empty(b)' <=> Empty(b)
    BY <1>1 DEF Empty
  <2>2. HandInv' /\ AllocatedInv'
    BY <1>0, <1>1, <1>2, <2>1 DEF HandInv, AllocatedInv
  <2>3. \A e : (Held(LastNo, e)' <=> Held(LastNo, e)) /\ (Held(LastNo + NeededNo, e)' <=> Held(LastNo + NeededNo, e))
    BY <1>1, <1>2 DEF Held, Has, KeyOf
  <2>4. Pend(LastNo)' <=> Pend(LastNo)
    <3>1. PICK n : n = LastNo
      OBVIOUS
    <3>2. Pend(LastNo)' <=> Pend(n)'
      BY <1>2, <3>1 DEF Pend, Left_, Dropping
    <3> QED BY <1>8, <3>1, <3>2
  <2>5. TailInv'
    BY <1>0, <1>1, <1>2, <2>3, <2>4 DEF TailInv
  <2> QED BY <2>2, <2>5
<1>d. SharesInv'
  <2>1. \A d \in Holding : /\ cpc'[d] = "drop" <=> cpc[d] = "drop"
                           /\ cpc'[d] = "free" <=> cpc[d] = "free"
                           /\ cpc[d] = "free" => cl'[d].block = cl[d].block
    BY <1>3, <1>4, <1>6
  <2> QED BY <1>0, <1>2, <1>5, <1>6, <2>1 DEF SharesInv
<1>e. \A d \in Holding' : ConsumerInv(d)'
  <2> SUFFICES ASSUME NEW d \in Holding, d # c PROVE ConsumerInv(d)'
    BY <1>6
  <2>1. cpc'[d] = cpc[d] /\ cl'[d] = cl[d] /\ ConsumerInv(d) /\ \A n : Left_(n) = {} => Left_(n)' = {}
    BY <1>0, <1>3, <1>6, <1>8
  <2>2. Claimed <= Claimed' /\ Claimed' \in Int
    BY <1>0, <1>6, Basics
  <2>3. cpc[d] = "free" => LET b == cl[d].block
                           IN  /\ b \in Block \ (free' \cup Indexed' \cup {pl'.block}) /\ Empty(b)'
                               /\ \A i \in DOMAIN pl'.allocated : pl'.allocated[i] # b
    <3> SUFFICES ASSUME cpc[d] = "free"
                 PROVE  /\ cl[d].block \in Block \ (free' \cup Indexed' \cup {pl'.block}) /\ Empty(cl[d].block)'
                        /\ \A i \in DOMAIN pl'.allocated : pl'.allocated[i] # cl[d].block
      OBVIOUS
    <3>1. /\ cl[d].block \in Block \ (free \cup Indexed \cup {pl.block}) /\ Empty(cl[d].block)
          /\ \A i \in DOMAIN pl.allocated : pl.allocated[i] # cl[d].block
      BY <2>1 DEF ConsumerInv
    <3>2. Empty(cl[d].block)'
      BY <1>1, <2>1, <3>1 DEF Empty
    <3> QED BY <1>1, <1>2, <3>1, <3>2
  <2> QED BY <1>0, <1>1, <1>2, <2>1, <2>2, <2>3, KeepConsumer
<1>f. ppc' # "destroyed"
  BY <1>0, <1>1
<1> QED BY <1>2, <1>9, <1>a, <1>b, <1>c, <1>d, <1>e, <1>f DEF Living, IInv, ProducerInv

LEMMA LookInv ==
  ASSUME Settings, Fit, Living, NEW c \in Consumer, NEW to, NEW l, CGoto(c, to), CSet(c, l),
         UNCHANGED <<start, counts, index, blocks, tailBlock, ppc, pl>>,
         cpc[c] \in {"header", "tail", "key", "entry"}, to \in {"tail", "key", "entry", "read"},
         l \in Reading, l.index = cl[c].index, l.end = cl[c].end, l.items = cl[c].items,
         l.header \in DOMAIN headers, \A d \in From(c) .. Hi(c) - 1 : Positioned(l.header, BlockNo(d)),
         to = "key" => l.pos \in Caps(l.header) /\ Valid(headers[l.header].index[l.pos]),
         to \in {"entry", "read"} => InPhase(l.header, l.pos, BlockNo(Lo(c))),
         to = "read" => /\ Held(BlockNo(Lo(c)), Entry(l.header, l.pos))
                        /\ l.block = entries[Entry(l.header, l.pos)].value
  PROVE  ConsumerInv(c)'
<1>0. TypeOK /\ c \in Holding /\ ConsumerInv(c)
  BY LivingParts DEF Holding, Places
<1>1. UNCHANGED <<start, tailIndex, headIndex, headers, entries, slots, elementsCompletelyDequeued, free, tailBlock, ppc, pl>>
  BY DEF counts, index, blocks
<1>3. /\ cpc'[c] = to /\ cl'[c] = l
      /\ Lo(c)' = Dist(l.index) /\ Hi(c)' = Dist(l.end)
      /\ From(c)' = (IF to = "empty" THEN Dist(l.index) - JustRead(l) ELSE Dist(l.index))
  BY <1>1, Others
<1>4. Lo(c)' = Lo(c) /\ Hi(c)' = Hi(c) /\ From(c)' = From(c) /\ From(c) = Lo(c)
  BY <1>3 DEF Lo, Hi, From
<1>5. /\ 0 <= From(c) /\ From(c) <= Lo(c) /\ Lo(c) <= Hi(c) /\ Hi(c) <= Claimed /\ Lo(c) < Hi(c)
      /\ (l.items # <<>> /\ Lo(c) < Hi(c) => Lo(c) % BLOCK_SIZE = 0)
  BY <1>0 DEF ConsumerInv
<1>6. Claimed' = Claimed /\ Reading' = Reading
  BY <1>1 DEF Claimed, Reading
<1>7. /\ \A d : BlockNo(d)' = BlockNo(d)
      /\ \A n, e : Held(n, e)' <=> Held(n, e)
      /\ \A e : Valid(e)' <=> Valid(e)
      /\ \A h : Caps(h)' = Caps(h)
      /\ \A h, pos : Entry(h, pos)' = Entry(h, pos)
  BY <1>1 DEF BlockNo, Held, Has, KeyOf, Valid, Caps, capacity, Entry
<1>8. \A h, n : Positioned(h, n)' <=> Positioned(h, n)
  BY <1>1, <1>7 DEF Positioned
<1>9. \A h, pos, n : InPhase(h, pos, n)' <=> InPhase(h, pos, n)
  BY <1>1, <1>7 DEF InPhase, Has, KeyOf, Number, BlockNo, capacity
<1>b. PICK h, pos, n : h = l.header /\ pos = l.pos /\ n = BlockNo(Lo(c))
  OBVIOUS
<1>c. BlockNo(Lo(c))' = n
  BY <1>1, <1>4, <1>b DEF BlockNo
<1>d. \A d \in From(c) .. Hi(c) - 1 : Positioned(h, BlockNo(d))'
  <2> SUFFICES ASSUME NEW d \in From(c) .. Hi(c) - 1 PROVE Positioned(h, BlockNo(d))'
    OBVIOUS
  <2>1. PICK m : m = BlockNo(d)
    OBVIOUS
  <2>2. Positioned(h, m)'
    BY <1>8, <1>b, <2>1
  <2>3. Positioned(h, BlockNo(d))' <=> Positioned(h, m)'
    BY <1>7, <2>1 DEF Positioned, Held, Has, KeyOf
  <2> QED BY <2>2, <2>3
<1>e. to \in {"entry", "read"} => InPhase(h, pos, n)'
  BY <1>9, <1>b
<1>f. to = "read" => Held(n, Entry(h, pos))' /\ l.block = entries'[Entry(h, pos)'].value
  <2> SUFFICES ASSUME to = "read" PROVE Held(n, Entry(h, pos))' /\ l.block = entries'[Entry(h, pos)'].value
    OBVIOUS
  <2>1. PICK e : e = Entry(h, pos)
    OBVIOUS
  <2>2. Held(n, e) /\ l.block = entries[e].value
    BY <1>b, <2>1
  <2>3. Entry(h, pos)' = e
    BY <1>7, <2>1
  <2>4. Held(n, Entry(h, pos))' <=> Held(n, e)'
    BY <2>3 DEF Held, Has
  <2> QED BY <1>1, <1>7, <2>2, <2>3, <2>4
<1>g. to = "key" => pos \in Caps(h)' /\ Valid(headers[h].index[pos])'
  <2> SUFFICES ASSUME to = "key" PROVE pos \in Caps(h)' /\ Valid(headers[h].index[pos])'
    OBVIOUS
  <2>1. pos \in Caps(h) /\ Valid(headers[h].index[pos])
    BY <1>b
  <2> QED BY <1>1, <1>7, <2>1 DEF Valid
<1> QED BY <1>1, <1>3, <1>4, <1>5, <1>6, <1>b, <1>c, <1>d, <1>e, <1>f, <1>g DEF ConsumerInv

\* Every block that a reader needs has its place in the newest table.
LEMMA Reachable ==
  ASSUME Settings, Fit, Living, NEW c \in Holding, NEW d \in From(c) .. Hi(c) - 1
  PROVE  Positioned(L, BlockNo(d))
<1>0. TypeOK /\ HeadersInv /\ HeldInv /\ ConsumerInv(c)
  BY LivingParts
<1>1. BlockNo(d) \in Number /\ BlockNo(d) <= LastNo /\ Pend(BlockNo(d)) /\ BlockNo(d) >= InitialSize
  BY <1>0, ReadersItems
<1>2. PICK n \in Number : n = BlockNo(d)
  BY <1>1
<1>3. Want(n)
  <2>1. n \in Int /\ LastNo \in Int
    BY <1>0, Basics, NumberFits
  <2> QED BY <1>1, <1>2, <2>1 DEF Want
<1>4. PICK e \in Entries : Held(n, e)
  BY <1>0, <1>3 DEF HeldInv
<1>5. PICK p \in Caps(L) : headers[L].index[p] = e
  BY <1>0 DEF HeadersInv
<1> QED BY <1>2, <1>4, <1>5 DEF Positioned

LEMMA LoadHeaderKept ==
  ASSUME Settings, Fit, Living, NEW c \in Consumer, LoadHeader(c)
  PROVE  Living'
<1>0. TypeOK /\ c \in Holding /\ ConsumerInv(c) /\ cl[c] \in Reading /\ cpc[c] = "header"
  <2>1. cpc[c] = "header" /\ c \in Holding
    BY DEF LoadHeader, CAt, Holding, Places
  <2> QED BY <2>1, LivingParts DEF ConsumerInv
<1>1. PICK l : l = [cl[c] EXCEPT !.header = L]
  OBVIOUS
<1>2. CSet(c, l) /\ CGoto(c, "tail") /\ UNCHANGED <<start, counts, index, blocks, tailBlock, ppc, pl>>
  BY <1>1 DEF LoadHeader, L
<1>3. l \in Reading /\ l.index = cl[c].index /\ l.end = cl[c].end /\ l.items = cl[c].items /\ l.header = L
  <2>1. L \in Nat
    BY <1>0, HeaderIs
  <2> QED BY <1>0, <1>1, <2>1 DEF Reading
<1>4. L \in DOMAIN headers
  BY <1>0, HeaderIs
<1>5. \A d \in From(c) .. Hi(c) - 1 : Positioned(L, BlockNo(d))
  BY <1>0, Reachable
<1>6. ConsumerInv(c)'
  BY <1>0, <1>2, <1>3, <1>4, <1>5, LookInv
<1> QED BY <1>0, <1>2, <1>3, <1>6, LookKept

\* The entry at a table's tail has a key, once the table is a reader's.
LEMMA TailValid ==
  ASSUME Settings, Fit, Living, NEW c \in Holding, cpc[c] = "tail", NEW h, h = cl[c].header
  PROVE  h \in DOMAIN headers /\ headers[h].tail \in Caps(h) /\ Valid(headers[h].index[headers[h].tail])
<1>0. TypeOK /\ HeadersInv /\ RingInv /\ PhaseInv /\ HeldInv /\ EnqueueInv /\ ConsumerInv(c)
  BY LivingParts DEF ProducerInv
<1>1. h \in DOMAIN headers /\ Lo(c) < Hi(c) /\ From(c) = Lo(c)
  BY <1>0 DEF ConsumerInv, From
<1>2. headers[h].tail \in Caps(h) /\ L \in Nat /\ DOMAIN headers = 1 .. L
  BY <1>0, <1>1, HeaderIs DEF HeadersInv
<1>3. CASE h < L
  BY <1>0, <1>1, <1>2, <1>3 DEF PhaseInv
<1>4. CASE h = L
  <2>1. /\ Lo(c) \in Int /\ Hi(c) \in Int
        /\ BlockNo(Lo(c)) \in Number /\ BlockNo(Lo(c)) <= LastNo
        /\ Positioned(L, BlockNo(Lo(c)))
    <3>1. Lo(c) \in Int /\ Hi(c) \in Int
      BY <1>0, ReadersItems
    <3>2. Lo(c) \in From(c) .. Hi(c) - 1
      BY <1>1, <3>1
    <3> QED BY <1>0, <3>1, <3>2, ReadersItems, Reachable
  <2>2. PICK n \in Number : n = BlockNo(Lo(c))
    BY <2>1
  <2>3. PICK p \in Caps(L) : Held(n, headers[L].index[p])
    BY <2>1, <2>2 DEF Positioned
  <2>4. PICK e \in Entries : Has(e, n)
    <3>1. headers[L].index[p] \in Entries
      BY <1>0, <1>1, <1>4, <2>3, HeaderIs
    <3> QED BY <2>3, <3>1 DEF Held
  <2>5. PICK v \in Number, w \in Number : Ring(v, w)
    BY <1>0 DEF RingInv
  <2>6. n \in w - capacity(L) + 1 .. w /\ v <= n
    BY <1>0, <2>4, <2>5, Placed
  <2>7. PICK C, t \in Int : C = Top /\ t = headers[L].tail
    <3>1. Top \in Int
      BY <1>0, Basics
    <3>2. headers[L].tail \in Int
      BY <1>0, <1>1, <1>4, HeaderIs
    <3> QED BY <3>1, <3>2
  <2>8. C \in Int /\ C <= w /\ n <= C
    <3>1. /\ LastNo \in Int /\ Len(pl.allocated) \in Nat /\ pl.undone \in Nat /\ Low \in Int
          /\ Top = Low + Extra /\ Extra \in {0, 1} /\ Low = LastNo + Len(pl.allocated) - pl.undone
      BY <1>0, Basics
    <3>2. pl.undone <= Len(pl.allocated)
      BY <1>0 DEF EnqueueInv
    <3>3. Low <= w /\ (Extra = 1 => Low < w)
      BY <2>5 DEF Ring, Extra
    <3>4. w \in Int /\ n \in Int
      BY NumberFits
    <3> QED BY <2>1, <2>2, <2>7, <3>1, <3>2, <3>3, <3>4, SMTT(30)
  <2>9. C \in Number /\ C \in w - capacity(L) + 1 .. w /\ v <= C
    <3>1. capacity(L) \in Nat
      BY <1>0, <1>1, <1>4, HeaderIs
    <3>2. w \in Nat /\ n \in Nat /\ v \in Nat /\ Number = 0 .. BlockNo(MaxItems) /\ BlockNo(MaxItems) \in Nat
      BY NumberFits DEF Number
    <3>3. w <= BlockNo(MaxItems)
      BY <3>2
    <3> QED BY <2>6, <2>8, <3>1, <3>2, <3>3
  <2>a. Has(EntryOf(C), C)
    BY <2>5, <2>9 DEF Ring
  <2>b. EntryOf(C) = headers[L].index[headers[L].tail] /\ EntryOf(C) \in Entries
    <3>1. t + (C - C) = t
      BY <2>7, <2>8
    <3>2. EntryOf(C) = Entry(L, t)
      BY <2>7, <3>1 DEF EntryOf
    <3>3. L \in DOMAIN headers /\ t \in Caps(L)
      BY <1>1, <1>2, <1>4, <2>7
    <3>4. Entry(L, t) = headers[L].index[t]
      BY <1>0, <2>7, <3>3, EntriesApart
    <3>5. Entry(L, t) \in Entries
      BY <1>0, <2>7, <3>3, HeaderIs
    <3> QED BY <2>7, <3>2, <3>4, <3>5
  <2>c. Valid(EntryOf(C))
    BY <1>0, <2>9, <2>a, <2>b, OneKey
  <2> QED BY <1>1, <1>2, <1>4, <2>b, <2>c
<1> QED BY <1>1, <1>2, <1>3, <1>4

LEMMA LoadIndexTailKept ==
  ASSUME Settings, Fit, Living, NEW c \in Consumer, LoadIndexTail(c)
  PROVE  Living'
<1>0. TypeOK /\ c \in Holding /\ ConsumerInv(c) /\ cl[c] \in Reading /\ cpc[c] = "tail"
  <2>1. cpc[c] = "tail" /\ c \in Holding
    BY DEF LoadIndexTail, CAt, Holding, Places
  <2> QED BY <2>1, LivingParts DEF ConsumerInv
<1>1. PICK h, t : h = cl[c].header /\ t = headers[h].tail
  OBVIOUS
<1>2. PICK l : l = [cl[c] EXCEPT !.pos = t]
  OBVIOUS
<1>3. CSet(c, l) /\ CGoto(c, "key") /\ UNCHANGED <<start, counts, index, blocks, tailBlock, ppc, pl>>
  BY <1>1, <1>2 DEF LoadIndexTail
<1>4. h \in DOMAIN headers /\ t \in Caps(h) /\ Valid(headers[h].index[t])
  BY <1>0, <1>1, TailValid
<1>5. /\ l \in Reading /\ l.index = cl[c].index /\ l.end = cl[c].end /\ l.items = cl[c].items
      /\ l.header = h /\ l.pos = t
  <2>1. t \in Nat
    BY <1>0, <1>1, <1>4, HeaderIs
  <2> QED BY <1>0, <1>1, <1>2, <2>1 DEF Reading
<1>6. \A d \in From(c) .. Hi(c) - 1 : Positioned(h, BlockNo(d))
  BY <1>0, <1>1 DEF ConsumerInv
<1>7. ConsumerInv(c)'
  BY <1>0, <1>3, <1>4, <1>5, <1>6, LookInv
<1> QED BY <1>0, <1>3, <1>5, <1>7, LookKept

\* The search starts from the key it has loaded, also in an outdated table.
LEMMA FoundPhase ==
  ASSUME Settings, Fit, Living, NEW c \in Holding, cpc[c] = "key", NEW h, h = cl[c].header,
         NEW p, p = cl[c].pos, NEW q, q = Find(h, p, entries[Entry(h, p)].key, Base(cl[c].index))
  PROVE  q \in Nat /\ InPhase(h, q, BlockNo(Lo(c)))
<1>0. TypeOK /\ HeadersInv /\ RingInv /\ PhaseInv /\ HeldInv /\ ConsumerInv(c) /\ start \in Starts
  BY LivingParts DEF TypeOK
<1>1. h \in DOMAIN headers /\ Lo(c) < Hi(c) /\ From(c) = Lo(c) /\ p \in Caps(h) /\ Valid(headers[h].index[p])
      /\ cl[c] \in Reading
  BY <1>0 DEF ConsumerInv, From
<1>2. PICK C \in Nat \ {0} : C = capacity(h)
  BY <1>0, <1>1, HeaderIs
<1>3. PICK e \in Entries : e = headers[h].index[p] /\ e = Entry(h, p)
  <2>1. p \in Int
    BY <1>1, <1>2 DEF Caps
  <2> QED BY <1>0, <1>1, <2>1, EntriesApart, HeaderIs
<1>4. PICK m \in Number : Has(e, m)
  BY <1>0, <1>1, <1>3, OneKey
<1>5. InPhase(h, p, m)
  BY <1>0, <1>1, <1>3, <1>4, Phases
<1>6. PICK n \in Number : n = BlockNo(Lo(c)) /\ Base(cl[c].index) = KeyOf(n)
  <2>1. Lo(c) \in Int /\ Hi(c) \in Int
    BY <1>0, ReadersItems
  <2>2. BlockNo(Lo(c)) \in Number
    <3>1. Lo(c) \in From(c) .. Hi(c) - 1
      BY <1>1, <2>1
    <3> QED BY <1>0, <3>1, ReadersItems
  <2>3. cl[c].index = At(Lo(c))
    BY <1>0, <1>1, DistIs DEF Lo, Reading
  <2>4. Base(At(Lo(c))) = KeyOf(BlockNo(Lo(c)))
    BY <1>0, <2>1, KeyIs
  <2> QED BY <2>2, <2>3, <2>4
<1>7. m \in Int /\ n \in Int /\ p \in Int /\ C \in Nat \ {0}
  BY <1>1, <1>2, NumberFits DEF Caps
<1>8. q = (p + (n - m)) % C
  <2>1. BlockOffset(KeyOf(n), KeyOf(m)) = n - m
    BY <1>0, OffsetIs
  <2> QED BY <1>2, <1>3, <1>4, <1>6, <2>1 DEF Find, Has
<1>9. PICK x \in Int : x = p + (n - m)
  BY <1>7
<1>a. q \in Nat /\ (q - x) % C = 0
  <2>1. q = x % C
    BY <1>8, <1>9
  <2> QED BY <1>2, <2>1, DivOf, MultRem
<1>b. InPhase(h, q, n)
  <2> SUFFICES ASSUME NEW r \in Caps(h), NEW k \in Number, Has(headers[h].index[r], k)
               PROVE  (r - q - k + n) % capacity(h) = 0
    BY DEF InPhase
  <2>1. r \in Int /\ k \in Int
    BY <1>2, NumberFits DEF Caps
  <2>2. (r - p - k + m) % C = 0
    BY <1>2, <1>5 DEF InPhase
  <2>3. PICK y \in Int, z \in Int, w \in Int : y = r - p - k + m /\ z = q - x /\ w = r - q - k + n
    <3>1. q \in Int /\ r - p - k + m \in Int /\ q - x \in Int /\ r - q - k + n \in Int
      BY <1>7, <1>a, <2>1
    <3> QED BY <3>1
  <2>4. w = y - z
    <3>1. q \in Int
      BY <1>a
    <3> QED BY <1>7, <1>9, <2>1, <2>3, <3>1
  <2>5. y % C = 0 /\ z % C = 0
    BY <1>a, <2>2, <2>3
  <2>6. (y - z) % C = 0
    BY <1>7, <2>3, <2>5, MultSum
  <2> QED BY <1>2, <2>3, <2>4, <2>6
<1> QED BY <1>6, <1>a, <1>b

LEMMA LoadKeyKept ==
  ASSUME Settings, Fit, Living, NEW c \in Consumer, LoadKey(c)
  PROVE  Living'
<1>0. TypeOK /\ c \in Holding /\ ConsumerInv(c) /\ cl[c] \in Reading /\ cpc[c] = "key"
  <2>1. cpc[c] = "key" /\ c \in Holding
    BY DEF LoadKey, CAt, Holding, Places
  <2> QED BY <2>1, LivingParts DEF ConsumerInv
<1>1. PICK h, p : h = cl[c].header /\ p = cl[c].pos
  OBVIOUS
<1>2. PICK q : q = Find(h, p, entries[Entry(h, p)].key, Base(cl[c].index))
  OBVIOUS
<1>3. PICK l : l = [cl[c] EXCEPT !.pos = q]
  OBVIOUS
<1>4. CSet(c, l) /\ CGoto(c, "entry") /\ UNCHANGED <<start, counts, index, blocks, tailBlock, ppc, pl>>
  BY <1>1, <1>2, <1>3 DEF LoadKey
<1>5. q \in Nat /\ InPhase(h, q, BlockNo(Lo(c)))
  BY <1>0, <1>1, <1>2, FoundPhase
<1>6. /\ l \in Reading /\ l.index = cl[c].index /\ l.end = cl[c].end /\ l.items = cl[c].items
      /\ l.header = h /\ l.pos = q
  BY <1>0, <1>1, <1>3, <1>5 DEF Reading
<1>7. h \in DOMAIN headers /\ \A d \in From(c) .. Hi(c) - 1 : Positioned(h, BlockNo(d))
  BY <1>0, <1>1 DEF ConsumerInv
<1>8. ConsumerInv(c)'
  BY <1>0, <1>4, <1>5, <1>6, <1>7, LookInv
<1> QED BY <1>0, <1>4, <1>6, <1>8, LookKept

\* EntryFound, for one consumer.
LEMMA FoundAt ==
  ASSUME Settings, Fit, Living, NEW c \in Holding, cpc[c] = "entry", NEW h, h = cl[c].header,
         NEW p, p = cl[c].pos
  PROVE  /\ Entry(h, p) \in Entries /\ Held(BlockNo(Lo(c)), Entry(h, p))
         /\ entries[Entry(h, p)].value \in Block \ free
         /\ KeyOf(BlockNo(Lo(c))) = Base(cl[c].index)
<1>0. TypeOK /\ HeadersInv /\ HeldInv /\ BlockInv /\ ConsumerInv(c) /\ start \in Starts
  BY LivingParts DEF TypeOK
<1>1. h \in DOMAIN headers /\ Lo(c) < Hi(c) /\ From(c) = Lo(c) /\ cl[c] \in Reading
      /\ InPhase(h, p, BlockNo(Lo(c)))
  BY <1>0 DEF ConsumerInv, From
<1>2. PICK C \in Nat \ {0} : C = capacity(h)
  BY <1>0, <1>1, HeaderIs
<1>3. /\ Lo(c) \in Int
      /\ BlockNo(Lo(c)) \in Number /\ Positioned(h, BlockNo(Lo(c)))
  <2>1. Lo(c) \in Int /\ Hi(c) \in Int
    BY <1>0, ReadersItems
  <2>2. Lo(c) \in From(c) .. Hi(c) - 1
    BY <1>1, <2>1
  <2> QED BY <1>0, <2>1, <2>2, ReadersItems DEF ConsumerInv
<1>4. PICK n \in Number : n = BlockNo(Lo(c))
  BY <1>3
<1>5. PICK r \in Caps(h) : Held(n, headers[h].index[r])
  BY <1>3, <1>4 DEF Positioned
<1>6. r \in Int /\ n \in Int /\ p \in Int
  BY <1>1, <1>2, NumberFits DEF Caps, Reading
<1>7. (r - p) % C = 0
  <2>1. (r - p - n + n) % C = 0
    BY <1>1, <1>2, <1>4, <1>5 DEF InPhase, Held
  <2>2. r - p - n + n = r - p
    BY <1>6
  <2> QED BY <2>1, <2>2
<1>8. Entry(h, p) = headers[h].index[r] /\ Entry(h, p) \in Entries
  <2>1. Entry(h, r) = Entry(h, p) /\ Entry(h, r) = headers[h].index[r]
    <3>1. r \in Caps(h) /\ h \in DOMAIN headers /\ TypeOK /\ HeadersInv /\ r \in Int /\ p \in Int
      BY <1>0, <1>1, <1>5, <1>6
    <3>2. (r - p) % capacity(h) = 0
      BY <1>2, <1>7
    <3>3. Entry(h, r) = Entry(h, p)
      <4>1. \A x \in Int, y \in Int : Entry(h, x) = Entry(h, y) <=> (x - y) % capacity(h) = 0
        <5> TypeOK /\ HeadersInv /\ h \in DOMAIN headers
          BY <3>1
        <5> QED BY EntriesApart
      <4> QED BY <3>1, <3>2, <4>1
    <3>4. Entry(h, r) = headers[h].index[r]
      BY <3>1, EntriesApart
    <3> QED BY <3>3, <3>4
  <2> QED BY <1>0, <1>1, <1>6, <2>1, HeaderIs
<1>9. entries[Entry(h, p)].value \in Block \ free
  BY <1>0, <1>5, <1>8, HeldBlocks DEF Held
<1>a. KeyOf(BlockNo(Lo(c))) = Base(cl[c].index)
  <2>1. cl[c].index = At(Lo(c))
    BY <1>0, <1>1, DistIs DEF Lo, Reading
  <2> QED BY <1>0, <1>3, <2>1, KeyIs
<1> QED BY <1>4, <1>5, <1>8, <1>9, <1>a

LEMMA LoadBlockKept ==
  ASSUME Settings, Fit, Living, NEW c \in Consumer, LoadBlock(c)
  PROVE  Living'
<1>0. TypeOK /\ c \in Holding /\ ConsumerInv(c) /\ cl[c] \in Reading /\ cpc[c] = "entry"
  <2>1. cpc[c] = "entry" /\ c \in Holding
    BY DEF LoadBlock, CAt, Holding, Places
  <2> QED BY <2>1, LivingParts DEF ConsumerInv
<1>1. PICK h, p : h = cl[c].header /\ p = cl[c].pos
  OBVIOUS
<1>2. PICK b : b = entries[Entry(h, p)].value
  OBVIOUS
<1>3. PICK l : l = [cl[c] EXCEPT !.block = b]
  OBVIOUS
<1>4. CSet(c, l) /\ CGoto(c, "read") /\ UNCHANGED <<start, counts, index, blocks, tailBlock, ppc, pl>>
  BY <1>1, <1>2, <1>3 DEF LoadBlock
<1>5. Held(BlockNo(Lo(c)), Entry(h, p)) /\ b \in Block /\ InPhase(h, p, BlockNo(Lo(c)))
  BY <1>0, <1>1, <1>2, FoundAt DEF ConsumerInv
<1>6. /\ l \in Reading /\ l.index = cl[c].index /\ l.end = cl[c].end /\ l.items = cl[c].items
      /\ l.header = h /\ l.pos = p /\ l.block = b
  BY <1>0, <1>1, <1>3, <1>5 DEF Reading
<1>7. h \in DOMAIN headers /\ \A d \in From(c) .. Hi(c) - 1 : Positioned(h, BlockNo(d))
  BY <1>0, <1>1 DEF ConsumerInv
<1>8. ConsumerInv(c)'
  BY <1>0, <1>2, <1>4, <1>5, <1>6, <1>7, LookInv
<1> QED BY <1>0, <1>4, <1>6, <1>8, LookKept

\* Where the part of a call ends that its next block holds.
LEMMA EndIs ==
  ASSUME Settings, Fit, TypeOK, HeldInv, NEW c \in Holding, ConsumerInv(c), Lo(c) < Hi(c)
  PROVE  \E x \in Int : /\ EndIndex(cl[c].index, cl[c].end) = At(x)
                        /\ Lo(c) < x /\ x <= Hi(c) /\ BlockNo(x - 1) = BlockNo(Lo(c))
                        /\ x < Hi(c) => x % BLOCK_SIZE = 0
<1>0. /\ start \in Starts /\ cl[c] \in Reading /\ Hi(c) <= Claimed /\ Claimed <= MaxItems
      /\ Claimed \in Int
  <2>1. /\ start \in Starts /\ Claimed \in Nat /\ Claimed <= Published /\ Published <= MaxItems
        /\ Published \in Nat /\ MaxItems \in Nat
    BY Basics, Numbers
  <2> QED BY <2>1 DEF ConsumerInv
<1>1. PICK a \in Nat, z \in Nat : a = Lo(c) /\ z = Hi(c) /\ a < z /\ z <= MaxItems
  <2>1. Lo(c) \in Nat /\ Hi(c) \in Nat /\ Hi(c) <= MaxItems
    BY <1>0, ReadersItems, Numbers
  <2> QED BY <2>1
<1>2. cl[c].index = At(a) /\ cl[c].end = At(z)
  BY <1>0, <1>1, DistIs DEF Lo, Hi, Reading
<1>3. PICK B \in Nat \ {0} : B = BLOCK_SIZE
  BY Numbers
<1>4. PICK q \in Int, r \in 0 .. B - 1 : a = B * q + r /\ q = a \div B /\ r = a % B
  BY DivParts
<1>5. PICK s \in Int, y \in Int : s = B * q /\ y = s + B
  BY <1>3
<1>6. a = s + r /\ y - 1 = s + (B - 1) /\ a < y /\ y <= a + B /\ s <= a
  <2>1. a = s + r /\ r \in 0 .. B - 1 /\ y = s + B
    BY <1>4, <1>5
  <2> QED BY <1>1, <1>3, <1>5, <2>1
<1>7. BlockNo(a) = InitialSize + q /\ BlockNo(y - 1) = InitialSize + q /\ y % B = 0
  <2>1. (y - 1) \div B = q
    <3>1. y - 1 = B * q + (B - 1) /\ B - 1 \in 0 .. B - 1 /\ y - 1 \in Int
      BY <1>3, <1>5
    <3> QED BY <3>1, DivIs
  <2>2. y = B * (q + 1) /\ q + 1 \in Int
    BY <1>3, <1>5
  <2>3. y % B = 0
    BY <2>2, MultIs
  <2> QED BY <1>3, <1>4, <2>1, <2>3 DEF BlockNo
<1>8. Plus(Base(At(a)), BLOCK_SIZE) = At(y)
  <2>1. Base(At(a)) = KeyOf(BlockNo(a)) /\ BlockNo(a) \in Int
    BY <1>0, <1>1, KeyIs, BlockNoIs
  <2>2. KeyOf(BlockNo(a)) = At((BlockNo(a) - InitialSize) * BLOCK_SIZE)
    BY <1>0, <2>1, KeyIs
  <2>3. (BlockNo(a) - InitialSize) * BLOCK_SIZE = s
    <3>1. BlockNo(a) - InitialSize = q
      BY <1>7, Numbers
    <3> QED BY <1>3, <1>5, <3>1
  <2>4. Plus(At(s), BLOCK_SIZE) = At(s + BLOCK_SIZE)
    BY <1>0, <1>3, PlusAt
  <2> QED BY <1>3, <1>5, <2>1, <2>2, <2>3, <2>4
<1>9. Less(At(z), At(y)) <=> z < y
  <2>1. PICK W \in Nat : W = Wrap \div 2 /\ MaxItems < W /\ B < W
    <3>1. PICK m \in Nat : m = InitialSize + 2
      BY Numbers
    <3>2. m * B >= B
      BY <1>3, <3>1, Numbers
    <3>3. MaxItems + m * B < Wrap \div 2 /\ MaxItems < Wrap \div 2
      BY <1>3, <3>1, Numbers
    <3>4. MaxItems \in Nat /\ Wrap \div 2 \in Nat /\ m * B \in Int
      BY <1>3, <3>1, Numbers
    <3> QED BY <1>3, <3>2, <3>3, <3>4
  <2>2. z - y < W /\ y - z < W
    BY <1>1, <1>3, <1>5, <1>6, <2>1, Numbers
  <2> QED BY <1>0, <1>5, <2>1, <2>2, LessAt
<1>a. CASE z < y
  <2>1. EndIndex(cl[c].index, cl[c].end) = At(z)
    BY <1>2, <1>8, <1>9, <1>a DEF EndIndex
  <2>2. BlockNo(z - 1) = BlockNo(a)
    <3>1. z - 1 \in Int /\ a <= z - 1 /\ z - 1 <= y - 1 /\ y - 1 \in Int /\ a \in Int
      BY <1>1, <1>5, <1>a
    <3>2. BlockNo(a) <= BlockNo(z - 1) /\ BlockNo(z - 1) <= BlockNo(y - 1)
      BY <3>1, BlockNoUp
    <3>3. BlockNo(z - 1) \in Int /\ BlockNo(a) \in Int
      BY <3>1, BlockNoIs
    <3> QED BY <1>7, <3>2, <3>3
  <2>3. z \in Int /\ a < z /\ z <= z /\ ~ z < z
    BY <1>1
  <2> QED BY <1>1, <2>1, <2>2, <2>3
<1>b. CASE ~ z < y
  <2>1. EndIndex(cl[c].index, cl[c].end) = At(y)
    BY <1>2, <1>8, <1>9, <1>b DEF EndIndex
  <2>2. y <= z
    BY <1>1, <1>5, <1>b
  <2> QED BY <1>1, <1>3, <1>5, <1>6, <1>7, <2>1, <2>2
<1> QED BY <1>a, <1>b

\* What is read is the claimed part of one block.
LEMMA ReadIs ==
  ASSUME Settings, Fit, Living, NEW c \in Consumer, Read(c)
  PROVE  \E x \in Int, l \in Reading :
           /\ CSet(c, l) /\ CGoto(c, "empty")
           /\ Lo(c) < x /\ x <= Hi(c) /\ BlockNo(x - 1) = BlockNo(Lo(c)) /\ (x < Hi(c) => x % BLOCK_SIZE = 0)
           /\ l.index = At(x) /\ l.end = cl[c].end /\ l.header = cl[c].header /\ l.pos = cl[c].pos
           /\ l.block = cl[c].block /\ l.items # <<>> /\ JustRead(l) = x - Lo(c)
           /\ slots' = [slots EXCEPT ![cl[c].block] =
                          [k \in Place |-> IF ItemOf(BlockNo(Lo(c)), k) \in Lo(c) .. x - 1 THEN Dead
                                           ELSE slots[cl[c].block][k]]]
<1>0. /\ TypeOK /\ HeldInv /\ c \in Holding /\ ConsumerInv(c) /\ cl[c] \in Reading /\ cpc[c] = "read"
      /\ start \in Starts
  <2>1. cpc[c] = "read" /\ c \in Holding
    BY DEF Read, CAt, Holding, Places
  <2> QED BY <2>1, LivingParts DEF ConsumerInv, TypeOK
<1>1. PICK a \in Nat, z \in Nat, n \in Number : a = Lo(c) /\ z = Hi(c) /\ a < z /\ z <= MaxItems /\ n = BlockNo(a)
  <2>1. Lo(c) \in Nat /\ Hi(c) \in Nat /\ Lo(c) < Hi(c) /\ Hi(c) <= Claimed /\ From(c) = Lo(c)
    BY <1>0, ReadersItems DEF ConsumerInv, From
  <2>2. Claimed \in Nat /\ Claimed <= Published /\ Published <= MaxItems /\ Published \in Nat /\ MaxItems \in Nat
    BY <1>0, Basics, Numbers
  <2>3. Lo(c) \in From(c) .. Hi(c) - 1
    BY <2>1
  <2>4. BlockNo(Lo(c)) \in Number
    BY <1>0, <2>3, ReadersItems
  <2> QED BY <2>1, <2>2, <2>4
<1>2. cl[c].index = At(a)
  BY <1>0, <1>1, DistIs DEF Lo, Reading
<1>3. PICK x \in Int : /\ EndIndex(cl[c].index, cl[c].end) = At(x)
                       /\ a < x /\ x <= z /\ BlockNo(x - 1) = n
                       /\ x < z => x % BLOCK_SIZE = 0
  BY <1>0, <1>1, EndIs
<1>4. PICK B \in Nat \ {0} : B = BLOCK_SIZE
  BY Numbers
<1>5. Minus(At(x), At(a)) = x - a /\ x - a \in Nat \ {0}
  <2>1. MaxItems < Wrap \div 2 /\ Wrap > Wrap \div 2 /\ MaxItems \in Nat /\ Wrap \in Nat /\ Wrap \div 2 \in Nat
    BY Numbers
  <2>2. 0 <= x - a /\ x - a < Wrap /\ x - a \in Nat \ {0}
    BY <1>1, <1>3, <2>1
  <2> QED BY <1>0, <1>1, <1>3, <2>2, MinusAt
<1>6. \A j \in Int : Plus(At(a), j) = At(a + j) /\ At(a + j) % B = (a + j) % B /\ (a + j) % B \in Place
  <2> SUFFICES ASSUME NEW j \in Int
               PROVE  Plus(At(a), j) = At(a + j) /\ At(a + j) % B = (a + j) % B /\ (a + j) % B \in Place
    OBVIOUS
  <2>1. a + j \in Int /\ a \in Int
    BY <1>1
  <2> QED BY <1>0, <1>4, <2>1, PlusAt, AtIs, BlockNoIs
<1>7. \A d \in Int : a <= d /\ d < x => BlockNo(d) = n /\ ItemOf(n, d % B) = d
  <2> SUFFICES ASSUME NEW d \in Int, a <= d, d < x PROVE BlockNo(d) = n /\ ItemOf(n, d % B) = d
    OBVIOUS
  <2>1. d <= x - 1 /\ x - 1 \in Int /\ a \in Int
    BY <1>1, <1>3
  <2>2. BlockNo(a) <= BlockNo(d) /\ BlockNo(d) <= BlockNo(x - 1)
    BY <2>1, BlockNoUp
  <2>3. BlockNo(d) \in Int /\ n \in Int /\ ItemOf(BlockNo(d), d % B) = d
    BY <1>4, BlockNoIs, NumberFits
  <2> QED BY <1>1, <1>3, <2>2, <2>3
<1>8. PICK b : b = cl[c].block
  OBVIOUS
<1>9. PICK mine : mine = {i % BLOCK_SIZE : i \in {Plus(cl[c].index, k) : k \in 0 .. Minus(At(x), cl[c].index) - 1}}
  OBVIOUS
<1>j. mine = {i % B : i \in {Plus(At(a), k) : k \in 0 .. (x - a) - 1}}
  BY <1>2, <1>4, <1>5, <1>9
<1>a. \A k \in Place : k \in mine <=> ItemOf(n, k) \in a .. x - 1
  <2> SUFFICES ASSUME NEW k \in Place PROVE k \in mine <=> ItemOf(n, k) \in a .. x - 1
    OBVIOUS
  <2>1. ASSUME k \in mine PROVE ItemOf(n, k) \in a .. x - 1
    <3>0. PICK j \in 0 .. (x - a) - 1 : k = Plus(At(a), j) % B
      BY <1>j, <2>1
    <3>1. j \in Int /\ 0 <= j /\ j <= (x - a) - 1
      BY <1>1, <1>3, <3>0
    <3>2. PICK d \in Int : d = a + j
      BY <1>1, <3>1
    <3>3. a <= d /\ d < x
      BY <1>1, <1>3, <3>1, <3>2
    <3>4. k = d % B
      BY <1>6, <3>0, <3>1, <3>2
    <3>5. ItemOf(n, k) = d
      BY <1>7, <3>3, <3>4
    <3> QED BY <1>1, <1>3, <3>3, <3>5
  <2>2. ASSUME ItemOf(n, k) \in a .. x - 1 PROVE k \in mine
    <3>1. PICK d \in Int : d = ItemOf(n, k) /\ a <= d /\ d <= x - 1
      BY <1>1, <1>3, <2>2
    <3>2. d % B = k
      BY <1>4, <3>1, BlockNoIs, NumberFits
    <3>3. PICK j \in 0 .. (x - a) - 1 : a + j = d
      <4>1. d - a \in 0 .. (x - a) - 1 /\ a + (d - a) = d
        BY <1>1, <1>3, <3>1
      <4> QED BY <4>1
    <3>4. Plus(At(a), j) % B = k
      <4>1. j \in Int
        BY <1>1, <1>3, <3>3
      <4> QED BY <1>6, <3>2, <3>3, <4>1
    <3> QED BY <1>j, <3>3, <3>4
  <2> QED BY <2>1, <2>2
<1>b. b \in Block
  <2>1. /\ b = entries[Entry(cl[c].header, cl[c].pos)].value
        /\ Held(BlockNo(Lo(c)), Entry(cl[c].header, cl[c].pos)) /\ cl[c].header \in DOMAIN headers
    BY <1>0, <1>8 DEF ConsumerInv
  <2>2. Entry(cl[c].header, cl[c].pos) \in Entries
    BY <1>0, <2>1, HeaderIs DEF Reading
  <2> QED BY <1>0, <2>1, <2>2, LivingParts, HeldBlocks DEF Held
<1>c. PICK items : items = cl[c].items \o [k \in 1 .. Minus(At(x), cl[c].index) |->
                                             slots[b][Plus(cl[c].index, k - 1) % BLOCK_SIZE]]
  OBVIOUS
<1>d. items \in Seq(Index \cup {Dead}) /\ items # <<>> /\ Len(items) = Len(cl[c].items) + (x - a)
  <2>1. PICK I \in Seq(Index \cup {Dead}) : I = cl[c].items
    BY <1>0 DEF Reading
  <2>2. PICK J : J = [k \in 1 .. (x - a) |-> slots[b][Plus(cl[c].index, k - 1) % BLOCK_SIZE]]
    OBVIOUS
  <2>3. J \in Seq(Index \cup {Dead}) /\ Len(J) = x - a
    <3>1. \A k \in 1 .. (x - a) : slots[b][Plus(cl[c].index, k - 1) % BLOCK_SIZE] \in Index \cup {Dead}
      <4> SUFFICES ASSUME NEW k \in 1 .. (x - a)
                   PROVE  slots[b][Plus(cl[c].index, k - 1) % BLOCK_SIZE] \in Index \cup {Dead}
        OBVIOUS
      <4>1. k - 1 \in Int
        OBVIOUS
      <4>2. Plus(At(a), k - 1) % B \in Place
        BY <1>6, <4>1
      <4> QED BY <1>0, <1>2, <1>4, <1>b, <4>2 DEF TypeOK
    <3> QED BY <1>5, <2>2, <3>1
  <2>4. items = I \o J
    BY <1>2, <1>5, <1>c, <2>1, <2>2
  <2>5. Len(I \o J) = Len(I) + Len(J) /\ I \o J \in Seq(Index \cup {Dead}) /\ Len(I) \in Nat
    BY <2>1, <2>3
  <2> QED BY <1>5, <2>1, <2>3, <2>4, <2>5
<1>e. PICK l : l = [cl[c] EXCEPT !.items = items, !.index = At(x)]
  OBVIOUS
<1>f. /\ l \in Reading /\ l.index = At(x) /\ l.end = cl[c].end /\ l.header = cl[c].header /\ l.pos = cl[c].pos
      /\ l.block = b /\ l.items = items
  <2>1. At(x) \in Index
    BY <1>0, <1>3, AtIs
  <2> QED BY <1>0, <1>8, <1>d, <1>e, <2>1 DEF Reading
<1>g. JustRead(l) = x - a
  <2>1. PICK u \in Int, r \in Int, s \in Int : u = x - 1 /\ r = u % B /\ s = a % B /\ 0 <= s
    <3>1. PICK u \in Int, v \in Int : u = x - 1 /\ v = a
      BY <1>1, <1>3
    <3>2. u % B \in Int /\ v % B \in Nat
      BY <1>4, DivOf
    <3>3. PICK r \in Int, s \in Nat : r = u % B /\ s = v % B
      BY <3>2
    <3> QED BY <3>1, <3>3
  <2>2. Minus(l.index, 1) % BLOCK_SIZE = r
    <3>1. Minus(At(x), 1) = At(x - 1) /\ At(u) % BLOCK_SIZE = u % BLOCK_SIZE
      BY <1>0, <1>3, <2>1, PlusAt, AtIs
    <3> QED BY <1>4, <1>f, <2>1, <3>1
  <2>3. u - a = r - s
    <3>1. ItemOf(n, r) = u /\ ItemOf(n, s) = a
      BY <1>1, <1>3, <1>7, <2>1
    <3>2. PICK y \in Int : y = (n - InitialSize) * B
      BY <1>4, NumberFits, Numbers
    <3>3. ItemOf(n, r) = y + r /\ ItemOf(n, s) = y + s
      BY <1>4, <3>2 DEF ItemOf
    <3> QED BY <1>1, <2>1, <3>1, <3>2, <3>3
  <2>4. Len(cl[c].items) \in Nat /\ (cl[c].items # <<>> => Len(cl[c].items) > 0)
    BY <1>0 DEF Reading
  <2>5. cl[c].items # <<>> => s = 0
    BY <1>0, <1>1, <1>4, <2>1 DEF ConsumerInv
  <2>6. cl[c].items = <<>> => Len(cl[c].items) = 0
    OBVIOUS
  <2>7. JustRead(l) = IF Len(items) < r + 1 THEN Len(items) ELSE r + 1
    BY <1>f, <2>2 DEF JustRead, Fewer
  <2>8. x - a = r - s + 1 /\ x - a \in Int
    BY <1>1, <1>3, <2>1, <2>3
  <2>9. PICK N \in Nat, M \in Int : N = Len(cl[c].items) /\ M = Len(items) /\ M = N + (x - a)
    BY <1>1, <1>3, <1>d, <2>4
  <2>c. JustRead(l) = IF M < r + 1 THEN M ELSE r + 1
    BY <2>7, <2>9
  <2>e. cl[c].items # <<>> => ~ M < r + 1 /\ r + 1 = x - a
    <3> SUFFICES ASSUME cl[c].items # <<>> PROVE ~ M < r + 1 /\ r + 1 = x - a
      OBVIOUS
    <3>1. r + 1 = x - a
      BY <2>1, <2>5, <2>8
    <3>2. M = N + (r + 1)
      BY <2>9, <3>1
    <3> QED BY <3>1, <3>2
  <2>f. cl[c].items = <<>> => M = x - a /\ M <= r + 1
    BY <2>1, <2>6, <2>8, <2>9
  <2>g. M <= r + 1 => JustRead(l) = M
    BY <2>1, <2>9, <2>c
  <2> QED BY <2>c, <2>e, <2>f, <2>g
<1>h. slots' = [slots EXCEPT ![b] = [k \in Place |-> IF ItemOf(n, k) \in a .. x - 1 THEN Dead ELSE slots[b][k]]]
  <2>1. slots' = [slots EXCEPT ![b] = [k \in DOMAIN slots[b] |-> IF k \in mine THEN Dead ELSE slots[b][k]]]
    BY <1>3, <1>8, <1>9 DEF Read
  <2>2. DOMAIN slots[b] = Place
    BY <1>0, <1>b DEF TypeOK
  <2>3. [k \in DOMAIN slots[b] |-> IF k \in mine THEN Dead ELSE slots[b][k]]
        = [k \in Place |-> IF ItemOf(n, k) \in a .. x - 1 THEN Dead ELSE slots[b][k]]
    BY <1>a, <2>2
  <2> QED BY <2>1, <2>3
<1>i. CSet(c, l) /\ CGoto(c, "empty")
  BY <1>3, <1>8, <1>c, <1>e DEF Read
<1> QED BY <1>1, <1>3, <1>8, <1>d, <1>f, <1>g, <1>h, <1>i

\* A step of one consumer leaves the others' calls in order.
LEMMA OthersKept ==
  ASSUME Settings, Fit, Living, NEW c \in Consumer, NEW to, NEW l, CGoto(c, to), CSet(c, l),
         start' = start, Claimed <= Claimed', Claimed' \in Int, IndexKept,
         \A n \in Int : Left_(n) = {} => Left_(n)' = {},
         \A d \in Holding \ {c} : cpc[d] = "free" =>
            /\ cl[d].block \in Block \ (free' \cup Indexed' \cup {pl'.block}) /\ Empty(cl[d].block)'
            /\ \A i \in DOMAIN pl'.allocated : pl'.allocated[i] # cl[d].block
  PROVE  \A d \in Holding' \ {c} : ConsumerInv(d)'
<1>0. TypeOK /\ HeldInv /\ \A d \in Holding : ConsumerInv(d)
  BY LivingParts
<1> SUFFICES ASSUME NEW d \in Holding' \ {c} PROVE ConsumerInv(d)'
  OBVIOUS
<1>1. d \in Consumer \ {c}
  BY DEF Holding
<1>2. cpc'[d] = cpc[d] /\ cl'[d] = cl[d] /\ d \in Holding
  BY <1>1, Others
<1>3. cpc[d] = "free" => LET b == cl[d].block
                         IN  /\ b \in Block \ (free' \cup Indexed' \cup {pl'.block}) /\ Empty(b)'
                             /\ \A i \in DOMAIN pl'.allocated : pl'.allocated[i] # b
  <2> SUFFICES ASSUME cpc[d] = "free"
               PROVE  /\ cl[d].block \in Block \ (free' \cup Indexed' \cup {pl'.block}) /\ Empty(cl[d].block)'
                      /\ \A i \in DOMAIN pl'.allocated : pl'.allocated[i] # cl[d].block
    OBVIOUS
  <2>1. /\ cl[d].block \in Block \ (free' \cup Indexed' \cup {pl'.block}) /\ Empty(cl[d].block)'
        /\ \A i \in DOMAIN pl'.allocated : pl'.allocated[i] # cl[d].block
    BY <1>2
  <2>2. cl'[d].block = cl[d].block
    BY <1>2
  <2> QED BY <2>1, <2>2
<1> QED BY <1>0, <1>2, <1>3, KeepConsumer

\* A block of the index that nothing refers to but the index.
LEMMA OneBlock ==
  ASSUME Settings, Fit, Living, NEW n \in Number, NEW e \in Entries, Held(n, e), NEW b, b = entries[e].value
  PROVE  /\ b \in Block \ free /\ b \in Indexed /\ b # pl.block
         /\ \A m \in Number, f \in Entries : Held(m, f) => (entries[f].value = b <=> m = n)
         /\ \A i \in DOMAIN pl.allocated : ~Kept(i) => pl.allocated[i] # b
         /\ \A d \in Holding : cpc[d] = "free" => cl[d].block # b
<1>0. /\ TypeOK /\ HeadersInv /\ RingInv /\ HeldInv /\ BlockInv /\ HandInv /\ AllocatedInv
      /\ (\A d \in Holding : ConsumerInv(d)) /\ null \notin Block
  BY LivingParts, Numbers DEF ProducerInv
<1>1. b # null /\ Has(e, n)
  BY DEF Held
<1>2. b \in Block \ free /\ b \in Indexed
  BY <1>0, <1>1, HeldBlocks DEF Indexed
<1>3. b # pl.block
  BY <1>0, <1>1, <1>2 DEF HandInv
<1>4. \A m \in Number, f \in Entries : Held(m, f) => (entries[f].value = b <=> m = n)
  <2> SUFFICES ASSUME NEW m \in Number, NEW f \in Entries, Held(m, f) PROVE entries[f].value = b <=> m = n
    OBVIOUS
  <2>1. entries[f].value = b => f = e
    BY <1>0, <1>1 DEF HeldInv
  <2>2. Has(f, m) /\ Has(e, n)
    BY <1>1 DEF Held
  <2>3. f = e => m = n
    BY <1>0, <2>2, OneKey
  <2>4. m = n => f = e
    BY <1>0, <2>2, OneKey
  <2> QED BY <2>1, <2>3, <2>4
<1>5. \A i \in DOMAIN pl.allocated : ~Kept(i) => pl.allocated[i] # b
  BY <1>0, <1>2 DEF AllocatedInv
<1>6. \A d \in Holding : cpc[d] = "free" => cl[d].block # b
  <2> SUFFICES ASSUME NEW d \in Holding, cpc[d] = "free" PROVE cl[d].block # b
    OBVIOUS
  <2>1. ConsumerInv(d)
    BY <1>0
  <2>2. cl[d].block \notin Indexed
    BY <2>1 DEF ConsumerInv
  <2> QED BY <1>2, <2>2
<1> QED BY <1>2, <1>3, <1>4, <1>5, <1>6

LEMMA ReadKept ==
  ASSUME Settings, Fit, Living, NEW c \in Consumer, Read(c)
  PROVE  Living'
<1>0. /\ TypeOK /\ HeadersInv /\ RingInv /\ HeldInv /\ BlockInv /\ HandInv /\ AllocatedInv /\ TailInv /\ SharesInv
      /\ (\A d \in Holding : ConsumerInv(d)) /\ ppc # "destroyed" /\ null \notin Block /\ start \in Starts
  BY LivingParts, Numbers DEF ProducerInv, Living, TypeOK
<1>1. cpc[c] = "read" /\ c \in Holding /\ ConsumerInv(c)
  <2>1. cpc[c] = "read" /\ c \in Holding
    BY DEF Read, CAt, Holding, Places
  <2> QED BY <1>0, <2>1
<1>2. UNCHANGED <<start, tailIndex, headIndex, headers, entries, elementsCompletelyDequeued, free, tailBlock, ppc, pl>>
  BY DEF Read, counts, index
<1>3. PICK x \in Int, l \in Reading :
        /\ CSet(c, l) /\ CGoto(c, "empty")
        /\ Lo(c) < x /\ x <= Hi(c) /\ BlockNo(x - 1) = BlockNo(Lo(c)) /\ (x < Hi(c) => x % BLOCK_SIZE = 0)
        /\ l.index = At(x) /\ l.end = cl[c].end /\ l.header = cl[c].header /\ l.pos = cl[c].pos
        /\ l.block = cl[c].block /\ l.items # <<>> /\ JustRead(l) = x - Lo(c)
        /\ slots' = [slots EXCEPT ![cl[c].block] =
                       [k \in Place |-> IF ItemOf(BlockNo(Lo(c)), k) \in Lo(c) .. x - 1 THEN Dead
                                        ELSE slots[cl[c].block][k]]]
  BY ReadIs
<1>4. PICK a \in Nat, z \in Nat, n \in Number :
        a = Lo(c) /\ z = Hi(c) /\ n = BlockNo(a) /\ a < x /\ x <= z /\ z <= Claimed /\ From(c) = a
  <2>1. Lo(c) \in Nat /\ Hi(c) \in Nat /\ Lo(c) < Hi(c) /\ Hi(c) <= Claimed /\ From(c) = Lo(c)
    BY <1>0, <1>1, ReadersItems DEF ConsumerInv, From
  <2>2. Lo(c) \in From(c) .. Hi(c) - 1
    BY <2>1
  <2>3. BlockNo(Lo(c)) \in Number
    BY <1>0, <1>1, <2>2, ReadersItems
  <2> QED BY <1>3, <2>1, <2>3
<1>5. PICK b, h, p, e : b = cl[c].block /\ h = cl[c].header /\ p = cl[c].pos /\ e = Entry(h, p)
  OBVIOUS
<1>6. /\ e \in Entries /\ Held(n, e) /\ b = entries[e].value /\ InPhase(h, p, n) /\ h \in DOMAIN headers
      /\ \A d \in a .. z - 1 : Positioned(h, BlockNo(d))
  <2>1. /\ Held(n, e) /\ b = entries[e].value /\ InPhase(h, p, n) /\ h \in DOMAIN headers /\ cl[c] \in Reading
        /\ \A d \in a .. z - 1 : Positioned(h, BlockNo(d))
    BY <1>1, <1>4, <1>5 DEF ConsumerInv
  <2> QED BY <1>0, <1>5, <2>1, HeaderIs DEF Reading
<1>7. /\ b \in Block \ free /\ b \in Indexed /\ b # pl.block
      /\ \A m \in Number, f \in Entries : Held(m, f) => (entries[f].value = b <=> m = n)
      /\ \A i \in DOMAIN pl.allocated : ~Kept(i) => pl.allocated[i] # b
      /\ \A d \in Holding : cpc[d] = "free" => cl[d].block # b
  BY <1>6, OneBlock
<1>8. /\ \A d \in Block : d # b => slots'[d] = slots[d]
      /\ \A k \in Place : slots'[b][k] = IF a <= ItemOf(n, k) /\ ItemOf(n, k) < x THEN Dead ELSE slots[b][k]
      /\ slots' \in [Block -> [Place -> Index \cup {Dead}]]
  <2>1. slots \in [Block -> [Place -> Index \cup {Dead}]]
    BY <1>0 DEF TypeOK
  <2>2. PICK s : s = [k \in Place |-> IF ItemOf(n, k) \in a .. x - 1 THEN Dead ELSE slots[b][k]]
    OBVIOUS
  <2>3. slots' = [slots EXCEPT ![b] = s]
    BY <1>3, <1>4, <1>5, <2>2
  <2>4. s \in [Place -> Index \cup {Dead}]
    BY <1>7, <2>1, <2>2
  <2>5. \A k \in Place : ItemOf(n, k) \in a .. x - 1 <=> a <= ItemOf(n, k) /\ ItemOf(n, k) < x
    <3> SUFFICES ASSUME NEW k \in Place
                 PROVE  ItemOf(n, k) \in a .. x - 1 <=> a <= ItemOf(n, k) /\ ItemOf(n, k) < x
      OBVIOUS
    <3>1. ItemOf(n, k) \in Int
      BY BlockNoIs, NumberFits
    <3> QED BY <1>4, <3>1
  <2> QED BY <1>7, <2>1, <2>2, <2>3, <2>4, <2>5
<1>9. /\ HeadersInv' /\ RingInv' /\ PhaseInv' /\ EnqueueInv' /\ IndexKept /\ SameHeld
      /\ LastNo' = LastNo /\ Published' = Published /\ NeededNo' = NeededNo /\ Number' = Number
      /\ Entries' = Entries /\ Indexed' = Indexed /\ Header' = Header /\ EntryType' = EntryType
      /\ \A m, f : Held(m, f)' <=> Held(m, f)
      /\ \A i : Kept(i)' <=> Kept(i)
      /\ \A d : BlockNo(d)' = BlockNo(d) /\ At(d)' = At(d)
      /\ \A m, k : ItemOf(m, k)' = ItemOf(m, k)
  BY <1>2, IndexStays DEF index
<1>a. /\ cpc'[c] = "empty" /\ cl'[c] = l
      /\ \A d \in Consumer \ {c} : /\ cpc'[d] = cpc[d] /\ cl'[d] = cl[d]
                                   /\ Lo(d)' = Lo(d) /\ Hi(d)' = Hi(d) /\ From(d)' = From(d)
                                   /\ d \in Holding' <=> d \in Holding
      /\ Lo(c)' = Dist(l.index) /\ Hi(c)' = Dist(l.end)
      /\ From(c)' = Dist(l.index) - JustRead(l)
      /\ c \in Holding' <=> "empty" \in Places
  BY <1>2, <1>3, Others
<1>b. Lo(c)' = x /\ Hi(c)' = z /\ From(c)' = a
  <2>1. x \in Index
    <3>1. /\ Claimed \in Nat /\ Claimed <= Published /\ Published <= MaxItems
          /\ MaxItems < Wrap \div 2 /\ Wrap \div 2 < Wrap
          /\ Published \in Nat /\ MaxItems \in Nat /\ Wrap \in Nat /\ Wrap \div 2 \in Nat
      BY <1>0, Basics, Numbers
    <3> QED BY <1>4, <3>1 DEF Index
  <2>2. Dist(At(x)) = x
    BY <1>0, <2>1, DistIs
  <2>3. x - (x - a) = a
    BY <1>4
  <2> QED BY <1>3, <1>4, <1>a, <2>2, <2>3 DEF Hi
<1>c. Holding' = Holding /\ Claimed' = Claimed /\ Holding \subseteq Consumer
  <2>1. Holding' \subseteq Consumer /\ Holding \subseteq Consumer
    BY DEF Holding
  <2>2. c \in Holding'
    BY <1>a DEF Places
  <2>3. Holding' = Holding
    BY <1>1, <1>a, <2>1, <2>2
  <2> QED BY <1>2, <2>1, <2>3 DEF Claimed
<1>d. \A d \in Holding : Hi(d)' = Hi(d) /\ From(d)' = From(d)
  BY <1>4, <1>a, <1>b, <1>c
<1>e. /\ \A d : NotCounted(d)' <=> NotCounted(d)
      /\ \A m : Dropping(m)' <=> Dropping(m)
  <2>1. \A d : NotCounted(d)' <=> NotCounted(d)
    BY <1>c, <1>d DEF NotCounted
  <2>2. \A d \in Holding : (cpc'[d] = "drop" <=> cpc[d] = "drop") /\ (cpc[d] = "drop" => Lo(d)' = Lo(d))
    BY <1>1, <1>a, <1>c
  <2> QED BY <1>9, <1>c, <2>1, <2>2 DEF Dropping
<1>f. \A d \in Int : Unread(d)' <=> Unread(d) /\ ~ (a <= d /\ d < x)
  <2> SUFFICES ASSUME NEW d \in Int PROVE Unread(d)' <=> Unread(d) /\ ~ (a <= d /\ d < x)
    OBVIOUS
  <2>1. PICK T : T <=> (Claimed <= d /\ d < Published + (IF ppc = "publish" THEN pl.n ELSE 0))
    OBVIOUS
  <2>2. PICK U : U <=> \E f \in Holding \ {c} : Lo(f) <= d /\ d < Hi(f)
    OBVIOUS
  <2>3. Unread(d) <=> T \/ U \/ (a <= d /\ d < z)
    BY <1>1, <1>4, <2>1, <2>2 DEF Unread
  <2>4. Unread(d)' <=> T \/ U \/ (x <= d /\ d < z)
    <3>1. \A f \in Holding \ {c} : Lo(f)' = Lo(f) /\ Hi(f)' = Hi(f)
      BY <1>a, <1>c
    <3> QED BY <1>1, <1>2, <1>9, <1>b, <1>c, <2>1, <2>2, <3>1 DEF Unread
  <2>5. T => ~ (a <= d /\ d < x)
    <3>1. Claimed \in Nat
      BY <1>0, Basics
    <3> QED BY <1>4, <2>1, <3>1
  <2>6. U => ~ (a <= d /\ d < x)
    <3> SUFFICES ASSUME NEW f \in Holding \ {c}, Lo(f) <= d, d < Hi(f) PROVE ~ (a <= d /\ d < x)
      BY <2>2
    <3>1. Hi(f) <= a \/ z <= From(f)
      BY <1>0, <1>1, <1>4 DEF SharesInv
    <3>2. Lo(f) \in Nat /\ From(f) \in Nat /\ Hi(f) \in Nat /\ From(f) <= Lo(f)
      BY <1>0, ReadersItems
    <3> QED BY <1>4, <3>1, <3>2
  <2>7. (a <= d /\ d < z) /\ ~ (a <= d /\ d < x) <=> (x <= d /\ d < z)
    BY <1>4
  <2> QED BY <2>3, <2>4, <2>5, <2>6, <2>7
<1>g. /\ \A m : Left_(m)' = Left_(m)
      /\ \A m : Pend(m)' <=> Pend(m)
  <2>1. \A m : Left_(m)' = Left_(m)
    BY <1>9, <1>e DEF Left_
  <2> QED BY <1>e, <2>1 DEF Pend
<1>h. TypeOK'
  BY <1>0, <1>2, <1>8, <1>9 DEF TypeOK
<1>i. HeldInv'
  <2>1. \A m \in Number : Want(m)' <=> Want(m)
    BY <1>2, <1>9, <1>g DEF Want
  <2> QED BY <1>0, <1>2, <1>9, <2>1, KeepHeld
<1>j. \A d \in Block : d # b => (Empty(d)' <=> Empty(d))
  BY <1>8 DEF Empty
<1>k. BlockInv'
  <2>1. ASSUME NEW m \in Number, NEW f \in Entries, Held(m, f)
        PROVE  LET d == entries[f].value
               IN  /\ d \notin free'
                   /\ elementsCompletelyDequeued'[d] + Cardinality(Left_(m)') = BLOCK_SIZE
                   /\ \A k \in Place : slots'[d][k] = IF Unread(ItemOf(m, k))' THEN At(ItemOf(m, k)) ELSE Dead
    <3>1. PICK d : d = entries[f].value
      OBVIOUS
    <3>2. d \notin free /\ elementsCompletelyDequeued[d] + Cardinality(Left_(m)) = BLOCK_SIZE /\ Filled(d, m)
      BY <1>0, <2>1, <3>1 DEF BlockInv
    <3>3. d \in Block
      BY <1>0, <2>1, <3>1, HeldBlocks DEF Held
    <3>4. d = b <=> m = n
      BY <1>7, <2>1, <3>1
    <3>5. ASSUME NEW k \in Place
          PROVE  slots'[d][k] = IF Unread(ItemOf(m, k))' THEN At(ItemOf(m, k)) ELSE Dead
      <4>1. PICK i \in Int : i = ItemOf(m, k) /\ BlockNo(i) = m
        BY BlockNoIs, NumberFits
      <4>2. slots[d][k] = IF Unread(i) THEN At(i) ELSE Dead
        BY <3>2, <4>1 DEF Filled
      <4>3. Unread(i)' <=> Unread(i) /\ ~ (a <= i /\ i < x)
        BY <1>f
      <4>4. Unread(ItemOf(m, k))' <=> Unread(i)'
        BY <1>9, <4>1 DEF Unread
      <4>5. CASE m = n
        BY <1>8, <3>4, <4>1, <4>2, <4>3, <4>4, <4>5
      <4>6. CASE m # n
        <5>1. ~ (a <= i /\ i < x)
          <6> SUFFICES ASSUME a <= i, i < x PROVE FALSE
            OBVIOUS
          <6>1. a \in Int /\ x - 1 \in Int /\ i <= x - 1
            BY <1>4
          <6>2. BlockNo(a) <= BlockNo(i) /\ BlockNo(i) <= BlockNo(x - 1)
            BY <6>1, BlockNoUp
          <6> QED BY <1>3, <1>4, <4>1, <4>6, <6>2, NumberFits
        <5>2. slots'[d] = slots[d]
          BY <1>8, <3>3, <3>4, <4>6
        <5> QED BY <4>1, <4>2, <4>3, <4>4, <5>1, <5>2
      <4> QED BY <4>5, <4>6
    <3> QED BY <1>2, <1>g, <3>1, <3>2, <3>5
  <2>2. ASSUME NEW m \in Number, NEW f \in Entries, Held(m, f)
        PROVE  Filled(entries[f].value, m)'
    <3>1. \A k \in Place : slots'[entries[f].value][k] = IF Unread(ItemOf(m, k))' THEN At(ItemOf(m, k)) ELSE Dead
      BY <2>1, <2>2
    <3> QED BY <1>2, <1>9, <3>1 DEF Filled
  <2>3. \A d \in free' : Empty(d)'
    BY <1>0, <1>2, <1>7, <1>j DEF BlockInv, TypeOK
  <2>4. {cl[d].block : d \in {f \in Consumer : cpc[f] = "free"}}
            \subseteq {cl'[d].block : d \in {f \in Consumer : cpc'[f] = "free"}}
    BY <1>1, <1>a
  <2>5. Block \subseteq free' \cup Indexed' \cup {pl'.block} \cup {pl'.allocated[i] : i \in DOMAIN pl'.allocated}
                     \cup {cl'[d].block : d \in {f \in Consumer : cpc'[f] = "free"}}
    BY <1>0, <1>2, <1>9, <2>4 DEF BlockInv
  <2>6. \A m \in Number', f \in Entries' : Held(m, f)' =>
          /\ entries'[f].value \notin free'
          /\ elementsCompletelyDequeued'[entries'[f].value] + Cardinality(Left_(m)') = BLOCK_SIZE
          /\ Filled(entries[f].value, m)'
    BY <1>2, <1>9, <2>1, <2>2
  <2> QED BY <2>3, <2>5, <2>6 DEF BlockInv
<1>l. HandInv' /\ AllocatedInv' /\ TailInv'
  <2>1. HandInv'
    <3>1. pl.block # null => pl.block \in Block
      BY <1>0 DEF TypeOK
    <3> QED BY <1>0, <1>2, <1>7, <1>9, <1>j, <3>1 DEF HandInv
  <2>2. AllocatedInv'
    <3>1. \A i \in DOMAIN pl.allocated : pl.allocated[i] \in Block
      BY <1>0 DEF TypeOK
    <3> QED BY <1>0, <1>2, <1>7, <1>9, <1>j, <3>1 DEF AllocatedInv
  <2>3. \A f : (Held(LastNo, f)' <=> Held(LastNo, f)) /\ (Held(LastNo + NeededNo, f)' <=> Held(LastNo + NeededNo, f))
    BY <1>2, <1>9 DEF Held, Has, KeyOf
  <2>4. Pend(LastNo)' <=> Pend(LastNo)
    <3>1. PICK m : m = LastNo
      OBVIOUS
    <3>2. Pend(LastNo)' <=> Pend(m)'
      BY <1>9, <3>1 DEF Pend, Left_, Dropping
    <3> QED BY <1>g, <3>1, <3>2
  <2>5. TailInv'
    BY <1>0, <1>2, <1>9, <2>3, <2>4 DEF TailInv
  <2> QED BY <2>1, <2>2, <2>5
<1>m. SharesInv'
  <2>1. \A d \in Holding : /\ cpc'[d] = "drop" <=> cpc[d] = "drop"
                           /\ cpc'[d] = "free" <=> cpc[d] = "free"
                           /\ cpc[d] = "free" => cl'[d].block = cl[d].block
                           /\ cpc[d] = "drop" => Lo(d)' = Lo(d)
    BY <1>1, <1>a, <1>c
  <2> QED BY <1>0, <1>9, <1>c, <1>d, <2>1 DEF SharesInv
<1>n. \A d \in Holding' \ {c} : ConsumerInv(d)'
  <2>1. Claimed <= Claimed' /\ Claimed' \in Int /\ \A m : Left_(m) = {} => Left_(m)' = {}
    BY <1>0, <1>c, <1>g, Basics
  <2>2. \A d \in Holding \ {c} : cpc[d] = "free" =>
            /\ cl[d].block \in Block \ (free' \cup Indexed' \cup {pl'.block}) /\ Empty(cl[d].block)'
            /\ \A i \in DOMAIN pl'.allocated : pl'.allocated[i] # cl[d].block
    <3> SUFFICES ASSUME NEW d \in Holding \ {c}, cpc[d] = "free"
                 PROVE  /\ cl[d].block \in Block \ (free' \cup Indexed' \cup {pl'.block}) /\ Empty(cl[d].block)'
                        /\ \A i \in DOMAIN pl'.allocated : pl'.allocated[i] # cl[d].block
      OBVIOUS
    <3>0. ConsumerInv(d)
      BY <1>0
    <3>1. /\ cl[d].block \in Block \ (free \cup Indexed \cup {pl.block}) /\ Empty(cl[d].block)
          /\ \A i \in DOMAIN pl.allocated : pl.allocated[i] # cl[d].block
      BY <3>0 DEF ConsumerInv
    <3>2. cl'[d] = cl[d]
      BY <1>a, <1>c
    <3>3. PICK f : f = cl[d].block
      OBVIOUS
    <3>4. Empty(f)'
      BY <1>7, <1>j, <3>1, <3>3
    <3>5. Empty(cl[d].block)'
      BY <3>2, <3>3, <3>4 DEF Empty
    <3> QED BY <1>2, <1>9, <3>1, <3>5
  <2> QED BY <1>2, <1>3, <1>9, <2>1, <2>2, OthersKept
<1>o. ConsumerInv(c)'
  <2>1. /\ l \in Reading' /\ Claimed' = Claimed
        /\ \A f : Valid(f)' <=> Valid(f)
        /\ \A g : Caps(g)' = Caps(g)
        /\ \A g, pos : Entry(g, pos)' = Entry(g, pos)
    BY <1>2, <1>c, <1>3 DEF Reading, Valid, Caps, capacity, Entry
  <2>2. \A d \in a .. z - 1 : Positioned(h, BlockNo(d))'
    <3> SUFFICES ASSUME NEW d \in a .. z - 1 PROVE Positioned(h, BlockNo(d))'
      OBVIOUS
    <3>1. PICK m : m = BlockNo(d)
      OBVIOUS
    <3>2. Positioned(h, m)
      BY <1>6, <3>1
    <3>3. Positioned(h, BlockNo(d))' <=> Positioned(h, m)'
      BY <1>9, <3>1 DEF Positioned, Held, Has, KeyOf
    <3>4. Positioned(h, m)' <=> Positioned(h, m)
      BY <1>2, <1>9, <2>1 DEF Positioned
    <3> QED BY <3>2, <3>3, <3>4
  <2>3. InPhase(h, p, n)'
    BY <1>2, <1>6, <1>9 DEF InPhase, Has, KeyOf, capacity, Caps
  <2>4. /\ BlockNo(Lo(c) - 1)' = n /\ BlockNo(From(c))' = n
    BY <1>3, <1>4, <1>b DEF BlockNo
  <2>5. Held(n, Entry(h, p))' /\ l.block = entries'[Entry(h, p)'].value
    <3>1. Entry(h, p)' = e
      BY <1>5, <2>1
    <3>2. Held(n, Entry(h, p))' <=> Held(n, e)'
      BY <3>1 DEF Held, Has
    <3> QED BY <1>2, <1>3, <1>5, <1>6, <1>9, <3>1, <3>2
  <2>6. JustRead(l) > 0 /\ l.items # <<>>
    BY <1>3, <1>4
  <2>7. x \in Int /\ 0 <= a /\ a <= x /\ x <= z /\ z <= Claimed /\ x > 0
    BY <1>4
  <2>8. /\ cl'[c] = l /\ cpc'[c] = "empty" /\ Lo(c)' = x /\ Hi(c)' = z /\ From(c)' = a
        /\ l.header = h /\ l.pos = p /\ headers' = headers
    BY <1>2, <1>3, <1>5, <1>a, <1>b
  <2>9. JustRead(cl[c])' = JustRead(l)
    BY <2>8 DEF JustRead, Fewer, Minus
  <2>a. l.items # <<>> /\ x < z => x % BLOCK_SIZE = 0
    BY <1>3, <1>4
  <2> QED BY <1>6, <2>1, <2>2, <2>3, <2>4, <2>5, <2>6, <2>7, <2>8, <2>9, <2>a DEF ConsumerInv
<1>p. ppc' # "destroyed"
  BY <1>0, <1>2
<1> QED BY <1>9, <1>h, <1>i, <1>k, <1>l, <1>m, <1>n, <1>o, <1>p DEF Living, IInv, ProducerInv

\* The places that set_many_empty counts.
LEMMA EmptiedIs ==
  ASSUME Settings, Fit, Living, NEW c \in Holding, cpc[c] = "empty", NEW n, n = BlockNo(Lo(c) - 1),
         NEW T, T = {k \in Place : From(c) <= ItemOf(n, k) /\ ItemOf(n, k) < Lo(c)}
  PROVE  /\ n \in Number /\ From(c) \in Nat /\ Lo(c) \in Nat /\ From(c) < Lo(c) /\ BlockNo(From(c)) = n
         /\ T \subseteq Left_(n) /\ T # {} /\ IsFiniteSet(Left_(n))
         /\ Cardinality(Left_(n)) \in Nat /\ Cardinality(Left_(n) \ T) \in Nat
         /\ Cardinality(Left_(n)) = Cardinality(Left_(n) \ T) + JustRead(cl[c])
         /\ \A d \in Int : From(c) <= d /\ d < Lo(c) => BlockNo(d) = n /\ NotCounted(d)
<1>0. TypeOK /\ HeldInv /\ ConsumerInv(c)
  BY LivingParts
<1>1. PICK B \in Nat \ {0} : B = BLOCK_SIZE
  BY Numbers
<1>2. PICK a \in Nat, x \in Nat, z \in Nat : a = From(c) /\ x = Lo(c) /\ z = Hi(c) /\ x <= z
  <2>1. From(c) \in Nat /\ Lo(c) \in Nat /\ Hi(c) \in Nat /\ Lo(c) <= Hi(c)
    BY <1>0, ReadersItems
  <2> QED BY <2>1
<1>3. a < x /\ JustRead(cl[c]) = x - a /\ BlockNo(a) = n
  <2>1. JustRead(cl[c]) > 0 /\ BlockNo(a) = n /\ a = x - JustRead(cl[c])
    BY <1>0, <1>2 DEF ConsumerInv, From
  <2>2. JustRead(cl[c]) \in Int
    <3>1. Len(cl[c].items) \in Nat
      BY <1>0 DEF ConsumerInv, Reading
    <3>2. Minus(cl[c].index, 1) \in Int
      <4>1. cl[c].index \in Index /\ Wrap \in Nat \ {0}
        BY <1>0, Numbers DEF ConsumerInv, Reading
      <4>2. cl[c].index - 1 \in Int
        BY <4>1 DEF Index
      <4> QED BY <4>1, <4>2, DivOf DEF Minus
    <3>3. (Minus(cl[c].index, 1) % BLOCK_SIZE) + 1 \in Int
      BY <1>1, <3>2, DivOf
    <3> QED BY <3>1, <3>3 DEF JustRead, Fewer
  <2> QED BY <1>2, <2>1, <2>2
<1>4. n \in Number
  <2>1. a \in From(c) .. Hi(c) - 1
    BY <1>2, <1>3
  <2> QED BY <1>0, <1>3, <2>1, ReadersItems
<1>5. \A d \in Int : a <= d /\ d < x => BlockNo(d) = n /\ NotCounted(d)
  <2> SUFFICES ASSUME NEW d \in Int, a <= d, d < x PROVE BlockNo(d) = n /\ NotCounted(d)
    OBVIOUS
  <2>1. d \in From(c) .. Hi(c) - 1
    BY <1>2
  <2>2. a \in Int /\ x - 1 \in Int /\ d <= x - 1
    BY <1>2
  <2>3. BlockNo(a) <= BlockNo(d) /\ BlockNo(d) <= BlockNo(x - 1)
    BY <2>2, BlockNoUp
  <2>4. BlockNo(d) \in Int /\ n \in Int
    BY <1>4, BlockNoIs, NumberFits
  <2> QED BY <1>0, <1>2, <1>3, <2>1, <2>3, <2>4, ReadersItems
<1>6. PICK s \in Int : \A k \in Place : ItemOf(n, k) = s + k
  <2>1. PICK y \in Int : y = (n - InitialSize) * BLOCK_SIZE
    BY <1>1, <1>4, NumberFits, Numbers
  <2> QED BY <2>1 DEF ItemOf
<1>7. T = (a - s) .. (x - 1 - s)
  <2>1. a - s \in Place /\ x - 1 - s \in Place
    <3>1. \A d \in Int : a <= d /\ d < x => d % BLOCK_SIZE \in Place /\ d = s + (d % BLOCK_SIZE)
      <4> SUFFICES ASSUME NEW d \in Int, a <= d, d < x PROVE d % BLOCK_SIZE \in Place /\ d = s + (d % BLOCK_SIZE)
        OBVIOUS
      <4>1. d % BLOCK_SIZE \in Place /\ ItemOf(BlockNo(d), d % BLOCK_SIZE) = d /\ BlockNo(d) = n
        BY <1>5, BlockNoIs
      <4> QED BY <1>6, <4>1
    <3>2. \A d \in Int : a <= d /\ d < x => d - s \in Place
      <4> SUFFICES ASSUME NEW d \in Int, a <= d, d < x PROVE d - s \in Place
        OBVIOUS
      <4>1. PICK k \in Place : d = s + k
        BY <3>1
      <4>2. k \in Int
        BY <1>1 DEF Place
      <4>3. d - s = k
        BY <1>6, <4>1, <4>2
      <4> QED BY <4>3
    <3>3. a \in Int /\ x - 1 \in Int /\ a <= x - 1 /\ x - 1 < x
      BY <1>2, <1>3
    <3> QED BY <1>2, <1>3, <3>2, <3>3
  <2>2. ASSUME NEW k \in T PROVE k \in (a - s) .. (x - 1 - s)
    <3>1. k \in Place /\ a <= s + k /\ s + k < x
      BY <1>2, <1>6
    <3>2. k \in Int
      BY <1>1, <3>1 DEF Place
    <3> QED BY <1>2, <1>6, <3>1, <3>2
  <2>3. ASSUME NEW k \in (a - s) .. (x - 1 - s) PROVE k \in T
    <3>1. k \in Int /\ a - s <= k /\ k <= x - 1 - s
      BY <1>2, <1>6
    <3>2. k \in Place
      BY <1>1, <1>2, <1>6, <2>1, <3>1 DEF Place
    <3>3. a <= s + k /\ s + k < x
      BY <1>2, <1>6, <3>1
    <3> QED BY <1>2, <1>6, <3>2, <3>3
  <2> QED BY <2>2, <2>3
<1>8. IsFiniteSet(T) /\ Cardinality(T) = x - a /\ T # {}
  <2>1. PICK u \in Int, v \in Int : u = a - s /\ v = x - 1 - s /\ u <= v /\ v - u + 1 = x - a
    BY <1>2, <1>3, <1>6
  <2>2. T = u .. v
    BY <1>7, <2>1
  <2>3. IsFiniteSet(u .. v) /\ Cardinality(u .. v) = v - u + 1
    BY <2>1, FS_Interval
  <2>4. u \in T
    BY <2>1, <2>2
  <2> QED BY <2>1, <2>2, <2>3, <2>4
<1>9. T \subseteq Left_(n)
  <2> SUFFICES ASSUME NEW k \in T PROVE k \in Left_(n)
    OBVIOUS
  <2>1. k \in Place /\ ItemOf(n, k) \in Int /\ a <= ItemOf(n, k) /\ ItemOf(n, k) < x
    BY <1>2, <1>4, BlockNoIs, NumberFits
  <2> QED BY <1>5, <2>1 DEF Left_
<1>a. IsFiniteSet(Left_(n))
  <2>1. IsFiniteSet(Place)
    <3>1. B - 1 \in Int /\ 0 \in Int
      BY <1>1
    <3>2. IsFiniteSet(0 .. B - 1)
      BY <3>1, FS_Interval
    <3> QED BY <1>1, <3>2 DEF Place
  <2>2. Left_(n) \in SUBSET Place
    BY DEF Left_
  <2> QED BY <2>1, <2>2, FS_Subset
<1>b. IsFiniteSet(Left_(n) \ T) /\ Cardinality(Left_(n) \ T) = Cardinality(Left_(n)) - Cardinality(T)
  <2>1. Left_(n) \cap T = T
    BY <1>9
  <2> QED BY <1>a, <2>1, FS_Difference
<1>c. Cardinality(Left_(n)) \in Nat /\ Cardinality(Left_(n) \ T) \in Nat
  BY <1>a, <1>b, FS_CardinalityType
<1>d. Cardinality(Left_(n)) = Cardinality(Left_(n) \ T) + (x - a)
  BY <1>2, <1>8, <1>b, <1>c
<1> QED BY <1>2, <1>3, <1>4, <1>5, <1>8, <1>9, <1>a, <1>c, <1>d

\* After a block: the next one, or the end of the call.
LEMMA NextBlockIs ==
  ASSUME Settings, Fit, Living, NEW c \in Holding, NextBlock(c, cl[c])
  PROVE  \/ /\ Lo(c) < Hi(c)
            /\ \E l \in Reading : /\ CGoto(c, "entry") /\ CSet(c, l) /\ l.pos = cl[c].pos + 1
                                  /\ l.index = cl[c].index /\ l.end = cl[c].end /\ l.items = cl[c].items
                                  /\ l.header = cl[c].header /\ l.block = cl[c].block
         \/ Lo(c) = Hi(c) /\ CDone(c)
<1>0. TypeOK /\ HeldInv /\ ConsumerInv(c) /\ cl[c] \in Reading /\ start \in Starts
  BY LivingParts DEF ConsumerInv, TypeOK
<1>1. Lo(c) \in Nat /\ Hi(c) \in Nat /\ Lo(c) <= Hi(c)
  BY <1>0, ReadersItems
<1>2. CASE cl[c].index = cl[c].end
  BY <1>2 DEF NextBlock, Lo, Hi
<1>3. CASE cl[c].index # cl[c].end
  <2>1. Lo(c) # Hi(c)
    <3>1. At(Lo(c)) = cl[c].index /\ At(Hi(c)) = cl[c].end
      BY <1>0, DistIs DEF Lo, Hi, Reading
    <3> QED BY <1>3, <3>1
  <2>2. PICK l : l = [cl[c] EXCEPT !.pos = cl[c].pos + 1]
    OBVIOUS
  <2>3. CGoto(c, "entry") /\ CSet(c, l)
    BY <1>3, <2>2 DEF NextBlock
  <2>4. /\ l \in Reading /\ l.pos = cl[c].pos + 1
        /\ l.index = cl[c].index /\ l.end = cl[c].end /\ l.items = cl[c].items
        /\ l.header = cl[c].header /\ l.block = cl[c].block
    BY <1>0, <2>2 DEF Reading
  <2> QED BY <1>1, <2>1, <2>3, <2>4
<1> QED BY <1>2, <1>3

\* The next block is in the next entry.
LEMMA NextEntryInv ==
  ASSUME Settings, Fit, Living, NEW c \in Holding, cpc[c] \in {"empty", "free"}, Lo(c) < Hi(c),
         NEW l \in Reading, CGoto(c, "entry"), CSet(c, l), l.pos = cl[c].pos + 1,
         l.index = cl[c].index, l.end = cl[c].end, l.items = cl[c].items,
         l.header = cl[c].header, l.block = cl[c].block,
         UNCHANGED <<start, tailIndex, headIndex, index, ppc, pl>>
  PROVE  ConsumerInv(c)'
<1>0. TypeOK /\ HeldInv /\ ConsumerInv(c) /\ cl[c] \in Reading /\ c \in Consumer
  BY LivingParts DEF ConsumerInv, Holding
<1>1. UNCHANGED <<start, tailIndex, headIndex, headers, entries>>
  BY DEF index
<1>2. /\ cpc'[c] = "entry" /\ cl'[c] = l
      /\ Lo(c)' = Dist(l.index) /\ Hi(c)' = Dist(l.end) /\ From(c)' = Dist(l.index)
  BY <1>0, <1>1, Others
<1>3. Lo(c)' = Lo(c) /\ Hi(c)' = Hi(c) /\ From(c)' = Lo(c)
  BY <1>2 DEF Lo, Hi
<1>4. PICK a \in Nat, z \in Nat, f \in Nat : a = Lo(c) /\ z = Hi(c) /\ f = From(c) /\ a < z /\ f <= a /\ z <= Claimed
  <2>1. Lo(c) \in Nat /\ Hi(c) \in Nat /\ From(c) \in Nat /\ From(c) <= Lo(c) /\ Hi(c) <= Claimed
    BY <1>0, ReadersItems
  <2> QED BY <2>1
<1>5. PICK B \in Nat \ {0} : B = BLOCK_SIZE
  BY Numbers
<1>i. PICK h : h = cl[c].header
  OBVIOUS
<1>6. PICK p \in Int, n \in Int : p = cl[c].pos /\ n = BlockNo(a - 1)
  <2>1. a - 1 \in Int /\ cl[c].pos \in Int
    BY <1>0, <1>4 DEF Reading
  <2>2. BlockNo(a - 1) \in Int
    BY <2>1, BlockNoIs
  <2> QED BY <2>1, <2>2
<1>7. /\ h \in DOMAIN headers /\ (\A d \in f .. z - 1 : Positioned(h, BlockNo(d))) /\ InPhase(h, p, n)
      /\ a % BLOCK_SIZE = 0 /\ cl[c].items # <<>>
  BY <1>0, <1>4, <1>6, <1>i DEF ConsumerInv
<1>8. BlockNo(a) = n + 1
  <2>1. PICK q \in Int : a = B * q
    <3>1. a \in Int /\ a % B = 0
      BY <1>4, <1>5, <1>7
    <3> QED BY <1>5, <3>1, MultIs
  <2>2. a \div B = q
    <3>1. a = B * q + 0 /\ 0 \in 0 .. B - 1 /\ a \in Int
      BY <1>4, <1>5, <2>1
    <3> QED BY <3>1, DivIs
  <2>3. (a - 1) \div B = q - 1
    <3>1. a - 1 = B * (q - 1) + (B - 1) /\ B - 1 \in 0 .. B - 1 /\ a - 1 \in Int /\ q - 1 \in Int
      BY <1>4, <1>5, <2>1
    <3> QED BY <3>1, DivIs
  <2>4. BlockNo(a) = InitialSize + q /\ n = InitialSize + (q - 1)
    BY <1>5, <1>6, <2>2, <2>3 DEF BlockNo
  <2> QED BY <2>1, <2>4, Numbers
<1>9. InPhase(h, p + 1, n + 1)
  <2> SUFFICES ASSUME NEW r \in Caps(h), NEW k \in Number, Has(headers[h].index[r], k)
               PROVE  (r - (p + 1) - k + (n + 1)) % capacity(h) = 0
    BY DEF InPhase
  <2>1. r \in Int /\ k \in Int
    <3>1. capacity(h) \in Nat
      BY <1>0, <1>7, HeaderIs
    <3> QED BY <3>1, NumberFits DEF Caps
  <2>2. (r - p - k + n) % capacity(h) = 0
    BY <1>7 DEF InPhase
  <2>3. r - (p + 1) - k + (n + 1) = r - p - k + n
    BY <2>1
  <2> QED BY <2>2, <2>3
<1>a. /\ l \in Reading' /\ Claimed' = Claimed
      /\ \A g, e : Held(g, e)' <=> Held(g, e)
      /\ \A g : Caps(g)' = Caps(g)
      /\ \A g, pos : Entry(g, pos)' = Entry(g, pos)
      /\ \A d : BlockNo(d)' = BlockNo(d)
  BY <1>1 DEF Reading, Claimed, Held, Has, KeyOf, Caps, capacity, Entry, BlockNo
<1>b. \A d \in a .. z - 1 : Positioned(h, BlockNo(d))'
  <2> SUFFICES ASSUME NEW d \in a .. z - 1 PROVE Positioned(h, BlockNo(d))'
    OBVIOUS
  <2>1. PICK m : m = BlockNo(d)
    OBVIOUS
  <2>2. Positioned(h, m)
    <3>1. d \in f .. z - 1
      BY <1>4
    <3> QED BY <1>7, <2>1, <3>1
  <2>3. Positioned(h, BlockNo(d))' <=> Positioned(h, m)'
    BY <1>a, <2>1 DEF Positioned, Held, Has, KeyOf
  <2>4. Positioned(h, m)' <=> Positioned(h, m)
    BY <1>1, <1>a DEF Positioned
  <2> QED BY <2>2, <2>3, <2>4
<1>c. PICK q, m : q = p + 1 /\ m = n + 1
  OBVIOUS
<1>d. InPhase(h, q, m)'
  BY <1>1, <1>9, <1>c DEF InPhase, Has, KeyOf, capacity, Caps, Number, BlockNo
<1>e. BlockNo(Lo(c))' = m
  BY <1>3, <1>4, <1>8, <1>a, <1>c DEF BlockNo
<1>f. l.header = h /\ l.pos = q /\ (l.items # <<>> => a % BLOCK_SIZE = 0)
  BY <1>6, <1>7, <1>c, <1>i
<1>g. /\ cpc'[c] = "entry" /\ cl'[c] = l /\ Lo(c)' = a /\ Hi(c)' = z /\ From(c)' = a
      /\ 0 <= a /\ a <= z /\ a < z /\ z <= Claimed'
  BY <1>2, <1>3, <1>4, <1>a

<1> QED BY <1>1, <1>7, <1>a, <1>b, <1>d, <1>e, <1>f, <1>g DEF ConsumerInv

LEMMA SetEmptyIs ==
  ASSUME Settings, Fit, Living, NEW c \in Consumer, SetEmpty(c), NEW b, b = cl[c].block,
         NEW N, N = elementsCompletelyDequeued[b] + JustRead(cl[c])
  PROVE  /\ elementsCompletelyDequeued' = [elementsCompletelyDequeued EXCEPT ![b] = N]
         /\ \E to \in {"drop", "entry", "idle"}, l \in Reading \cup {NoCall} :
              /\ CGoto(c, to) /\ CSet(c, l)
              /\ to = "drop" <=> N = BLOCK_SIZE
              /\ to = "drop" => l = cl[c]
              /\ to = "idle" => Lo(c) = Hi(c)
              /\ to = "entry" =>
                   /\ Lo(c) < Hi(c) /\ l \in Reading /\ l.pos = cl[c].pos + 1
                   /\ l.index = cl[c].index /\ l.end = cl[c].end /\ l.items = cl[c].items
                   /\ l.header = cl[c].header /\ l.block = cl[c].block
<1>0. c \in Holding /\ cl[c] \in Reading
  <2>1. c \in Holding
    BY DEF SetEmpty, CAt, Holding, Places
  <2> QED BY <2>1, LivingParts DEF ConsumerInv
<1>1. elementsCompletelyDequeued' = [elementsCompletelyDequeued EXCEPT ![b] = N]
  BY DEF SetEmpty
<1>2. CASE N = BLOCK_SIZE
  <2>1. CGoto(c, "drop") /\ cl' = cl
    BY <1>2 DEF SetEmpty
  <2>2. CSet(c, cl[c])
    <3>1. cl = [d \in Consumer |-> cl[d]]
      BY DEF Fit, CountsType
    <3> QED BY <2>1, <3>1 DEF CSet
  <2> QED BY <1>0, <1>1, <1>2, <2>1, <2>2
<1>3. CASE N # BLOCK_SIZE
  <2>1. NextBlock(c, cl[c])
    BY <1>3 DEF SetEmpty
  <2>2. CASE Lo(c) = Hi(c) /\ CDone(c)
    <3>1. CGoto(c, "idle") /\ CSet(c, NoCall)
      BY <2>2 DEF CDone
    <3> QED BY <1>1, <1>3, <2>2, <3>1
  <2>3. CASE /\ Lo(c) < Hi(c)
             /\ \E l \in Reading : /\ CGoto(c, "entry") /\ CSet(c, l) /\ l.pos = cl[c].pos + 1
                                   /\ l.index = cl[c].index /\ l.end = cl[c].end /\ l.items = cl[c].items
                                   /\ l.header = cl[c].header /\ l.block = cl[c].block
    <3>1. PICK l \in Reading : /\ CGoto(c, "entry") /\ CSet(c, l) /\ l.pos = cl[c].pos + 1
                               /\ l.index = cl[c].index /\ l.end = cl[c].end /\ l.items = cl[c].items
                               /\ l.header = cl[c].header /\ l.block = cl[c].block
      BY <2>3
    <3> QED BY <1>1, <1>3, <2>3, <3>1
  <2> QED BY <1>0, <2>1, <2>2, <2>3, NextBlockIs
<1> QED BY <1>2, <1>3

LEMMA SetEmptyKept ==
  ASSUME Settings, Fit, Living, NEW c \in Consumer, SetEmpty(c)
  PROVE  Living'
<1>0. /\ TypeOK /\ HeadersInv /\ RingInv /\ HeldInv /\ BlockInv /\ HandInv /\ AllocatedInv /\ TailInv /\ SharesInv
      /\ (\A d \in Holding : ConsumerInv(d)) /\ ppc # "destroyed" /\ null \notin Block /\ start \in Starts
  BY LivingParts, Numbers DEF ProducerInv, Living, TypeOK
<1>1. cpc[c] = "empty" /\ c \in Holding /\ ConsumerInv(c) /\ cl[c] \in Reading
  <2>1. cpc[c] = "empty" /\ c \in Holding
    BY DEF SetEmpty, CAt, Holding, Places
  <2> QED BY <1>0, <2>1 DEF ConsumerInv
<1>2. UNCHANGED <<start, tailIndex, headIndex, headers, entries, slots, free, tailBlock, ppc, pl>>
  BY DEF SetEmpty, counts, index
<1>3. PICK b, h, p, e, N : b = cl[c].block /\ h = cl[c].header /\ p = cl[c].pos /\ e = Entry(h, p)
                           /\ N = elementsCompletelyDequeued[b] + JustRead(cl[c])
  OBVIOUS
<1>4. PICK to \in {"drop", "entry", "idle"}, l \in Reading \cup {NoCall} :
              /\ CGoto(c, to) /\ CSet(c, l)
              /\ to = "drop" <=> N = BLOCK_SIZE
              /\ to = "drop" => l = cl[c]
              /\ to = "idle" => Lo(c) = Hi(c)
              /\ to = "entry" =>
                   /\ Lo(c) < Hi(c) /\ l \in Reading /\ l.pos = cl[c].pos + 1
                   /\ l.index = cl[c].index /\ l.end = cl[c].end /\ l.items = cl[c].items
                   /\ l.header = cl[c].header /\ l.block = cl[c].block
  BY <1>3, SetEmptyIs
<1>5. PICK T, n : n = BlockNo(Lo(c) - 1)
                  /\ T = {k \in Place : From(c) <= ItemOf(n, k) /\ ItemOf(n, k) < Lo(c)}
  OBVIOUS
<1>6. /\ n \in Number /\ From(c) \in Nat /\ Lo(c) \in Nat /\ From(c) < Lo(c) /\ BlockNo(From(c)) = n
      /\ T \subseteq Left_(n) /\ T # {} /\ IsFiniteSet(Left_(n))
      /\ Cardinality(Left_(n)) \in Nat /\ Cardinality(Left_(n) \ T) \in Nat
      /\ Cardinality(Left_(n)) = Cardinality(Left_(n) \ T) + JustRead(cl[c])
      /\ \A d \in Int : From(c) <= d /\ d < Lo(c) => BlockNo(d) = n /\ NotCounted(d)
  BY <1>1, <1>5, EmptiedIs, ZenonT(30)
<1>7. PICK f \in Nat, x \in Nat, z \in Nat : f = From(c) /\ x = Lo(c) /\ z = Hi(c) /\ f < x /\ x <= z /\ z <= Claimed
  <2>1. Hi(c) \in Nat /\ Lo(c) <= Hi(c) /\ Hi(c) <= Claimed
    BY <1>0, <1>1, ReadersItems
  <2> QED BY <1>6, <2>1
<1>8. /\ e \in Entries /\ Held(n, e) /\ b = entries[e].value /\ InPhase(h, p, n) /\ h \in DOMAIN headers
      /\ \A d \in f .. z - 1 : Positioned(h, BlockNo(d))
  <2>1. /\ Held(n, e) /\ b = entries[e].value /\ InPhase(h, p, n) /\ h \in DOMAIN headers
        /\ \A d \in f .. z - 1 : Positioned(h, BlockNo(d))
    BY <1>1, <1>3, <1>5, <1>7 DEF ConsumerInv
  <2> QED BY <1>0, <1>1, <1>3, <2>1, HeaderIs DEF Reading
<1>9. /\ b \in Block \ free /\ b \in Indexed /\ b # pl.block
      /\ \A m \in Number, g \in Entries : Held(m, g) => (entries[g].value = b <=> m = n)
      /\ \A i \in DOMAIN pl.allocated : ~Kept(i) => pl.allocated[i] # b
      /\ \A d \in Holding : cpc[d] = "free" => cl[d].block # b
  BY <1>6, <1>8, OneBlock
<1>a. /\ HeadersInv' /\ RingInv' /\ PhaseInv' /\ EnqueueInv' /\ IndexKept /\ SameHeld
      /\ LastNo' = LastNo /\ Published' = Published /\ NeededNo' = NeededNo /\ Number' = Number
      /\ Entries' = Entries /\ Indexed' = Indexed /\ Header' = Header /\ EntryType' = EntryType
      /\ \A m, g : Held(m, g)' <=> Held(m, g)
      /\ \A i : Kept(i)' <=> Kept(i)
      /\ \A d : BlockNo(d)' = BlockNo(d) /\ At(d)' = At(d)
      /\ \A m, k : ItemOf(m, k)' = ItemOf(m, k)
  BY <1>2, IndexStays DEF index
<1>b. /\ cpc'[c] = to /\ cl'[c] = l
      /\ \A d \in Consumer \ {c} : /\ cpc'[d] = cpc[d] /\ cl'[d] = cl[d]
                                   /\ Lo(d)' = Lo(d) /\ Hi(d)' = Hi(d) /\ From(d)' = From(d)
                                   /\ d \in Holding' <=> d \in Holding
      /\ Lo(c)' = Dist(l.index) /\ Hi(c)' = Dist(l.end)
      /\ From(c)' = (IF to = "empty" THEN Dist(l.index) - JustRead(l) ELSE Dist(l.index))
      /\ c \in Holding' <=> to \in Places
  BY <1>2, <1>4, Others
<1>c. /\ c \in Holding' <=> to # "idle"
      /\ to # "idle" => Lo(c)' = x /\ Hi(c)' = z /\ From(c)' = x
  <2>1. c \in Holding' <=> to # "idle"
    BY <1>4, <1>b DEF Places
  <2>2. to # "idle" => l.index = cl[c].index /\ l.end = cl[c].end
    BY <1>4
  <2> QED BY <1>4, <1>7, <1>b, <2>1, <2>2 DEF Lo, Hi
<1>d. Claimed' = Claimed /\ Holding \subseteq Consumer /\ Holding' \subseteq Holding
      /\ Holding' \ {c} = Holding \ {c}
  <2>1. Holding' \subseteq Consumer /\ Holding \subseteq Consumer
    BY DEF Holding
  <2> QED BY <1>1, <1>2, <1>b, <2>1 DEF Claimed
<1>e. \A d \in Int : NotCounted(d)' <=> NotCounted(d) /\ ~ (f <= d /\ d < x)
  <2> SUFFICES ASSUME NEW d \in Int PROVE NotCounted(d)' <=> NotCounted(d) /\ ~ (f <= d /\ d < x)
    OBVIOUS
  <2>1. PICK U : U <=> \E g \in Holding \ {c} : From(g) <= d /\ d < Hi(g)
    OBVIOUS
  <2>2. NotCounted(d) <=> Claimed <= d \/ U \/ (f <= d /\ d < z)
    BY <1>1, <1>7, <2>1 DEF NotCounted
  <2>3. NotCounted(d)' <=> Claimed <= d \/ U \/ (to # "idle" /\ x <= d /\ d < z)
    <3>1. \A g \in Holding \ {c} : From(g)' = From(g) /\ Hi(g)' = Hi(g)
      BY <1>b, <1>d
    <3>2. NotCounted(d)' <=> Claimed' <= d \/ \E g \in Holding' : From(g)' <= d /\ d < Hi(g)'
      BY DEF NotCounted
    <3> QED BY <1>c, <1>d, <2>1, <3>1, <3>2
  <2>4. to = "idle" => ~ (x <= d /\ d < z)
    BY <1>4, <1>7
  <2>5. Claimed <= d => ~ (f <= d /\ d < x)
    <3>1. Claimed \in Nat
      BY <1>0, Basics
    <3> QED BY <1>7, <3>1
  <2>6. U => ~ (f <= d /\ d < x)
    <3> SUFFICES ASSUME NEW g \in Holding \ {c}, From(g) <= d, d < Hi(g) PROVE ~ (f <= d /\ d < x)
      BY <2>1
    <3>1. Hi(g) <= f \/ z <= From(g)
      BY <1>0, <1>1, <1>7 DEF SharesInv
    <3>2. From(g) \in Nat /\ Hi(g) \in Nat
      BY <1>0, ReadersItems
    <3> QED BY <1>7, <3>1, <3>2
  <2>7. (f <= d /\ d < z) /\ ~ (f <= d /\ d < x) <=> (x <= d /\ d < z)
    BY <1>7
  <2> QED BY <2>2, <2>3, <2>4, <2>5, <2>6, <2>7
<1>f. \A d \in Int : Unread(d)' <=> Unread(d)
  <2> SUFFICES ASSUME NEW d \in Int PROVE Unread(d)' <=> Unread(d)
    OBVIOUS
  <2>1. PICK T1 : T1 <=> (Claimed <= d /\ d < Published + (IF ppc = "publish" THEN pl.n ELSE 0))
    OBVIOUS
  <2>2. PICK U : U <=> \E g \in Holding \ {c} : Lo(g) <= d /\ d < Hi(g)
    OBVIOUS
  <2>3. Unread(d) <=> T1 \/ U \/ (x <= d /\ d < z)
    BY <1>1, <1>7, <2>1, <2>2 DEF Unread
  <2>4. Unread(d)' <=> T1 \/ U \/ (to # "idle" /\ x <= d /\ d < z)
    <3>1. \A g \in Holding \ {c} : Lo(g)' = Lo(g) /\ Hi(g)' = Hi(g)
      BY <1>b, <1>d
    <3>2. Unread(d)' <=> T1 \/ \E g \in Holding' : Lo(g)' <= d /\ d < Hi(g)'
      BY <1>2, <1>a, <1>d, <2>1 DEF Unread
    <3> QED BY <1>c, <1>d, <2>2, <3>1, <3>2
  <2>5. to = "idle" => ~ (x <= d /\ d < z)
    BY <1>4, <1>7
  <2> QED BY <2>3, <2>4, <2>5
<1>g. /\ Left_(n)' = Left_(n) \ T
      /\ \A m \in Number : m # n => Left_(m)' = Left_(m)
  <2>1. \A m \in Number, k \in Place : NotCounted(ItemOf(m, k))'
            <=> NotCounted(ItemOf(m, k)) /\ ~ (f <= ItemOf(m, k) /\ ItemOf(m, k) < x)
    <3> SUFFICES ASSUME NEW m \in Number, NEW k \in Place
                 PROVE  NotCounted(ItemOf(m, k))'
                        <=> NotCounted(ItemOf(m, k)) /\ ~ (f <= ItemOf(m, k) /\ ItemOf(m, k) < x)
      OBVIOUS
    <3>1. PICK d \in Int : d = ItemOf(m, k)
      BY BlockNoIs, NumberFits
    <3>2. NotCounted(ItemOf(m, k))' <=> NotCounted(d)'
      BY <1>a, <3>1 DEF NotCounted
    <3> QED BY <1>e, <3>1, <3>2
  <2>2. \A m \in Number, k \in Place : m # n => ~ (f <= ItemOf(m, k) /\ ItemOf(m, k) < x)
    <3> SUFFICES ASSUME NEW m \in Number, NEW k \in Place, m # n
                 PROVE  ~ (f <= ItemOf(m, k) /\ ItemOf(m, k) < x)
      OBVIOUS
    <3>1. PICK d \in Int : d = ItemOf(m, k) /\ BlockNo(d) = m
      BY BlockNoIs, NumberFits
    <3> QED BY <1>6, <1>7, <3>1
  <2>3. \A m : Left_(m)' = {k \in Place : NotCounted(ItemOf(m, k))'}
    BY DEF Left_
  <2>4. Left_(n)' = Left_(n) \ T
    BY <1>5, <1>6, <1>7, <2>1, <2>3 DEF Left_
  <2>5. \A m \in Number : m # n => Left_(m)' = Left_(m)
    <3> SUFFICES ASSUME NEW m \in Number, m # n PROVE Left_(m)' = Left_(m)
      OBVIOUS
    <3>1. \A k \in Place : NotCounted(ItemOf(m, k))' <=> NotCounted(ItemOf(m, k))
      BY <2>1, <2>2
    <3> QED BY <2>3, <3>1 DEF Left_
  <2> QED BY <2>4, <2>5
<1>h. /\ N + Cardinality(Left_(n) \ T) = BLOCK_SIZE /\ N \in 0 .. BLOCK_SIZE
      /\ to = "drop" <=> Left_(n)' = {}
  <2>1. elementsCompletelyDequeued[b] + Cardinality(Left_(n)) = BLOCK_SIZE
    BY <1>0, <1>6, <1>8 DEF BlockInv
  <2>2. elementsCompletelyDequeued[b] \in 0 .. BLOCK_SIZE /\ BLOCK_SIZE \in Nat
    BY <1>0, <1>9, Numbers DEF TypeOK
  <2>3. PICK j \in Int : j = JustRead(cl[c]) /\ j >= 0
    <3>1. f = x - JustRead(cl[c])
      BY <1>1, <1>7 DEF From
    <3>2. Len(cl[c].items) \in Nat
      BY <1>1 DEF Reading
    <3>3. (Minus(cl[c].index, 1) % BLOCK_SIZE) + 1 \in Nat
      <4>1. cl[c].index \in Index /\ Wrap \in Nat \ {0} /\ BLOCK_SIZE \in Nat \ {0}
        BY <1>1, Numbers DEF Reading
      <4>2. cl[c].index - 1 \in Int
        BY <4>1 DEF Index
      <4>3. Minus(cl[c].index, 1) \in Int
        BY <4>1, <4>2, DivOf DEF Minus
      <4> QED BY <4>1, <4>3, DivOf
    <3> QED BY <3>2, <3>3 DEF JustRead, Fewer
  <2>4. PICK E \in Int, M \in Nat, C \in Nat :
          E = elementsCompletelyDequeued[b] /\ C = Cardinality(Left_(n)) /\ M = Cardinality(Left_(n) \ T)
    BY <1>6, <2>2
  <2>5. N = E + j /\ E + C = BLOCK_SIZE /\ C = M + j /\ 0 <= E
    BY <1>3, <1>6, <2>1, <2>2, <2>3, <2>4
  <2>6. N + M = BLOCK_SIZE /\ N \in 0 .. BLOCK_SIZE
    BY <2>2, <2>3, <2>4, <2>5
  <2>7. M = 0 <=> Left_(n) \ T = {}
    <3>1. IsFiniteSet(Left_(n) \ T)
      BY <1>6, FS_Difference
    <3> QED BY <2>4, <3>1, FS_EmptySet
  <2>8. N = BLOCK_SIZE <=> M = 0
    BY <2>2, <2>4, <2>6
  <2> QED BY <1>4, <1>g, <2>4, <2>6, <2>7, <2>8
<1>i. \A m \in Number : Dropping(m)' <=> Dropping(m) \/ (to = "drop" /\ m = n)
  <2> SUFFICES ASSUME NEW m \in Number PROVE Dropping(m)' <=> Dropping(m) \/ (to = "drop" /\ m = n)
    OBVIOUS
  <2>1. \A d \in Holding \ {c} : cpc'[d] = cpc[d] /\ BlockNo(Lo(d) - 1)' = BlockNo(Lo(d) - 1)
    BY <1>b, <1>d DEF BlockNo
  <2>2. to = "drop" => BlockNo(Lo(c) - 1)' = n
    BY <1>5, <1>7, <1>c DEF BlockNo
  <2>3. cpc[c] # "drop" /\ cpc'[c] = to
    BY <1>1, <1>b
  <2>4. Dropping(m)' <=> \E d \in Holding' : cpc'[d] = "drop" /\ BlockNo(Lo(d) - 1)' = m
    BY DEF Dropping
  <2> QED BY <1>c, <1>d, <2>1, <2>2, <2>3, <2>4 DEF Dropping
<1>j. \A m \in Number : Pend(m)' <=> Pend(m)
  <2> SUFFICES ASSUME NEW m \in Number PROVE Pend(m)' <=> Pend(m)
    OBVIOUS
  <2>1. Pend(m)' <=> Left_(m)' # {} \/ Dropping(m)'
    BY DEF Pend
  <2>2. CASE m = n
    <3>1. Pend(n)
      BY <1>6 DEF Pend
    <3>2. Left_(m)' = Left_(n)'
      BY <2>2 DEF Left_
    <3> QED BY <1>h, <1>i, <2>1, <2>2, <3>1, <3>2
  <2>3. CASE m # n
    BY <1>g, <1>i, <2>1, <2>3 DEF Pend
  <2> QED BY <2>2, <2>3
<1>k. /\ elementsCompletelyDequeued' \in [Block -> 0 .. BLOCK_SIZE] /\ elementsCompletelyDequeued'[b] = N
      /\ \A d \in Block : d # b => elementsCompletelyDequeued'[d] = elementsCompletelyDequeued[d]
  <2>1. elementsCompletelyDequeued' = [elementsCompletelyDequeued EXCEPT ![b] = N]
    BY <1>3, SetEmptyIs
  <2>2. elementsCompletelyDequeued \in [Block -> 0 .. BLOCK_SIZE]
    BY <1>0 DEF TypeOK
  <2> QED BY <1>9, <1>h, <2>1, <2>2
<1>l. TypeOK'
  BY <1>0, <1>2, <1>a, <1>k DEF TypeOK
<1>m. HeldInv'
  <2>1. \A m \in Number : Want(m)' <=> Want(m)
    BY <1>2, <1>a, <1>j DEF Want
  <2> QED BY <1>0, <1>2, <1>a, <2>1, KeepHeld
<1>n. \A d : Empty(d)' <=> Empty(d)
  BY <1>2 DEF Empty
<1>o. BlockInv'
  <2>1. ASSUME NEW m \in Number, NEW g \in Entries, Held(m, g)
        PROVE  /\ entries[g].value \notin free
               /\ elementsCompletelyDequeued'[entries[g].value] + Cardinality(Left_(m)') = BLOCK_SIZE
               /\ Filled(entries[g].value, m)'
    <3>1. PICK d : d = entries[g].value
      OBVIOUS
    <3>2. d \notin free /\ elementsCompletelyDequeued[d] + Cardinality(Left_(m)) = BLOCK_SIZE /\ Filled(d, m)
      BY <1>0, <2>1, <3>1 DEF BlockInv
    <3>3. d \in Block
      BY <1>0, <2>1, <3>1, HeldBlocks DEF Held
    <3>4. d = b <=> m = n
      BY <1>9, <2>1, <3>1
    <3>5. elementsCompletelyDequeued'[d] + Cardinality(Left_(m)') = BLOCK_SIZE
      <4>1. CASE m = n
        <5>1. Left_(m)' = Left_(n) \ T
          <6>1. Left_(m)' = Left_(n)'
            BY <4>1 DEF Left_
          <6> QED BY <1>g, <6>1
        <5> QED BY <1>h, <1>k, <3>4, <4>1, <5>1
      <4>2. CASE m # n
        BY <1>g, <1>k, <3>2, <3>3, <3>4, <4>2
      <4> QED BY <4>1, <4>2
    <3>6. Filled(d, m)'
      <4>1. \A k \in Place : Unread(ItemOf(m, k))' <=> Unread(ItemOf(m, k))
        <5> SUFFICES ASSUME NEW k \in Place PROVE Unread(ItemOf(m, k))' <=> Unread(ItemOf(m, k))
          OBVIOUS
        <5>1. PICK i \in Int : i = ItemOf(m, k)
          BY BlockNoIs, NumberFits
        <5>2. Unread(ItemOf(m, k))' <=> Unread(i)'
          BY <1>a, <5>1 DEF Unread
        <5> QED BY <1>f, <5>1, <5>2
      <4> QED BY <1>2, <1>a, <3>2, <4>1 DEF Filled
    <3>7. Filled(entries[g].value, m)' <=> Filled(d, m)'
      BY <1>2, <3>1 DEF Filled
    <3> QED BY <3>1, <3>2, <3>5, <3>6, <3>7
  <2>3. \A d \in free' : Empty(d)'
    BY <1>0, <1>2, <1>n DEF BlockInv
  <2>4. {cl[d].block : d \in {g \in Consumer : cpc[g] = "free"}}
            \subseteq {cl'[d].block : d \in {g \in Consumer : cpc'[g] = "free"}}
    BY <1>1, <1>b
  <2>5. Block \subseteq free' \cup Indexed' \cup {pl'.block} \cup {pl'.allocated[i] : i \in DOMAIN pl'.allocated}
                     \cup {cl'[d].block : d \in {g \in Consumer : cpc'[g] = "free"}}
    BY <1>0, <1>2, <1>a, <2>4 DEF BlockInv
  <2>6. \A m \in Number', g \in Entries' : Held(m, g)' =>
          /\ entries'[g].value \notin free'
          /\ elementsCompletelyDequeued'[entries'[g].value] + Cardinality(Left_(m)') = BLOCK_SIZE
          /\ Filled(entries[g].value, m)'
    BY <1>2, <1>a, <2>1
  <2> QED BY <2>3, <2>5, <2>6 DEF BlockInv
<1>p. HandInv' /\ AllocatedInv' /\ TailInv'
  <2>1. HandInv'
    <3>1. pl.block # null => pl.block \in Block
      BY <1>0 DEF TypeOK
    <3> QED BY <1>0, <1>2, <1>9, <1>a, <1>k, <1>n, <3>1 DEF HandInv
  <2>2. AllocatedInv'
    BY <1>0, <1>2, <1>a, <1>n DEF AllocatedInv
  <2>3. \A g : (Held(LastNo, g)' <=> Held(LastNo, g)) /\ (Held(LastNo + NeededNo, g)' <=> Held(LastNo + NeededNo, g))
    BY <1>2, <1>a DEF Held, Has, KeyOf
  <2>4. Pend(LastNo)' <=> Pend(LastNo)
    <3>1. PICK m \in Number : m = LastNo
      BY <1>0, Basics
    <3>2. Pend(LastNo)' <=> Pend(m)'
      BY <1>a, <3>1 DEF Pend, Left_, Dropping
    <3> QED BY <1>j, <3>1, <3>2
  <2>5. TailInv'
    BY <1>0, <1>2, <1>a, <2>3, <2>4 DEF TailInv
  <2> QED BY <2>1, <2>2, <2>5
<1>q. SharesInv'
  <2>1. ASSUME NEW d \in Holding \ {c}, c \in Holding' PROVE Hi(d)' <= From(c)' \/ Hi(c)' <= From(d)'
    <3>1. Hi(d) <= f \/ z <= From(d)
      BY <1>0, <1>1, <1>7 DEF SharesInv
    <3>2. From(d) \in Nat /\ Hi(d) \in Nat
      BY <1>0, ReadersItems
    <3>3. Hi(d)' = Hi(d) /\ From(d)' = From(d) /\ From(c)' = x /\ Hi(c)' = z
      BY <1>b, <1>c, <1>d, <2>1
    <3> QED BY <1>7, <3>1, <3>2, <3>3
  <2>2. ASSUME NEW d \in Holding \ {c}, c \in Holding', cpc'[c] = "drop", cpc'[d] = "drop"
        PROVE  BlockNo(Lo(c) - 1)' # BlockNo(Lo(d) - 1)'
    <3>1. cpc[d] = "drop" /\ BlockNo(Lo(d) - 1)' = BlockNo(Lo(d) - 1)
      BY <1>b, <1>d, <2>2 DEF BlockNo
    <3>2. BlockNo(Lo(c) - 1)' = n
      BY <1>5, <1>7, <1>c, <2>2 DEF BlockNo
    <3>3. ConsumerInv(d)
      BY <1>0
    <3>4. PICK m : m = BlockNo(Lo(d) - 1)
      OBVIOUS
    <3>5. Left_(m) = {}
      BY <3>1, <3>3, <3>4 DEF ConsumerInv
    <3>6. m # n
      BY <1>6, <3>5
    <3> QED BY <3>1, <3>2, <3>4, <3>6
  <2>3. cpc'[c] # "free"
    BY <1>4, <1>b
  <2>4. \A d \in Holding \ {c} : /\ cpc'[d] = cpc[d] /\ cl'[d] = cl[d] /\ Hi(d)' = Hi(d) /\ From(d)' = From(d)
                                 /\ BlockNo(Lo(d) - 1)' = BlockNo(Lo(d) - 1)
    BY <1>b, <1>d DEF BlockNo
  <2> SUFFICES ASSUME NEW d1 \in Holding', NEW d2 \in Holding', d1 # d2
               PROVE  /\ Hi(d1)' <= From(d2)' \/ Hi(d2)' <= From(d1)'
                      /\ cpc'[d1] = "drop" /\ cpc'[d2] = "drop" => BlockNo(Lo(d1) - 1)' # BlockNo(Lo(d2) - 1)'
                      /\ cpc'[d1] = "free" /\ cpc'[d2] = "free" => cl'[d1].block # cl'[d2].block
    BY DEF SharesInv
  <2>5. CASE d1 = c
    <3>1. d2 \in Holding \ {c}
      BY <1>d, <2>5
    <3> QED BY <2>1, <2>2, <2>3, <2>5, <3>1
  <2>6. CASE d2 = c
    <3>1. d1 \in Holding \ {c}
      BY <1>d, <2>6
    <3> QED BY <2>1, <2>2, <2>3, <2>6, <3>1
  <2>7. CASE d1 # c /\ d2 # c
    <3>1. d1 \in Holding \ {c} /\ d2 \in Holding \ {c}
      BY <1>d, <2>7
    <3>2. /\ Hi(d1) <= From(d2) \/ Hi(d2) <= From(d1)
          /\ cpc[d1] = "drop" /\ cpc[d2] = "drop" => BlockNo(Lo(d1) - 1) # BlockNo(Lo(d2) - 1)
          /\ cpc[d1] = "free" /\ cpc[d2] = "free" => cl[d1].block # cl[d2].block
      BY <1>0, <3>1 DEF SharesInv
    <3> QED BY <2>4, <3>1, <3>2
  <2> QED BY <2>5, <2>6, <2>7
<1>r. \A d \in Holding' \ {c} : ConsumerInv(d)'
  <2>1. Claimed <= Claimed' /\ Claimed' \in Int
    BY <1>0, <1>d, Basics
  <2>3. \A m \in Int : Left_(m) = {} => Left_(m)' = {}
    <3> SUFFICES ASSUME NEW m \in Int, NEW k \in Place, NotCounted(ItemOf(m, k))' PROVE NotCounted(ItemOf(m, k))
      BY DEF Left_
    <3>1. PICK d \in Int : d = ItemOf(m, k)
      BY BlockNoIs
    <3>2. NotCounted(ItemOf(m, k))' <=> NotCounted(d)'
      BY <1>a, <3>1 DEF NotCounted
    <3> QED BY <1>e, <3>1, <3>2
  <2>2. \A d \in Holding \ {c} : cpc[d] = "free" =>
            /\ cl[d].block \in Block \ (free' \cup Indexed' \cup {pl'.block}) /\ Empty(cl[d].block)'
            /\ \A i \in DOMAIN pl'.allocated : pl'.allocated[i] # cl[d].block
    <3> SUFFICES ASSUME NEW d \in Holding \ {c}, cpc[d] = "free"
                 PROVE  /\ cl[d].block \in Block \ (free' \cup Indexed' \cup {pl'.block}) /\ Empty(cl[d].block)'
                        /\ \A i \in DOMAIN pl'.allocated : pl'.allocated[i] # cl[d].block
      OBVIOUS
    <3>0. ConsumerInv(d)
      BY <1>0
    <3>1. /\ cl[d].block \in Block \ (free \cup Indexed \cup {pl.block}) /\ Empty(cl[d].block)
          /\ \A i \in DOMAIN pl.allocated : pl.allocated[i] # cl[d].block
      BY <3>0 DEF ConsumerInv
    <3>2. cl'[d] = cl[d]
      BY <1>b, <1>d
    <3>5. Empty(cl[d].block)'
      BY <1>2, <3>1, <3>2 DEF Empty
    <3> QED BY <1>2, <1>a, <3>1, <3>5
  <2> QED BY <1>2, <1>4, <1>a, <2>1, <2>2, <2>3, OthersKept
<1>s. to = "entry" => ConsumerInv(c)'
  <2> SUFFICES ASSUME to = "entry" PROVE ConsumerInv(c)'
    OBVIOUS
  <2>1. UNCHANGED <<start, tailIndex, headIndex, index, ppc, pl>>
    BY <1>2 DEF index
  <2> QED BY <1>1, <1>4, <2>1, NextEntryInv
<1>t. to = "drop" => ConsumerInv(c)'
  <2> SUFFICES ASSUME to = "drop" PROVE ConsumerInv(c)'
    OBVIOUS
  <2>1. /\ Reading' = Reading /\ Claimed' = Claimed
        /\ \A g : Caps(g)' = Caps(g)
        /\ \A g, pos : Entry(g, pos)' = Entry(g, pos)
    BY <1>2, <1>d DEF Reading, Caps, capacity, Entry
  <2>2. \A d \in x .. z - 1 : Positioned(h, BlockNo(d))'
    <3> SUFFICES ASSUME NEW d \in x .. z - 1 PROVE Positioned(h, BlockNo(d))'
      OBVIOUS
    <3>1. PICK m : m = BlockNo(d)
      OBVIOUS
    <3>2. Positioned(h, m)
      <4>1. d \in f .. z - 1
        BY <1>7
      <4> QED BY <1>8, <3>1, <4>1
    <3>3. Positioned(h, BlockNo(d))' <=> Positioned(h, m)'
      BY <1>a, <3>1 DEF Positioned, Held, Has, KeyOf
    <3>4. Positioned(h, m)' <=> Positioned(h, m)
      BY <1>2, <1>a, <2>1 DEF Positioned
    <3> QED BY <3>2, <3>3, <3>4
  <2>3. InPhase(h, p, n)'
    BY <1>2, <1>8, <1>a DEF InPhase, Has, KeyOf, capacity, Caps
  <2>4. BlockNo(Lo(c) - 1)' = n
    BY <1>5, <1>7, <1>c DEF BlockNo
  <2>5. Held(n, Entry(h, p))' /\ b = entries'[Entry(h, p)'].value
    <3>1. Entry(h, p)' = e
      BY <1>3, <2>1
    <3>2. Held(n, Entry(h, p))' <=> Held(n, e)'
      BY <3>1 DEF Held, Has
    <3> QED BY <1>2, <1>8, <1>a, <3>1, <3>2
  <2>6. Left_(n)' = {}
    BY <1>h
  <2>7. /\ cl'[c] = cl[c] /\ cpc'[c] = "drop" /\ Lo(c)' = x /\ Hi(c)' = z /\ From(c)' = x
        /\ headers' = headers /\ cl[c].header = h /\ cl[c].pos = p /\ cl[c].block = b
    BY <1>2, <1>3, <1>4, <1>b, <1>c
  <2>8. 0 <= x /\ x <= z /\ z <= Claimed /\ x > 0
    BY <1>7
  <2>9. /\ cl[c] \in Reading /\ cl[c].items # <<>>
        /\ x < z => x % BLOCK_SIZE = 0
    BY <1>1, <1>7 DEF ConsumerInv
  <2>a. Left_(BlockNo(Lo(c) - 1))' = {}
    BY <1>a, <2>4, <2>6 DEF Left_
  <2> QED BY <1>8, <2>1, <2>2, <2>3, <2>4, <2>5, <2>7, <2>8, <2>9, <2>a DEF ConsumerInv
<1>u. \A d \in Holding' : ConsumerInv(d)'
  BY <1>4, <1>c, <1>r, <1>s, <1>t
<1>v. ppc' # "destroyed"
  BY <1>0, <1>2
<1> QED BY <1>a, <1>l, <1>m, <1>o, <1>p, <1>q, <1>u, <1>v DEF Living, IInv, ProducerInv

\* An entry that is dropped is not one that somebody still looks for.
LEMMA DroppedIs ==
  ASSUME Settings, Fit, Living, NEW c \in Holding, cpc[c] = "drop", NEW n, n = BlockNo(Lo(c) - 1),
         NEW e, e = Entry(cl[c].header, cl[c].pos), NEW b, b = cl[c].block
  PROVE  /\ n \in Number /\ n <= LastNo /\ Left_(n) = {}
         /\ e \in Entries /\ Held(n, e) /\ b = entries[e].value /\ Empty(b)
         /\ \A d \in Int : NotCounted(d) => BlockNo(d) # n
         /\ ppc = "publish" => LastNo + NeededNo # n
         /\ \A i \in DOMAIN pl.allocated : pl.allocated[i] # b
         /\ \A d \in Holding \ {c} : cpc[d] = "drop" => BlockNo(Lo(d) - 1) # n
<1>0. /\ TypeOK /\ HeldInv /\ BlockInv /\ ConsumerInv(c) /\ EnqueueInv /\ ProducerInv /\ SharesInv
      /\ cl[c] \in Reading
  BY LivingParts DEF ProducerInv, ConsumerInv
<1>1. Left_(n) = {} /\ Held(n, e) /\ b = entries[e].value /\ cl[c].header \in DOMAIN headers
  BY <1>0 DEF ConsumerInv
<1>2. e \in Entries
  BY <1>0, <1>1, HeaderIs DEF Reading
<1>3. n \in Number /\ n <= LastNo
  <2>1. Lo(c) \in Nat /\ Lo(c) > 0 /\ Lo(c) <= Hi(c) /\ Hi(c) \in Nat /\ Hi(c) <= Claimed
    BY <1>0, ReadersItems DEF ConsumerInv
  <2>2. Claimed \in Nat /\ Claimed <= Published /\ Published <= MaxItems /\ Published \in Nat /\ MaxItems \in Nat
    BY <1>0, Basics, Numbers
  <2>3. PICK d \in Int : d = Lo(c) - 1 /\ 0 <= d /\ d <= Published - 1 /\ d <= MaxItems /\ Published - 1 \in Int
    BY <2>1, <2>2
  <2> QED BY <2>3, BlockNoUp DEF LastNo
<1>4. \A d \in Int : NotCounted(d) => BlockNo(d) # n
  <2> SUFFICES ASSUME NEW d \in Int, NotCounted(d), BlockNo(d) = n PROVE FALSE
    OBVIOUS
  <2>1. d % BLOCK_SIZE \in Place /\ ItemOf(BlockNo(d), d % BLOCK_SIZE) = d
    BY BlockNoIs
  <2>2. d % BLOCK_SIZE \in Left_(n)
    BY <2>1 DEF Left_
  <2> QED BY <1>1, <2>2
<1>5. Empty(b)
  <2>1. Filled(b, n)
    BY <1>0, <1>1, <1>2, <1>3 DEF BlockInv
  <2>2. \A k \in Place : ~Unread(ItemOf(n, k))
    <3> SUFFICES ASSUME NEW k \in Place, Unread(ItemOf(n, k)) PROVE FALSE
      OBVIOUS
    <3>1. PICK d \in Int : d = ItemOf(n, k) /\ BlockNo(d) = n
      BY <1>3, BlockNoIs, NumberFits
    <3>2. \A g \in Holding : From(g) \in Nat /\ Lo(g) \in Nat /\ From(g) <= Lo(g)
      BY <1>0, LivingParts, ReadersItems
    <3>3. NotCounted(d)
      BY <3>1, <3>2 DEF Unread, NotCounted
    <3> QED BY <1>4, <3>1, <3>3
  <2> QED BY <2>1, <2>2 DEF Filled, Empty
<1>6. ASSUME ppc = "publish" PROVE LastNo + NeededNo # n
  <2>1. pl.n \in Nat \ {0} /\ LastNo + NeededNo = BlockNo(Published + pl.n - 1)
    BY <1>0, <1>6, CallIs
  <2>2. Published \in Nat /\ Claimed \in Nat /\ Claimed <= Published
    BY <1>0, Basics
  <2>3. PICK d \in Int : d = Published + pl.n - 1 /\ Claimed <= d
    BY <2>1, <2>2
  <2> QED BY <1>4, <2>1, <2>3 DEF NotCounted
<1>7. \A i \in DOMAIN pl.allocated : pl.allocated[i] # b
  <2> SUFFICES ASSUME NEW i \in DOMAIN pl.allocated, pl.allocated[i] = b PROVE FALSE
    OBVIOUS
  <2>1. Kept(i)
    BY <1>1, <1>2, <1>3, OneBlock
  <2>2. /\ i \in Nat \ {0} /\ i <= Len(pl.allocated) /\ Len(pl.allocated) \in Nat
    BY <1>0 DEF TypeOK
  <2>3. ppc # "idle"
    <3> SUFFICES ASSUME ppc = "idle" PROVE FALSE
      OBVIOUS
    <3>1. pl.allocated = <<>>
      BY <1>0 DEF EnqueueInv, NoEnqueue
    <3> QED BY <3>1
  <2>4. NeededNo \in Nat /\ LastNo + NeededNo \in Number /\ Len(pl.allocated) <= NeededNo
    BY <1>0, <2>3, CallIs
  <2>5. PICK m \in Number : m = LastNo + i /\ m > LastNo /\ m - LastNo = i
    <3>1. LastNo \in Number /\ LastNo \in Nat /\ Number = 0 .. BlockNo(MaxItems) /\ BlockNo(MaxItems) \in Nat
      BY <1>0, Basics, NumberFits DEF Number
    <3>2. LastNo + i \in Number
      BY <2>2, <2>4, <3>1
    <3>3. LastNo + i > LastNo /\ (LastNo + i) - LastNo = i
      BY <2>2, <3>1
    <3> QED BY <3>2, <3>3
  <2>6. Want(m)
    BY <2>1, <2>5 DEF Want
  <2>7. PICK f \in Entries : Held(m, f)
    BY <1>0, <2>6 DEF HeldInv
  <2>8. entries[f].value = b
    BY <1>0, <2>5, <2>7 DEF HeldInv
  <2>9. m = n
    BY <1>1, <1>2, <1>3, <2>7, <2>8, OneBlock
  <2> QED BY <1>3, <2>5, <2>9, NumberFits, Basics, <1>0
<1>8. \A d \in Holding \ {c} : cpc[d] = "drop" => BlockNo(Lo(d) - 1) # n
  BY <1>0 DEF SharesInv
<1> QED BY <1>1, <1>2, <1>3, <1>4, <1>5, <1>6, <1>7, <1>8

LEMMA DropEntryKept ==
  ASSUME Settings, Fit, Living, NEW c \in Consumer, DropEntry(c)
  PROVE  Living'
<1>0. /\ TypeOK /\ HeadersInv /\ RingInv /\ PhaseInv /\ HeldInv /\ BlockInv /\ EnqueueInv /\ HandInv
      /\ AllocatedInv /\ TailInv /\ SharesInv
      /\ (\A d \in Holding : ConsumerInv(d)) /\ ppc # "destroyed" /\ null \notin Block /\ start \in Starts
  BY LivingParts, Numbers DEF ProducerInv, Living, TypeOK
<1>1. cpc[c] = "drop" /\ c \in Holding /\ ConsumerInv(c) /\ cl[c] \in Reading
  <2>1. cpc[c] = "drop" /\ c \in Holding
    BY DEF DropEntry, CAt, Holding, Places
  <2> QED BY <1>0, <2>1 DEF ConsumerInv
<1>2. UNCHANGED <<start, tailIndex, headIndex, headers, slots, elementsCompletelyDequeued, free, tailBlock, ppc, pl, cl>>
  BY DEF DropEntry, counts, blocks
<1>3. PICK b, h, p, e : b = cl[c].block /\ h = cl[c].header /\ p = cl[c].pos /\ e = Entry(h, p)
  OBVIOUS
<1>4. PICK n : n = BlockNo(Lo(c) - 1)
  OBVIOUS
<1>5. /\ n \in Number /\ n <= LastNo /\ Left_(n) = {}
      /\ e \in Entries /\ Held(n, e) /\ b = entries[e].value /\ Empty(b)
      /\ \A d \in Int : NotCounted(d) => BlockNo(d) # n
      /\ ppc = "publish" => LastNo + NeededNo # n
      /\ \A i \in DOMAIN pl.allocated : pl.allocated[i] # b
      /\ \A d \in Holding \ {c} : cpc[d] = "drop" => BlockNo(Lo(d) - 1) # n
  BY <1>1, <1>3, <1>4, DroppedIs
<1>6. /\ b \in Block \ free /\ b \in Indexed /\ b # pl.block
      /\ \A m \in Number, f \in Entries : Held(m, f) => (entries[f].value = b <=> m = n)
      /\ \A d \in Holding : cpc[d] = "free" => cl[d].block # b
  BY <1>5, OneBlock
<1>7. /\ Entries' = Entries /\ entries' \in Seq(EntryType)
      /\ \A f \in Entries : entries'[f].key = entries[f].key
      /\ \A f \in Entries \ {e} : entries'[f] = entries[f]
      /\ entries'[e].value = null
  <2>1. entries \in Seq(EntryType)
    BY <1>0 DEF TypeOK
  <2>2. entries' = [entries EXCEPT ![e].value = null]
    BY <1>3 DEF DropEntry
  <2>3. PICK r : r = [entries[e] EXCEPT !.value = null]
    OBVIOUS
  <2>4. entries[e] \in EntryType /\ e \in DOMAIN entries
    BY <1>5, <2>1 DEF Entries
  <2>5. r \in EntryType /\ r.key = entries[e].key /\ r.value = null
    BY <2>3, <2>4 DEF EntryType
  <2>6. entries' = [entries EXCEPT ![e] = r]
    BY <2>2, <2>3
  <2> QED BY <2>1, <2>4, <2>5, <2>6 DEF Entries
<1>8. /\ LastNo' = LastNo /\ Published' = Published /\ Claimed' = Claimed /\ NeededNo' = NeededNo /\ Number' = Number
      /\ Low' = Low /\ Extra' = Extra /\ Top' = Top /\ Top \in Int
      /\ Header' = Header /\ EntryType' = EntryType
      /\ \A i : Kept(i)' <=> Kept(i)
      /\ \A d : BlockNo(d)' = BlockNo(d) /\ At(d)' = At(d)
      /\ \A m, k : ItemOf(m, k)' = ItemOf(m, k)
      /\ \A m : KeyOf(m)' = KeyOf(m)
  <2>1. LastNo' = LastNo /\ Published' = Published /\ Claimed' = Claimed /\ Number' = Number
    BY <1>2 DEF LastNo, Published, Claimed, Number, BlockNo
  <2>2. NeededNo' = NeededNo /\ Low' = Low /\ Extra' = Extra
    BY <1>2, <2>1 DEF NeededNo, Low, Extra, BlockNo
  <2>3. Top \in Int
    BY <1>0, Basics
  <2> QED BY <1>2, <1>7, <2>1, <2>2, <2>3 DEF Top, Header, EntryType, Kept, BlockNo, At, ItemOf, KeyOf
<1>9. SameKeys /\ SameTables
  BY <1>2, <1>7 DEF SameKeys, SameTables, L
<1>a. HeadersInv' /\ PhaseInv'
      /\ \A g \in DOMAIN headers : \A pos, m : InPhase(g, pos, m) => InPhase(g, pos, m)'
  <2>1. HeadersInv'
    BY <1>0, <1>2, <1>7, KeepTables
  <2> QED BY <1>0, <1>2, <1>9, <2>1, KeepPhase
<1>b. RingInv'
  <2>1. PICK v, w \in Number : Ring(v, w)
    BY <1>0 DEF RingInv
  <2>2. \A k : EntryOf(k)' = EntryOf(k) /\ capacity(L)' = capacity(L)
    BY <1>2, <1>8, KeepPlaces
  <2>3. \A k \in Int : EntryOf(k) \in Entries
    BY <1>0, <1>8, EntriesOf
  <2>4. \A k \in Int : (Has(EntryOf(k), k)' <=> Has(EntryOf(k), k)) /\ (Valid(EntryOf(k))' <=> Valid(EntryOf(k)))
    BY <1>7, <1>8, <2>2, <2>3 DEF Has, Valid
  <2>5. w - capacity(L) + 1 .. w \subseteq Int
    OBVIOUS
  <2>6. Ring(v, w)'
    BY <1>2, <1>8, <2>1, <2>2, <2>4, <2>5 DEF Ring
  <2> QED BY <1>8, <2>1, <2>6 DEF RingInv
<1>c. \A m \in Number, f \in Entries : Held(m, f)' <=> Held(m, f) /\ m # n
  <2> SUFFICES ASSUME NEW m \in Number, NEW f \in Entries PROVE Held(m, f)' <=> Held(m, f) /\ m # n
    OBVIOUS
  <2>1. CASE f = e
    <3>1. ~Held(m, f)'
      BY <1>7, <2>1 DEF Held
    <3>2. Held(m, f) => m = n
      BY <1>5, <1>6, <2>1
    <3> QED BY <3>1, <3>2
  <2>2. CASE f # e
    <3>1. Held(m, f)' <=> Held(m, f)
      BY <1>7, <1>8, <2>2 DEF Held, Has
    <3>2. Held(m, f) => m # n
      <4> SUFFICES ASSUME Held(m, f), m = n PROVE FALSE
        OBVIOUS
      <4>1. entries[f].value = b /\ entries[f].value # null
        BY <1>6 DEF Held
      <4> QED BY <1>0, <1>5, <2>2, <4>1 DEF HeldInv
    <3> QED BY <3>1, <3>2
  <2> QED BY <2>1, <2>2
<1>d. /\ Indexed' \subseteq Indexed /\ b \notin Indexed' /\ Indexed \subseteq Indexed' \cup {b}
  <2>1. Indexed' = {entries'[f].value : f \in Entries} \ {null}
    BY <1>7 DEF Indexed
  <2>2. b # null
    BY <1>5 DEF Held
  <2>3. \A f \in Entries \ {e} : entries[f].value # b
    BY <1>0, <1>5, <2>2 DEF HeldInv
  <2> QED BY <1>5, <1>7, <2>1, <2>3 DEF Indexed
<1>e. /\ cpc'[c] = "free" /\ cl' = cl
      /\ \A d \in Consumer \ {c} : cpc'[d] = cpc[d]
      /\ \A d \in Consumer : Lo(d)' = Lo(d) /\ Hi(d)' = Hi(d) /\ From(d)' = From(d)
      /\ \A d \in Consumer : d \in Holding' <=> d \in Holding
      /\ CGoto(c, "free") /\ CSet(c, cl[c])
  <2>1. CGoto(c, "free") /\ cl' = cl
    BY DEF DropEntry
  <2>2. cpc \in [Consumer -> CountPlaces \cup OtherPlaces] /\ cl = [d \in Consumer |-> cl[d]]
    BY DEF Fit, CountsType
  <2>3. cpc'[c] = "free" /\ \A d \in Consumer \ {c} : cpc'[d] = cpc[d]
    BY <2>1, <2>2 DEF CGoto
  <2>4. \A d \in Consumer : Lo(d)' = Lo(d) /\ Hi(d)' = Hi(d)
    BY <1>2, <2>1 DEF Lo, Hi, Dist
  <2>5. \A d \in Consumer : From(d)' = From(d)
    <3> SUFFICES ASSUME NEW d \in Consumer PROVE From(d)' = From(d)
      OBVIOUS
    <3>1. JustRead(cl[d])' = JustRead(cl[d])
      BY <2>1
    <3>2. cpc'[d] = "empty" <=> cpc[d] = "empty"
      BY <1>1, <2>3
    <3> QED BY <2>1, <2>4, <3>1, <3>2 DEF From
  <2>6. \A d \in Consumer : d \in Holding' <=> d \in Holding
    BY <1>1, <2>3 DEF Holding, Places
  <2>7. CSet(c, cl[c])
    BY <2>1, <2>2 DEF CSet
  <2> QED BY <2>1, <2>3, <2>4, <2>5, <2>6, <2>7
<1>f. Holding' = Holding /\ Holding \subseteq Consumer
  <2>1. Holding' \subseteq Consumer /\ Holding \subseteq Consumer
    BY DEF Holding
  <2> QED BY <1>e, <2>1
<1>g. /\ \A d : NotCounted(d)' <=> NotCounted(d)
      /\ \A d : Unread(d)' <=> Unread(d)
      /\ \A m : Left_(m)' = Left_(m)
  <2>1. \A d : NotCounted(d)' <=> NotCounted(d)
    BY <1>8, <1>e, <1>f DEF NotCounted
  <2>2. \A d : Unread(d)' <=> Unread(d)
    BY <1>2, <1>8, <1>e, <1>f DEF Unread
  <2>3. \A m : Left_(m)' = Left_(m)
    BY <1>8, <2>1 DEF Left_
  <2> QED BY <2>1, <2>2, <2>3
<1>h. \A m \in Number : Dropping(m)' <=> Dropping(m) /\ m # n
  <2>1. \A d \in Holding : BlockNo(Lo(d) - 1)' = BlockNo(Lo(d) - 1)
    BY <1>e, <1>f DEF BlockNo
  <2>2. \A m : Dropping(m)' <=> \E d \in Holding : cpc'[d] = "drop" /\ BlockNo(Lo(d) - 1) = m
    BY <1>f, <2>1 DEF Dropping
  <2>3. \A d \in Holding : cpc'[d] = "drop" <=> cpc[d] = "drop" /\ d # c
    BY <1>e, <1>f
  <2> QED BY <1>1, <1>4, <1>5, <2>2, <2>3 DEF Dropping
<1>i. \A m \in Number : Pend(m)' <=> Pend(m) /\ m # n
  BY <1>5, <1>g, <1>h DEF Pend
<1>j. \A m \in Number : Want(m)' <=> Want(m) /\ m # n
  <2> SUFFICES ASSUME NEW m \in Number PROVE Want(m)' <=> Want(m) /\ m # n
    OBVIOUS
  <2>1. n \in Int /\ LastNo \in Int /\ m \in Int
    BY <1>0, <1>5, Basics, NumberFits
  <2> QED BY <1>2, <1>5, <1>8, <1>i, <2>1 DEF Want
<1>k. HeldInv'
  <2>1. \A f \in Entries : entries'[f].value # null => \E m \in Number : Has(f, m)' /\ Want(m)'
    <3> SUFFICES ASSUME NEW f \in Entries, entries'[f].value # null PROVE \E m \in Number : Has(f, m)' /\ Want(m)'
      OBVIOUS
    <3>1. f # e /\ entries[f].value # null
      BY <1>7
    <3>2. PICK m \in Number : Has(f, m) /\ Want(m)
      BY <1>0, <3>1 DEF HeldInv
    <3>3. Held(m, f)
      BY <3>1, <3>2 DEF Held
    <3>4. Held(m, f)'
      BY <1>7, <1>8, <3>1, <3>3 DEF Held, Has
    <3> QED BY <1>c, <1>j, <3>2, <3>4 DEF Held
  <2>2. \A m \in Number : Want(m)' => \E f \in Entries : Held(m, f)'
    BY <1>0, <1>c, <1>j DEF HeldInv
  <2>3. \A m \in Number, f \in Entries : Held(m, f)' /\ m > LastNo => entries'[f].value = pl.allocated[m - LastNo]
    <3> SUFFICES ASSUME NEW m \in Number, NEW f \in Entries, Held(m, f)', m > LastNo
                 PROVE  entries'[f].value = pl.allocated[m - LastNo]
      OBVIOUS
    <3>1. Held(m, f) /\ f # e
      BY <1>7, <1>c DEF Held
    <3>2. entries[f].value = pl.allocated[m - LastNo]
      BY <1>0, <3>1 DEF HeldInv
    <3> QED BY <1>7, <3>1, <3>2
  <2>4. \A f, g \in Entries : entries'[f].value = entries'[g].value /\ entries'[f].value # null => f = g
    <3> SUFFICES ASSUME NEW f \in Entries, NEW g \in Entries, entries'[f].value = entries'[g].value,
                        entries'[f].value # null
                 PROVE  f = g
      OBVIOUS
    <3>1. f # e /\ g # e
      BY <1>7
    <3> QED BY <1>0, <1>7, <3>1 DEF HeldInv
  <2> QED BY <1>2, <1>7, <1>8, <2>1, <2>2, <2>3, <2>4 DEF HeldInv
<1>l. TypeOK'
  BY <1>0, <1>2, <1>7, <1>8 DEF TypeOK
<1>m. \A d : Empty(d)' <=> Empty(d)
  BY <1>2 DEF Empty
<1>n. BlockInv'
  <2>1. ASSUME NEW m \in Number, NEW f \in Entries, Held(m, f)'
        PROVE  /\ entries'[f].value \notin free
               /\ elementsCompletelyDequeued[entries'[f].value] + Cardinality(Left_(m)) = BLOCK_SIZE
               /\ Filled(entries[f].value, m)'
               /\ entries'[f].value = entries[f].value
    <3>1. Held(m, f) /\ f # e
      BY <1>7, <1>c, <2>1 DEF Held
    <3>2. PICK d : d = entries[f].value /\ d = entries'[f].value
      BY <1>7, <3>1
    <3>3. d \notin free /\ elementsCompletelyDequeued[d] + Cardinality(Left_(m)) = BLOCK_SIZE /\ Filled(d, m)
      BY <1>0, <3>1, <3>2 DEF BlockInv
    <3>4. Filled(d, m)'
      <4>1. \A k \in Place : Unread(ItemOf(m, k))' <=> Unread(ItemOf(m, k))
        <5> SUFFICES ASSUME NEW k \in Place PROVE Unread(ItemOf(m, k))' <=> Unread(ItemOf(m, k))
          OBVIOUS
        <5>1. PICK i : i = ItemOf(m, k)
          OBVIOUS
        <5>2. Unread(ItemOf(m, k))' <=> Unread(i)'
          BY <1>8, <5>1 DEF Unread
        <5> QED BY <1>g, <5>1, <5>2
      <4> QED BY <1>2, <1>8, <3>3, <4>1 DEF Filled
    <3>5. Filled(entries[f].value, m)' <=> Filled(d, m)'
      BY <3>2 DEF Filled
    <3> QED BY <3>2, <3>3, <3>4, <3>5
  <2>2. \A d \in free' : Empty(d)'
    BY <1>0, <1>2, <1>m DEF BlockInv
  <2>3. {cl[d].block : d \in {g \in Consumer : cpc[g] = "free"}} \cup {b}
            \subseteq {cl'[d].block : d \in {g \in Consumer : cpc'[g] = "free"}}
    BY <1>1, <1>3, <1>e
  <2>4. Block \subseteq free' \cup Indexed' \cup {pl'.block} \cup {pl'.allocated[i] : i \in DOMAIN pl'.allocated}
                     \cup {cl'[d].block : d \in {g \in Consumer : cpc'[g] = "free"}}
    BY <1>0, <1>2, <1>d, <2>3 DEF BlockInv
  <2>5. \A m \in Number', f \in Entries' : Held(m, f)' =>
          /\ entries'[f].value \notin free'
          /\ elementsCompletelyDequeued'[entries'[f].value] + Cardinality(Left_(m)') = BLOCK_SIZE
          /\ Filled(entries[f].value, m)'
    BY <1>2, <1>7, <1>8, <1>g, <2>1
  <2> QED BY <2>2, <2>4, <2>5 DEF BlockInv
<1>o. EnqueueInv' /\ HandInv' /\ AllocatedInv'
  <2>1. EnqueueInv'
    BY <1>0, <1>2, <1>8 DEF EnqueueInv
  <2>2. HandInv' /\ AllocatedInv'
    BY <1>0, <1>2, <1>8, <1>d, <1>m DEF HandInv, AllocatedInv
  <2> QED BY <2>1, <2>2
<1>p. TailInv'
  <2>1. PICK m, k : m = LastNo /\ k = LastNo + NeededNo
    OBVIOUS
  <2>2. ASSUME ppc # "publish", m >= InitialSize, Pend(LastNo)'
        PROVE  \E f \in Entries' : Held(LastNo, f)' /\ entries'[f].value = tailBlock'
    <3>1. m \in Number
      BY <1>0, <2>1, Basics
    <3>2. Pend(m)'
      BY <1>8, <2>1, <2>2 DEF Pend, Left_, Dropping
    <3>3. Pend(m) /\ m # n
      BY <1>i, <3>1, <3>2
    <3>4. PICK f \in Entries : Held(m, f) /\ entries[f].value = tailBlock
      BY <1>0, <2>1, <2>2, <3>3 DEF TailInv
    <3>5. Held(m, f)' /\ entries'[f].value = tailBlock'
      BY <1>2, <1>7, <1>c, <3>1, <3>3, <3>4 DEF Held
    <3>6. Held(LastNo, f)' <=> Held(m, f)'
      BY <1>8, <2>1 DEF Held, Has, KeyOf
    <3> QED BY <1>7, <3>4, <3>5, <3>6
  <2>3. ASSUME ppc = "publish"
        PROVE  \E f \in Entries' : Held(LastNo + NeededNo, f)' /\ entries'[f].value = tailBlock'
    <3>1. k \in Number
      BY <1>0, <2>1, <2>3, CallIs, LivingParts
    <3>2. PICK f \in Entries : Held(k, f) /\ entries[f].value = tailBlock
      BY <1>0, <2>1, <2>3 DEF TailInv
    <3>3. k # n
      BY <1>5, <2>1, <2>3
    <3>4. Held(k, f)' /\ entries'[f].value = tailBlock'
      BY <1>2, <1>7, <1>c, <3>1, <3>2, <3>3 DEF Held
    <3>5. Held(LastNo + NeededNo, f)' <=> Held(k, f)'
      BY <1>8, <2>1 DEF Held, Has, KeyOf
    <3> QED BY <1>7, <3>2, <3>4, <3>5
  <2> QED BY <1>2, <1>8, <2>1, <2>2, <2>3 DEF TailInv
<1>q. SharesInv'
  <2>1. \A d \in Holding : BlockNo(Lo(d) - 1)' = BlockNo(Lo(d) - 1)
    BY <1>e, <1>f DEF BlockNo
  <2>2. \A d \in Holding : /\ cpc'[d] = "drop" => cpc[d] = "drop"
                           /\ cpc'[d] = "free" => cpc[d] = "free" \/ d = c
    BY <1>e, <1>f
  <2> SUFFICES ASSUME NEW d1 \in Holding, NEW d2 \in Holding, d1 # d2
               PROVE  /\ Hi(d1)' <= From(d2)' \/ Hi(d2)' <= From(d1)'
                      /\ cpc'[d1] = "drop" /\ cpc'[d2] = "drop" => BlockNo(Lo(d1) - 1)' # BlockNo(Lo(d2) - 1)'
                      /\ cpc'[d1] = "free" /\ cpc'[d2] = "free" => cl'[d1].block # cl'[d2].block
    BY <1>f DEF SharesInv
  <2>3. /\ Hi(d1) <= From(d2) \/ Hi(d2) <= From(d1)
        /\ cpc[d1] = "drop" /\ cpc[d2] = "drop" => BlockNo(Lo(d1) - 1) # BlockNo(Lo(d2) - 1)
        /\ cpc[d1] = "free" /\ cpc[d2] = "free" => cl[d1].block # cl[d2].block
    BY <1>0 DEF SharesInv
  <2>4. /\ cpc'[d1] = "free" /\ d1 # c => cl[d1].block # b
        /\ cpc'[d2] = "free" /\ d2 # c => cl[d2].block # b
    BY <1>6, <2>2
  <2>5. cpc'[d1] = "free" /\ cpc'[d2] = "free" => cl'[d1].block # cl'[d2].block
    BY <1>3, <1>e, <2>2, <2>3, <2>4
  <2> QED BY <1>e, <1>f, <2>1, <2>2, <2>3, <2>5
<1>r. IndexKept
  <2>1. \A g \in DOMAIN headers : \A q \in Caps(g) : Valid(headers[g].index[q]) => Valid(headers[g].index[q])'
    <3> SUFFICES ASSUME NEW g \in DOMAIN headers, NEW q \in Caps(g), Valid(headers[g].index[q])
                 PROVE  Valid(headers[g].index[q])'
      OBVIOUS
    <3>1. headers[g].index[q] \in Entries
      BY <1>0, HeaderIs
    <3> QED BY <1>2, <1>7, <3>1 DEF Valid
  <2>2. \A m \in Number, f \in Entries : Held(m, f) /\ Staying(m) =>
          f \in Entries' /\ Held(m, f)' /\ entries'[f].value = entries[f].value
    <3> SUFFICES ASSUME NEW m \in Number, NEW f \in Entries, Held(m, f), Staying(m)
                 PROVE  f \in Entries' /\ Held(m, f)' /\ entries'[f].value = entries[f].value
      OBVIOUS
    <3>1. m # n
      <4> SUFFICES ASSUME m = n PROVE FALSE
        OBVIOUS
      <4>1. PICK d \in Holding : cpc[d] = "drop" /\ cpc'[d] = "drop" /\ BlockNo(Lo(d) - 1) = n
        BY <1>5 DEF Staying
      <4>2. d # c
        BY <1>e, <4>1
      <4> QED BY <1>5, <4>1, <4>2
    <3>2. Held(m, f)'
      BY <1>c, <3>1
    <3>3. f # e
      BY <1>7, <3>2 DEF Held
    <3> QED BY <1>7, <3>2, <3>3
  <2> QED BY <1>2, <1>a, <2>1, <2>2 DEF IndexKept
<1>s. \A d \in Holding' \ {c} : ConsumerInv(d)'
  <2>1. Claimed <= Claimed' /\ Claimed' \in Int /\ \A m \in Int : Left_(m) = {} => Left_(m)' = {}
    BY <1>0, <1>8, <1>g, Basics
  <2>2. \A d \in Holding \ {c} : cpc[d] = "free" =>
            /\ cl[d].block \in Block \ (free' \cup Indexed' \cup {pl'.block}) /\ Empty(cl[d].block)'
            /\ \A i \in DOMAIN pl'.allocated : pl'.allocated[i] # cl[d].block
    <3> SUFFICES ASSUME NEW d \in Holding \ {c}, cpc[d] = "free"
                 PROVE  /\ cl[d].block \in Block \ (free' \cup Indexed' \cup {pl'.block}) /\ Empty(cl[d].block)'
                        /\ \A i \in DOMAIN pl'.allocated : pl'.allocated[i] # cl[d].block
      OBVIOUS
    <3>0. ConsumerInv(d)
      BY <1>0
    <3>1. /\ cl[d].block \in Block \ (free \cup Indexed \cup {pl.block}) /\ Empty(cl[d].block)
          /\ \A i \in DOMAIN pl.allocated : pl.allocated[i] # cl[d].block
      BY <3>0 DEF ConsumerInv
    <3>2. Empty(cl[d].block)'
      BY <1>2, <1>e, <3>1 DEF Empty
    <3> QED BY <1>2, <1>d, <3>1, <3>2
  <2> QED BY <1>2, <1>e, <1>r, <2>1, <2>2, OthersKept
<1>t. ConsumerInv(c)'
  <2>1. /\ Reading' = Reading
        /\ \A g : Caps(g)' = Caps(g)
        /\ \A g, pos : Entry(g, pos)' = Entry(g, pos)
    BY <1>2 DEF Reading, Caps, capacity, Entry
  <2>2. PICK x \in Nat, z \in Nat : x = Lo(c) /\ z = Hi(c) /\ From(c) = x /\ x > 0 /\ x <= z /\ z <= Claimed
    <3>1. Lo(c) \in Nat /\ Hi(c) \in Nat /\ Lo(c) <= Hi(c) /\ Hi(c) <= Claimed
      BY <1>0, <1>1, ReadersItems
    <3>2. Lo(c) > 0 /\ From(c) = Lo(c)
      BY <1>1 DEF ConsumerInv, From
    <3> QED BY <3>1, <3>2
  <2>3. /\ (\A d \in x .. z - 1 : Positioned(h, BlockNo(d))) /\ h \in DOMAIN headers
        /\ InPhase(h, p, n) /\ cl[c].items # <<>> /\ (x < z => x % BLOCK_SIZE = 0)
    BY <1>1, <1>3, <1>4, <2>2 DEF ConsumerInv
  <2>4. \A d \in x .. z - 1 : Positioned(h, BlockNo(d))'
    <3> SUFFICES ASSUME NEW d \in x .. z - 1 PROVE Positioned(h, BlockNo(d))'
      OBVIOUS
    <3>1. BlockNo(d) \in Number /\ NotCounted(d) /\ d \in Int
      BY <1>0, <1>1, <2>2, ReadersItems
    <3>2. PICK m \in Number : m = BlockNo(d)
      BY <3>1
    <3>3. m # n
      BY <1>5, <3>1, <3>2
    <3>4. PICK q \in Caps(h) : Held(m, headers[h].index[q])
      BY <2>3, <3>2 DEF Positioned
    <3>5. PICK f \in Entries : f = headers[h].index[q]
      BY <1>0, <2>3, <3>4, HeaderIs
    <3>6. Held(m, f)'
      BY <1>c, <3>3, <3>4, <3>5
    <3>7. Positioned(h, m)'
      BY <1>2, <2>1, <3>4, <3>5, <3>6 DEF Positioned, Held, Has
    <3>8. Positioned(h, BlockNo(d))' <=> Positioned(h, m)'
      BY <1>8, <3>2 DEF Positioned, Held, Has, KeyOf
    <3> QED BY <3>7, <3>8
  <2>5. InPhase(h, p, n)' /\ BlockNo(Lo(c) - 1)' = n
    <3>1. BlockNo(Lo(c) - 1)' = BlockNo(Lo(c) - 1)
      BY <1>e DEF BlockNo
    <3> QED BY <1>4, <1>a, <2>3, <3>1
  <2>6. /\ b \in Block \ (free' \cup Indexed' \cup {pl'.block}) /\ Empty(b)'
        /\ \A i \in DOMAIN pl'.allocated : pl'.allocated[i] # b
    BY <1>2, <1>5, <1>6, <1>d, <1>m
  <2>7. /\ cl'[c] = cl[c] /\ cpc'[c] = "free" /\ Lo(c)' = x /\ Hi(c)' = z /\ From(c)' = x /\ headers' = headers
        /\ cl[c].header = h /\ cl[c].pos = p /\ cl[c].block = b
    BY <1>2, <1>3, <1>e, <2>2
  <2> QED BY <1>1, <1>8, <2>1, <2>2, <2>3, <2>4, <2>5, <2>6, <2>7 DEF ConsumerInv
<1>u. \A d \in Holding' : ConsumerInv(d)'
  BY <1>s, <1>t
<1>v. ppc' # "destroyed"
  BY <1>0, <1>2
<1> QED BY <1>a, <1>b, <1>k, <1>l, <1>n, <1>o, <1>p, <1>q, <1>u, <1>v DEF Living, IInv, ProducerInv

LEMMA FreeBlockKept ==
  ASSUME Settings, Fit, Living, NEW c \in Consumer, FreeBlock(c)
  PROVE  Living'
<1>0. /\ TypeOK /\ HeadersInv /\ RingInv /\ HeldInv /\ BlockInv /\ HandInv /\ AllocatedInv /\ TailInv /\ SharesInv
      /\ (\A d \in Holding : ConsumerInv(d)) /\ ppc # "destroyed" /\ null \notin Block /\ start \in Starts
  BY LivingParts, Numbers DEF ProducerInv, Living, TypeOK
<1>1. cpc[c] = "free" /\ c \in Holding /\ ConsumerInv(c) /\ cl[c] \in Reading
  <2>1. cpc[c] = "free" /\ c \in Holding
    BY DEF FreeBlock, CAt, Holding, Places
  <2> QED BY <1>0, <2>1 DEF ConsumerInv
<1>2. /\ UNCHANGED <<start, tailIndex, headIndex, headers, entries, slots, elementsCompletelyDequeued, tailBlock, ppc, pl>>
      /\ NextBlock(c, cl[c])
  BY DEF FreeBlock, counts, index
<1>3. PICK b : b = cl[c].block
  OBVIOUS
<1>4. /\ b \in Block \ (free \cup Indexed \cup {pl.block}) /\ Empty(b)
      /\ \A i \in DOMAIN pl.allocated : pl.allocated[i] # b
      /\ free' = free \cup {b}
  <2>1. free' = free \cup {b}
    BY <1>3 DEF FreeBlock
  <2> QED BY <1>1, <1>3, <2>1 DEF ConsumerInv
<1>5. PICK to \in {"entry", "idle"}, l \in Reading \cup {NoCall} :
        /\ CGoto(c, to) /\ CSet(c, l)
        /\ to = "idle" => Lo(c) = Hi(c)
        /\ to = "entry" =>
             /\ Lo(c) < Hi(c) /\ l \in Reading /\ l.pos = cl[c].pos + 1
             /\ l.index = cl[c].index /\ l.end = cl[c].end /\ l.items = cl[c].items
             /\ l.header = cl[c].header /\ l.block = cl[c].block
  <2>1. CASE Lo(c) = Hi(c) /\ CDone(c)
    <3>1. CGoto(c, "idle") /\ CSet(c, NoCall)
      BY <2>1 DEF CDone
    <3> QED BY <2>1, <3>1
  <2>2. CASE /\ Lo(c) < Hi(c)
             /\ \E l \in Reading : /\ CGoto(c, "entry") /\ CSet(c, l) /\ l.pos = cl[c].pos + 1
                                   /\ l.index = cl[c].index /\ l.end = cl[c].end /\ l.items = cl[c].items
                                   /\ l.header = cl[c].header /\ l.block = cl[c].block
    <3>1. PICK l \in Reading : /\ CGoto(c, "entry") /\ CSet(c, l) /\ l.pos = cl[c].pos + 1
                               /\ l.index = cl[c].index /\ l.end = cl[c].end /\ l.items = cl[c].items
                               /\ l.header = cl[c].header /\ l.block = cl[c].block
      BY <2>2
    <3> QED BY <2>2, <3>1
  <2> QED BY <1>1, <1>2, <2>1, <2>2, NextBlockIs
<1>6. /\ HeadersInv' /\ RingInv' /\ PhaseInv' /\ EnqueueInv' /\ IndexKept /\ SameHeld
      /\ LastNo' = LastNo /\ Published' = Published /\ NeededNo' = NeededNo /\ Number' = Number
      /\ Entries' = Entries /\ Indexed' = Indexed /\ Header' = Header /\ EntryType' = EntryType
      /\ \A m, g : Held(m, g)' <=> Held(m, g)
      /\ \A i : Kept(i)' <=> Kept(i)
      /\ \A d : BlockNo(d)' = BlockNo(d) /\ At(d)' = At(d)
      /\ \A m, k : ItemOf(m, k)' = ItemOf(m, k)
  BY <1>2, IndexStays DEF index
<1>7. /\ cpc'[c] = to /\ cl'[c] = l
      /\ \A d \in Consumer \ {c} : /\ cpc'[d] = cpc[d] /\ cl'[d] = cl[d]
                                   /\ Lo(d)' = Lo(d) /\ Hi(d)' = Hi(d) /\ From(d)' = From(d)
                                   /\ d \in Holding' <=> d \in Holding
      /\ Lo(c)' = Dist(l.index) /\ Hi(c)' = Dist(l.end)
      /\ From(c)' = (IF to = "empty" THEN Dist(l.index) - JustRead(l) ELSE Dist(l.index))
      /\ c \in Holding' <=> to \in Places
  BY <1>2, <1>5, Others
<1>8. /\ c \in Holding' <=> to = "entry"
      /\ to = "entry" => Lo(c)' = Lo(c) /\ Hi(c)' = Hi(c) /\ From(c)' = From(c)
      /\ From(c) = Lo(c) /\ (to # "entry" => Lo(c) = Hi(c))
  <2>1. c \in Holding' <=> to = "entry"
    BY <1>5, <1>7 DEF Places
  <2>2. From(c) = Lo(c)
    BY <1>1 DEF From
  <2>3. to = "entry" => l.index = cl[c].index /\ l.end = cl[c].end
    BY <1>5
  <2> QED BY <1>5, <1>7, <2>1, <2>2, <2>3 DEF Lo, Hi
<1>9. Claimed' = Claimed /\ Holding \subseteq Consumer /\ Holding' \subseteq Holding
      /\ Holding' \ {c} = Holding \ {c}
  <2>1. Holding' \subseteq Consumer /\ Holding \subseteq Consumer
    BY DEF Holding
  <2> QED BY <1>1, <1>2, <1>7, <2>1 DEF Claimed
<1>a. \A d \in Holding' : Lo(d)' = Lo(d) /\ Hi(d)' = Hi(d) /\ From(d)' = From(d)
  BY <1>7, <1>8, <1>9
<1>b. /\ \A d \in Int : NotCounted(d)' <=> NotCounted(d)
      /\ \A d \in Int : Unread(d)' <=> Unread(d)
  <2> SUFFICES ASSUME NEW d \in Int
               PROVE  (NotCounted(d)' <=> NotCounted(d)) /\ (Unread(d)' <=> Unread(d))
    OBVIOUS
  <2>1. c \in Holding' \/ (~ (Lo(c) <= d /\ d < Hi(c)) /\ ~ (From(c) <= d /\ d < Hi(c)))
    <3>1. Lo(c) \in Nat /\ Hi(c) \in Nat
      BY <1>0, <1>1, ReadersItems
    <3> QED BY <1>5, <1>8, <3>1
  <2>2. (\E g \in Holding : From(g) <= d /\ d < Hi(g)) <=> (\E g \in Holding' : From(g)' <= d /\ d < Hi(g)')
    BY <1>9, <1>a, <2>1
  <2>3. (\E g \in Holding : Lo(g) <= d /\ d < Hi(g)) <=> (\E g \in Holding' : Lo(g)' <= d /\ d < Hi(g)')
    BY <1>9, <1>a, <2>1
  <2>4. NotCounted(d)' <=> Claimed' <= d \/ \E g \in Holding' : From(g)' <= d /\ d < Hi(g)'
    BY DEF NotCounted
  <2>5. Unread(d)' <=> \/ Claimed <= d /\ d < Published + (IF ppc = "publish" THEN pl.n ELSE 0)
                       \/ \E g \in Holding' : Lo(g)' <= d /\ d < Hi(g)'
    BY <1>2, <1>6, <1>9 DEF Unread
  <2> QED BY <1>9, <2>2, <2>3, <2>4, <2>5 DEF NotCounted, Unread
<1>c. \A m \in Int : Left_(m)' = Left_(m)
  <2> SUFFICES ASSUME NEW m \in Int, NEW k \in Place PROVE NotCounted(ItemOf(m, k))' <=> NotCounted(ItemOf(m, k))
    BY DEF Left_
  <2>1. PICK d \in Int : d = ItemOf(m, k)
    BY BlockNoIs
  <2>2. NotCounted(ItemOf(m, k))' <=> NotCounted(d)'
    BY <1>6, <2>1 DEF NotCounted
  <2> QED BY <1>b, <2>1, <2>2
<1>d. \A m \in Int : Pend(m)' <=> Pend(m)
  <2> SUFFICES ASSUME NEW m \in Int PROVE Pend(m)' <=> Pend(m)
    OBVIOUS
  <2>1. Dropping(m)' <=> \E d \in Holding' : cpc'[d] = "drop" /\ BlockNo(Lo(d) - 1)' = m
    BY DEF Dropping
  <2>2. \A d \in Holding' : BlockNo(Lo(d) - 1)' = BlockNo(Lo(d) - 1)
    BY <1>a DEF BlockNo
  <2>3. \A d \in Holding' : cpc'[d] = "drop" <=> cpc[d] = "drop"
    BY <1>1, <1>5, <1>7, <1>9
  <2>4. Dropping(m)' <=> Dropping(m)
    BY <1>1, <1>9, <2>1, <2>2, <2>3 DEF Dropping
  <2>5. Pend(m)' <=> Left_(m)' # {} \/ Dropping(m)'
    BY DEF Pend
  <2> QED BY <1>c, <2>4, <2>5 DEF Pend
<1>e. TypeOK'
  BY <1>0, <1>2, <1>4, <1>6 DEF TypeOK
<1>f. HeldInv'
  <2>1. \A m \in Number : Want(m)' <=> Want(m)
    BY <1>2, <1>6, <1>d, NumberFits DEF Want
  <2> QED BY <1>0, <1>2, <1>6, <2>1, KeepHeld
<1>g. \A d : Empty(d)' <=> Empty(d)
  BY <1>2 DEF Empty
<1>h. BlockInv'
  <2>1. ASSUME NEW m \in Number, NEW f \in Entries, Held(m, f)
        PROVE  /\ entries[f].value \notin free'
               /\ elementsCompletelyDequeued[entries[f].value] + Cardinality(Left_(m)) = BLOCK_SIZE
               /\ Filled(entries[f].value, m)'
    <3>1. PICK d : d = entries[f].value
      OBVIOUS
    <3>2. d \notin free /\ elementsCompletelyDequeued[d] + Cardinality(Left_(m)) = BLOCK_SIZE /\ Filled(d, m)
      BY <1>0, <2>1, <3>1 DEF BlockInv
    <3>3. d \in Indexed
      BY <2>1, <3>1 DEF Held, Indexed
    <3>4. Filled(d, m)'
      <4>1. \A k \in Place : Unread(ItemOf(m, k))' <=> Unread(ItemOf(m, k))
        <5> SUFFICES ASSUME NEW k \in Place PROVE Unread(ItemOf(m, k))' <=> Unread(ItemOf(m, k))
          OBVIOUS
        <5>1. PICK i \in Int : i = ItemOf(m, k)
          BY BlockNoIs, NumberFits
        <5>2. Unread(ItemOf(m, k))' <=> Unread(i)'
          BY <1>6, <5>1 DEF Unread
        <5> QED BY <1>b, <5>1, <5>2
      <4> QED BY <1>2, <1>6, <3>2, <4>1 DEF Filled
    <3>5. Filled(entries[f].value, m)' <=> Filled(d, m)'
      BY <1>2, <3>1 DEF Filled
    <3> QED BY <1>4, <3>1, <3>2, <3>3, <3>4, <3>5
  <2>2. \A d \in free' : Empty(d)'
    BY <1>0, <1>4, <1>g DEF BlockInv
  <2>3. {cl[d].block : d \in {g \in Consumer : cpc[g] = "free"}}
            \subseteq {b} \cup {cl'[d].block : d \in {g \in Consumer : cpc'[g] = "free"}}
    BY <1>3, <1>7
  <2>4. Block \subseteq free' \cup Indexed' \cup {pl'.block} \cup {pl'.allocated[i] : i \in DOMAIN pl'.allocated}
                     \cup {cl'[d].block : d \in {g \in Consumer : cpc'[g] = "free"}}
    BY <1>0, <1>2, <1>4, <1>6, <2>3 DEF BlockInv
  <2>5. \A m \in Number', f \in Entries' : Held(m, f)' =>
          /\ entries'[f].value \notin free'
          /\ elementsCompletelyDequeued'[entries'[f].value] + Cardinality(Left_(m)') = BLOCK_SIZE
          /\ Filled(entries[f].value, m)'
    BY <1>2, <1>6, <1>c, <2>1, NumberFits
  <2> QED BY <2>2, <2>4, <2>5 DEF BlockInv
<1>i. HandInv' /\ AllocatedInv' /\ TailInv'
  <2>1. HandInv' /\ AllocatedInv'
    BY <1>0, <1>2, <1>4, <1>6, <1>g DEF HandInv, AllocatedInv
  <2>2. \A g : (Held(LastNo, g)' <=> Held(LastNo, g)) /\ (Held(LastNo + NeededNo, g)' <=> Held(LastNo + NeededNo, g))
    BY <1>2, <1>6 DEF Held, Has, KeyOf
  <2>3. Pend(LastNo)' <=> Pend(LastNo)
    <3>1. PICK m \in Int : m = LastNo
      BY <1>0, Basics
    <3>2. Pend(LastNo)' <=> Pend(m)'
      BY <1>6, <3>1 DEF Pend, Left_, Dropping
    <3> QED BY <1>d, <3>1, <3>2
  <2>4. TailInv'
    BY <1>0, <1>2, <1>6, <2>2, <2>3 DEF TailInv
  <2> QED BY <2>1, <2>4
<1>j. SharesInv'
  <2>1. \A d \in Holding' : /\ cpc'[d] = "drop" => cpc[d] = "drop"
                            /\ cpc'[d] = "free" => cpc[d] = "free" /\ cl'[d] = cl[d]
                            /\ BlockNo(Lo(d) - 1)' = BlockNo(Lo(d) - 1)
    <3> SUFFICES ASSUME NEW d \in Holding'
                 PROVE  /\ cpc'[d] = "drop" => cpc[d] = "drop"
                        /\ cpc'[d] = "free" => cpc[d] = "free" /\ cl'[d] = cl[d]
                        /\ BlockNo(Lo(d) - 1)' = BlockNo(Lo(d) - 1)
      OBVIOUS
    <3>1. BlockNo(Lo(d) - 1)' = BlockNo(Lo(d) - 1)
      BY <1>a DEF BlockNo
    <3>2. CASE d = c
      BY <1>5, <1>7, <3>1, <3>2
    <3>3. CASE d # c
      BY <1>7, <1>9, <3>1, <3>3
    <3> QED BY <3>2, <3>3
  <2> SUFFICES ASSUME NEW d1 \in Holding', NEW d2 \in Holding', d1 # d2
               PROVE  /\ Hi(d1)' <= From(d2)' \/ Hi(d2)' <= From(d1)'
                      /\ cpc'[d1] = "drop" /\ cpc'[d2] = "drop" => BlockNo(Lo(d1) - 1)' # BlockNo(Lo(d2) - 1)'
                      /\ cpc'[d1] = "free" /\ cpc'[d2] = "free" => cl'[d1].block # cl'[d2].block
    BY DEF SharesInv
  <2>2. /\ Hi(d1) <= From(d2) \/ Hi(d2) <= From(d1)
        /\ cpc[d1] = "drop" /\ cpc[d2] = "drop" => BlockNo(Lo(d1) - 1) # BlockNo(Lo(d2) - 1)
        /\ cpc[d1] = "free" /\ cpc[d2] = "free" => cl[d1].block # cl[d2].block
    BY <1>0, <1>9 DEF SharesInv
  <2> QED BY <1>a, <2>1, <2>2
<1>k. \A d \in Holding' \ {c} : ConsumerInv(d)'
  <2>1. Claimed <= Claimed' /\ Claimed' \in Int /\ \A m \in Int : Left_(m) = {} => Left_(m)' = {}
    BY <1>0, <1>9, <1>c, Basics
  <2>2. \A d \in Holding \ {c} : cpc[d] = "free" =>
            /\ cl[d].block \in Block \ (free' \cup Indexed' \cup {pl'.block}) /\ Empty(cl[d].block)'
            /\ \A i \in DOMAIN pl'.allocated : pl'.allocated[i] # cl[d].block
    <3> SUFFICES ASSUME NEW d \in Holding \ {c}, cpc[d] = "free"
                 PROVE  /\ cl[d].block \in Block \ (free' \cup Indexed' \cup {pl'.block}) /\ Empty(cl[d].block)'
                        /\ \A i \in DOMAIN pl'.allocated : pl'.allocated[i] # cl[d].block
      OBVIOUS
    <3>0. ConsumerInv(d) /\ cl[d].block # b
      BY <1>0, <1>1, <1>3 DEF SharesInv
    <3>1. /\ cl[d].block \in Block \ (free \cup Indexed \cup {pl.block}) /\ Empty(cl[d].block)
          /\ \A i \in DOMAIN pl.allocated : pl.allocated[i] # cl[d].block
      BY <3>0 DEF ConsumerInv
    <3>2. cl'[d] = cl[d]
      BY <1>7, <1>9
    <3>3. Empty(cl[d].block)'
      BY <1>2, <3>1, <3>2 DEF Empty
    <3> QED BY <1>2, <1>4, <1>6, <3>0, <3>1, <3>3
  <2> QED BY <1>2, <1>5, <1>6, <2>1, <2>2, OthersKept
<1>l. to = "entry" => ConsumerInv(c)'
  <2> SUFFICES ASSUME to = "entry" PROVE ConsumerInv(c)'
    OBVIOUS
  <2>1. UNCHANGED <<start, tailIndex, headIndex, index, ppc, pl>>
    BY <1>2 DEF index
  <2> QED BY <1>1, <1>5, <2>1, NextEntryInv
<1>m. \A d \in Holding' : ConsumerInv(d)'
  BY <1>8, <1>k, <1>l
<1>n. ppc' # "destroyed"
  BY <1>0, <1>2
<1> QED BY <1>6, <1>e, <1>f, <1>h, <1>i, <1>j, <1>m, <1>n DEF Living, IInv, ProducerInv

\* Consumer c goes on to place to and claims k items.
Counted(c, to, l, k) ==
  /\ CGoto(c, to) /\ CSet(c, l) /\ Claimed' = Claimed + k /\ Claimed + k <= Published
  /\ k = 0 => to \notin Places
  /\ k > 0 => /\ to = "header" /\ l \in Reading /\ l.items = <<>>
              /\ Dist(l.index) = Claimed /\ Dist(l.end) = Claimed + k

\* What the consumers do before they have items, and the claim.
LEMMA CountIs ==
  ASSUME Settings, Fit, Living, NEW c \in Consumer, Dequeue(c)
  PROVE  /\ UNCHANGED <<start, tailIndex, headers, entries, slots, elementsCompletelyDequeued, free, tailBlock, ppc, pl>>
         /\ cpc[c] \notin Places
         /\ \E to \in OtherPlaces \cup CountPlaces, k \in Nat : \E l : Counted(c, to, l, k)
<1>0. TypeOK /\ start \in Starts
  BY LivingParts DEF TypeOK
<1>1. /\ CountStep(c) /\ UNCHANGED <<headers, entries, slots, elementsCompletelyDequeued, free, tailBlock, ppc, pl>>
  BY DEF Dequeue, index, blocks
<1>2. /\ Claimed \in Nat /\ Claimed <= Published /\ headIndex = At(Claimed) /\ Published \in Nat
      /\ Published <= MaxItems
      /\ cl = [d \in Consumer |-> cl[d]]
  BY <1>0, Basics DEF Fit, CountsType
<1>3. CSet(c, cl[c]) <=> cl' = cl
  BY <1>2 DEF CSet
<1>4. ASSUME UNCHANGED <<start, tailIndex, headIndex>>, cpc[c] \notin Places,
             NEW to \in (OtherPlaces \cup CountPlaces) \ Places, NEW l, CGoto(c, to), CSet(c, l)
      PROVE  /\ UNCHANGED <<start, tailIndex>>
             /\ cpc[c] \notin Places
             /\ \E too \in OtherPlaces \cup CountPlaces, k \in Nat : \E ll : Counted(c, too, ll, k)
  <2>1. Claimed' = Claimed + 0 /\ 0 \in Nat /\ Claimed + 0 <= Published
    BY <1>2, <1>4 DEF Claimed
  <2>2. Counted(c, to, l, 0)
    BY <1>4, <2>1 DEF Counted
  <2> QED BY <1>4, <2>1, <2>2
<1>5. ASSUME LoadTail(c)
      PROVE  \E to \in (OtherPlaces \cup CountPlaces) \ Places : \E l :
               CGoto(c, to) /\ CSet(c, l) /\ cpc[c] \notin Places /\ UNCHANGED <<start, tailIndex, headIndex>>
  <2>1. CGoto(c, "overcommit") /\ CSet(c, [NoCall EXCEPT !.tail = tailIndex]) /\ cpc[c] = "idle"
        /\ UNCHANGED <<start, tailIndex, headIndex>>
    BY <1>5 DEF LoadTail, CAt, counts
  <2> QED BY <2>1 DEF OtherPlaces, CountPlaces, Places
<1>6. ASSUME LoadOvercommit(c)
      PROVE  \E to \in (OtherPlaces \cup CountPlaces) \ Places : \E l :
               CGoto(c, to) /\ CSet(c, l) /\ cpc[c] \notin Places /\ UNCHANGED <<start, tailIndex, headIndex>>
  <2>1. CGoto(c, "test") /\ CSet(c, [cl[c] EXCEPT !.overcommit = dequeueOvercommit]) /\ cpc[c] = "overcommit"
        /\ UNCHANGED <<start, tailIndex, headIndex>>
    BY <1>6 DEF LoadOvercommit, CAt, counts
  <2> QED BY <2>1 DEF OtherPlaces, CountPlaces, Places
<1>7. ASSUME Test(c)
      PROVE  \E to \in (OtherPlaces \cup CountPlaces) \ Places : \E l :
               CGoto(c, to) /\ CSet(c, l) /\ cpc[c] \notin Places /\ UNCHANGED <<start, tailIndex, headIndex>>
  <2>1. cpc[c] = "test" /\ UNCHANGED <<start, tailIndex, headIndex>>
    BY <1>7 DEF Test, CAt, counts
  <2>2. \E l : (CGoto(c, "reserve") \/ CGoto(c, "idle")) /\ CSet(c, l)
    BY <1>7 DEF Test, CDone
  <2> QED BY <2>1, <2>2 DEF OtherPlaces, CountPlaces, Places
<1>8. ASSUME Reserve(c)
      PROVE  \E to \in (OtherPlaces \cup CountPlaces) \ Places : \E l :
               CGoto(c, to) /\ CSet(c, l) /\ cpc[c] \notin Places /\ UNCHANGED <<start, tailIndex, headIndex>>
  <2>1. CGoto(c, "recheck") /\ CSet(c, [cl[c] EXCEPT !.mine = dequeueOptimisticCount]) /\ cpc[c] = "reserve"
        /\ UNCHANGED <<start, tailIndex, headIndex>>
    BY <1>8 DEF Reserve, CAt
  <2> QED BY <2>1 DEF OtherPlaces, CountPlaces, Places
<1>9. ASSUME Recheck(c)
      PROVE  \E to \in (OtherPlaces \cup CountPlaces) \ Places : \E l :
               CGoto(c, to) /\ CSet(c, l) /\ cpc[c] \notin Places /\ UNCHANGED <<start, tailIndex, headIndex>>
  <2>1. cpc[c] = "recheck" /\ UNCHANGED <<start, tailIndex, headIndex>>
    BY <1>9 DEF Recheck, CAt, counts
  <2>2. \E l : (CGoto(c, "give back") \/ CGoto(c, "claim")) /\ CSet(c, l)
    BY <1>9 DEF Recheck
  <2> QED BY <2>1, <2>2 DEF OtherPlaces, CountPlaces, Places
<1>a. ASSUME GiveBack(c)
      PROVE  \E to \in (OtherPlaces \cup CountPlaces) \ Places : \E l :
               CGoto(c, to) /\ CSet(c, l) /\ cpc[c] \notin Places /\ UNCHANGED <<start, tailIndex, headIndex>>
  <2>1. cpc[c] = "give back" /\ UNCHANGED <<start, tailIndex, headIndex>>
    BY <1>a DEF GiveBack, CAt
  <2>2. \E l : (CGoto(c, "claim") \/ CGoto(c, "idle")) /\ CSet(c, l)
    BY <1>3, <1>a DEF GiveBack, CDone
  <2> QED BY <2>1, <2>2 DEF OtherPlaces, CountPlaces, Places
<1>b. ASSUME Claim(c)
      PROVE  /\ UNCHANGED <<start, tailIndex>>
             /\ cpc[c] \notin Places
             /\ \E to \in OtherPlaces \cup CountPlaces, k \in Nat : \E l : Counted(c, to, l, k)
  <2>1. /\ cpc[c] = "claim" /\ UNCHANGED <<start, tailIndex>> /\ CGoto(c, "header")
        /\ headIndex' = Plus(headIndex, cl[c].actual)
        /\ CSet(c, [NoCall EXCEPT !.index = headIndex, !.end = Plus(headIndex, cl[c].actual)])
    BY <1>b DEF Claim, CAt
  <2>2. PICK k \in Nat : k = cl[c].actual /\ k > 0 /\ Claimed + k <= Published
    <3>1. cl[c] \in Counting
      BY <2>1 DEF Fit, CountsType, CountPlaces
    <3>2. cl[c].actual \in Nat
      BY <3>1, Numbers DEF Counting
    <3> QED BY <2>1, <3>2 DEF Fit
  <2>3. PICK l : l = [NoCall EXCEPT !.index = headIndex, !.end = Plus(headIndex, cl[c].actual)]
    OBVIOUS
  <2>4. headIndex' = At(Claimed + k) /\ At(Claimed + k) \in Index /\ Dist(At(Claimed + k)) = Claimed + k
        /\ Dist(headIndex) = Claimed /\ headIndex \in Index
    <3>1. Plus(At(Claimed), k) = At(Claimed + k)
      BY <1>0, <1>2, PlusAt
    <3>2. Claimed + k \in Index /\ Claimed \in Index
      <4>1. MaxItems < Wrap \div 2 /\ Wrap \div 2 < Wrap /\ MaxItems \in Nat /\ Wrap \in Nat /\ Wrap \div 2 \in Nat
        BY Numbers
      <4> QED BY <1>2, <2>2, <4>1 DEF Index
    <3>3. At(Claimed + k) \in Index /\ At(Claimed) \in Index
      <4>1. Claimed + k \in Int /\ Claimed \in Int
        BY <1>2
      <4> QED BY <1>0, <4>1, AtIs
    <3>4. Dist(At(Claimed + k)) = Claimed + k /\ Dist(At(Claimed)) = Claimed
      BY <1>0, <3>2, DistIs
    <3> QED BY <1>2, <2>1, <2>2, <3>1, <3>3, <3>4
  <2>5. Claimed' = Claimed + k
    BY <2>1, <2>4 DEF Claimed, Dist
  <2>6. l.index = headIndex /\ l.end = At(Claimed + k) /\ l.items = <<>>
    BY <2>1, <2>2, <2>3, <2>4 DEF NoCall
  <2>7. l \in Reading
    <3>1. PICK i \in Index, j \in Index : i = headIndex /\ j = At(Claimed + k)
      BY <2>4
    <3>2. l = [tail |-> 0, overcommit |-> 0, desired |-> 0, mine |-> 0, actual |-> 0, index |-> i, end |-> j,
               items |-> <<>>, header |-> 0, pos |-> 0, block |-> 0]
      BY <2>1, <2>2, <2>3, <2>4, <3>1 DEF NoCall
    <3>3. <<>> \in Seq(Index \cup {Dead})
      OBVIOUS
    <3> QED BY <3>2, <3>3 DEF Reading
  <2>8. "header" \in OtherPlaces \cup CountPlaces /\ cpc[c] \notin Places
    BY <2>1 DEF Places, OtherPlaces
  <2>9. Counted(c, "header", l, k)
    BY <2>1, <2>2, <2>3, <2>4, <2>5, <2>6, <2>7 DEF Counted
  <2> QED BY <2>1, <2>8, <2>9
<1> QED BY <1>1, <1>4, <1>5, <1>6, <1>7, <1>8, <1>9, <1>a, <1>b DEF CountStep

LEMMA DequeueKept ==
  ASSUME Settings, Fit, Living, NEW c \in Consumer, Dequeue(c)
  PROVE  Living'
<1>0. /\ TypeOK /\ HeadersInv /\ RingInv /\ HeldInv /\ BlockInv /\ HandInv /\ AllocatedInv /\ TailInv /\ SharesInv
      /\ (\A d \in Holding : ConsumerInv(d)) /\ ppc # "destroyed" /\ null \notin Block /\ start \in Starts
  BY LivingParts, Numbers DEF ProducerInv, Living, TypeOK
<1>2. /\ UNCHANGED <<start, tailIndex, headers, entries, slots, elementsCompletelyDequeued, free, tailBlock, ppc, pl>>
      /\ cpc[c] \notin Places
  BY CountIs
<1>3. PICK to \in OtherPlaces \cup CountPlaces, k \in Nat : \E l : Counted(c, to, l, k)
  BY CountIs
<1>4. PICK l : Counted(c, to, l, k)
  BY <1>3
<1>5. /\ CGoto(c, to) /\ CSet(c, l) /\ Claimed' = Claimed + k /\ Claimed + k <= Published
      /\ k = 0 => to \notin Places
      /\ k > 0 => /\ to = "header" /\ l \in Reading /\ l.items = <<>>
                  /\ Dist(l.index) = Claimed /\ Dist(l.end) = Claimed + k
  BY <1>4 DEF Counted
<1>6. /\ HeadersInv' /\ RingInv' /\ PhaseInv' /\ EnqueueInv' /\ IndexKept /\ SameHeld
      /\ LastNo' = LastNo /\ Published' = Published /\ NeededNo' = NeededNo /\ Number' = Number
      /\ Entries' = Entries /\ Indexed' = Indexed /\ Header' = Header /\ EntryType' = EntryType
      /\ \A m, g : Held(m, g)' <=> Held(m, g)
      /\ \A i : Kept(i)' <=> Kept(i)
      /\ \A d : BlockNo(d)' = BlockNo(d) /\ At(d)' = At(d)
      /\ \A m, j : ItemOf(m, j)' = ItemOf(m, j)
  BY <1>2, IndexStays DEF index
<1>7. /\ cpc'[c] = to /\ cl'[c] = l
      /\ \A d \in Consumer \ {c} : /\ cpc'[d] = cpc[d] /\ cl'[d] = cl[d]
                                   /\ Lo(d)' = Lo(d) /\ Hi(d)' = Hi(d) /\ From(d)' = From(d)
                                   /\ d \in Holding' <=> d \in Holding
      /\ Lo(c)' = Dist(l.index) /\ Hi(c)' = Dist(l.end)
      /\ From(c)' = (IF to = "empty" THEN Dist(l.index) - JustRead(l) ELSE Dist(l.index))
      /\ c \in Holding' <=> to \in Places
  BY <1>2, <1>5, Others
<1>8. /\ c \notin Holding /\ (c \in Holding' <=> k > 0)
      /\ k > 0 => Lo(c)' = Claimed /\ Hi(c)' = Claimed + k /\ From(c)' = Claimed
  BY <1>2, <1>5, <1>7 DEF Holding, Places
<1>9. /\ Holding \subseteq Consumer \ {c} /\ Holding \subseteq Holding' /\ Holding' \subseteq Consumer
      /\ Holding' \ {c} = Holding
  <2>1. Holding' \subseteq Consumer /\ Holding \subseteq Consumer
    BY DEF Holding
  <2> QED BY <1>7, <1>8, <2>1
<1>a. \A d \in Holding : Lo(d)' = Lo(d) /\ Hi(d)' = Hi(d) /\ From(d)' = From(d)
  BY <1>7, <1>9
<1>b. /\ Claimed \in Nat /\ Published \in Nat /\ Published <= MaxItems /\ Claimed' \in Int /\ Claimed <= Claimed'
      /\ pl.n \in Nat
  BY <1>0, <1>5, Basics
<1>c. /\ \A d \in Int : NotCounted(d)' <=> NotCounted(d)
      /\ \A d \in Int : Unread(d)' <=> Unread(d)
  <2> SUFFICES ASSUME NEW d \in Int
               PROVE  (NotCounted(d)' <=> NotCounted(d)) /\ (Unread(d)' <=> Unread(d))
    OBVIOUS
  <2>1. (\E g \in Holding' : From(g)' <= d /\ d < Hi(g)')
          <=> (\E g \in Holding : From(g) <= d /\ d < Hi(g)) \/ (k > 0 /\ Claimed <= d /\ d < Claimed + k)
    BY <1>8, <1>9, <1>a
  <2>2. (\E g \in Holding' : Lo(g)' <= d /\ d < Hi(g)')
          <=> (\E g \in Holding : Lo(g) <= d /\ d < Hi(g)) \/ (k > 0 /\ Claimed <= d /\ d < Claimed + k)
    BY <1>8, <1>9, <1>a
  <2>3. NotCounted(d)' <=> Claimed + k <= d \/ \E g \in Holding' : From(g)' <= d /\ d < Hi(g)'
    BY <1>5 DEF NotCounted
  <2>4. PICK m \in Nat : m = IF ppc = "publish" THEN pl.n ELSE 0
    BY <1>b
  <2>5. Unread(d)' <=> \/ Claimed + k <= d /\ d < Published + m
                       \/ \E g \in Holding' : Lo(g)' <= d /\ d < Hi(g)'
    BY <1>2, <1>5, <1>6, <2>4 DEF Unread
  <2>6. NotCounted(d)' <=> NotCounted(d)
    BY <1>b, <2>1, <2>3 DEF NotCounted
  <2>7. Unread(d) <=> (Claimed <= d /\ d < Published + m) \/ (\E g \in Holding : Lo(g) <= d /\ d < Hi(g))
    BY <2>4 DEF Unread
  <2>8. Unread(d)' <=> Unread(d)
    BY <1>5, <1>b, <2>2, <2>5, <2>7
  <2> QED BY <2>6, <2>8
<1>d. \A m \in Int : Left_(m)' = Left_(m)
  <2> SUFFICES ASSUME NEW m \in Int, NEW j \in Place PROVE NotCounted(ItemOf(m, j))' <=> NotCounted(ItemOf(m, j))
    BY DEF Left_
  <2>1. PICK d \in Int : d = ItemOf(m, j)
    BY BlockNoIs
  <2>2. NotCounted(ItemOf(m, j))' <=> NotCounted(d)'
    BY <1>6, <2>1 DEF NotCounted
  <2> QED BY <1>c, <2>1, <2>2
<1>e. \A m \in Int : Pend(m)' <=> Pend(m)
  <2> SUFFICES ASSUME NEW m \in Int PROVE Pend(m)' <=> Pend(m)
    OBVIOUS
  <2>1. Dropping(m)' <=> \E d \in Holding' : cpc'[d] = "drop" /\ BlockNo(Lo(d) - 1)' = m
    BY DEF Dropping
  <2>2. \A d \in Holding : BlockNo(Lo(d) - 1)' = BlockNo(Lo(d) - 1)
    BY <1>a DEF BlockNo
  <2>3. cpc'[c] # "drop" \/ c \notin Holding'
    BY <1>5, <1>7, <1>8
  <2>4. Dropping(m)' <=> Dropping(m)
    BY <1>7, <1>9, <2>1, <2>2, <2>3 DEF Dropping
  <2>5. Pend(m)' <=> Left_(m)' # {} \/ Dropping(m)'
    BY DEF Pend
  <2> QED BY <1>d, <2>4, <2>5 DEF Pend
<1>f. TypeOK'
  BY <1>0, <1>2, <1>6 DEF TypeOK
<1>g. HeldInv'
  <2>1. \A m \in Number : Want(m)' <=> Want(m)
    BY <1>2, <1>6, <1>e, NumberFits DEF Want
  <2> QED BY <1>0, <1>2, <1>6, <2>1, KeepHeld
<1>h. \A d : Empty(d)' <=> Empty(d)
  BY <1>2 DEF Empty
<1>i. BlockInv'
  <2>1. \A m \in Number, j \in Place : Unread(ItemOf(m, j))' <=> Unread(ItemOf(m, j))
    <3> SUFFICES ASSUME NEW m \in Number, NEW j \in Place PROVE Unread(ItemOf(m, j))' <=> Unread(ItemOf(m, j))
      OBVIOUS
    <3>1. PICK i \in Int : i = ItemOf(m, j)
      BY BlockNoIs, NumberFits
    <3>2. Unread(ItemOf(m, j))' <=> Unread(i)'
      BY <1>6, <3>1 DEF Unread
    <3> QED BY <1>c, <3>1, <3>2
  <2>2. \A m \in Number : Left_(m)' = Left_(m)
    BY <1>d, NumberFits
  <2>3. {cl[d].block : d \in {g \in Consumer : cpc[g] = "free"}}
            \subseteq {cl'[d].block : d \in {g \in Consumer : cpc'[g] = "free"}}
    BY <1>2, <1>7 DEF Places
  <2> QED BY <1>0, <1>2, <1>6, <2>1, <2>2, <2>3, KeepBlocks
<1>j. HandInv' /\ AllocatedInv' /\ TailInv'
  <2>1. HandInv' /\ AllocatedInv'
    BY <1>0, <1>2, <1>6, <1>h DEF HandInv, AllocatedInv
  <2>2. \A g : (Held(LastNo, g)' <=> Held(LastNo, g)) /\ (Held(LastNo + NeededNo, g)' <=> Held(LastNo + NeededNo, g))
    BY <1>2, <1>6 DEF Held, Has, KeyOf
  <2>3. Pend(LastNo)' <=> Pend(LastNo)
    <3>1. PICK m \in Int : m = LastNo
      BY <1>0, Basics
    <3>2. Pend(LastNo)' <=> Pend(m)'
      BY <1>6, <3>1 DEF Pend, Left_, Dropping
    <3> QED BY <1>e, <3>1, <3>2
  <2>4. TailInv'
    BY <1>0, <1>2, <1>6, <2>2, <2>3 DEF TailInv
  <2> QED BY <2>1, <2>4
<1>k. SharesInv'
  <2> SUFFICES ASSUME NEW d1 \in Holding', NEW d2 \in Holding', d1 # d2
               PROVE  /\ Hi(d1)' <= From(d2)' \/ Hi(d2)' <= From(d1)'
                      /\ cpc'[d1] = "drop" /\ cpc'[d2] = "drop" => BlockNo(Lo(d1) - 1)' # BlockNo(Lo(d2) - 1)'
                      /\ cpc'[d1] = "free" /\ cpc'[d2] = "free" => cl'[d1].block # cl'[d2].block
    BY DEF SharesInv
  <2>1. CASE d1 # c /\ d2 # c
    <3>1. d1 \in Holding /\ d2 \in Holding
      BY <1>9, <2>1
    <3>2. /\ Hi(d1) <= From(d2) \/ Hi(d2) <= From(d1)
          /\ cpc[d1] = "drop" /\ cpc[d2] = "drop" => BlockNo(Lo(d1) - 1) # BlockNo(Lo(d2) - 1)
          /\ cpc[d1] = "free" /\ cpc[d2] = "free" => cl[d1].block # cl[d2].block
      BY <1>0, <3>1 DEF SharesInv
    <3>3. BlockNo(Lo(d1) - 1)' = BlockNo(Lo(d1) - 1) /\ BlockNo(Lo(d2) - 1)' = BlockNo(Lo(d2) - 1)
      BY <1>a, <3>1 DEF BlockNo
    <3> QED BY <1>7, <1>9, <1>a, <3>1, <3>2, <3>3
  <2>2. ASSUME NEW d \in Holding PROVE Hi(d) <= Claimed
    BY <1>0 DEF ConsumerInv
  <2>3. cpc'[c] = "header" \/ c \notin Holding'
    BY <1>5, <1>7, <1>8
  <2>4. CASE d1 = c
    <3>1. d2 \in Holding /\ c \in Holding'
      BY <1>9, <2>4
    <3> QED BY <1>8, <1>a, <2>2, <2>3, <2>4, <3>1
  <2>5. CASE d2 = c
    <3>1. d1 \in Holding /\ c \in Holding'
      BY <1>9, <2>5
    <3> QED BY <1>8, <1>a, <2>2, <2>3, <2>5, <3>1
  <2> QED BY <2>1, <2>4, <2>5
<1>l. \A d \in Holding' \ {c} : ConsumerInv(d)'
  <2>1. \A m \in Int : Left_(m) = {} => Left_(m)' = {}
    BY <1>d
  <2>2. \A d \in Holding \ {c} : cpc[d] = "free" =>
            /\ cl[d].block \in Block \ (free' \cup Indexed' \cup {pl'.block}) /\ Empty(cl[d].block)'
            /\ \A i \in DOMAIN pl'.allocated : pl'.allocated[i] # cl[d].block
    <3> SUFFICES ASSUME NEW d \in Holding \ {c}, cpc[d] = "free"
                 PROVE  /\ cl[d].block \in Block \ (free' \cup Indexed' \cup {pl'.block}) /\ Empty(cl[d].block)'
                        /\ \A i \in DOMAIN pl'.allocated : pl'.allocated[i] # cl[d].block
      OBVIOUS
    <3>0. ConsumerInv(d)
      BY <1>0
    <3>1. /\ cl[d].block \in Block \ (free \cup Indexed \cup {pl.block}) /\ Empty(cl[d].block)
          /\ \A i \in DOMAIN pl.allocated : pl.allocated[i] # cl[d].block
      BY <3>0 DEF ConsumerInv
    <3>2. cl'[d] = cl[d]
      BY <1>7, <1>9
    <3>3. Empty(cl[d].block)'
      BY <1>2, <3>1, <3>2 DEF Empty
    <3> QED BY <1>2, <1>6, <3>1, <3>3
  <2> QED BY <1>2, <1>5, <1>6, <1>b, <2>1, <2>2, OthersKept
<1>m. k > 0 => ConsumerInv(c)'
  <2> SUFFICES ASSUME k > 0 PROVE ConsumerInv(c)'
    OBVIOUS
  <2>1. l \in Reading' /\ l.items = <<>> /\ cpc'[c] = "header" /\ cl'[c] = l
    BY <1>5, <1>7 DEF Reading
  <2>2. 0 <= From(c)' /\ From(c)' <= Lo(c)' /\ Lo(c)' < Hi(c)' /\ Hi(c)' <= Claimed' /\ Lo(c)' <= Hi(c)'
    BY <1>5, <1>8, <1>b
  <2> QED BY <2>1, <2>2 DEF ConsumerInv
<1>n. \A d \in Holding' : ConsumerInv(d)'
  BY <1>8, <1>l, <1>m
<1>o. ppc' # "destroyed"
  BY <1>0, <1>2
<1> QED BY <1>6, <1>f, <1>g, <1>i, <1>j, <1>k, <1>n, <1>o DEF Living, IInv, ProducerInv

-----------------------------------------------------------------------------
(* The start, and all steps together.                                        *)

LEMMA InitKept ==
  ASSUME Settings, Init
  PROVE  Living
<1>1. /\ start \in Starts /\ tailIndex = start /\ headIndex = start
      /\ cpc = [c \in Consumer |-> "idle"]
      /\ headers = <<[tail |-> InitialSize - 1, index |-> [i \in 0 .. InitialSize - 1 |-> i + 1]]>>
      /\ entries = [i \in 1 .. InitialSize |->
              [key |-> IF start = 0 THEN INVALID ELSE Blocks(start, i - InitialSize - 1), value |-> null]]
      /\ slots = [b \in Block |-> [i \in 0 .. BLOCK_SIZE - 1 |-> Dead]]
      /\ elementsCompletelyDequeued = [b \in Block |-> 0]
      /\ tailBlock = null /\ free = Block /\ ppc = "idle" /\ pl = NoEnqueue
  BY DEF Init, CountsInit
<1>2. /\ BLOCK_SIZE \in Nat \ {0} /\ InitialSize \in Nat \ {0} /\ Wrap \in Nat \ {0} /\ Wrap > 1
      /\ MaxItems \in Nat /\ MaxBulk \in Nat /\ null \notin Block
      /\ start \in Index /\ start \in Nat
  <2>1. Wrap > Wrap \div 2 /\ Wrap \div 2 > MaxItems /\ MaxItems \in Nat /\ Wrap \in Nat /\ Wrap \div 2 \in Nat
    BY Numbers
  <2>2. Wrap > 1
    BY <2>1
  <2> QED BY <1>1, <2>2, Numbers, StartIs
<1>3. Published = 0 /\ Claimed = 0 /\ Holding = {}
  <2>1. (start - start) % Wrap = 0
    BY <1>2
  <2> QED BY <1>1, <2>1 DEF Published, Claimed, Minus, Holding, Places
<1>4. /\ L = 1 /\ DOMAIN headers = {1}
      /\ headers[1] = [tail |-> InitialSize - 1, index |-> [i \in 0 .. InitialSize - 1 |-> i + 1]]
      /\ capacity(1) = InitialSize /\ Caps(1) = 0 .. InitialSize - 1
      /\ headers[1].tail = InitialSize - 1
      /\ \A p \in 0 .. InitialSize - 1 : headers[1].index[p] = p + 1
  <2>1. /\ L = 1 /\ DOMAIN headers = {1}
        /\ headers[1] = [tail |-> InitialSize - 1, index |-> [i \in 0 .. InitialSize - 1 |-> i + 1]]
    BY <1>1 DEF L
  <2>2. DOMAIN headers[1].index = 0 .. InitialSize - 1
    BY <2>1
  <2>3. Cardinality(0 .. InitialSize - 1) = InitialSize
    BY <1>2, FS_Interval
  <2>4. capacity(1) = InitialSize
    BY <2>2, <2>3 DEF capacity
  <2> QED BY <2>1, <2>4 DEF Caps
<1>5. /\ Entries = 1 .. InitialSize
      /\ \A e \in Entries : entries[e].value = null
      /\ \A e \in Entries : entries[e].key = IF start = 0 THEN INVALID ELSE KeyOf(e - 1)
  <2>1. Entries = 1 .. InitialSize
    BY <1>1 DEF Entries
  <2>2. \A e \in Entries : e - InitialSize - 1 = (e - 1) - InitialSize
    BY <1>2, <2>1
  <2> QED BY <1>1, <2>1, <2>2 DEF KeyOf
<1>6. LastNo = InitialSize - 1 /\ InitialSize \in Number /\ InitialSize - 1 \in Number /\ 0 \in Number
  <2>1. (-1) \div BLOCK_SIZE = -1
    <3>1. -1 = BLOCK_SIZE * (-1) + (BLOCK_SIZE - 1) /\ BLOCK_SIZE - 1 \in 0 .. BLOCK_SIZE - 1 /\ -1 \in Int
      BY <1>2
    <3> QED BY <1>2, <3>1, DivIs
  <2>2. LastNo = InitialSize - 1
    BY <1>2, <1>3, <2>1 DEF LastNo, BlockNo
  <2>3. BlockNo(0) \in Number /\ BlockNo(0) >= InitialSize /\ BlockNo(0) \in Nat
    BY <1>2, BlockNoUp, BlockNoIs, NumberFits
  <2>4. Number = 0 .. BlockNo(MaxItems) /\ BlockNo(MaxItems) \in Nat
    BY NumberFits DEF Number
  <2> QED BY <1>2, <2>2, <2>3, <2>4
<1>7. /\ pl.n = 0 /\ pl.allocated = <<>> /\ pl.block = null /\ pl.undone = 0
      /\ DOMAIN pl.allocated = {} /\ Len(pl.allocated) = 0
  BY <1>1 DEF NoEnqueue
<1>8. Low = InitialSize - 1 /\ Top = InitialSize - 1
  BY <1>1, <1>2, <1>6, <1>7 DEF Low, Top, Extra
<1>9. TypeOK
  <2>1. entries \in Seq(EntryType)
    <3>1. \A e \in Entries : entries[e].key \in Index
      <4>1. INVALID \in Index
        BY <1>2 DEF INVALID, Index
      <4>2. ASSUME NEW x \in Int PROVE KeyOf(x) \in Index
        <5>1. (x - InitialSize) * BLOCK_SIZE \in Int
          BY <1>2
        <5>2. PICK y \in Int : y = (x - InitialSize) * BLOCK_SIZE
          BY <5>1
        <5>3. (start + y) % Wrap \in 0 .. Wrap - 1
          BY <1>2, DivOf
        <5> QED BY <5>2, <5>3 DEF KeyOf, Blocks, Index
      <4>3. \A e \in Entries : e - 1 \in Int
        BY <1>2, <1>5
      <4> QED BY <1>5, <4>1, <4>2, <4>3
    <3>2. \A e \in Entries : entries[e] \in EntryType
      <4> SUFFICES ASSUME NEW e \in Entries PROVE entries[e] \in EntryType
        OBVIOUS
      <4>1. PICK k \in Index : k = entries[e].key
        BY <3>1
      <4>2. entries[e] = [key |-> k, value |-> null]
        BY <1>1, <1>5, <4>1
      <4> QED BY <4>2 DEF EntryType
    <3>3. entries = [e \in 1 .. InitialSize |-> entries[e]] /\ \A e \in 1 .. InitialSize : entries[e] \in EntryType
      BY <1>1, <1>5, <3>2
    <3> QED BY <1>2, <3>3
  <2>2. headers \in Seq(Header) /\ headers # <<>>
    <3>1. headers[1].index \in [0 .. InitialSize - 1 -> Entries]
      BY <1>2, <1>4, <1>5
    <3>2. [tail |-> InitialSize - 1, index |-> [i \in 0 .. InitialSize - 1 |-> i + 1]] \in Header
      BY <1>2, <1>4, <3>1 DEF Header
    <3> QED BY <1>1, <3>2
  <2>3. slots \in [Block -> [Place -> Index \cup {Dead}]]
    BY <1>1 DEF Place
  <2>4. pl \in [n : 0 .. MaxBulk, allocated : Seq(Block), block : Block \cup {null}, undone : Nat]
    BY <1>1, <1>2 DEF NoEnqueue
  <2>5. elementsCompletelyDequeued \in [Block -> 0 .. BLOCK_SIZE]
    BY <1>1, <1>2
  <2> QED BY <1>1, <2>1, <2>2, <2>3, <2>4, <2>5 DEF TypeOK, PCs
<1>a. HeadersInv
  <2>1. capacity(L) % capacity(1) = 0
    BY <1>2, <1>4
  <2>2. \A e \in Entries : e - 1 \in Caps(1) /\ headers[1].index[e - 1] = e
    BY <1>2, <1>4, <1>5
  <2>3. \A p, q \in Caps(1) : headers[1].index[p] = headers[1].index[q] => p = q
    BY <1>2, <1>4
  <2>4. headers[1].tail \in Caps(1)
    BY <1>2, <1>4
  <2> QED BY <1>4, <2>1, <2>2, <2>3, <2>4 DEF HeadersInv
<1>b. RingInv
  <2>1. ASSUME NEW n \in 0 .. InitialSize - 1
        PROVE  EntryOf(n) = n + 1 /\ n + 1 \in Entries
    <3>1. (InitialSize - 1) + (n - (InitialSize - 1)) = n /\ n \in Nat
      BY <1>2
    <3>2. n % InitialSize = n
      BY <1>2
    <3>3. EntryOf(n) = headers[1].index[n % InitialSize]
      BY <1>4, <1>8, <3>1 DEF EntryOf, Entry
    <3> QED BY <1>2, <1>4, <1>5, <3>2, <3>3
  <2>2. ASSUME start = 0, NEW n \in 0 .. InitialSize - 1 PROVE ~Valid(EntryOf(n))
    BY <1>5, <2>1, <2>2 DEF Valid
  <2>3. ASSUME start # 0, NEW n \in 0 .. InitialSize - 1 PROVE Has(EntryOf(n), n)
    <3>1. (n + 1) - 1 = n
      BY <1>2
    <3> QED BY <1>5, <2>1, <2>3, <3>1 DEF Has
  <2>4. (InitialSize - 1) - capacity(L) + 1 = 0
    BY <1>2, <1>4
  <2>5. CASE start = 0
    <3>1. Ring(InitialSize, InitialSize - 1)
      <4>1. \A n \in 0 .. InitialSize - 1 : ~ (InitialSize <= n)
        BY <1>2
      <4> QED BY <1>1, <1>2, <1>4, <1>6, <1>7, <1>8, <2>2, <2>4, <2>5, <4>1 DEF Ring
    <3> QED BY <1>6, <3>1 DEF RingInv
  <2>6. CASE start # 0
    <3>1. Ring(0, InitialSize - 1)
      BY <1>1, <1>2, <1>4, <1>6, <1>7, <1>8, <2>3, <2>4, <2>6 DEF Ring
    <3> QED BY <1>6, <3>1 DEF RingInv
  <2> QED BY <2>5, <2>6
<1>c. PhaseInv
  BY <1>4 DEF PhaseInv
<1>d. \A n : ~ Want(n) \/ n \notin Number
  <2> SUFFICES ASSUME NEW n \in Number, Want(n) PROVE FALSE
    OBVIOUS
  <2>1. n \in Nat
    BY NumberFits
  <2> QED BY <1>2, <1>6, <1>7, <2>1 DEF Want
<1>e. \A n, e : e \in Entries => ~ Held(n, e)
  BY <1>5 DEF Held
<1>f. HeldInv
  BY <1>5, <1>d, <1>e DEF HeldInv
<1>g. BlockInv
  <2>1. \A b \in Block : Empty(b)
    BY <1>1 DEF Empty, Place
  <2> QED BY <1>1, <1>e, <2>1 DEF BlockInv
<1>h. ProducerInv
  <2>1. EnqueueInv
    BY <1>1, <1>7 DEF EnqueueInv
  <2>2. HandInv /\ AllocatedInv
    BY <1>7 DEF HandInv, AllocatedInv
  <2>3. TailInv
    BY <1>1, <1>2, <1>6 DEF TailInv
  <2> QED BY <2>1, <2>2, <2>3 DEF ProducerInv
<1>i. SharesInv
  BY <1>3 DEF SharesInv
<1> QED BY <1>1, <1>3, <1>9, <1>a, <1>b, <1>c, <1>f, <1>g, <1>h, <1>i DEF Living, IInv

LEMMA StutterKept ==
  ASSUME IInv, UNCHANGED vars
  PROVE  IInv'
<1>1. UNCHANGED <<start, tailIndex, headIndex, cpc, cl, headers, entries, slots, elementsCompletelyDequeued, free,
                  tailBlock, ppc, pl>>
  BY DEF vars, counts, index, blocks
<1>2. /\ Published' = Published /\ Claimed' = Claimed /\ \A d : At(d)' = At(d)
      /\ \A d : BlockNo(d)' = BlockNo(d) /\ KeyOf(d)' = KeyOf(d)
      /\ \A n, k : ItemOf(n, k)' = ItemOf(n, k)
      /\ L' = L /\ Extra' = Extra /\ Holding' = Holding /\ Entries' = Entries
      /\ \A c : Lo(c)' = Lo(c) /\ Hi(c)' = Hi(c) /\ From(c)' = From(c)
      /\ \A i : Kept(i)' <=> Kept(i)
      /\ \A b : Empty(b)' <=> Empty(b)
      /\ \A h : capacity(h)' = capacity(h)
  BY <1>1 DEF Published, Claimed, At, BlockNo, KeyOf, ItemOf, L, Extra, Holding, Entries, Lo, Hi, From, Dist, Kept,
              Empty, capacity
<1>3. /\ LastNo' = LastNo /\ Number' = Number /\ Indexed' = Indexed /\ Header' = Header /\ EntryType' = EntryType
      /\ NeededNo' = NeededNo /\ Low' = Low /\ Top' = Top
      /\ \A h : Caps(h)' = Caps(h)
      /\ \A h, p : Entry(h, p)' = Entry(h, p)
      /\ \A e, n : Has(e, n)' <=> Has(e, n)
      /\ \A e : Valid(e)' <=> Valid(e)
      /\ \A e, n : Held(n, e)' <=> Held(n, e)
  <2>1. LastNo' = LastNo /\ Number' = Number /\ Indexed' = Indexed /\ EntryType' = EntryType /\ Header' = Header
    BY <1>1, <1>2 DEF LastNo, BlockNo, Number, Indexed, EntryType, Header
  <2>2. NeededNo' = NeededNo /\ Low' = Low /\ Top' = Top
    BY <1>1, <1>2, <2>1 DEF NeededNo, Low, Top, BlockNo
  <2>3. \A h : Caps(h)' = Caps(h)
    BY <1>2 DEF Caps
  <2>4. \A h, p : Entry(h, p)' = Entry(h, p)
    BY <1>1, <1>2 DEF Entry
  <2>5. /\ \A e, n : Has(e, n)' <=> Has(e, n)
        /\ \A e : Valid(e)' <=> Valid(e)
    BY <1>1, <1>2 DEF Has, Valid, KeyOf
  <2>6. \A e, n : Held(n, e)' <=> Held(n, e)
    BY <1>1, <2>5 DEF Held
  <2> QED BY <2>1, <2>2, <2>3, <2>4, <2>5, <2>6
<1>4. /\ \A d : NotCounted(d)' <=> NotCounted(d)
      /\ \A d : Unread(d)' <=> Unread(d)
      /\ \A n : Dropping(n)' <=> Dropping(n)
      /\ \A n : EntryOf(n)' = EntryOf(n)
      /\ \A h, n : Positioned(h, n)' <=> Positioned(h, n)
      /\ \A h, p, n : InPhase(h, p, n)' <=> InPhase(h, p, n)
  <2>1. /\ \A d : NotCounted(d)' <=> NotCounted(d)
        /\ \A d : Unread(d)' <=> Unread(d)
        /\ \A n : Dropping(n)' <=> Dropping(n)
    BY <1>1, <1>2 DEF NotCounted, Unread, Dropping, BlockNo
  <2>2. \A n : EntryOf(n)' = EntryOf(n)
    BY <1>1, <1>2, <1>3 DEF EntryOf, Entry
  <2>3. \A h, n : Positioned(h, n)' <=> Positioned(h, n)
    BY <1>1, <1>3 DEF Positioned, Held, Has, KeyOf
  <2>4. \A h, p, n : InPhase(h, p, n)' <=> InPhase(h, p, n)
    BY <1>1, <1>2, <1>3 DEF InPhase, Has, KeyOf
  <2> QED BY <2>1, <2>2, <2>3, <2>4
<1>5. /\ \A n : Left_(n)' = Left_(n)
      /\ \A b, n : Filled(b, n)' <=> Filled(b, n)
      /\ \A n : Pend(n)' <=> Pend(n)
      /\ \A n : Want(n)' <=> Want(n)
  <2>1. \A n : Left_(n)' = Left_(n)
    BY <1>2, <1>4 DEF Left_, NotCounted
  <2>2. \A b, n : Filled(b, n)' <=> Filled(b, n)
    BY <1>1, <1>2, <1>4 DEF Filled, Unread, At
  <2>3. \A n : Pend(n)' <=> Pend(n)
    BY <1>4, <2>1 DEF Pend
  <2>4. \A n : Want(n)' <=> Want(n)
    BY <1>1, <1>2, <1>3, <2>3 DEF Want, Kept
  <2> QED BY <2>1, <2>2, <2>3, <2>4
<1>6. TypeOK'
  BY <1>1, <1>3 DEF IInv, TypeOK
<1>7. CASE ppc = "destroyed"
  <2>1. free = Block /\ Holding = {} /\ \A b \in Block : Empty(b)
    BY <1>7 DEF IInv
  <2> QED BY <1>1, <1>2, <1>6, <1>7, <2>1 DEF IInv
<1>8. CASE ppc # "destroyed"
  <2>1. HeadersInv /\ RingInv /\ PhaseInv /\ HeldInv /\ BlockInv /\ ProducerInv /\ SharesInv
        /\ \A c \in Holding : ConsumerInv(c)
    BY <1>8 DEF IInv
  <2>2. HeadersInv' /\ PhaseInv'
    BY <1>1, <1>2, <1>3, <1>4, <2>1 DEF HeadersInv, PhaseInv
  <2>3. RingInv'
    <3>1. PICK v, w \in Number : Ring(v, w)
      BY <2>1 DEF RingInv
    <3>2. capacity(L)' = capacity(L)
      BY <1>1, <1>2 DEF capacity
    <3>3. \A n : (Has(EntryOf(n), n)' <=> Has(EntryOf(n), n)) /\ (Valid(EntryOf(n))' <=> Valid(EntryOf(n)))
      BY <1>1, <1>2, <1>4 DEF Has, Valid, KeyOf
    <3>4. Ring(v, w)'
      BY <1>1, <1>3, <3>1, <3>2, <3>3 DEF Ring
    <3> QED BY <1>3, <3>1, <3>4 DEF RingInv
  <2>4. HeldInv' /\ BlockInv'
    <3>1. HeldInv'
      BY <1>1, <1>2, <1>3, <1>5, <2>1 DEF HeldInv
    <3>2. \A b \in free' : Empty(b)'
      BY <1>1, <1>2, <2>1 DEF BlockInv
    <3>3. \A n \in Number, e \in Entries : Held(n, e)' =>
             /\ entries'[e].value \notin free'
             /\ elementsCompletelyDequeued'[entries'[e].value] + Cardinality(Left_(n)') = BLOCK_SIZE
             /\ Filled(entries[e].value, n)'
      <4> SUFFICES ASSUME NEW n \in Number, NEW e \in Entries, Held(n, e)
                   PROVE  /\ entries'[e].value \notin free'
                          /\ elementsCompletelyDequeued'[entries'[e].value] + Cardinality(Left_(n)') = BLOCK_SIZE
                          /\ Filled(entries[e].value, n)'
        BY <1>3
      <4>1. PICK b : b = entries[e].value
        OBVIOUS
      <4>2. b \notin free /\ elementsCompletelyDequeued[b] + Cardinality(Left_(n)) = BLOCK_SIZE /\ Filled(b, n)
        BY <2>1, <4>1 DEF BlockInv
      <4>3. Filled(entries[e].value, n)' <=> Filled(b, n)'
        BY <1>1, <4>1 DEF Filled
      <4> QED BY <1>1, <1>5, <4>1, <4>2, <4>3
    <3>4. Block \subseteq free' \cup Indexed' \cup {pl'.block} \cup {pl'.allocated[i] : i \in DOMAIN pl'.allocated}
                     \cup {cl'[c].block : c \in {d \in Consumer : cpc'[d] = "free"}}
      BY <1>1, <1>3, <2>1 DEF BlockInv
    <3> QED BY <1>2, <1>3, <3>1, <3>2, <3>3, <3>4 DEF BlockInv
  <2>5. ProducerInv'
    <3>1. EnqueueInv'
      BY <1>1, <1>2, <1>3, <2>1 DEF ProducerInv, EnqueueInv
    <3>2. HandInv' /\ AllocatedInv'
      BY <1>1, <1>2, <1>3, <2>1 DEF ProducerInv, HandInv, AllocatedInv
    <3>3. TailInv'
      <4>1. \A g : (Held(LastNo, g)' <=> Held(LastNo, g))
                   /\ (Held(LastNo + NeededNo, g)' <=> Held(LastNo + NeededNo, g))
        BY <1>1, <1>3 DEF Held, Has, KeyOf
      <4>2. Pend(LastNo)' <=> Pend(LastNo)
        BY <1>3, <1>5 DEF Pend, Left_, Dropping
      <4> QED BY <1>1, <1>2, <1>3, <2>1, <4>1, <4>2 DEF ProducerInv, TailInv
    <3> QED BY <3>1, <3>2, <3>3 DEF ProducerInv
  <2>6. \A c \in Holding' : ConsumerInv(c)'
    <3> SUFFICES ASSUME NEW c \in Holding PROVE ConsumerInv(c)'
      BY <1>2
    <3>1. ConsumerInv(c)
      BY <2>1
    <3> QED BY <1>1, <1>2, <1>3, <1>4, <1>5, <3>1 DEF ConsumerInv, Reading, JustRead, Fewer, Held, Has, KeyOf
  <2>7. SharesInv'
    BY <1>1, <1>2, <2>1 DEF SharesInv, BlockNo
  <2> QED BY <1>1, <1>6, <1>8, <2>2, <2>3, <2>4, <2>5, <2>6, <2>7 DEF IInv
<1> QED BY <1>7, <1>8

LEMMA StepKept ==
  ASSUME Settings, Fit, IInv, [Next]_vars
  PROVE  IInv'
<1>1. CASE UNCHANGED vars
  BY <1>1, StutterKept
<1>2. ASSUME Living, Next PROVE IInv'
  <2>1. CASE CallEnqueue
    BY <1>2, <2>1, CallKept DEF Living
  <2>2. ASSUME ProducerStep PROVE Living'
    BY <1>2, <2>2, RoomKept, InsertKept, GrowKept, ExposeKept, RequisitionKept, StoreValueKept, RewindKept,
       ClearKept, UndoKept, UndoTailKept, ConstructKept, PublishKept DEF ProducerStep
  <2>3. CASE Destroy
    BY <1>2, <2>3, DestroyKept
  <2>4. ASSUME NEW c \in Consumer, Dequeue(c) PROVE Living'
    BY <1>2, <2>4, DequeueKept
  <2>5. ASSUME NEW c \in Consumer, DequeueStep(c) PROVE Living'
    BY <1>2, <2>5, LoadHeaderKept, LoadIndexTailKept, LoadKeyKept, LoadBlockKept, ReadKept, SetEmptyKept,
       DropEntryKept, FreeBlockKept DEF DequeueStep
  <2> QED BY <1>2, <2>1, <2>2, <2>3, <2>4, <2>5 DEF Next, Living
<1>3. ASSUME ppc = "destroyed", Next PROVE FALSE
  <2>1. \A c \in Consumer : cpc[c] \notin Places
    BY <1>3 DEF IInv, Holding
  <2>2. ~ CallEnqueue /\ ~ Destroy
    BY <1>3 DEF CallEnqueue, Destroy
  <2>3. ~ ProducerStep
    BY <1>3 DEF ProducerStep, Room, Insert, Grow, Expose, Requisition, StoreValue, Rewind, Clear, Undo, UndoTail,
                Construct, Publish
  <2>4. ASSUME NEW c \in Consumer PROVE ~ Dequeue(c) /\ ~ DequeueStep(c)
    BY <1>3, <2>1 DEF Dequeue, DequeueStep, LoadHeader, LoadIndexTail, LoadKey, LoadBlock, Read, SetEmpty, DropEntry,
                      FreeBlock, CAt, Places
  <2> QED BY <1>3, <2>2, <2>3, <2>4 DEF Next
<1> QED BY <1>1, <1>2, <1>3 DEF Living

-----------------------------------------------------------------------------
(* What the invariant says about the blocks.                                 *)

LEMMA FoundInv ==
  ASSUME Settings, Fit, IInv
  PROVE  EntryFound
<1> SUFFICES ASSUME NEW c \in Consumer, cpc[c] = "entry"
             PROVE  LET e == entries[Entry(cl[c].header, cl[c].pos)]
                    IN  e.key = Base(cl[c].index) /\ e.value \in Block \ free
  BY DEF EntryFound, CAt
<1>1. c \in Holding /\ Living
  <2>1. c \in Holding
    BY DEF Holding, Places
  <2> QED BY <2>1 DEF IInv, Living
<1>2. PICK h, p : h = cl[c].header /\ p = cl[c].pos
  OBVIOUS
<1>3. /\ Held(BlockNo(Lo(c)), Entry(h, p)) /\ entries[Entry(h, p)].value \in Block \ free
      /\ KeyOf(BlockNo(Lo(c))) = Base(cl[c].index)
  BY <1>1, <1>2, FoundAt
<1> QED BY <1>2, <1>3 DEF Held, Has

LEMMA ConservedInv ==
  ASSUME Settings, IInv
  PROVE  BlocksConserved
<1>1. TypeOK /\ free \subseteq Block /\ slots \in [Block -> [Place -> Index \cup {Dead}]]
  BY DEF IInv, TypeOK
<1>2. \A b \in Block : DOMAIN slots[b] = Place
  BY <1>1
<1>3. \A b \in free : Empty(b)
  BY <1>1 DEF IInv, BlockInv
<1>4. ppc # "destroyed" => /\ free \cap Indexed = {}
                           /\ Block \ free \subseteq Indexed \cup ({pl.block} \cup {pl.allocated[i] : i \in DOMAIN pl.allocated}
                                \cup {cl[c].block : c \in {d \in Consumer : cpc[d] = "free"}})
  <2> SUFFICES ASSUME ppc # "destroyed"
               PROVE  /\ free \cap Indexed = {}
                      /\ Block \ free \subseteq Indexed \cup ({pl.block} \cup {pl.allocated[i] : i \in DOMAIN pl.allocated}
                           \cup {cl[c].block : c \in {d \in Consumer : cpc[d] = "free"}})
    OBVIOUS
  <2>1. HeldInv /\ BlockInv
    BY DEF IInv
  <2>2. Indexed \subseteq Block \ free
    BY <1>1, <2>1, HeldBlocks
  <2> QED BY <2>1, <2>2 DEF BlockInv
<1>5. ppc = "destroyed" => free = Block
  BY DEF IInv
<1> QED BY <1>1, <1>2, <1>3, <1>4, <1>5 DEF BlocksConserved, Indexed, Entries, Empty
=============================================================================
