--------------------------- MODULE DequeueCounts ----------------------------
(***************************************************************************)
(* The four indices of a sub-queue and how consumers share them: a dequeue *)
(* of up to max items reserves optimistically, gives back what turned out  *)
(* not to be there, and claims the rest.  dequeue is the case max = 1.     *)
(* Common to ExplicitProducer and ImplicitProducer.                        *)
(***************************************************************************)
EXTENDS Integers, Sequences, FiniteSets

CONSTANTS Consumer,
          Wrap,           \* 2^w: index_t has w bits
          BLOCK_SIZE,
          MaxBulk,        \* bound: items of one call
          MaxItems,       \* bound: items enqueued
          MaxOvercommit,  \* bound: reservations given back
          Starts          \* values of the indices where a behavior may begin

\* The indices never come round within what may be under way.
CountsAssumption ==
    /\ IsFiniteSet(Consumer)
    /\ MaxBulk \in Nat /\ MaxItems \in Nat /\ MaxOvercommit \in Nat
    /\ Wrap \in Nat /\ Starts \subseteq 0 .. Wrap - 1
    /\ MaxItems + MaxOvercommit + 2 * (MaxBulk * Cardinality(Consumer)) < Wrap \div 2

VARIABLES start, tailIndex, headIndex, dequeueOptimisticCount, dequeueOvercommit,
          cpc, cl         \* the consumers
counts == <<tailIndex, headIndex, dequeueOptimisticCount, dequeueOvercommit>>
consumers == <<headIndex, dequeueOptimisticCount, dequeueOvercommit, cpc, cl>>

Fewer(a, b) == IF a < b THEN a ELSE b
\* circular_less_than
Less(a, b) == (a - b) % Wrap > Wrap \div 2
Minus(a, b) == (a - b) % Wrap
Plus(a, b) == (a + b) % Wrap
Base(i) == i - (i % BLOCK_SIZE)
\* base of the block that is n blocks before or after the one with base b
Blocks(b, n) == (b + n * BLOCK_SIZE) % Wrap
\* static_cast<make_signed>(a - b) / BLOCK_SIZE
BlockOffset(a, b) == IF Minus(a, b) < Wrap \div 2 THEN Minus(a, b) \div BLOCK_SIZE
                     ELSE -(Minus(b, a) \div BLOCK_SIZE)

NoCall == [tail |-> 0, overcommit |-> 0, desired |-> 0, mine |-> 0, actual |-> 0,
           index |-> 0, end |-> 0, items |-> <<>>, header |-> 0, pos |-> 0, block |-> 0]

\* Some items have come and gone, some reservations been given back.
CountsInit == /\ start \in Starts
              /\ tailIndex = start
              /\ headIndex = start
              /\ dequeueOvercommit = start
              /\ dequeueOptimisticCount = Plus(start, start)
              /\ cpc = [c \in Consumer |-> "idle"]
              /\ cl = [c \in Consumer |-> NoCall]

CAt(c, from) == cpc[c] = from
CGoto(c, to) == cpc' = [cpc EXCEPT ![c] = to]
CSet(c, l) == cl' = [cl EXCEPT ![c] = l]
CDone(c) == CGoto(c, "idle") /\ CSet(c, NoCall)

LoadTail(c) ==
    /\ CAt(c, "idle")
    /\ Minus(dequeueOvercommit, start) < MaxOvercommit
    /\ CSet(c, [NoCall EXCEPT !.tail = tailIndex])
    /\ CGoto(c, "overcommit")
    /\ UNCHANGED <<start, counts>>

LoadOvercommit(c) ==
    /\ CAt(c, "overcommit")
    /\ CSet(c, [cl[c] EXCEPT !.overcommit = dequeueOvercommit])
    /\ CGoto(c, "test")
    /\ UNCHANGED <<start, counts>>

\* max, the argument of the call, matters here first.
Test(c) == \E max \in 1 .. MaxBulk :
    LET desired == Minus(cl[c].tail, dequeueOptimisticCount - cl[c].overcommit)
    IN  /\ CAt(c, "test")
        /\ IF Less(0, desired)
           THEN /\ CSet(c, [cl[c] EXCEPT !.desired = Fewer(desired, max), !.tail = 0])
                /\ CGoto(c, "reserve")
           ELSE CDone(c)
        /\ UNCHANGED <<start, counts>>

Reserve(c) ==
    /\ CAt(c, "reserve")
    /\ dequeueOptimisticCount' = Plus(dequeueOptimisticCount, cl[c].desired)
    /\ CSet(c, [cl[c] EXCEPT !.mine = dequeueOptimisticCount])
    /\ CGoto(c, "recheck")
    /\ UNCHANGED <<start, tailIndex, headIndex, dequeueOvercommit>>

\* Wrong on purpose: the tail is not looked at again.
RecheckNothing(c) ==
    /\ CAt(c, "recheck")
    /\ CSet(c, [NoCall EXCEPT !.actual = cl[c].desired])
    /\ CGoto(c, "claim")
    /\ UNCHANGED <<start, counts>>

Recheck(c) ==
    LET there == Minus(tailIndex, cl[c].mine - cl[c].overcommit)
        actual == IF Less(0, there) THEN Fewer(cl[c].desired, there) ELSE 0
    IN  /\ CAt(c, "recheck")
        /\ CSet(c, [NoCall EXCEPT !.desired = cl[c].desired, !.actual = actual])
        /\ CGoto(c, IF actual < cl[c].desired THEN "give back" ELSE "claim")
        /\ UNCHANGED <<start, counts>>

\* Wrong on purpose: all of the reservation is given back.
GiveBackAll(c) ==
    /\ CAt(c, "give back")
    /\ dequeueOvercommit' = Plus(dequeueOvercommit, cl[c].desired)
    /\ IF cl[c].actual > 0 THEN CGoto(c, "claim") /\ UNCHANGED cl ELSE CDone(c)
    /\ UNCHANGED <<start, tailIndex, headIndex, dequeueOptimisticCount>>

GiveBack(c) ==
    /\ CAt(c, "give back")
    /\ dequeueOvercommit' = Plus(dequeueOvercommit, cl[c].desired - cl[c].actual)
    /\ IF cl[c].actual > 0 THEN CGoto(c, "claim") /\ UNCHANGED cl ELSE CDone(c)
    /\ UNCHANGED <<start, tailIndex, headIndex, dequeueOptimisticCount>>

Claim(c) ==
    /\ CAt(c, "claim")
    /\ headIndex' = Plus(headIndex, cl[c].actual)
    /\ CSet(c, [NoCall EXCEPT !.index = headIndex, !.end = Plus(headIndex, cl[c].actual)])
    /\ CGoto(c, "header")
    /\ UNCHANGED <<start, tailIndex, dequeueOptimisticCount, dequeueOvercommit>>

CountStep(c) == \/ LoadTail(c) \/ LoadOvercommit(c) \/ Test(c) \/ Reserve(c) \/ Recheck(c)
                \/ GiveBack(c) \/ Claim(c)

\* Where the items of the block of index i end, for a call that ends at end.
EndIndex(i, end) == IF Less(end, Plus(Base(i), BLOCK_SIZE)) THEN end ELSE Plus(Base(i), BLOCK_SIZE)

\* Items of the last block that call l has read from.
JustRead(l) == Fewer(Len(l.items), (Minus(l.index, 1) % BLOCK_SIZE) + 1)
-----------------------------------------------------------------------------
(***************************************************************************)
(* The inductive invariant.  Indices are seen as distances from where they *)
(* began.                                                                  *)
(***************************************************************************)
Published == Minus(tailIndex, start)
Claimed == Minus(headIndex, start)
GivenBack == Minus(dequeueOvercommit, start)
Reserved == Minus(dequeueOptimisticCount, start + start)
Seen(c) == Minus(cl[c].overcommit, start)
Mine(c) == Minus(cl[c].mine, start + start)

\* The sum of a function from consumers to numbers of items.
Units(f) == {u \in Consumer \X (1 .. MaxBulk) : u[2] <= f[u[1]]}
Sum(f) == Cardinality(Units(f))

\* What each consumer has reserved and neither claimed nor given back; what it
\* may still give back; what it claims, when those at k or above claim nothing.
Pending == [c \in Consumer |-> IF cpc[c] \in {"recheck", "give back"} THEN cl[c].desired
                               ELSE IF cpc[c] = "claim" THEN cl[c].actual ELSE 0]
Returnable == [c \in Consumer |->
    IF cpc[c] \in {"overcommit", "test", "reserve", "recheck", "give back"} THEN MaxBulk ELSE 0]
Coming(k) == [c \in Consumer |-> IF cpc[c] \in {"give back", "claim"} THEN cl[c].actual
                                 ELSE IF cpc[c] = "recheck" /\ Mine(c) < k THEN cl[c].desired ELSE 0]

CountPlaces == {"overcommit", "test", "reserve", "recheck", "give back", "claim"}
OtherPlaces == {"idle", "header", "tail", "key", "entry", "read", "empty", "drop", "free", "front", "base"}
Index == 0 .. Wrap - 1
Counting == [tail : Index, overcommit : Index, desired : 0 .. MaxBulk, mine : Index,
             actual : 0 .. MaxBulk, index : {0}, end : {0}, items : {<<>>}, header : {0},
             pos : {0}, block : {0}]

CountsType == /\ start \in Index
              /\ \A i \in {tailIndex, headIndex, dequeueOptimisticCount, dequeueOvercommit} : i \in Index
              /\ cpc \in [Consumer -> CountPlaces \cup OtherPlaces]
              /\ cl = [c \in Consumer |-> cl[c]]
              /\ \A c \in Consumer : cpc[c] \in CountPlaces => cl[c] \in Counting

CallInv(c) ==
    /\ cpc[c] \in {"reserve", "recheck", "give back"} => cl[c].desired > 0
    /\ cpc[c] = "give back" => cl[c].actual < cl[c].desired
    /\ cpc[c] = "claim" => cl[c].actual > 0
    /\ cpc[c] \in {"test", "reserve", "recheck"} => Seen(c) <= GivenBack
    /\ cpc[c] = "recheck" => Mine(c) < Reserved
    /\ \A d \in Consumer \ {c} : cpc[c] = "recheck" /\ cpc[d] = "recheck" => Mine(c) # Mine(d)

\* The reservations below top may all be claimed; the others are claimed when
\* the tail turns out to be beyond all that those before them may claim.
Covered(top) ==
    /\ Claimed + Sum(Coming(top)) <= Published
    /\ \A c \in Consumer : cpc[c] = "recheck" /\ Mine(c) >= top =>
                              Claimed + Sum(Coming(Mine(c))) + Seen(c) <= Mine(c)

CountsInv == /\ CountsType
             /\ Published <= MaxItems
             /\ \A c \in Consumer : CallInv(c)
             /\ Reserved = GivenBack + Claimed + Sum(Pending)
             /\ GivenBack + Sum(Returnable) <= MaxOvercommit + MaxBulk * Cardinality(Consumer)
             /\ \E top \in 0 .. Reserved : Covered(top)
-----------------------------------------------------------------------------
(* However many consumers reserve and give back at once, what is claimed has *)
(* been published; and when no dequeue is in progress the optimistic count,  *)
(* less what was given back, is the head: no item is reserved for nobody, so *)
(* that the next dequeue finds what there is.                                *)
CountsSettle ==
    /\ CountsInv
    /\ Claimed <= Published
    /\ (\A c \in Consumer : CAt(c, "idle")) =>
          Minus(dequeueOptimisticCount, dequeueOvercommit) = headIndex

\* Items are numbered as they are enqueued, like the indices.
Upto(i, j) == [k \in 1 .. Minus(j, i) |-> Plus(i, k - 1)]
Promise == INSTANCE SubQueue WITH
    Item <- 0 .. Wrap - 1,
    queue <- Upto(headIndex, tailIndex),
    hand <- [c \in Consumer |-> cl[c].items \o Upto(cl[c].index, cl[c].end)]

(* The sub-queue implements a FIFO queue: whatever is claimed, in whatever   *)
(* order the consumers find its blocks and read them, each one is given the  *)
(* items it claimed, alive, once.                                            *)
ImplementsSubQueue == Promise!Spec
=============================================================================
