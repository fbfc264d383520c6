---------------------------- MODULE HashProofs ----------------------------
(***************************************************************************)
(* Proofs about ProducerHash for any number of threads, any hash function   *)
(* and any initial size: every table keeps a free slot, the count is exact,  *)
(* and a thread has one producer of its own.                               *)
(***************************************************************************)
EXTENDS ProducerHash, Induction

-----------------------------------------------------------------------------
(* The inductive invariant.                                                 *)

Item == [key : Thread \cup {none}, value : Nat]
TableType == UNION {[0 .. c - 1 -> Item] : c \in Nat \ {0}}
PCs == {"idle", "probe", "put", "count", "lock", "reload", "grow", "unlock", "give up", "test", "create"}

TypeOK ==
  /\ tables \in Seq(TableType) /\ tables # <<>>
  /\ implicitProducerHashCount \in Int
  /\ implicitProducerHashResizeInProgress \in BOOLEAN
  /\ producers \in Nat
  /\ got \in [Thread -> Nat]
  /\ pc \in [Thread -> PCs]
  /\ local \in [Thread -> [main : Nat, hash : Nat, index : Nat, newCount : Nat, value : Nat]]

\* Is the producer of t in table h?
In(t, h) == \E s \in DOMAIN tables[h] : tables[h][s].key = t
Registered(t) == \E h \in DOMAIN tables : In(t, h)

\* A thread that has been counted and is not in a table yet.
Pending(t) == local[t].newCount > 0 /\ pc[t] # "give up"

\* The count from which on a thread may not insert.
Limit(h) == (capacity(h) \div 2) + (capacity(h) \div 4)

\* A successor is never smaller.
SizesInv == \A g, h \in DOMAIN tables : g <= h => capacity(g) <= capacity(h)

\* One thread at a time makes a successor.
Resizing == {"reload", "grow", "unlock", "give up"}
ResizeInv ==
  /\ \A t, u \in Thread : pc[t] \in Resizing /\ pc[u] \in Resizing => t = u
  /\ \A t \in Thread : pc[t] \in Resizing => implicitProducerHashResizeInProgress
  /\ \A t \in Thread : pc[t] = "grow" => local[t].main = Len(tables)

\* A search passes no free slot on its way to the entry of its thread.
PathInv ==
  \A h \in DOMAIN tables, t \in Thread : In(t, h) =>
    \A i \in Nat : i >= Hash[t] /\ (\A j \in Hash[t] .. i - 1 : Entry(h, j).key # t) => Entry(h, i).key # none

\* What a thread knows of the tables at each point of its call.
Passed(t, h) == \A j \in Hash[t] .. local[t].index - 1 : Entry(h, j).key \notin {none, t}

CallInv(t) ==
  LET l == local[t] IN
  /\ pc[t] = "idle" => l = NoLocals
  /\ pc[t] # "idle" => l.main \in DOMAIN tables
  /\ pc[t] \in {"probe", "count"} => l.newCount = 0 /\ l.hash <= l.main
  /\ pc[t] = "count" <=> pc[t] # "idle" /\ pc[t] # "probe" /\ pc[t] # "put" /\ l.newCount = 0
  /\ pc[t] = "probe" => l.hash > 0 /\ l.index >= Hash[t] /\ Passed(t, l.hash)
  /\ pc[t] \in {"probe", "count"} => \A h \in DOMAIN tables : h > l.hash => ~ In(t, h)
  /\ pc[t] = "count" => l.hash = 0
  /\ pc[t] \notin {"idle", "probe", "put", "count"} => l.index = Hash[t]
  /\ pc[t] \notin {"idle", "probe", "put"} => ~ Registered(t)
  /\ pc[t] = "put" => /\ l.index >= Hash[t] /\ Passed(t, l.main) /\ ~ In(t, l.main) /\ l.value > 0
                      /\ l.newCount > 0 => ~ Registered(t)
                      /\ l.newCount = 0 => \E h \in DOMAIN tables : h < l.main /\ \E s \in DOMAIN tables[h] :
                                              tables[h][s] = [key |-> t, value |-> l.value]
  /\ pc[t] = "create" \/ (pc[t] = "put" /\ l.newCount > 0) => l.newCount < Limit(l.main)

\* A thread has one entry in a table.
OneEntry ==
  \A h \in DOMAIN tables : \A r, s \in DOMAIN tables[h] :
    r # s /\ tables[h][r].key # none => tables[h][r].key # tables[h][s].key

\* Which producer is a thread's, or is going to be.
Owns(t, v) ==
  \/ \E h \in DOMAIN tables : \E s \in DOMAIN tables[h] : tables[h][s].key = t /\ tables[h][s].value = v
  \/ pc[t] = "put" /\ local[t].value = v

OwnInv ==
  \A t, u \in Thread, v, w \in Nat : Owns(t, v) /\ Owns(u, w) =>
    (t = u <=> v = w) /\ v \in 1 .. producers

GotInv == \A t \in Thread : got[t] # 0 =>
  \E h \in DOMAIN tables : \E s \in DOMAIN tables[h] : tables[h][s].key = t /\ tables[h][s].value = got[t]

Counted == {t \in Thread : Registered(t) \/ Pending(t)}
CountInv == implicitProducerHashCount = Cardinality(Counted)

\* The threads that are in tables with a limit of n, or may still get there.
Below(n) == {t \in Thread : \/ \E h \in DOMAIN tables : Limit(h) <= n /\ In(t, h)
                            \/ Pending(t) /\ local[t].newCount < n}
RoomInv == \A n \in Nat \ {0} : Cardinality(Below(n)) < n

IInv ==
  /\ TypeOK
  /\ SizesInv
  /\ ResizeInv
  /\ \A t \in Thread : CallInv(t)
  /\ PathInv
  /\ OneEntry
  /\ OwnInv
  /\ GotInv
  /\ CountInv
  /\ RoomInv

-----------------------------------------------------------------------------
(* The capacity of a successor.                                             *)

DoubledFrom(n) ==
  CHOOSE doubled : doubled = [c \in Nat \ {0} |-> IF n < c \div 2 THEN c ELSE doubled[2 * c]]

LEMMA NewCapacityIs ==
  ASSUME NEW t \in Thread
  PROVE  NewCapacity(t) = DoubledFrom(local[t].newCount)[2 * capacity(local[t].main)]
BY DEF NewCapacity, DoubledFrom

\* The loop ends: the function is defined ...
LEMMA DoublingDefined ==
  ASSUME NEW n \in Nat
  PROVE  \A c \in Nat \ {0} : DoubledFrom(n)[c] = IF n < c \div 2 THEN c ELSE DoubledFrom(n)[2 * c]
<1> DEFINE S == Nat \ {0}
           Done == {c \in S : n < c \div 2}
           next == [c \in S |-> 2 * c]
           out == [c \in S |-> c]
           measure == [c \in S |-> IF c \in Done THEN 0 ELSE 2 * n + 2 - c]
           Is(f) == f = [c \in Nat \ {0} |-> IF n < c \div 2 THEN c ELSE f[2 * c]]
<1>1. \A c \in S : c \notin Done => c < 2 * n + 2
  OBVIOUS
<1>2. next \in [S -> S] /\ out \in [S -> S] /\ measure \in [S -> Nat]
  <2>1. \A c \in S : 2 * c \in S
    OBVIOUS
  <2>2. \A c \in S : (IF c \in Done THEN 0 ELSE 2 * n + 2 - c) \in Nat
    <3> HIDE DEF Done
    <3> QED BY <1>1
  <2> HIDE DEF S, Done
  <2> QED BY <2>1, <2>2
<1>3. \A c \in S : c \notin Done => measure[next[c]] < measure[c]
  <2> SUFFICES ASSUME NEW c \in S, c \notin Done PROVE measure[next[c]] < measure[c]
    OBVIOUS
  <2>1. next[c] = 2 * c /\ 2 * c \in S /\ c < 2 * n + 2
    BY <1>1
  <2>2. measure[c] = 2 * n + 2 - c /\ measure[2 * c] = IF 2 * c \in Done THEN 0 ELSE 2 * n + 2 - 2 * c
    <3> HIDE DEF Done
    <3> QED BY <2>1
  <2> HIDE DEF Done, measure
  <2> QED BY <2>1, <2>2
<1>4. \E f : LoopResult(f, S, Done, next, out)
  <2> HIDE DEF S, Done, next, out, measure
  <2>1. next \in [S -> S]
    BY <1>2
  <2>2. out \in [S -> S]
    BY <1>2
  <2>3. measure \in [S -> Nat]
    BY <1>2
  <2> QED BY <2>1, <2>2, <2>3, <1>3, LoopFunction
<1>5. ASSUME NEW f, LoopResult(f, S, Done, next, out)
      PROVE  Is(f)
  <2>0. f = [c \in S |-> f[c]]
    <3> HIDE DEF S, Done, next, out
    <3> QED BY <1>5 DEF LoopResult
  <2>1. \A c \in S : f[c] = IF n < c \div 2 THEN c ELSE f[2 * c]
    <3>1. \A c \in S : f[c] = IF c \in Done THEN out[c] ELSE f[next[c]]
      <4> HIDE DEF S, Done, next, out
      <4> QED BY <1>5 DEF LoopResult
    <3> QED BY <3>1
  <2> QED BY <2>0, <2>1
<1>7. Is(DoubledFrom(n))
  <2>1. \E f : Is(f)
    <3> HIDE DEF S, Done, next, out, Is
    <3> QED BY <1>4, <1>5
  <2>2. DoubledFrom(n) = CHOOSE f : Is(f)
    BY DEF DoubledFrom
  <2> HIDE DEF Is
  <2> QED BY <2>1, <2>2
<1> QED BY <1>7

\* ... and gives no less than it starts from.
LEMMA DoublingGrows ==
  ASSUME NEW n \in Nat, NEW c \in Nat \ {0}
  PROVE  DoubledFrom(n)[c] \in Nat \ {0} /\ DoubledFrom(n)[c] >= c
<1> DEFINE D == DoubledFrom(n)
           Good == {m \in Nat : \A b \in Nat \ {0} : 2 * n + 2 - b <= m => D[b] \in Nat \ {0} /\ D[b] >= b}
<1>0. \A b \in Nat \ {0} : D[b] = IF n < b \div 2 THEN b ELSE D[2 * b]
  BY DoublingDefined
<1> HIDE DEF D
<1>1. ASSUME NEW m \in Nat, \A k \in 0 .. m - 1 : k \in Good
      PROVE  m \in Good
  <2> SUFFICES ASSUME NEW b \in Nat \ {0}, 2 * n + 2 - b <= m
               PROVE  D[b] \in Nat \ {0} /\ D[b] >= b
    OBVIOUS
  <2>1. CASE n < b \div 2
    BY <2>1, <1>0
  <2>2. CASE ~ (n < b \div 2)
    <3>1. b < 2 * n + 2 /\ 2 * b \in Nat \ {0}
      BY <2>2
    <3>2. m - 1 \in 0 .. m - 1 /\ 2 * n + 2 - 2 * b <= m - 1
      BY <3>1
    <3>3. D[2 * b] \in Nat \ {0} /\ D[2 * b] >= 2 * b
      BY <3>1, <3>2, <1>1
    <3> QED BY <3>3, <1>0, <2>2
  <2> QED BY <2>1, <2>2
<1>2. Nat \subseteq Good
  <2> HIDE DEF Good
  <2> QED BY <1>1, SetInduction
<1>3. 2 * n + 2 \in Nat
  OBVIOUS
<1>4. 2 * n + 2 \in Good
  <2> HIDE DEF Good
  <2> QED BY <1>2, <1>3
<1>5. 2 * n + 2 - c <= 2 * n + 2
  OBVIOUS
<1> QED BY <1>4, <1>5 DEF D

-----------------------------------------------------------------------------
(* The tables.                                                              *)

LEMMA TableIs ==
  ASSUME TypeOK, NEW h \in DOMAIN tables
  PROVE  /\ capacity(h) \in Nat \ {0} /\ tables[h] \in [0 .. capacity(h) - 1 -> Item]
         /\ \A i \in Nat : Slot(h, i) \in DOMAIN tables[h]
         /\ Limit(h) \in Nat /\ Limit(h) <= capacity(h)
<1>1. tables[h] \in TableType
  BY DEF TypeOK
<1>2. PICK c \in Nat \ {0} : tables[h] \in [0 .. c - 1 -> Item]
  BY <1>1 DEF TableType
<1>3. capacity(h) = c
  BY <1>2, FS_Interval DEF capacity
<1>4. \A i \in Nat : i % c \in 0 .. c - 1
  BY <1>2
<1>5. (c \div 2) + (c \div 4) \in Nat /\ (c \div 2) + (c \div 4) <= c
  BY <1>2
<1> QED BY <1>2, <1>3, <1>4, <1>5 DEF Slot, Limit

LEMMA Tables ==
  ASSUME TypeOK
  PROVE  /\ Len(tables) \in Nat /\ DOMAIN tables = 1 .. Len(tables) /\ Len(tables) \in DOMAIN tables
         /\ DOMAIN tables \subseteq Nat \ {0}
<1>1. tables \in Seq(TableType) /\ tables # <<>>
  BY DEF TypeOK
<1>2. Len(tables) \in Nat /\ Len(tables) # 0 /\ DOMAIN tables = 1 .. Len(tables)
  BY <1>1
<1> QED BY <1>2

LEMMA NewTable ==
  ASSUME NEW c \in Nat \ {0}
  PROVE  Table(c) \in TableType
<1>1. Table(c) \in [0 .. c - 1 -> Item]
  BY DEF Table, Item
<1> QED BY <1>1 DEF TableType

LEMMA Locals ==
  ASSUME IInv, NEW t \in Thread
  PROVE  /\ local[t] \in [main : Nat, hash : Nat, index : Nat, newCount : Nat, value : Nat]
         /\ pc[t] # "idle" => local[t].main \in DOMAIN tables
         /\ pc[t] = "probe" => local[t].hash \in DOMAIN tables
<1>1. TypeOK /\ CallInv(t)
  BY DEF IInv
<1>2. local[t] \in [main : Nat, hash : Nat, index : Nat, newCount : Nat, value : Nat]
  BY <1>1 DEF TypeOK
<1>3. pc[t] # "idle" => local[t].main \in DOMAIN tables
  BY <1>1 DEF CallInv
<1>4. pc[t] = "probe" => local[t].hash \in DOMAIN tables
  <2> SUFFICES ASSUME pc[t] = "probe" PROVE local[t].hash \in DOMAIN tables
    OBVIOUS
  <2>1. local[t].hash > 0 /\ local[t].hash <= local[t].main /\ local[t].main \in DOMAIN tables
    BY <1>1 DEF CallInv
  <2> QED BY <2>1, <1>1, <1>2, Tables
<1> QED BY <1>2, <1>3, <1>4

Steps(t) == Call(t) \/ Step(t)

\* A successor is made.
LEMMA GrowIs ==
  ASSUME IInv, NEW t \in Thread, Grow(t)
  PROVE  \E c \in Nat \ {0} :
           /\ tables' = Append(tables, Table(c)) /\ c >= capacity(Len(tables))
           /\ DOMAIN tables' = DOMAIN tables \cup {Len(tables) + 1}
           /\ tables'[Len(tables) + 1] = Table(c)
           /\ \A h \in DOMAIN tables : tables'[h] = tables[h]
           /\ Len(tables') = Len(tables) + 1 /\ tables' \in Seq(TableType)
<1> DEFINE c == NewCapacity(t)
           m == capacity(Len(tables))
<1>1. TypeOK /\ pc[t] = "grow" /\ local[t].main = Len(tables)
  BY DEF IInv, ResizeInv, Grow, At
<1>2. m \in Nat \ {0} /\ local[t].newCount \in Nat
  BY <1>1, Tables, TableIs, Locals
<1>3. c \in Nat \ {0} /\ c >= 2 * m
  <2>1. 2 * m \in Nat \ {0}
    BY <1>2
  <2>2. c = DoubledFrom(local[t].newCount)[2 * m]
    BY <1>1, NewCapacityIs
  <2> HIDE DEF c, m
  <2> QED BY <2>1, <2>2, <1>2, DoublingGrows
<1>4. tables' = Append(tables, Table(c))
  BY DEF Grow
<1> HIDE DEF c, m
<1>5. Table(c) \in TableType
  BY <1>3, NewTable
<1>6. tables \in Seq(TableType)
  BY <1>1 DEF TypeOK
<1>7. /\ tables' \in Seq(TableType) /\ Len(tables') = Len(tables) + 1
      /\ DOMAIN tables' = DOMAIN tables \cup {Len(tables) + 1}
      /\ tables'[Len(tables) + 1] = Table(c)
      /\ \A h \in DOMAIN tables : tables'[h] = tables[h]
  <2> HIDE DEF TableType
  <2> QED BY <1>4, <1>5, <1>6
<1>8. c >= m
  BY <1>2, <1>3
<1> QED BY <1>3, <1>4, <1>7, <1>8 DEF m

\* An entry is stored.
LEMMA PutIs ==
  ASSUME HashAssumption, IInv, NEW t \in Thread, Put(t), Entry(local[t].main, local[t].index).key = none
  PROVE  \E h \in DOMAIN tables, s \in Nat :
           /\ h = local[t].main /\ s = Slot(h, local[t].index) /\ s \in DOMAIN tables[h]
           /\ tables[h][s].key = none
           /\ DOMAIN tables' = DOMAIN tables /\ DOMAIN tables'[h] = DOMAIN tables[h]
           /\ tables'[h][s] = [key |-> t, value |-> local[t].value]
           /\ \A r \in DOMAIN tables[h] : r # s => tables'[h][r] = tables[h][r]
           /\ \A g \in DOMAIN tables : g # h => tables'[g] = tables[g]
           /\ tables' \in Seq(TableType) /\ Len(tables') = Len(tables)
<1> DEFINE h == local[t].main
           s == Slot(h, local[t].index)
           e == [key |-> t, value |-> local[t].value]
<1>1. TypeOK /\ pc[t] = "put" /\ tables \in Seq(TableType)
  BY DEF IInv, Put, At, TypeOK
<1>2. /\ h \in DOMAIN tables /\ local[t].index \in Nat /\ local[t].value \in Nat
  BY <1>1, Locals
<1>3. s \in DOMAIN tables[h] /\ capacity(h) \in Nat \ {0} /\ tables[h] \in [0 .. capacity(h) - 1 -> Item]
  BY <1>1, <1>2, TableIs
<1>4. tables[h][s].key = none
  BY DEF Entry
<1>5. tables' = [tables EXCEPT ![h][s] = e]
  BY DEF Put
<1>6. e \in Item
  BY <1>2 DEF Item
<1> HIDE DEF h, s, e
<1>7. [tables[h] EXCEPT ![s] = e] \in [0 .. capacity(h) - 1 -> Item]
  BY <1>3, <1>6
<1>8. [tables[h] EXCEPT ![s] = e] \in TableType
  BY <1>3, <1>7 DEF TableType
<1>9. tables' = [tables EXCEPT ![h] = [tables[h] EXCEPT ![s] = e]]
  BY <1>5
<1>10. /\ DOMAIN tables' = DOMAIN tables /\ Len(tables') = Len(tables) /\ tables' \in Seq(TableType)
       /\ tables'[h] = [tables[h] EXCEPT ![s] = e]
       /\ \A g \in DOMAIN tables : g # h => tables'[g] = tables[g]
  <2> HIDE DEF TableType
  <2> QED BY <1>1, <1>2, <1>8, <1>9
<1>11. /\ DOMAIN tables'[h] = DOMAIN tables[h] /\ tables'[h][s] = e
       /\ \A r \in DOMAIN tables[h] : r # s => tables'[h][r] = tables[h][r]
  BY <1>3, <1>10
<1>12. s \in Nat
  BY <1>3
<1> QED BY <1>2, <1>3, <1>4, <1>10, <1>11, <1>12 DEF h, s, e

\* Otherwise they stay as they are.
LEMMA TableSteps ==
  ASSUME IInv, NEW t \in Thread, Steps(t)
  PROVE  \/ tables' = tables
         \/ Grow(t)
         \/ Put(t) /\ Entry(local[t].main, local[t].index).key = none
BY DEF Steps, Step, Call, Probe, Put, Count, TryLock, Reload, GrowFails, Unlock, Test, Create,
   CreateFails, shared

\* What a step of p leaves of the tables and of the other threads.
Grown(p) ==
  /\ DOMAIN tables \subseteq DOMAIN tables'
  /\ \A h \in DOMAIN tables :
       /\ DOMAIN tables'[h] = DOMAIN tables[h]
       /\ \A s \in DOMAIN tables[h] :
            tables'[h][s] = tables[h][s] \/ (tables[h][s].key = none /\ tables'[h][s].key = p)
  /\ \A h \in DOMAIN tables' : h \notin DOMAIN tables =>
       \A s \in DOMAIN tables'[h] : tables'[h][s].key = none

LEMMA TablesGrow ==
  ASSUME HashAssumption, IInv, NEW p \in Thread, Steps(p)
  PROVE  Grown(p)
<1>1. CASE tables' = tables
  BY <1>1 DEF Grown
<1>2. CASE Grow(p)
  <2>1. PICK c \in Nat \ {0} :
           /\ DOMAIN tables' = DOMAIN tables \cup {Len(tables) + 1}
           /\ tables'[Len(tables) + 1] = Table(c)
           /\ \A h \in DOMAIN tables : tables'[h] = tables[h]
    BY <1>2, GrowIs
  <2>2. \A i \in DOMAIN Table(c) : Table(c)[i].key = none
    BY DEF Table
  <2> QED BY <2>1, <2>2 DEF Grown
<1>3. CASE Put(p) /\ Entry(local[p].main, local[p].index).key = none
  <2>1. PICK h \in DOMAIN tables, s \in Nat :
           /\ s \in DOMAIN tables[h] /\ tables[h][s].key = none
           /\ DOMAIN tables' = DOMAIN tables /\ DOMAIN tables'[h] = DOMAIN tables[h]
           /\ tables'[h][s] = [key |-> p, value |-> local[p].value]
           /\ \A r \in DOMAIN tables[h] : r # s => tables'[h][r] = tables[h][r]
           /\ \A g \in DOMAIN tables : g # h => tables'[g] = tables[g]
    BY <1>3, PutIs
  <2> QED BY <2>1 DEF Grown
<1> QED BY <1>1, <1>2, <1>3, TableSteps

LEMMA OthersStay ==
  ASSUME IInv, NEW p \in Thread, Steps(p), NEW q \in Thread, q # p
  PROVE  pc'[q] = pc[q] /\ local'[q] = local[q] /\ got'[q] = got[q]
BY DEF IInv, TypeOK, Steps, Step, Call, Probe, Put, Count, TryLock, Reload, Grow, GrowFails, Unlock, Test,
   Create, CreateFails, Goto, Set, Return, Fail, shared

\* A table stays as large as it is.
LEMMA CapacityKept ==
  ASSUME NEW p \in Thread, Grown(p), NEW h \in DOMAIN tables
  PROVE  /\ h \in DOMAIN tables' /\ capacity(h)' = capacity(h) /\ Limit(h)' = Limit(h)
         /\ \A i \in Nat : Slot(h, i)' = Slot(h, i)
<1>1. h \in DOMAIN tables' /\ DOMAIN tables'[h] = DOMAIN tables[h]
  BY DEF Grown
<1>2. capacity(h)' = capacity(h)
  BY <1>1 DEF capacity
<1> QED BY <1>1, <1>2 DEF Limit, Slot

\* No other thread's entries come or go, and no entry goes.
LEMMA InKept ==
  ASSUME HashAssumption, TypeOK, NEW p \in Thread, Grown(p), NEW h \in DOMAIN tables', NEW q \in Thread
  PROVE  /\ h \in DOMAIN tables /\ In(q, h) => In(q, h)'
         /\ q # p /\ In(q, h)' => h \in DOMAIN tables /\ In(q, h)
<1>0. q # none
  BY DEF HashAssumption
<1>1. ASSUME h \in DOMAIN tables, In(q, h)
      PROVE  In(q, h)'
  <2>1. PICK s \in DOMAIN tables[h] : tables[h][s].key = q
    BY <1>1 DEF In
  <2>2. s \in DOMAIN tables'[h] /\ tables'[h][s].key = q
    BY <2>1, <1>0, <1>1 DEF Grown
  <2> QED BY <2>2 DEF In
<1>2. ASSUME q # p, In(q, h)'
      PROVE  h \in DOMAIN tables /\ In(q, h)
  <2>1. PICK s \in DOMAIN tables'[h] : tables'[h][s].key = q
    BY <1>2 DEF In
  <2>2. h \in DOMAIN tables
    BY <2>1, <1>0 DEF Grown
  <2>3. s \in DOMAIN tables[h] /\ tables[h][s].key = q
    BY <2>1, <2>2, <1>2 DEF Grown
  <2> QED BY <2>2, <2>3 DEF In
<1> QED BY <1>1, <1>2

LEMMA EntryKept ==
  ASSUME HashAssumption, TypeOK, NEW p \in Thread, Grown(p), NEW h \in DOMAIN tables, NEW i \in Nat
  PROVE  \/ Entry(h, i)' = Entry(h, i)
         \/ Entry(h, i).key = none /\ Entry(h, i)'.key = p
<1>1. PICK s \in DOMAIN tables[h] : s = Slot(h, i)
  BY TableIs
<1>2. Slot(h, i)' = s
  BY <1>1, CapacityKept
<1>3. Entry(h, i) = tables[h][s] /\ Entry(h, i)' = tables'[h][s]
  BY <1>1, <1>2 DEF Entry
<1> QED BY <1>3 DEF Grown

\* A thread gets into a table by putting itself there.
LEMMA NewIn ==
  ASSUME HashAssumption, IInv, NEW p \in Thread, Steps(p), NEW h \in DOMAIN tables', NEW t \in Thread,
         In(t, h)', ~ (h \in DOMAIN tables /\ In(t, h))
  PROVE  /\ t = p /\ Put(p) /\ Entry(local[p].main, local[p].index).key = none
         /\ h = local[p].main /\ h \in DOMAIN tables
<1>0. TypeOK /\ Grown(p) /\ t # none
  BY TablesGrow DEF IInv, HashAssumption
<1>1. t = p
  BY <1>0, InKept
<1>2. Put(p) /\ Entry(local[p].main, local[p].index).key = none
  <2>1. CASE tables' = tables
    BY <2>1 DEF In
  <2>2. CASE Grow(p)
    <3>1. PICK c \in Nat \ {0} : /\ DOMAIN tables' = DOMAIN tables \cup {Len(tables) + 1} /\ tables'[Len(tables) + 1] = Table(c)
                                /\ \A g \in DOMAIN tables : tables'[g] = tables[g]
      BY <2>2, GrowIs
    <3>2. \A r \in DOMAIN Table(c) : Table(c)[r].key # t
      BY <1>0 DEF Table
    <3> QED BY <3>1, <3>2 DEF In
  <2> QED BY <2>1, <2>2, TableSteps
<1>3. /\ local[p].main \in DOMAIN tables /\ DOMAIN tables' = DOMAIN tables
      /\ \A g \in DOMAIN tables : g # local[p].main => tables'[g] = tables[g]
  BY <1>2, PutIs
<1>4. h = local[p].main
  BY <1>3 DEF In
<1> QED BY <1>1, <1>2, <1>3, <1>4

-----------------------------------------------------------------------------
(* Each part of the invariant.                                              *)

LEMMA TypeStep ==
  ASSUME HashAssumption, IInv, NEW t \in Thread, Steps(t)
  PROVE  TypeOK'
<1> USE DEF Goto, Set, Return, Fail, shared, PCs
<1>0. /\ TypeOK /\ local[t] \in [main : Nat, hash : Nat, index : Nat, newCount : Nat, value : Nat]
      /\ Hash[t] \in Nat /\ Len(tables) \in Nat
  BY Locals, Tables DEF IInv, HashAssumption
<1>1. tables' \in Seq(TableType) /\ tables' # <<>>
  <2>1. CASE tables' = tables
    BY <2>1, <1>0 DEF TypeOK
  <2>2. CASE tables' # tables
    <3>1. tables' \in Seq(TableType) /\ Len(tables') \in {Len(tables), Len(tables) + 1}
      BY <2>2, TableSteps, GrowIs, PutIs
    <3>2. Len(tables) >= 1
      BY <1>0, Tables
    <3> QED BY <3>1, <3>2, <1>0
  <2> QED BY <2>1, <2>2
<1>2. /\ implicitProducerHashCount' \in Int /\ implicitProducerHashResizeInProgress' \in BOOLEAN
      /\ producers' \in Nat
  <2>1. implicitProducerHashCount' \in {implicitProducerHashCount, implicitProducerHashCount + 1, implicitProducerHashCount - 1}
    BY DEF Steps, Step, Call, Probe, Put, Count, TryLock, Reload, Grow, GrowFails, Unlock, Test,
       Create, CreateFails
  <2>2. producers' \in {producers, producers + 1}
    BY DEF Steps, Step, Call, Probe, Put, Count, TryLock, Reload, Grow, GrowFails, Unlock, Test,
       Create, CreateFails
  <2>3. implicitProducerHashResizeInProgress' \in BOOLEAN
    <3>1. CASE TryLock(t)
      <4>1. implicitProducerHashResizeInProgress' = (implicitProducerHashResizeInProgress \/ Crowded(t, local[t].main))
        BY <3>1 DEF TryLock
      <4> QED BY <4>1, Zenon
    <3>2. CASE ~ TryLock(t)
      <4>1. implicitProducerHashResizeInProgress' \in {implicitProducerHashResizeInProgress, FALSE}
        BY <3>2 DEF Steps, Step, Call, Probe, Put, Count, Reload, Grow, GrowFails, Unlock, Test,
           Create, CreateFails
      <4>2. implicitProducerHashResizeInProgress \in BOOLEAN
        BY <1>0 DEF TypeOK
      <4> QED BY <4>1, <4>2
    <3> QED BY <3>1, <3>2
  <2>5. implicitProducerHashCount \in Int /\ producers \in Nat
    BY <1>0 DEF TypeOK
  <2>6. implicitProducerHashCount' \in Int /\ producers' \in Nat
    BY <2>1, <2>2, <2>5
  <2> QED BY <2>3, <2>6
<1>3. pc' \in [Thread -> PCs]
  <2>1. \E to \in PCs : pc' = [pc EXCEPT ![t] = to] \/ pc' = pc
    BY DEF Steps, Step, Call, Probe, Put, Count, TryLock, Reload, Grow, GrowFails, Unlock, Test,
       Create, CreateFails
  <2> HIDE DEF PCs
  <2> QED BY <2>1, <1>0 DEF TypeOK
<1>4. local' \in [Thread -> [main : Nat, hash : Nat, index : Nat, newCount : Nat, value : Nat]]
  <2> DEFINE L == [main : Nat, hash : Nat, index : Nat, newCount : Nat, value : Nat]
  <2>1. local \in [Thread -> L]
    BY <1>0 DEF TypeOK
  <2>2. NoLocals \in L
    BY DEF NoLocals
  <2>3. CASE \E l \in L : local' = [local EXCEPT ![t] = l]
    <3>1. PICK l \in L : local' = [local EXCEPT ![t] = l]
      BY <2>3
    <3>2. local' \in [Thread -> L]
      <4> HIDE DEF L
      <4> QED BY <2>1, <3>1
    <3> QED BY <3>2
  <2>4. CASE local' = local
    BY <2>1, <2>4
  <2>r. \A r \in L, n, m \in Nat :
          /\ [r EXCEPT !.hash = n, !.index = m] \in L
          /\ [r EXCEPT !.index = n, !.value = m] \in L
          /\ [r EXCEPT !.newCount = n, !.index = m] \in L
          /\ [r EXCEPT !.index = n] \in L
          /\ [r EXCEPT !.main = n] \in L
          /\ [r EXCEPT !.value = n] \in L
    OBVIOUS
  <2>5. CASE Call(t)
    <3>1. [NoLocals EXCEPT !.main = Len(tables), !.hash = Len(tables), !.index = Hash[t]] \in L
      BY <1>0, <2>2
    <3> HIDE DEF L
    <3> QED BY <2>3, <2>5, <3>1 DEF Call
  <2>6. CASE Probe(t)
    <3>1. PICK h \in Nat : h = local[t].hash /\ (At(t, "probe") => h > 0)
      BY <1>0 DEF IInv, CallInv, At
    <3>2. h > 0 => [local[t] EXCEPT !.hash = h - 1, !.index = Hash[t]] \in L
      <4>1. h > 0 => h - 1 \in Nat
        BY <3>1
      <4> HIDE DEF L
      <4> QED BY <4>1, <1>0, <2>r DEF L
    <3>3. Entry(h, local[t].index).value \in Nat
      <4>1. h \in DOMAIN tables /\ local[t].index \in Nat
        BY <2>6, <3>1, Locals DEF Probe, At
      <4>2. Entry(h, local[t].index) \in Item
        BY <4>1, <1>0, TableIs DEF Entry
      <4> QED BY <4>2 DEF Item
    <3>4. /\ [local[t] EXCEPT !.index = Hash[t], !.value = Entry(h, local[t].index).value] \in L
          /\ [local[t] EXCEPT !.index = @ + 1] \in L
      <4>1. local[t].index + 1 \in Nat
        BY <1>0
      <4>2. local[t] \in L
        BY <1>0
      <4> HIDE DEF L
      <4> QED BY <4>1, <4>2, <1>0, <3>3, <2>r
    <3> HIDE DEF L
    <3>5. At(t, "probe")
      BY <2>6 DEF Probe
    <3> QED BY <2>2, <2>3, <2>6, <3>1, <3>2, <3>4, <3>5 DEF Probe
  <2>7. CASE Put(t) \/ Count(t) \/ Reload(t) \/ Grow(t) \/ Unlock(t) \/ Test(t) \/ Create(t) \/ CreateFails(t)
    <3>1. PICK n, m : n = implicitProducerHashCount + 1 /\ m = producers + 1
      OBVIOUS
    <3>2. m \in Nat /\ (Count(t) => n \in Nat)
      <4>1. implicitProducerHashCount \in Nat
        <5>1. IsFiniteSet(Counted)
          BY FS_Subset DEF Counted, HashAssumption
        <5>2. implicitProducerHashCount = Cardinality(Counted)
          BY DEF IInv, CountInv
        <5> QED BY <5>1, <5>2, FS_CardinalityType
      <4>2. producers \in Nat
        BY <1>0 DEF TypeOK
      <4>3. producers + 1 \in Nat /\ implicitProducerHashCount + 1 \in Nat
        BY <4>1, <4>2
      <4> QED BY <4>3, <3>1
    <3>3. /\ [local[t] EXCEPT !.index = local[t].index + 1] \in L
          /\ [local[t] EXCEPT !.main = Len(tables)] \in L
          /\ [local[t] EXCEPT !.main = Len(tables) + 1] \in L
          /\ [local[t] EXCEPT !.value = m] \in L
          /\ n \in Nat => [local[t] EXCEPT !.newCount = n, !.index = Hash[t]] \in L
      <4>1. local[t].index + 1 \in Nat /\ Len(tables) + 1 \in Nat
        BY <1>0
      <4>2. local[t] \in L
        BY <1>0
      <4> HIDE DEF L
      <4> QED BY <4>1, <4>2, <1>0, <3>2, <2>r
    <3> HIDE DEF L
    <3> QED BY <2>2, <2>3, <2>4, <2>7, <3>1, <3>2, <3>3
            DEF Put, Count, Reload, Grow, Unlock, Test, Create, CreateFails
  <2>8. CASE TryLock(t) \/ GrowFails(t)
    BY <2>4, <2>8 DEF TryLock, GrowFails
  <2> QED BY <2>5, <2>6, <2>7, <2>8 DEF Steps, Step
<1>5. got' \in [Thread -> Nat]
  <2>1. ASSUME Probe(t), Entry(local[t].hash, local[t].index).key = t
        PROVE  Entry(local[t].hash, local[t].index).value \in Nat
    <3>1. local[t].hash \in DOMAIN tables /\ local[t].index \in Nat
      BY <2>1, Locals DEF Probe, At
    <3>2. Entry(local[t].hash, local[t].index) \in Item
      BY <3>1, <1>0, TableIs DEF Entry
    <3> QED BY <3>2 DEF Item
  <2> QED BY <2>1, <1>0 DEF TypeOK, Steps, Step, Call, Probe, Put, Count, TryLock, Reload, Grow, GrowFails,
     Unlock, Test, Create, CreateFails
<1> QED BY <1>1, <1>2, <1>3, <1>4, <1>5 DEF TypeOK

LEMMA SizesStep ==
  ASSUME HashAssumption, IInv, NEW p \in Thread, Steps(p)
  PROVE  SizesInv'
<1> SUFFICES ASSUME NEW g \in DOMAIN tables', NEW h \in DOMAIN tables', g <= h
             PROVE  capacity(g)' <= capacity(h)'
  BY DEF SizesInv
<1>0. Grown(p) /\ TypeOK /\ TypeOK' /\ SizesInv
  BY TablesGrow, TypeStep DEF IInv
<1>1. CASE g \in DOMAIN tables /\ h \in DOMAIN tables
  BY <1>0, <1>1, CapacityKept DEF SizesInv
<1>2. CASE ~ (g \in DOMAIN tables /\ h \in DOMAIN tables)
  <2>1. PICK c \in Nat \ {0} :
           /\ c >= capacity(Len(tables))
           /\ DOMAIN tables' = DOMAIN tables \cup {Len(tables) + 1}
           /\ tables'[Len(tables) + 1] = Table(c)
    BY <1>2, TableSteps, GrowIs, PutIs
  <2>2. /\ DOMAIN tables = 1 .. Len(tables) /\ Len(tables) \in DOMAIN tables /\ Len(tables) \in Nat
    BY <1>0, Tables
  <2>3. h = Len(tables) + 1
    BY <1>2, <2>1, <2>2
  <2>4. DOMAIN Table(c) = 0 .. c - 1
    BY DEF Table
  <2>5. capacity(h)' = c
    BY <2>1, <2>3, <2>4, FS_Interval DEF capacity
  <2>6. CASE g = h
    BY <2>5, <2>6
  <2>7. CASE g # h
    <3>1. g \in DOMAIN tables /\ g <= Len(tables)
      BY <2>1, <2>2, <2>3, <2>7
    <3>2. capacity(g) <= capacity(Len(tables)) /\ capacity(g)' = capacity(g)
      BY <3>1, <2>2, <1>0, CapacityKept DEF SizesInv
    <3>3. capacity(g) \in Nat /\ capacity(Len(tables)) \in Nat
      BY <3>1, <2>2, <1>0, TableIs
    <3> QED BY <3>2, <3>3, <2>1, <2>5
  <2> QED BY <2>6, <2>7
<1> QED BY <1>1, <1>2

LEMMA ResizeStep ==
  ASSUME HashAssumption, IInv, NEW p \in Thread, Steps(p)
  PROVE  ResizeInv'
<1> USE DEF Goto, Set, Return, Fail, shared, Resizing
<1>0. /\ pc \in [Thread -> PCs] /\ local \in [Thread -> [main : Nat, hash : Nat, index : Nat, newCount : Nat, value : Nat]]
      /\ ResizeInv
  BY DEF IInv, TypeOK
<1>1. \A q \in Thread : q # p => pc'[q] = pc[q] /\ local'[q] = local[q]
  BY OthersStay
<1>2. pc'[p] \in Resizing => \/ pc[p] \in Resizing
                             \/ ~ implicitProducerHashResizeInProgress /\ implicitProducerHashResizeInProgress'
  BY <1>0 DEF Steps, Step, Call, Probe, Put, Count, TryLock, Reload, Grow, GrowFails, Unlock, Test,
     Create, CreateFails, At
<1>3. \/ pc[p] \in Resizing /\ pc'[p] \notin Resizing
      \/ implicitProducerHashResizeInProgress => implicitProducerHashResizeInProgress'
  BY <1>0 DEF Steps, Step, Call, Probe, Put, Count, TryLock, Reload, Grow, GrowFails, Unlock, Test,
     Create, CreateFails, At
<1>4. pc'[p] = "grow" => local'[p].main = Len(tables')
  <2>1. CASE Reload(p)
    BY <1>0, <2>1 DEF Reload
  <2>2. CASE ~ Reload(p)
    BY <1>0, <2>2 DEF Steps, Step, Call, Probe, Put, Count, TryLock, Grow, GrowFails, Unlock, Test,
       Create, CreateFails, At
  <2> QED BY <2>1, <2>2
<1>5. ASSUME NEW t \in Thread, NEW u \in Thread, pc'[t] \in Resizing, pc'[u] \in Resizing
      PROVE  t = u
  BY <1>0, <1>1, <1>2, <1>5 DEF ResizeInv
<1>6. ASSUME NEW t \in Thread, pc'[t] \in Resizing
      PROVE  implicitProducerHashResizeInProgress'
  BY <1>0, <1>1, <1>2, <1>3, <1>5, <1>6 DEF ResizeInv
<1>7. ASSUME NEW t \in Thread, pc'[t] = "grow"
      PROVE  local'[t].main = Len(tables')
  <2>1. CASE t = p
    BY <2>1, <1>4, <1>7
  <2>2. CASE t # p
    <3>1. pc[t] = "grow" /\ local[t].main = Len(tables) /\ local'[t] = local[t] /\ pc[p] # "grow"
      BY <2>2, <1>0, <1>1, <1>7 DEF ResizeInv
    <3>2. tables' = tables \/ Len(tables') = Len(tables)
      BY <3>1, TableSteps, PutIs DEF Grow, At
    <3> QED BY <3>1, <3>2
  <2> QED BY <2>1, <2>2
<1> QED BY <1>5, <1>6, <1>7 DEF ResizeInv

\* What a thread knows is not undone by another.
LEMMA CallOther ==
  ASSUME HashAssumption, IInv, NEW p \in Thread, Steps(p), NEW q \in Thread, q # p
  PROVE  CallInv(q)'
<1> DEFINE l == local[q]
<1>0. TypeOK /\ Grown(p) /\ CallInv(q) /\ p # none /\ q # none /\ Hash[q] \in Nat
  BY TablesGrow DEF IInv, HashAssumption
<1>1. pc'[q] = pc[q] /\ local'[q] = l
  BY OthersStay
<1>2. \A h \in DOMAIN tables : h \in DOMAIN tables' /\ Limit(h)' = Limit(h)
  BY <1>0, CapacityKept
<1>3. \A h \in DOMAIN tables' : In(q, h)' => h \in DOMAIN tables /\ In(q, h)
  BY <1>0, InKept
<1>4. Registered(q)' => Registered(q)
  BY <1>3 DEF Registered
<1>5. ASSUME NEW h \in DOMAIN tables, Passed(q, h)
      PROVE  Passed(q, h)'
  <2> SUFFICES ASSUME NEW j \in Hash[q] .. l.index - 1
               PROVE  Entry(h, j)'.key \notin {none, q}
    BY <1>1 DEF Passed
  <2>1. j \in Nat /\ Entry(h, j).key \notin {none, q}
    BY <1>0, <1>5, Locals DEF Passed
  <2> QED BY <2>1, <1>0, EntryKept
<1>6. ASSUME NEW h \in DOMAIN tables, NEW s \in DOMAIN tables[h], tables[h][s] = [key |-> q, value |-> l.value]
      PROVE  s \in DOMAIN tables'[h] /\ tables'[h][s] = [key |-> q, value |-> l.value]
  BY <1>0, <1>6 DEF Grown
<1>7. pc[q] # "idle" => l.main \in DOMAIN tables
  BY <1>0 DEF CallInv
<1>8. pc[q] = "probe" => l.hash \in DOMAIN tables
  BY Locals
<1>9. l.newCount < Limit(l.main) /\ pc[q] # "idle" => l.newCount < Limit(l.main)'
  <2>1. pc[q] # "idle" => Limit(l.main)' = Limit(l.main)
    <3>1. PICK h : h = l.main
      OBVIOUS
    <3>2. pc[q] # "idle" => h \in DOMAIN tables /\ Limit(h)' = Limit(h)
      BY <3>1, <1>7, <1>2
    <3>3. local'[q].main = h
      BY <3>1, <1>1
    <3> QED BY <3>1, <3>2, <3>3, <1>1
  <2> QED BY <2>1
<1> QED BY <1>0, <1>1, <1>2, <1>3, <1>4, <1>5, <1>6, <1>7, <1>8, <1>9 DEF CallInv

\* What the thread itself finds out.
LEMMA CallSelf ==
  ASSUME HashAssumption, IInv, NEW p \in Thread, Steps(p)
  PROVE  CallInv(p)'
<1> USE DEF Goto, Set, Return, Fail, shared, At
<1> DEFINE l == local[p]
           L == [main : Nat, hash : Nat, index : Nat, newCount : Nat, value : Nat]
<1>0. /\ TypeOK /\ CallInv(p) /\ p # none /\ Hash[p] \in Nat /\ l \in L
      /\ pc \in [Thread -> PCs] /\ local \in [Thread -> L]
      /\ Len(tables) \in Nat /\ DOMAIN tables = 1 .. Len(tables) /\ Len(tables) \in DOMAIN tables
  BY Locals, Tables DEF IInv, HashAssumption, TypeOK
<1> DEFINE k == l.main  g == l.hash  i == l.index
<1>1. CASE Call(p)
  <2>1. pc'[p] = "probe" /\ local'[p] = [NoLocals EXCEPT !.main = Len(tables), !.hash = Len(tables), !.index = Hash[p]]
    BY <1>1, <1>0 DEF Call
  <2>2. /\ tables' = tables
        /\ local'[p].main = Len(tables) /\ local'[p].hash = Len(tables) /\ local'[p].index = Hash[p] /\ local'[p].newCount = 0
    <3>1. tables' = tables
      BY <1>1 DEF Call
    <3> QED BY <1>0, <2>1, <3>1 DEF NoLocals
  <2>3. Passed(p, local[p].hash)'
    BY <2>2, <1>0 DEF Passed
  <2> QED BY <1>0, <2>1, <2>2, <2>3 DEF CallInv
<1>2. CASE Probe(p)
  <2> DEFINE e == Entry(g, i)
  <2>0. pc[p] = "probe" /\ tables' = tables /\ g \in DOMAIN tables /\ i >= Hash[p] /\ Passed(p, g)
    BY <1>0, <1>2, Locals DEF Probe, CallInv
  <2>1. CASE e.key = p /\ g = k
    BY <1>0, <1>2, <2>1 DEF Probe, CallInv, NoLocals
  <2>2. CASE e.key = p /\ g # k
    <3>1. /\ pc'[p] = "put" /\ local'[p].main = k /\ local'[p].index = Hash[p] /\ local'[p].value = e.value
          /\ local'[p].newCount = 0
      <4>1. pc'[p] = "put" /\ local'[p] = [l EXCEPT !.index = Hash[p], !.value = e.value]
        BY <1>0, <1>2, <2>2 DEF Probe
      <4>2. l.newCount = 0
        BY <1>0, <2>0 DEF CallInv
      <4> QED BY <1>0, <4>1, <4>2
    <3>2. PICK s \in DOMAIN tables[g] : s = Slot(g, i)
      BY <1>0, <2>0, TableIs
    <3>3. e = tables[g][s] /\ e \in Item
      BY <3>2, <2>0, <1>0, TableIs DEF Entry
    <3>4. e = [key |-> p, value |-> e.value] /\ e.value \in Nat
      BY <3>3, <2>2 DEF Item
    <3>5. Owns(p, e.value)
      BY <2>0, <3>2, <3>3, <3>4 DEF Owns
    <3>6. e.value > 0
      BY <3>5, <3>4 DEF IInv, OwnInv, TypeOK
    <3>7. g < k /\ ~ In(p, k) /\ k \in DOMAIN tables
      BY <1>0, <2>0, <2>2 DEF CallInv
    <3>8. Passed(p, local[p].main)'
      BY <3>1, <1>0 DEF Passed
    <3>9. ~ In(p, k)'
      BY <2>0, <3>1, <3>7 DEF In
    <3>10. \E h \in DOMAIN tables' : h < k /\ \E r \in DOMAIN tables'[h] : tables'[h][r] = [key |-> p, value |-> e.value]
      BY <2>0, <3>2, <3>3, <3>4, <3>7
    <3> HIDE DEF e
    <3> QED BY <1>0, <2>0, <3>1, <3>6, <3>7, <3>8, <3>9, <3>10 DEF CallInv
  <2>3. CASE e.key = none
    <3>1. /\ pc'[p] = IF g > 1 THEN "probe" ELSE "count"
          /\ local'[p].main = k /\ local'[p].hash = g - 1 /\ local'[p].index = Hash[p] /\ local'[p].newCount = 0
      <4>1. /\ pc'[p] = IF g > 1 THEN "probe" ELSE "count"
            /\ local'[p] = [l EXCEPT !.hash = g - 1, !.index = Hash[p]]
        BY <1>0, <1>2, <2>3 DEF Probe
      <4>2. l.newCount = 0
        BY <1>0, <2>0 DEF CallInv
      <4> QED BY <1>0, <4>1, <4>2
    <3>2. ~ In(p, g)
      <4>1. i \in Nat /\ \A j \in Hash[p] .. i - 1 : Entry(g, j).key # p
        BY <1>0, <2>0 DEF Passed
      <4> QED BY <4>1, <2>0, <2>3 DEF IInv, PathInv
    <3>3. \A h \in DOMAIN tables : h > g - 1 => ~ In(p, h)
      BY <3>2, <1>0, <2>0 DEF CallInv
    <3>4. \A h \in DOMAIN tables' : h > g - 1 => ~ In(p, h)'
      BY <3>3, <2>0 DEF In
    <3>5. Passed(p, local[p].hash)'
      BY <3>1, <1>0 DEF Passed
    <3>6. g = 1 => ~ Registered(p)'
      BY <3>4, <2>0, <1>0 DEF Registered
    <3>7. g - 1 <= k /\ k \in DOMAIN tables /\ g \in 1 .. Len(tables)
      BY <1>0, <2>0 DEF CallInv
    <3> HIDE DEF e
    <3> QED BY <1>0, <2>0, <3>1, <3>4, <3>5, <3>6, <3>7 DEF CallInv
  <2>4. CASE e.key \notin {none, p}
    <3>1. /\ pc'[p] = "probe" /\ local'[p].main = k /\ local'[p].hash = g
          /\ local'[p].index = i + 1 /\ local'[p].newCount = 0
      BY <1>0, <1>2, <2>0, <2>4 DEF Probe, CallInv
    <3>2. \A j \in Hash[p] .. i : Entry(g, j).key \notin {none, p}
      BY <2>0, <2>4, <1>0 DEF Passed
    <3>3. Passed(p, local[p].hash)'
      <4>1. \A j \in Nat : Entry(local[p].hash, j)' = Entry(g, j)
        BY <2>0, <3>1 DEF Entry, Slot, capacity
      <4>2. \A j \in Hash[p] .. i : Entry(local[p].hash, j)'.key \notin {none, p}
        BY <4>1, <3>2, <1>0
      <4> QED BY <4>2, <3>1, <1>0 DEF Passed
    <3>4. \A h \in DOMAIN tables' : h > g => ~ In(p, h)'
      BY <1>0, <2>0 DEF CallInv, In
    <3> HIDE DEF e
    <3> QED BY <1>0, <2>0, <3>1, <3>3, <3>4 DEF CallInv
  <2> QED BY <1>2, <2>1, <2>2, <2>3, <2>4 DEF Probe
<1>3. CASE Put(p)
  <2>0. pc[p] = "put" /\ k \in DOMAIN tables /\ i >= Hash[p] /\ Passed(p, k)
    BY <1>0, <1>3 DEF Put, CallInv
  <2>1. CASE Entry(k, i).key = none
    BY <1>0, <1>3, <2>1 DEF Put, CallInv, NoLocals
  <2>2. CASE Entry(k, i).key # none
    <3>1. /\ tables' = tables /\ pc' = pc /\ local'[p].main = k /\ local'[p].index = i + 1
          /\ local'[p].newCount = l.newCount /\ local'[p].value = l.value
      BY <1>0, <1>3, <2>2 DEF Put
    <3>2. Entry(k, i).key # p
      <4>1. ~ In(p, k)
        BY <1>0, <2>0 DEF CallInv
      <4>2. Slot(k, i) \in DOMAIN tables[k]
        BY <1>0, <2>0, TableIs
      <4> QED BY <4>1, <4>2 DEF In, Entry
    <3>3. \A j \in Hash[p] .. i : Entry(k, j).key \notin {none, p}
      BY <2>0, <2>2, <3>2, <1>0 DEF Passed
    <3>4. Passed(p, local[p].main)'
      <4>1. \A j \in Nat : Entry(local[p].main, j)' = Entry(k, j)
        BY <3>1 DEF Entry, Slot, capacity
      <4>2. \A j \in Hash[p] .. i : Entry(local[p].main, j)'.key \notin {none, p}
        BY <4>1, <3>3, <1>0
      <4> QED BY <4>2, <3>1, <1>0 DEF Passed
    <3>5. Registered(p)' = Registered(p) /\ Limit(local[p].main)' = Limit(k) /\ In(p, local[p].main)' = In(p, k)
      BY <3>1 DEF Registered, In, Limit, capacity
    <3> QED BY <1>0, <2>0, <3>1, <3>4, <3>5 DEF CallInv
  <2> QED BY <2>1, <2>2
<1>4. CASE Count(p)
  <2>1. implicitProducerHashCount \in Nat
    <3>1. IsFiniteSet(Counted)
      BY FS_Subset DEF Counted, HashAssumption
    <3>2. implicitProducerHashCount = Cardinality(Counted)
      BY DEF IInv, CountInv
    <3> QED BY <3>1, <3>2, FS_CardinalityType
  <2>2. /\ tables' = tables /\ pc'[p] = "lock" /\ local'[p].main = k /\ local'[p].index = Hash[p]
        /\ local'[p].newCount = implicitProducerHashCount + 1 /\ pc[p] = "count"
    BY <1>0, <1>4 DEF Count
  <2>3. ~ Registered(p)
    BY <1>0, <2>2, Tables DEF CallInv, Registered
  <2>4. ~ Registered(p)'
    BY <2>2, <2>3 DEF Registered, In
  <2> QED BY <1>0, <2>1, <2>2, <2>4 DEF CallInv
<1>5. CASE TryLock(p)
  <2>1. tables' = tables /\ pc'[p] \in {"reload", "test"} /\ local' = local /\ pc[p] = "lock"
    BY <1>0, <1>5 DEF TryLock
  <2>2. Registered(p)' = Registered(p)
    BY <2>1 DEF Registered, In
  <2> QED BY <1>0, <2>1, <2>2 DEF CallInv
<1>6. CASE Reload(p)
  <2>1. /\ tables' = tables /\ pc'[p] \in {"grow", "unlock"} /\ pc[p] = "reload" /\ local'[p].main = Len(tables)
        /\ local'[p].index = l.index /\ local'[p].newCount = l.newCount
    BY <1>0, <1>6 DEF Reload
  <2>2. Registered(p)' = Registered(p)
    BY <2>1 DEF Registered, In
  <2> QED BY <1>0, <2>1, <2>2 DEF CallInv
<1>7. CASE Grow(p)
  <2>1. /\ pc'[p] = "unlock" /\ pc[p] = "grow" /\ local'[p].main = Len(tables) + 1
        /\ local'[p].index = l.index /\ local'[p].newCount = l.newCount
    BY <1>0, <1>7 DEF Grow
  <2>2. PICK c \in Nat \ {0} : /\ DOMAIN tables' = DOMAIN tables \cup {Len(tables) + 1} /\ tables'[Len(tables) + 1] = Table(c)
                              /\ \A h \in DOMAIN tables : tables'[h] = tables[h]
    BY <1>7, GrowIs
  <2>3. ~ Registered(p)
    BY <1>0, <2>1 DEF CallInv
  <2>4. \A r \in DOMAIN Table(c) : Table(c)[r].key # p
    BY <1>0 DEF Table
  <2>5. ~ Registered(p)'
    BY <2>2, <2>3, <2>4 DEF Registered, In
  <2> QED BY <1>0, <2>1, <2>2, <2>5 DEF CallInv
<1>8. CASE GrowFails(p) \/ Unlock(p) \/ CreateFails(p)
  <2>1. /\ tables' = tables
        /\ \/ pc'[p] = "idle" /\ local'[p] = NoLocals
           \/ pc'[p] \in {"give up", "test"} /\ pc[p] \in {"grow", "unlock"} /\ local' = local
    BY <1>0, <1>8 DEF GrowFails, Unlock, CreateFails
  <2>2. Registered(p)' = Registered(p)
    BY <2>1 DEF Registered, In
  <2> QED BY <1>0, <2>1, <2>2 DEF CallInv, NoLocals
<1>9. CASE Test(p)
  <2>1. /\ tables' = tables /\ pc[p] = "test" /\ local'[p].index = l.index /\ local'[p].newCount = l.newCount
        /\ \/ pc'[p] = "create" /\ local' = local /\ l.newCount < Limit(k)
           \/ pc'[p] = "lock" /\ local'[p].main = Len(tables)
    BY <1>0, <1>9 DEF Test, Limit
  <2>2. Registered(p)' = Registered(p)
    BY <2>1 DEF Registered, In
  <2>3. local' = local => Limit(k)' = Limit(k)
    BY <2>1 DEF Limit, capacity
  <2> QED BY <1>0, <2>1, <2>2, <2>3 DEF CallInv
<1>10. CASE Create(p)
  <2>1. /\ tables' = tables /\ pc[p] = "create" /\ pc'[p] = "put" /\ local'[p].main = k /\ local'[p].index = l.index
        /\ local'[p].newCount = l.newCount /\ local'[p].value = producers + 1
    BY <1>0, <1>10 DEF Create
  <2>2. /\ Registered(p)' = Registered(p) /\ In(p, local[p].main)' = In(p, k) /\ Limit(local[p].main)' = Limit(k)
    BY <2>1 DEF Registered, In, Limit, capacity
  <2>3. ~ Registered(p) /\ l.index = Hash[p] /\ k \in DOMAIN tables /\ l.newCount # 0 /\ l.newCount < Limit(k)
    BY <2>1, <1>0 DEF CallInv
  <2>4. ~ In(p, k)
    BY <2>3 DEF Registered
  <2>5. Passed(p, local[p].main)'
    BY <2>1, <2>3, <1>0 DEF Passed
  <2>6. producers + 1 > 0
    BY <1>0 DEF TypeOK
  <2> QED BY <1>0, <2>1, <2>2, <2>3, <2>4, <2>5, <2>6 DEF CallInv
<1> QED BY <1>1, <1>2, <1>3, <1>4, <1>5, <1>6, <1>7, <1>8, <1>9, <1>10 DEF Steps, Step

LEMMA PathStep ==
  ASSUME HashAssumption, IInv, NEW p \in Thread, Steps(p)
  PROVE  PathInv'
<1>0. TypeOK /\ Grown(p) /\ PathInv /\ CallInv(p) /\ none \notin Thread /\ Hash \in [Thread -> Nat]
  BY TablesGrow DEF IInv, HashAssumption
<1> SUFFICES ASSUME NEW h \in DOMAIN tables', NEW t \in Thread, In(t, h)', NEW i \in Nat, i >= Hash[t],
                    \A j \in Hash[t] .. i - 1 : Entry(h, j)'.key # t
             PROVE  Entry(h, i)'.key # none
  BY DEF PathInv
<1>1. CASE h \in DOMAIN tables /\ In(t, h)
  <2>1. \A j \in Hash[t] .. i - 1 : Entry(h, j).key # t
    <3> SUFFICES ASSUME NEW j \in Hash[t] .. i - 1 PROVE Entry(h, j).key # t
      OBVIOUS
    <3>1. j \in Nat
      BY <1>0
    <3> QED BY <3>1, <1>0, <1>1, EntryKept
  <2>2. Entry(h, i).key # none
    BY <2>1, <1>0, <1>1 DEF PathInv
  <2> QED BY <2>2, <1>0, <1>1, EntryKept
<1>2. CASE ~ (h \in DOMAIN tables /\ In(t, h))
  <2>1. t = p /\ h = local[p].main
    BY <1>2, NewIn
  <2>2. Put(p) /\ Entry(local[p].main, local[p].index).key = none
    BY <1>2, NewIn
  <2>3. PICK k \in DOMAIN tables, s \in Nat :
           /\ k = local[p].main /\ s = Slot(k, local[p].index) /\ s \in DOMAIN tables[k]
           /\ DOMAIN tables' = DOMAIN tables /\ DOMAIN tables'[k] = DOMAIN tables[k]
           /\ tables'[k][s] = [key |-> p, value |-> local[p].value]
           /\ \A r \in DOMAIN tables[k] : r # s => tables'[k][r] = tables[k][r]
           /\ \A g \in DOMAIN tables : g # k => tables'[g] = tables[g]
    BY <2>2, PutIs
  <2>4. h = k
    BY <2>1, <2>3
  <2>5. PICK n : n = local[p].index
    OBVIOUS
  <2>6. n \in Nat /\ n >= Hash[p] /\ Passed(p, k)
    BY <2>2, <2>3, <2>5, <1>0, Locals DEF Put, At, CallInv
  <2>7. Entry(k, n)'.key = p
    <3>1. Slot(k, n)' = Slot(k, n)
      BY <2>6, <1>0, CapacityKept
    <3> QED BY <3>1, <2>3, <2>5 DEF Entry
  <2>8. i <= n
    <3> SUFFICES ASSUME n < i PROVE FALSE
      BY <2>6
    <3>1. n \in Hash[t] .. i - 1
      BY <2>6, <2>1, <1>0
    <3> QED BY <3>1, <2>7, <2>4, <2>1
  <2>9. CASE i = n
    BY <2>9, <2>7, <2>4, <1>0
  <2>10. CASE i < n
    <3>1. i \in Hash[p] .. n - 1
      BY <2>10, <2>1, <2>6, <1>0
    <3>2. Entry(k, i).key # none
      BY <3>1, <2>6, <2>5 DEF Passed
    <3> QED BY <3>2, <2>4, <1>0, EntryKept
  <2> QED BY <2>6, <2>8, <2>9, <2>10
<1> QED BY <1>1, <1>2

LEMMA OneEntryStep ==
  ASSUME HashAssumption, IInv, NEW p \in Thread, Steps(p)
  PROVE  OneEntry'
<1>0. TypeOK /\ Grown(p) /\ OneEntry /\ CallInv(p) /\ p # none
  BY TablesGrow DEF IInv, HashAssumption
<1>1. CASE tables' = tables
  BY <1>0, <1>1 DEF OneEntry
<1>2. CASE Grow(p)
  <2>1. PICK c \in Nat \ {0} : /\ DOMAIN tables' = DOMAIN tables \cup {Len(tables) + 1} /\ tables'[Len(tables) + 1] = Table(c)
                              /\ \A g \in DOMAIN tables : tables'[g] = tables[g]
    BY <1>2, GrowIs
  <2>2. \A r \in DOMAIN Table(c) : Table(c)[r].key = none
    BY DEF Table
  <2> QED BY <2>1, <2>2, <1>0 DEF OneEntry
<1>3. CASE Put(p) /\ Entry(local[p].main, local[p].index).key = none
  <2>1. PICK k \in DOMAIN tables, s \in Nat :
           /\ k = local[p].main /\ s \in DOMAIN tables[k]
           /\ DOMAIN tables' = DOMAIN tables /\ DOMAIN tables'[k] = DOMAIN tables[k]
           /\ tables'[k][s] = [key |-> p, value |-> local[p].value]
           /\ \A r \in DOMAIN tables[k] : r # s => tables'[k][r] = tables[k][r]
           /\ \A g \in DOMAIN tables : g # k => tables'[g] = tables[g]
    BY <1>3, PutIs
  <2>2. \A r \in DOMAIN tables[k] : tables[k][r].key # p
    BY <2>1, <1>0, <1>3 DEF CallInv, In, Put, At
  <2> QED BY <2>1, <2>2, <1>0 DEF OneEntry
<1> QED BY <1>1, <1>2, <1>3, TableSteps

\* A producer is got from a table, or made.
LEMMA OwnFrom ==
  ASSUME HashAssumption, IInv, NEW p \in Thread, Steps(p), NEW t \in Thread, NEW v \in Nat, Owns(t, v)'
  PROVE  Owns(t, v) \/ (t = p /\ Create(p) /\ v = producers + 1)
<1> USE DEF Goto, Set, Return, Fail, shared, At
<1>0. TypeOK /\ Grown(p) /\ t # none
  BY TablesGrow DEF IInv, HashAssumption
<1>1. ASSUME NEW h \in DOMAIN tables', NEW s \in DOMAIN tables'[h], tables'[h][s].key = t, tables'[h][s].value = v
      PROVE  Owns(t, v)
  <2>1. CASE tables' = tables
    BY <1>1, <2>1 DEF Owns
  <2>2. CASE Grow(p)
    <3>1. PICK c \in Nat \ {0} : /\ DOMAIN tables' = DOMAIN tables \cup {Len(tables) + 1} /\ tables'[Len(tables) + 1] = Table(c)
                                /\ \A g \in DOMAIN tables : tables'[g] = tables[g]
      BY <2>2, GrowIs
    <3>2. \A r \in DOMAIN Table(c) : Table(c)[r].key # t
      BY <1>0 DEF Table
    <3> QED BY <1>1, <3>1, <3>2 DEF Owns
  <2>3. CASE Put(p) /\ Entry(local[p].main, local[p].index).key = none
    <3>1. PICK k \in DOMAIN tables, r \in Nat :
             /\ r \in DOMAIN tables[k]
             /\ DOMAIN tables' = DOMAIN tables /\ DOMAIN tables'[k] = DOMAIN tables[k]
             /\ tables'[k][r] = [key |-> p, value |-> local[p].value]
             /\ \A i \in DOMAIN tables[k] : i # r => tables'[k][i] = tables[k][i]
             /\ \A g \in DOMAIN tables : g # k => tables'[g] = tables[g]
      BY <2>3, PutIs
    <3>2. pc[p] = "put"
      BY <2>3 DEF Put
    <3>3. CASE h = k /\ s = r
      <4>1. t = p /\ v = local[p].value
        BY <1>1, <3>1, <3>3
      <4> QED BY <4>1, <3>2 DEF Owns
    <3>4. CASE ~ (h = k /\ s = r)
      <4>1. h \in DOMAIN tables /\ s \in DOMAIN tables[h] /\ tables'[h][s] = tables[h][s]
        BY <3>1, <3>4
      <4> QED BY <4>1, <1>1 DEF Owns
    <3> QED BY <3>3, <3>4
  <2> QED BY <2>1, <2>2, <2>3, TableSteps
<1>2. ASSUME pc'[t] = "put", local'[t].value = v
      PROVE  Owns(t, v) \/ (t = p /\ Create(p) /\ v = producers + 1)
  <2>0. pc \in [Thread -> PCs] /\ local \in [Thread -> [main : Nat, hash : Nat, index : Nat, newCount : Nat, value : Nat]]
    BY <1>0 DEF TypeOK
  <2>1. CASE t # p
    BY <1>2, <2>1, OthersStay DEF Owns
  <2>2. CASE t = p /\ Probe(p)
    <3>0. pc[p] = "probe" /\ local[p].hash \in DOMAIN tables /\ local[p].index \in Nat
      BY <2>2, Locals DEF Probe
    <3>1. PICK h \in DOMAIN tables, i \in Nat : h = local[p].hash /\ i = local[p].index
      BY <3>0
    <3>2. Entry(h, i).key = p /\ v = Entry(h, i).value
      <4>1. pc'[p] = "put" /\ local'[p].value = v
        BY <1>2, <2>2
      <4>2. /\ Entry(local[p].hash, local[p].index).key = p
            /\ local' = [local EXCEPT ![p] = [local[p] EXCEPT !.index = Hash[p], !.value = Entry(local[p].hash, local[p].index).value]]
        BY <4>1, <2>0, <2>2 DEF Probe
      <4>3. local'[p].value = Entry(local[p].hash, local[p].index).value
        BY <4>2, <2>0
      <4> QED BY <4>1, <4>2, <4>3, <3>1
    <3>3. Slot(h, i) \in DOMAIN tables[h]
      BY <1>0, TableIs
    <3> QED BY <2>2, <3>2, <3>3 DEF Owns, Entry
  <2>3. CASE t = p /\ Put(p)
    <3>1. pc[p] = "put" /\ local[p].value = v
      BY <1>2, <2>0, <2>3 DEF Put
    <3> QED BY <2>3, <3>1 DEF Owns
  <2>4. CASE t = p /\ Create(p)
    BY <1>2, <2>0, <2>4 DEF Create
  <2>5. CASE t = p /\ ~ Probe(p) /\ ~ Put(p) /\ ~ Create(p)
    BY <1>2, <2>0, <2>5 DEF Steps, Step, Call, Count, TryLock, Reload, Grow, GrowFails, Unlock, Test, CreateFails
  <2> QED BY <2>1, <2>2, <2>3, <2>4, <2>5
<1> QED BY <1>1, <1>2 DEF Owns

LEMMA OwnStep ==
  ASSUME HashAssumption, IInv, NEW p \in Thread, Steps(p)
  PROVE  OwnInv'
<1>0. TypeOK /\ OwnInv /\ CallInv(p) /\ producers \in Nat
  BY DEF IInv, TypeOK
<1> SUFFICES ASSUME NEW t \in Thread, NEW u \in Thread, NEW v \in Nat, NEW w \in Nat, Owns(t, v)', Owns(u, w)'
             PROVE  (t = u <=> v = w) /\ v \in 1 .. producers'
  BY DEF OwnInv
<1>1. CASE ~ Create(p)
  <2>1. Owns(t, v) /\ Owns(u, w)
    BY <1>1, OwnFrom
  <2>2. producers' = producers
    BY <1>1 DEF Steps, Step, Call, Probe, Put, Count, TryLock, Reload, Grow, GrowFails, Unlock, Test, CreateFails, shared
  <2> QED BY <2>1, <2>2, <1>0 DEF OwnInv
<1>2. CASE Create(p)
  <2>1. producers' = producers + 1 /\ ~ Registered(p) /\ pc[p] = "create"
    BY <1>0, <1>2 DEF Create, At, CallInv
  <2>2. \A x : ~ Owns(p, x)
    BY <2>1 DEF Owns, Registered, In
  <2>3. /\ IF t = p THEN v = producers + 1 ELSE Owns(t, v)
        /\ IF u = p THEN w = producers + 1 ELSE Owns(u, w)
    BY <2>2, OwnFrom
  <2>4. ASSUME NEW x \in Thread, NEW y \in Nat, Owns(x, y)
        PROVE  y \in 1 .. producers
    BY <2>4, <1>0 DEF OwnInv
  <2> QED BY <2>1, <2>3, <2>4, <1>0 DEF OwnInv
<1> QED BY <1>1, <1>2

LEMMA GotStep ==
  ASSUME HashAssumption, IInv, NEW p \in Thread, Steps(p)
  PROVE  GotInv'
<1> USE DEF Goto, Set, Return, Fail, shared, At
<1>0. TypeOK /\ Grown(p) /\ GotInv /\ none \notin Thread /\ got \in [Thread -> Nat]
  BY TablesGrow DEF IInv, HashAssumption, TypeOK
<1>1. ASSUME NEW t \in Thread, NEW v, \E h \in DOMAIN tables : \E s \in DOMAIN tables[h] : tables[h][s].key = t /\ tables[h][s].value = v
      PROVE  \E h \in DOMAIN tables' : \E s \in DOMAIN tables'[h] : tables'[h][s].key = t /\ tables'[h][s].value = v
  BY <1>0, <1>1 DEF Grown
<1>2. got'[p] # 0 => \E h \in DOMAIN tables' : \E s \in DOMAIN tables'[h] : tables'[h][s].key = p /\ tables'[h][s].value = got'[p]
  <2>1. CASE got' = got
    BY <2>1, <1>0, <1>1 DEF GotInv
  <2>2. CASE Probe(p) /\ got' # got
    <3>1. local[p].hash \in DOMAIN tables /\ local[p].index \in Nat /\ tables' = tables
      BY <2>2, Locals DEF Probe
    <3>2. Slot(local[p].hash, local[p].index) \in DOMAIN tables[local[p].hash]
      BY <1>0, <3>1, TableIs
    <3>3. Entry(local[p].hash, local[p].index).key = p /\ got'[p] = Entry(local[p].hash, local[p].index).value
      BY <2>2, <1>0 DEF Probe
    <3> QED BY <3>1, <3>2, <3>3 DEF Entry
  <2>3. CASE Put(p) /\ got' # got
    <3>1. Entry(local[p].main, local[p].index).key = none /\ got'[p] = local[p].value
      BY <2>3, <1>0 DEF Put
    <3>2. PICK k \in DOMAIN tables, s \in Nat :
             /\ s \in DOMAIN tables[k]
             /\ DOMAIN tables' = DOMAIN tables /\ DOMAIN tables'[k] = DOMAIN tables[k]
             /\ tables'[k][s] = [key |-> p, value |-> local[p].value]
      BY <2>3, <3>1, PutIs
    <3> QED BY <3>1, <3>2
  <2>4. Probe(p) \/ Put(p) \/ got' = got
    BY DEF Steps, Step, Call, Count, TryLock, Reload, Grow, GrowFails, Unlock, Test, Create, CreateFails
  <2> QED BY <2>1, <2>2, <2>3, <2>4
<1>3. ASSUME NEW t \in Thread, t # p, got'[t] # 0
      PROVE  \E h \in DOMAIN tables' : \E s \in DOMAIN tables'[h] : tables'[h][s].key = t /\ tables'[h][s].value = got'[t]
  <2>1. got'[t] = got[t]
    BY <1>3, OthersStay
  <2> QED BY <2>1, <1>0, <1>1, <1>3 DEF GotInv
<1> QED BY <1>2, <1>3 DEF GotInv

LEMMA RegisteredOther ==
  ASSUME HashAssumption, IInv, NEW p \in Thread, Steps(p), NEW q \in Thread
  PROVE  /\ Registered(q) => Registered(q)'
         /\ q # p => (Registered(q)' <=> Registered(q)) /\ (Pending(q)' <=> Pending(q))
<1>0. TypeOK /\ Grown(p)
  BY TablesGrow DEF IInv
<1>1. Registered(q) => Registered(q)'
  BY <1>0, InKept DEF Registered, Grown
<1>2. q # p => (Registered(q)' => Registered(q))
  BY <1>0, InKept DEF Registered
<1>3. q # p => (Pending(q)' <=> Pending(q))
  BY OthersStay DEF Pending
<1> QED BY <1>1, <1>2, <1>3

\* A thread's count is taken once in a call, and forgotten with it.
LEMMA NewCountSteps ==
  ASSUME HashAssumption, IInv, NEW p \in Thread, Steps(p), ~ Count(p)
  PROVE  /\ pc'[p] # "idle" => local'[p].newCount = local[p].newCount
         /\ pc'[p] = "idle" => local'[p].newCount = 0
         /\ pc[p] = "give up" => pc'[p] = "idle"
         /\ pc'[p] = "give up" => GrowFails(p)
<1> USE DEF Goto, Set, Return, Fail, shared, At
<1>0. /\ TypeOK /\ CallInv(p) /\ pc \in [Thread -> PCs]
      /\ local \in [Thread -> [main : Nat, hash : Nat, index : Nat, newCount : Nat, value : Nat]]
  BY DEF IInv, TypeOK
<1>n. NoLocals.newCount = 0
  BY DEF NoLocals
<1>1. CASE Call(p)
  BY <1>0, <1>1 DEF Call, NoLocals, CallInv
<1>2. CASE Probe(p)
  <2>1. pc[p] = "probe" /\ local[p].newCount = 0
    BY <1>0, <1>2 DEF Probe, CallInv
  <2>2. pc'[p] \in {"idle", "put", "probe", "count"}
    BY <1>0, <1>2 DEF Probe
  <2>3. \/ local' = [local EXCEPT ![p] = NoLocals]
        \/ \E n, m : local' = [local EXCEPT ![p] = [local[p] EXCEPT !.index = n, !.value = m]]
        \/ \E n, m : local' = [local EXCEPT ![p] = [local[p] EXCEPT !.hash = n, !.index = m]]
        \/ \E n : local' = [local EXCEPT ![p] = [local[p] EXCEPT !.index = n]]
    BY <1>2, Zenon DEF Probe
  <2>4. local'[p].newCount = 0
    <3>1. CASE local' = [local EXCEPT ![p] = NoLocals]
      BY <3>1, <1>0, <1>n
    <3>2. ASSUME NEW n, NEW m, local' = [local EXCEPT ![p] = [local[p] EXCEPT !.index = n, !.value = m]]
          PROVE  local'[p].newCount = 0
      BY <3>2, <1>0, <2>1
    <3>3. ASSUME NEW n, NEW m, local' = [local EXCEPT ![p] = [local[p] EXCEPT !.hash = n, !.index = m]]
          PROVE  local'[p].newCount = 0
      BY <3>3, <1>0, <2>1
    <3>4. ASSUME NEW n, local' = [local EXCEPT ![p] = [local[p] EXCEPT !.index = n]]
          PROVE  local'[p].newCount = 0
      BY <3>4, <1>0, <2>1
    <3> QED BY <2>3, <3>1, <3>2, <3>3, <3>4
  <2> QED BY <2>1, <2>2, <2>4
<1>3. CASE Put(p)
  <2>1. pc[p] = "put" /\ \/ pc'[p] = "idle" /\ local'[p] = NoLocals
                         \/ pc'[p] = "put" /\ local'[p] = [local[p] EXCEPT !.index = local[p].index + 1]
    BY <1>0, <1>3 DEF Put
  <2> QED BY <2>1, <1>0, <1>n
<1>4. CASE TryLock(p) \/ Test(p) \/ Create(p) \/ Reload(p) \/ Grow(p)
  BY <1>0, <1>4 DEF TryLock, Test, Create, Reload, Grow
<1>5. CASE GrowFails(p) \/ Unlock(p) \/ CreateFails(p)
  BY <1>0, <1>n, <1>5 DEF GrowFails, Unlock, CreateFails
<1> QED BY <1>1, <1>2, <1>3, <1>4, <1>5 DEF Steps, Step

\* When the count changes.
LEMMA CountedSelf ==
  ASSUME HashAssumption, IInv, NEW p \in Thread, Steps(p)
  PROVE  \/ /\ Count(p) /\ p \notin Counted /\ p \in Counted'
            /\ implicitProducerHashCount' = implicitProducerHashCount + 1
         \/ /\ p \in Counted /\ p \notin Counted'
            /\ implicitProducerHashCount' = implicitProducerHashCount - 1
         \/ /\ ~ Count(p) /\ (p \in Counted' <=> p \in Counted)
            /\ implicitProducerHashCount' = implicitProducerHashCount
<1> USE DEF Goto, Set, Return, Fail, shared, At
<1>0. /\ TypeOK /\ CallInv(p) /\ CallInv(p)' /\ pc \in [Thread -> PCs]
      /\ local \in [Thread -> [main : Nat, hash : Nat, index : Nat, newCount : Nat, value : Nat]]
      /\ implicitProducerHashCount \in Int /\ local[p].newCount \in Nat
  BY CallSelf, Locals DEF IInv, TypeOK
<1>1. p \in Counted <=> Registered(p) \/ (local[p].newCount > 0 /\ pc[p] # "give up")
  BY DEF Counted, Pending
<1>2. p \in Counted' <=> Registered(p)' \/ (local'[p].newCount > 0 /\ pc'[p] # "give up")
  BY DEF Counted, Pending
<1>3. Registered(p) => Registered(p)'
  BY RegisteredOther
<1>4. CASE Count(p)
  <2>1. implicitProducerHashCount \in Nat
    <3>1. IsFiniteSet(Counted)
      BY FS_Subset DEF Counted, HashAssumption
    <3>2. implicitProducerHashCount = Cardinality(Counted)
      BY DEF IInv, CountInv
    <3> QED BY <3>1, <3>2, FS_CardinalityType
  <2>2. /\ pc[p] = "count" /\ pc'[p] = "lock" /\ local'[p].newCount = implicitProducerHashCount + 1
        /\ implicitProducerHashCount' = implicitProducerHashCount + 1
    BY <1>0, <1>4 DEF Count
  <2>3. local[p].newCount = 0 /\ ~ Registered(p)
    BY <2>2, <1>0 DEF CallInv
  <2> QED BY <2>1, <2>2, <2>3, <1>1, <1>2, <1>4
<1>5. CASE GrowFails(p) \/ CreateFails(p)
  <2>1. /\ pc[p] \in {"grow", "create"} /\ pc'[p] \in {"give up", "idle"} /\ tables' = tables /\ ~ Count(p)
        /\ implicitProducerHashCount' = implicitProducerHashCount - 1
    BY <1>0, <1>5 DEF GrowFails, CreateFails, Count
  <2>2. local[p].newCount > 0 /\ ~ Registered(p)
    <3>1. local[p].newCount # 0 /\ ~ Registered(p)
      BY <2>1, <1>0 DEF CallInv
    <3>2. local[p].newCount \in Nat
      BY <1>0
    <3> QED BY <3>1, <3>2
  <2>3. ~ Registered(p)'
    BY <2>1, <2>2 DEF Registered, In
  <2>4. pc'[p] = "idle" => local'[p].newCount = 0
    BY <2>1, NewCountSteps
  <2>5. p \in Counted
    BY <2>1, <2>2, <1>1
  <2>6. p \notin Counted'
    <3>1. CASE pc'[p] = "give up"
      BY <2>3, <1>2, <3>1
    <3>2. CASE pc'[p] = "idle"
      <4>1. ~ (local'[p].newCount > 0)
        BY <3>2, <2>4
      <4> QED BY <4>1, <2>3, <1>2
    <3> QED BY <3>1, <3>2, <2>1
  <2> QED BY <2>1, <2>5, <2>6
<1>6. CASE ~ Count(p) /\ ~ GrowFails(p) /\ ~ CreateFails(p)
  <2>1. implicitProducerHashCount' = implicitProducerHashCount
    BY <1>6 DEF Steps, Step, Call, Probe, Put, TryLock, Reload, Grow, Unlock, Test, Create
  <2>2. CASE Put(p) /\ Entry(local[p].main, local[p].index).key = none
    <3>1. pc[p] = "put"
      BY <2>2 DEF Put
    <3>2. p \in Counted
      BY <3>1, <1>0, <1>1 DEF CallInv, Registered, In
    <3>3. PICK k \in DOMAIN tables, s \in Nat :
             /\ s \in DOMAIN tables[k]
             /\ DOMAIN tables' = DOMAIN tables /\ DOMAIN tables'[k] = DOMAIN tables[k]
             /\ tables'[k][s] = [key |-> p, value |-> local[p].value]
      BY <2>2, PutIs
    <3>4. Registered(p)'
      BY <3>3 DEF Registered, In
    <3> QED BY <1>2, <1>6, <2>1, <3>2, <3>4
  <2>3. CASE ~ (Put(p) /\ Entry(local[p].main, local[p].index).key = none)
    <3>1. Registered(p)' <=> Registered(p)
      <4>1. \A h \in DOMAIN tables' : In(p, h)' => h \in DOMAIN tables /\ In(p, h)
        BY <2>3, NewIn
      <4> QED BY <4>1, <1>3 DEF Registered
    <3>2. (local'[p].newCount > 0 /\ pc'[p] # "give up") <=> (local[p].newCount > 0 /\ pc[p] # "give up")
      <4>1. /\ pc'[p] # "idle" => local'[p].newCount = local[p].newCount
            /\ pc'[p] = "idle" => local'[p].newCount = 0
            /\ pc[p] = "give up" => pc'[p] = "idle"
            /\ pc'[p] # "give up"
        BY <1>6, NewCountSteps
      <4>2. pc'[p] = "idle" => local[p].newCount = 0 \/ pc[p] = "give up"
        <5>1. pc'[p] = "idle" => Probe(p) \/ pc[p] = "give up"
          BY <1>0, <1>6, <2>3 DEF Steps, Step, Call, Put, TryLock, Reload, Grow, Unlock, Test, Create
        <5>2. Probe(p) => local[p].newCount = 0
          BY <1>0 DEF Probe, CallInv
        <5> QED BY <5>1, <5>2
      <4>3. CASE pc'[p] = "idle"
        <5>1. ~ (local'[p].newCount > 0)
          BY <4>1, <4>3
        <5>2. ~ (local[p].newCount > 0 /\ pc[p] # "give up")
          <6>1. CASE local[p].newCount = 0
            <7>1. ~ (local[p].newCount > 0)
              BY <6>1
            <7> QED BY <7>1
          <6>2. CASE pc[p] = "give up"
            BY <6>2
          <6> QED BY <4>2, <4>3, <6>1, <6>2
        <5> QED BY <5>1, <5>2
      <4>4. CASE pc'[p] # "idle"
        BY <4>1, <4>4
      <4> QED BY <4>3, <4>4
    <3> QED BY <1>1, <1>2, <1>6, <2>1, <3>1, <3>2
  <2> QED BY <2>2, <2>3
<1> QED BY <1>4, <1>5, <1>6

LEMMA CountStep ==
  ASSUME HashAssumption, IInv, NEW p \in Thread, Steps(p)
  PROVE  CountInv'
<1>0. IsFiniteSet(Thread) /\ implicitProducerHashCount = Cardinality(Counted) /\ implicitProducerHashCount \in Int
  BY DEF IInv, CountInv, HashAssumption, TypeOK
<1>1. \A q \in Thread : q # p => (q \in Counted' <=> q \in Counted)
  BY RegisteredOther DEF Counted
<1>2. Counted \subseteq Thread /\ Counted' \subseteq Thread
  BY DEF Counted
<1>3. IsFiniteSet(Counted) /\ IsFiniteSet(Counted')
  BY <1>0, <1>2, FS_Subset
<1>4. CASE p \notin Counted /\ p \in Counted' /\ implicitProducerHashCount' = implicitProducerHashCount + 1
  <2>1. Counted' = Counted \cup {p}
    BY <1>1, <1>2, <1>4
  <2>2. Cardinality(Counted') = Cardinality(Counted) + 1
    BY <2>1, <1>3, <1>4, FS_AddElement
  <2> QED BY <2>2, <1>0, <1>4 DEF CountInv
<1>5. CASE p \in Counted /\ p \notin Counted' /\ implicitProducerHashCount' = implicitProducerHashCount - 1
  <2>1. Counted' = Counted \ {p}
    BY <1>1, <1>2, <1>5
  <2>2. Cardinality(Counted') = Cardinality(Counted) - 1
    BY <2>1, <1>3, <1>5, FS_RemoveElement
  <2> QED BY <2>2, <1>0, <1>5 DEF CountInv
<1>6. CASE (p \in Counted' <=> p \in Counted) /\ implicitProducerHashCount' = implicitProducerHashCount
  <2>1. Counted' = Counted
    BY <1>1, <1>2, <1>6
  <2> QED BY <2>1, <1>0, <1>6 DEF CountInv
<1> QED BY <1>4, <1>5, <1>6, CountedSelf

LEMMA RoomStep ==
  ASSUME HashAssumption, IInv, NEW p \in Thread, Steps(p)
  PROVE  RoomInv'
<1> USE DEF Goto, Set, Return, Fail, shared, At
<1>0. /\ TypeOK /\ Grown(p) /\ CallInv(p) /\ SizesInv /\ RoomInv /\ IsFiniteSet(Thread) /\ pc \in [Thread -> PCs]
      /\ local \in [Thread -> [main : Nat, hash : Nat, index : Nat, newCount : Nat, value : Nat]]
  BY TablesGrow DEF IInv, HashAssumption, TypeOK
<1> SUFFICES ASSUME NEW n \in Nat \ {0}
             PROVE  Cardinality(Below(n)') < n
  BY DEF RoomInv
<1>1. IsFiniteSet(Below(n)) /\ IsFiniteSet(Below(n)') /\ IsFiniteSet(Counted') /\ Cardinality(Below(n)) < n
  <2>1. Below(n) \subseteq Thread /\ Below(n)' \subseteq Thread /\ Counted' \subseteq Thread
    BY DEF Below, Counted
  <2> QED BY <2>1, <1>0, FS_Subset DEF RoomInv
<1>2. CASE Count(p) /\ local'[p].newCount < n
  <2>1. Below(n)' \subseteq Counted'
    <3>1. \A q \in Thread, h \in DOMAIN tables' : In(q, h)' => Registered(q)'
      BY DEF Registered
    <3> QED BY <3>1 DEF Below, Counted
  <2>2. Cardinality(Below(n)') <= Cardinality(Counted')
    BY <2>1, <1>1, FS_Subset
  <2>3. Cardinality(Counted') = implicitProducerHashCount'
    BY CountStep DEF CountInv
  <2>4. local'[p].newCount = implicitProducerHashCount'
    BY <1>0, <1>2 DEF Count
  <2>5. Cardinality(Below(n)') \in Nat /\ Cardinality(Counted') \in Nat
    BY <1>1, FS_CardinalityType
  <2> QED BY <2>2, <2>3, <2>4, <2>5, <1>2
<1>3. CASE ~ (Count(p) /\ local'[p].newCount < n)
  <2>1. Below(n)' \subseteq Below(n)
    <3> SUFFICES ASSUME NEW q \in Thread, q \in Below(n)'
                 PROVE  q \in Below(n)
      BY DEF Below
    <3>1. ASSUME NEW h \in DOMAIN tables', Limit(h)' <= n, In(q, h)'
          PROVE  q \in Below(n)
      <4>1. CASE h \in DOMAIN tables /\ In(q, h)
        <5>1. Limit(h)' = Limit(h)
          BY <4>1, <1>0, CapacityKept
        <5> QED BY <3>1, <4>1, <5>1 DEF Below
      <4>2. CASE ~ (h \in DOMAIN tables /\ In(q, h))
        <5>1. q = p /\ Put(p) /\ h = local[p].main /\ h \in DOMAIN tables
          BY <3>1, <4>2, NewIn
        <5>2. Limit(h) <= n /\ Limit(h) \in Nat
          BY <3>1, <5>1, <1>0, CapacityKept, TableIs
        <5>3. CASE local[p].newCount > 0
          <6>1. pc[p] = "put" /\ local[p].newCount < Limit(h)
            BY <5>1, <5>3, <1>0 DEF Put, CallInv
          <6>2. local[p].newCount < n /\ Pending(p)
            BY <5>2, <5>3, <6>1, <1>0 DEF Pending
          <6> QED BY <5>1, <6>2 DEF Below
        <5>4. CASE local[p].newCount = 0
          <6>1. PICK g \in DOMAIN tables : g < h /\ In(p, g)
            BY <5>1, <5>4, <1>0 DEF Put, CallInv, In
          <6>2. g \in Nat /\ h \in Nat
            BY <5>1, <1>0, Tables
          <6>3. capacity(g) <= capacity(h) /\ capacity(g) \in Nat /\ capacity(h) \in Nat
            BY <5>1, <6>1, <6>2, <1>0, TableIs DEF SizesInv
          <6>4. Limit(g) <= Limit(h) /\ Limit(g) \in Nat
            <7>1. PICK a, b : a = capacity(g) /\ b = capacity(h)
              OBVIOUS
            <7>2. a \in Nat /\ b \in Nat /\ a <= b
              BY <6>3, <7>1
            <7>3. a \div 2 <= b \div 2 /\ a \div 4 <= b \div 4
              BY <7>2
            <7>4. a \div 2 \in Nat /\ b \div 2 \in Nat /\ a \div 4 \in Nat /\ b \div 4 \in Nat
              BY <7>2
            <7> QED BY <7>1, <7>3, <7>4 DEF Limit
          <6>5. Limit(g) <= n
            BY <6>4, <5>2
          <6> QED BY <5>1, <6>1, <6>5 DEF Below
        <5> QED BY <5>3, <5>4, <1>0
      <4> QED BY <4>1, <4>2
    <3>2. ASSUME Pending(q)', local'[q].newCount < n
          PROVE  q \in Below(n)
      <4>1. CASE q # p
        <5>1. Pending(q) /\ local[q].newCount < n
          BY <3>2, <4>1, OthersStay DEF Pending
        <5> QED BY <5>1 DEF Below
      <4>2. CASE q = p
        <5>1. ~ Count(p)
          BY <3>2, <4>2, <1>3
        <5>2. local'[p].newCount > 0
          BY <3>2, <4>2 DEF Pending
        <5>3. local'[p].newCount = local[p].newCount /\ pc[p] # "give up"
          <6>1. pc'[p] # "idle"
            <7>1. local'[p].newCount # 0
              BY <5>2
            <7> QED BY <7>1, <5>1, NewCountSteps
          <6> QED BY <6>1, <5>1, NewCountSteps
        <5> QED BY <3>2, <4>2, <5>2, <5>3 DEF Below, Pending
      <4> QED BY <4>1, <4>2
    <3> QED BY <3>1, <3>2 DEF Below
  <2>2. Cardinality(Below(n)') <= Cardinality(Below(n))
    BY <2>1, <1>1, FS_Subset
  <2>3. Cardinality(Below(n)') \in Nat /\ Cardinality(Below(n)) \in Nat
    BY <1>1, FS_CardinalityType
  <2> QED BY <2>2, <2>3, <1>1
<1> QED BY <1>2, <1>3

-----------------------------------------------------------------------------
(* The invariant.                                                           *)

LEMMA InvInit ==
  ASSUME HashAssumption, Init
  PROVE  IInv
<1>0. /\ tables = <<Table(InitialSize)>> /\ InitialSize \in Nat \ {0} /\ none \notin Thread
      /\ pc = [t \in Thread |-> "idle"] /\ local = [t \in Thread |-> NoLocals] /\ got = [t \in Thread |-> 0]
      /\ implicitProducerHashCount = 0 /\ implicitProducerHashResizeInProgress = FALSE /\ producers = 0
  BY DEF Init, HashAssumption
<1>1. Table(InitialSize) \in TableType /\ DOMAIN tables = {1} /\ tables[1] = Table(InitialSize)
  BY <1>0, NewTable
<1>2. tables \in Seq(TableType) /\ tables # <<>>
  <2> HIDE DEF TableType
  <2> QED BY <1>0, <1>1
<1>3. TypeOK
  <2>1. NoLocals \in [main : Nat, hash : Nat, index : Nat, newCount : Nat, value : Nat]
    BY DEF NoLocals
  <2>2. local \in [Thread -> [main : Nat, hash : Nat, index : Nat, newCount : Nat, value : Nat]]
    BY <1>0, <2>1
  <2>3. pc \in [Thread -> PCs] /\ got \in [Thread -> Nat]
    BY <1>0 DEF PCs
  <2>4. implicitProducerHashCount \in Int /\ producers \in Nat
    BY <1>0
  <2>5. implicitProducerHashResizeInProgress \in BOOLEAN
    BY <1>0, Zenon
  <2> QED BY <1>2, <2>2, <2>3, <2>4, <2>5 DEF TypeOK
<1>4. \A h \in DOMAIN tables : \A s \in DOMAIN tables[h] : tables[h][s].key = none
  <2>1. \A s \in DOMAIN Table(InitialSize) : Table(InitialSize)[s].key = none
    BY DEF Table
  <2> QED BY <1>1, <2>1
<1>5. \A t \in Thread : ~ Registered(t) /\ ~ Pending(t) /\ pc[t] = "idle" /\ local[t] = NoLocals
  BY <1>0, <1>4 DEF Registered, In, Pending, NoLocals
<1>6. SizesInv
  BY <1>1, <1>3, TableIs DEF SizesInv
<1>7. ResizeInv
  BY <1>5 DEF ResizeInv, Resizing
<1>8. \A t \in Thread : CallInv(t)
  BY <1>5 DEF CallInv
<1>9. PathInv
  BY <1>5 DEF PathInv, Registered
<1>10. OneEntry
  BY <1>4 DEF OneEntry
<1>11. \A t \in Thread : \A v : ~ Owns(t, v)
  BY <1>5, <1>4, <1>0 DEF Owns
<1>12. OwnInv /\ GotInv
  BY <1>0, <1>11 DEF OwnInv, GotInv
<1>13. Counted = {}
  BY <1>5 DEF Counted
<1>14. CountInv
  BY <1>0, <1>13, FS_EmptySet DEF CountInv
<1>15. \A n \in Nat \ {0} : Below(n) = {}
  BY <1>5 DEF Below, Registered
<1>16. RoomInv
  BY <1>15, FS_EmptySet DEF RoomInv
<1> QED BY <1>3, <1>6, <1>7, <1>8, <1>9, <1>10, <1>12, <1>14, <1>16 DEF IInv

LEMMA InvSame ==
  ASSUME IInv, UNCHANGED vars
  PROVE  IInv'
<1>0. /\ tables' = tables /\ implicitProducerHashCount' = implicitProducerHashCount /\ producers' = producers
      /\ implicitProducerHashResizeInProgress' = implicitProducerHashResizeInProgress
      /\ got' = got /\ pc' = pc /\ local' = local
  BY DEF vars, shared
<1>1. TypeOK'
  BY <1>0 DEF IInv, TypeOK
<1>2. SizesInv' /\ ResizeInv' /\ OneEntry' /\ GotInv'
  BY <1>0 DEF IInv, SizesInv, ResizeInv, OneEntry, GotInv, capacity
<1>3. \A t \in Thread : CallInv(t)'
  <2> SUFFICES ASSUME NEW t \in Thread PROVE CallInv(t)'
    OBVIOUS
  <2>1. CallInv(t)' = CallInv(t)
    BY <1>0 DEF CallInv, Passed, In, Registered, Entry, Slot, Limit, capacity
  <2> QED BY <2>1 DEF IInv
<1>4. PathInv'
  <2>1. PathInv' = PathInv
    BY <1>0 DEF PathInv, In, Entry, Slot, capacity
  <2> QED BY <2>1 DEF IInv
<1>5. OwnInv'
  <2>1. OwnInv' = OwnInv
    BY <1>0 DEF OwnInv, Owns
  <2> QED BY <2>1 DEF IInv
<1>6. CountInv'
  <2>1. Counted' = Counted
    BY <1>0 DEF Counted, Registered, In, Pending
  <2> QED BY <1>0, <2>1 DEF IInv, CountInv
<1>7. RoomInv'
  <2>1. \A n : Below(n)' = Below(n)
    BY <1>0 DEF Below, In, Pending, Limit, capacity
  <2> QED BY <2>1 DEF IInv, RoomInv
<1> QED BY <1>1, <1>2, <1>3, <1>4, <1>5, <1>6, <1>7 DEF IInv

LEMMA InvStep ==
  ASSUME HashAssumption, IInv, [Next]_vars
  PROVE  IInv'
<1>1. CASE UNCHANGED vars
  BY <1>1, InvSame
<1>2. ASSUME NEW p \in Thread, Steps(p)
      PROVE  IInv'
  <2>1. \A t \in Thread : CallInv(t)'
    BY <1>2, CallSelf, CallOther
  <2>2. TypeOK' /\ SizesInv' /\ ResizeInv' /\ PathInv' /\ OneEntry'
    BY <1>2, TypeStep, SizesStep, ResizeStep, PathStep, OneEntryStep
  <2>3. OwnInv' /\ GotInv' /\ CountInv' /\ RoomInv'
    BY <1>2, OwnStep, GotStep, CountStep, RoomStep
  <2> QED BY <2>1, <2>2, <2>3 DEF IInv
<1> QED BY <1>1, <1>2 DEF Next, Steps

-----------------------------------------------------------------------------
(* What it says.                                                            *)

LEMMA Room ==
  ASSUME HashAssumption, IInv
  PROVE  RoomLeft
<1> SUFFICES ASSUME NEW h \in DOMAIN tables, \A i \in DOMAIN tables[h] : tables[h][i].key # none
             PROVE  FALSE
  BY DEF RoomLeft
<1>0. TypeOK /\ OneEntry /\ RoomInv /\ IsFiniteSet(Thread)
  BY DEF IInv, HashAssumption
<1>1. /\ capacity(h) \in Nat \ {0} /\ tables[h] \in [0 .. capacity(h) - 1 -> Item]
      /\ Limit(h) \in Nat /\ Limit(h) <= capacity(h)
  BY <1>0, TableIs
<1> DEFINE n == IF Limit(h) = 0 THEN 1 ELSE Limit(h)
           S == DOMAIN tables[h]
           T == Below(n)
           f == [i \in S |-> tables[h][i].key]
<1>2. n \in Nat \ {0} /\ n <= capacity(h) /\ Limit(h) <= n
  BY <1>1
<1>3. IsFiniteSet(S) /\ Cardinality(S) = capacity(h)
  BY <1>1, FS_Interval DEF capacity
<1>4. IsFiniteSet(T) /\ Cardinality(T) < n /\ Cardinality(T) \in Nat
  <2>1. T \subseteq Thread
    BY DEF Below
  <2>2. IsFiniteSet(T)
    BY <2>1, <1>0, FS_Subset
  <2> HIDE DEF n
  <2>3. Cardinality(T) < n
    BY <1>2, <1>0 DEF RoomInv
  <2> QED BY <2>2, <2>3, FS_CardinalityType
<1>5. f \in [S -> T]
  <2> SUFFICES ASSUME NEW i \in S PROVE tables[h][i].key \in T
    OBVIOUS
  <2>1. tables[h][i].key \in Thread
    BY <1>1 DEF Item
  <2>2. In(tables[h][i].key, h)
    BY DEF In
  <2> HIDE DEF n
  <2> QED BY <2>1, <2>2, <1>2 DEF Below
<1>6. \E x, y \in S : x # y /\ f[x] = f[y]
  <2> HIDE DEF n, S, T, f
  <2>1. Cardinality(T) < Cardinality(S)
    BY <1>1, <1>2, <1>3, <1>4
  <2> QED BY <2>1, <1>3, <1>4, <1>5, FS_PigeonHole
<1> QED BY <1>6, <1>0 DEF OneEntry

LEMMA Own ==
  ASSUME HashAssumption, IInv
  PROVE  OneProducer
<1>0. TypeOK /\ OneEntry /\ OwnInv /\ GotInv /\ none \notin Thread
  BY DEF IInv, HashAssumption
<1>1. \A h \in DOMAIN tables : \A i \in DOMAIN tables[h] : tables[h][i] \in Item
  BY <1>0, TableIs
<1>2. ASSUME NEW h \in DOMAIN tables, NEW k \in DOMAIN tables, NEW i \in DOMAIN tables[h], NEW j \in DOMAIN tables[k],
             tables[h][i].key # none, tables[k][j].key # none
      PROVE  tables[h][i].key = tables[k][j].key <=> tables[h][i].value = tables[k][j].value
  <2>1. /\ tables[h][i].key \in Thread /\ tables[h][i].value \in Nat
        /\ tables[k][j].key \in Thread /\ tables[k][j].value \in Nat
    BY <1>1, <1>2 DEF Item
  <2>2. Owns(tables[h][i].key, tables[h][i].value) /\ Owns(tables[k][j].key, tables[k][j].value)
    BY DEF Owns
  <2> QED BY <2>1, <2>2, <1>0 DEF OwnInv
<1>3. ASSUME NEW t \in Thread, got[t] # 0
      PROVE  \E h \in DOMAIN tables : \E i \in DOMAIN tables[h] : tables[h][i] = [key |-> t, value |-> got[t]]
  <2>1. PICK h \in DOMAIN tables : \E s \in DOMAIN tables[h] : tables[h][s].key = t /\ tables[h][s].value = got[t]
    BY <1>0, <1>3 DEF GotInv
  <2>2. PICK s \in DOMAIN tables[h] : tables[h][s].key = t /\ tables[h][s].value = got[t]
    BY <2>1
  <2>3. tables[h][s] = [key |-> t, value |-> got[t]]
    BY <2>2, <1>1 DEF Item
  <2> QED BY <2>3
<1> QED BY <1>0, <1>2, <1>3 DEF OneProducer, OneEntry

LEMMA Exact ==
  ASSUME HashAssumption, IInv
  PROVE  CountExact
<1> DEFINE R == UNION {Keys(h) : h \in DOMAIN tables}
           P == {t \in Thread : local[t].newCount > 0 /\ pc[t] # "give up"}
<1>0. /\ TypeOK /\ none \notin Thread /\ IsFiniteSet(Thread) /\ implicitProducerHashCount = Cardinality(Counted)
      /\ \A t \in Thread : CallInv(t)
  BY DEF IInv, HashAssumption, CountInv
<1>1. R = {t \in Thread : Registered(t)}
  <2>1. \A h \in DOMAIN tables : \A i \in DOMAIN tables[h] : tables[h][i].key \in Thread \cup {none}
    BY <1>0, TableIs DEF Item
  <2>2. ASSUME NEW x \in R PROVE x \in Thread /\ Registered(x)
    <3>1. PICK h \in DOMAIN tables : x \in Keys(h)
      OBVIOUS
    <3> QED BY <3>1, <2>1 DEF Keys, Registered, In
  <2>3. ASSUME NEW t \in Thread, Registered(t) PROVE t \in R
    <3>1. PICK h \in DOMAIN tables : In(t, h)
      BY <2>3 DEF Registered
    <3>2. t \in Keys(h)
      BY <3>1, <1>0 DEF Keys, In
    <3> QED BY <3>2
  <2> HIDE DEF R
  <2> QED BY <2>2, <2>3
<1>2. Counted = R \cup P
  BY <1>1 DEF Counted, Pending
<1>3. R \cap P = {}
  <2> SUFFICES ASSUME NEW t \in Thread, Registered(t), local[t].newCount > 0 PROVE FALSE
    BY <1>1
  <2>1. local[t].newCount # 0
    BY <1>0
  <2> QED BY <2>1, <1>0 DEF CallInv, NoLocals
<1>4. R \subseteq Thread /\ P \subseteq Thread
  BY <1>1
<1>5. IsFiniteSet(R) /\ IsFiniteSet(P)
  BY <1>0, <1>4, FS_Subset
<1> HIDE DEF R, P
<1>6. Cardinality(R \cup P) = Cardinality(R) + Cardinality(P) - Cardinality(R \cap P)
  BY <1>5, FS_Union
<1>7. Cardinality(R) \in Nat /\ Cardinality(P) \in Nat /\ Cardinality(R \cap P) = 0
  BY <1>3, <1>5, FS_CardinalityType, FS_EmptySet
<1>8. implicitProducerHashCount = Cardinality(R) + Cardinality(P)
  BY <1>0, <1>2, <1>6, <1>7
<1> QED BY <1>8 DEF CountExact, R, P

(* get_or_add_implicit_producer, for any number of threads and any hash:     *)
(* every table keeps the free slot on which searches and insertions rely, a  *)
(* thread has one producer of its own, and the count that decides when to    *)
(* grow is exact, also when allocations fail.                               *)
THEOREM ProducerTables ==
  ASSUME HashAssumption
  PROVE  Spec => [](RoomLeft /\ OneProducer /\ CountExact)
<1>1. Init => IInv
  BY InvInit
<1>2. IInv /\ [Next]_vars => IInv'
  BY InvStep
<1>3. IInv => RoomLeft /\ OneProducer /\ CountExact
  BY Room, Own, Exact
<1> QED BY <1>1, <1>2, <1>3, PTL DEF Spec
=============================================================================
