---------------------------- MODULE ProducerHash ----------------------------
(***************************************************************************)
(* get_or_add_implicit_producer: how a thread that enqueues without a      *)
(* token finds its own sub-queue.  A chain of open-addressing tables keyed *)
(* by thread id; a table that is half full gets a bigger successor, which  *)
(* one thread allocates while the others go on.                            *)
(***************************************************************************)
EXTENDS Integers, Sequences, FiniteSets

CONSTANTS Thread, none,
          Hash,          \* hash_thread_id
          InitialSize,   \* INITIAL_IMPLICIT_PRODUCER_HASH_SIZE, a power of two
          MaxFailures    \* bound: allocations that fail
HashAssumption == /\ IsFiniteSet(Thread) /\ none \notin Thread
                  /\ Hash \in [Thread -> Nat] /\ InitialSize \in Nat \ {0}

VARIABLES tables,        \* the tables; each one's prev is the one before it
          implicitProducerHashCount,
          implicitProducerHashResizeInProgress,
          producers,     \* implicit producers made so far
          failures,
          got,           \* what each thread's last successful call returned
          pc, local
shared == <<tables, implicitProducerHashCount, implicitProducerHashResizeInProgress,
            producers, failures>>
vars == <<shared, got, pc, local>>

NoLocals == [main |-> 0, hash |-> 0, index |-> 0, newCount |-> 0, value |-> 0]
Table(size) == [i \in 0 .. size - 1 |-> [key |-> none, value |-> 0]]
capacity(h) == Cardinality(DOMAIN tables[h])

Init == /\ tables = <<Table(InitialSize)>>
        /\ implicitProducerHashCount = 0
        /\ implicitProducerHashResizeInProgress = FALSE
        /\ producers = 0
        /\ failures = 0
        /\ got = [t \in Thread |-> 0]
        /\ pc = [t \in Thread |-> "idle"]
        /\ local = [t \in Thread |-> NoLocals]

At(t, from) == pc[t] = from
Goto(t, to) == pc' = [pc EXCEPT ![t] = to]
Set(t, l) == local' = [local EXCEPT ![t] = l]

\* The call returns producer p.
Return(t, p) == /\ Goto(t, "idle")
                /\ Set(t, NoLocals)
                /\ got' = [got EXCEPT ![t] = p]

\* It returns nullptr: no producer, nothing remembered.
Fail(t) == Goto(t, "idle") /\ Set(t, NoLocals) /\ UNCHANGED got

Call(t) ==
    /\ At(t, "idle")
    /\ Goto(t, "probe")
    /\ Set(t, [NoLocals EXCEPT !.main = Len(tables), !.hash = Len(tables), !.index = Hash[t]])
    /\ UNCHANGED <<shared, got>>

Slot(h, i) == i % capacity(h)
Entry(h, i) == tables[h][Slot(h, i)]

\* One probe of the search through the tables, the newest first.
Probe(t) ==
    LET h == local[t].hash  e == Entry(h, local[t].index)
    IN  /\ At(t, "probe")
        /\ \/ /\ e.key = t /\ h = local[t].main
              /\ Return(t, e.value)
           \/ /\ e.key = t /\ h # local[t].main
              /\ Goto(t, "put")
              /\ Set(t, [local[t] EXCEPT !.index = Hash[t], !.value = e.value])
              /\ UNCHANGED got
           \/ /\ e.key = none
              /\ Goto(t, IF h > 1 THEN "probe" ELSE "count")
              /\ Set(t, [local[t] EXCEPT !.hash = h - 1, !.index = Hash[t]])
              /\ UNCHANGED got
           \/ /\ e.key \notin {none, t}
              /\ Set(t, [local[t] EXCEPT !.index = @ + 1])
              /\ UNCHANGED <<pc, got>>
        /\ UNCHANGED shared

\* One probe of an insertion into main: of an old entry or of a new producer.
Put(t) ==
    LET h == local[t].main  i == local[t].index
    IN  /\ At(t, "put")
        /\ IF Entry(h, i).key = none
           THEN /\ tables' = [tables EXCEPT ![h][Slot(h, i)] = [key |-> t, value |-> local[t].value]]
                /\ Return(t, local[t].value)
           ELSE /\ Set(t, [local[t] EXCEPT !.index = i + 1])
                /\ UNCHANGED <<tables, pc, got>>
        /\ UNCHANGED <<implicitProducerHashCount, implicitProducerHashResizeInProgress, producers, failures>>

Count(t) ==
    /\ At(t, "count")
    /\ implicitProducerHashCount' = implicitProducerHashCount + 1
    /\ Set(t, [local[t] EXCEPT !.newCount = implicitProducerHashCount + 1, !.index = Hash[t]])
    /\ Goto(t, "lock")
    /\ UNCHANGED <<tables, implicitProducerHashResizeInProgress, producers, failures, got>>

Crowded(t, h) == local[t].newCount >= capacity(h) \div 2

\* The thread that gets the flag resizes; the others do not wait for it here.
TryLock(t) ==
    /\ At(t, "lock")
    /\ Goto(t, IF Crowded(t, local[t].main) /\ ~implicitProducerHashResizeInProgress
               THEN "reload" ELSE "test")
    /\ implicitProducerHashResizeInProgress' =
          (implicitProducerHashResizeInProgress \/ Crowded(t, local[t].main))
    /\ UNCHANGED <<tables, implicitProducerHashCount, producers, failures, got, local>>

Reload(t) ==
    /\ At(t, "reload")
    /\ Set(t, [local[t] EXCEPT !.main = Len(tables)])
    /\ Goto(t, IF Crowded(t, Len(tables)) THEN "grow" ELSE "unlock")
    /\ UNCHANGED <<shared, got>>

\* Doubled until the count is below half of it.
NewCapacity(t) ==
    LET doubled[c \in Nat \ {0}] == IF local[t].newCount < c \div 2 THEN c ELSE doubled[2 * c]
    IN  doubled[2 * capacity(local[t].main)]

Grow(t) ==
    /\ At(t, "grow")
    /\ tables' = Append(tables, Table(NewCapacity(t)))
    /\ Set(t, [local[t] EXCEPT !.main = Len(tables) + 1])
    /\ Goto(t, "unlock")
    /\ UNCHANGED <<implicitProducerHashCount, implicitProducerHashResizeInProgress, producers, failures, got>>

\* malloc of the table fails: the count is taken back, then the flag is cleared.
GrowFails(t) ==
    /\ At(t, "grow")
    /\ failures < MaxFailures
    /\ failures' = failures + 1
    /\ implicitProducerHashCount' = implicitProducerHashCount - 1
    /\ Goto(t, "give up")
    /\ UNCHANGED <<tables, implicitProducerHashResizeInProgress, producers, got, local>>

Unlock(t) ==
    /\ \/ At(t, "unlock") /\ Goto(t, "test") /\ UNCHANGED <<got, local>>
       \/ At(t, "give up") /\ Fail(t)
    /\ implicitProducerHashResizeInProgress' = FALSE
    /\ UNCHANGED <<tables, implicitProducerHashCount, producers, failures>>

\* Wrong on purpose: inserts even into a table that is nearly full.
TestNothing(t) ==
    /\ At(t, "test")
    /\ Goto(t, "create")
    /\ UNCHANGED <<shared, got, local>>

\* Below three quarters: insert, else look for the table of the resizing thread.
Test(t) ==
    LET cap == capacity(local[t].main)
    IN  /\ At(t, "test")
        /\ IF local[t].newCount < (cap \div 2) + (cap \div 4)
           THEN Goto(t, "create") /\ UNCHANGED local
           ELSE Goto(t, "lock") /\ Set(t, [local[t] EXCEPT !.main = Len(tables)])
        /\ UNCHANGED <<shared, got>>

\* recycle_or_create_producer: no implicit producer is ever inactive here.
Create(t) ==
    /\ At(t, "create")
    /\ producers' = producers + 1
    /\ Set(t, [local[t] EXCEPT !.value = producers + 1])
    /\ Goto(t, "put")
    /\ UNCHANGED <<tables, implicitProducerHashCount, implicitProducerHashResizeInProgress, failures, got>>

CreateFails(t) ==
    /\ At(t, "create")
    /\ failures < MaxFailures
    /\ failures' = failures + 1
    /\ implicitProducerHashCount' = implicitProducerHashCount - 1
    /\ Fail(t)
    /\ UNCHANGED <<tables, implicitProducerHashResizeInProgress, producers>>

Step(t) == \/ Probe(t) \/ Put(t) \/ Count(t) \/ TryLock(t) \/ Reload(t) \/ Grow(t)
           \/ GrowFails(t) \/ Unlock(t) \/ Test(t) \/ Create(t) \/ CreateFails(t)
Next == \E t \in Thread : Call(t) \/ Step(t)

Spec == Init /\ [][Next]_vars
-----------------------------------------------------------------------------
Keys(h) == {tables[h][i].key : i \in DOMAIN tables[h]} \ {none}

(* Every table keeps a free slot, on which the searches and insertions rely  *)
(* ("at least one slot is free", "guaranteed to be room"): although threads  *)
(* insert into old tables, copy themselves into new ones and take their      *)
(* count back when an allocation fails.                                      *)
RoomLeft == \A h \in DOMAIN tables : \E i \in DOMAIN tables[h] : tables[h][i].key = none

(* Whichever tables it is in, a thread is always given the same producer,    *)
(* and no other thread is given that one: an implicit producer has one       *)
(* enqueuer.                                                                 *)
OneProducer ==
    /\ \A h, k \in DOMAIN tables : \A i \in DOMAIN tables[h], j \in DOMAIN tables[k] :
          LET a == tables[h][i]  b == tables[k][j]
          IN  a.key # none /\ b.key # none => (a.key = b.key <=> a.value = b.value)
    /\ \A h \in DOMAIN tables : \A i, j \in DOMAIN tables[h] :
          i # j /\ tables[h][i].key # none => tables[h][i].key # tables[h][j].key
    /\ \A t \in Thread : got[t] # 0 =>
          \E h \in DOMAIN tables : \E i \in DOMAIN tables[h] :
             tables[h][i] = [key |-> t, value |-> got[t]]

(* The count is that of the threads with a producer plus the calls that add  *)
(* one: a failed allocation leaves no trace, and the count that decides when *)
(* to grow never falls behind.                                               *)
CountExact ==
    implicitProducerHashCount =
       Cardinality(UNION {Keys(h) : h \in DOMAIN tables})
       + Cardinality({t \in Thread : local[t].newCount > 0 /\ pc[t] # "give up"})
=============================================================================
