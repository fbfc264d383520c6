--------------------------- MODULE BlockingQueue ----------------------------
(***************************************************************************)
(* blocking_queue.h: the unbounded queue free_buffers_ is made of.  push     *)
(* releases d_mutex before it notifies; pop waits on d_condition until the   *)
(* queue is not empty.  A thread pushes or pops a fixed number of times.     *)
(***************************************************************************)
EXTENDS Integers, Sequences, FiniteSets

CONSTANTS
  Producer, Consumer,
  Times        \* bound: calls of each producer

BlockingQueueAssumption ==
  /\ IsFiniteSet(Producer) /\ IsFiniteSet(Consumer)
  /\ Producer \cap Consumer = {}
  /\ Times \in Nat

VARIABLES
  d_queue,   \* back first: the next to pop is the head
  waiters,   \* threads asleep in d_condition
  pc,        \* producers: "out", "notify"; consumers: "out", "test"
  done,      \* items a producer has pushed
  got        \* items each consumer has popped, in order

vars == << d_queue, waiters, pc, done, got >>

Item == Producer \X (1 .. Times)

Init ==
  /\ d_queue = << >>
  /\ waiters = {}
  /\ pc = [t \in Producer \cup Consumer |-> "out"]
  /\ done = [p \in Producer |-> 0]
  /\ got = [c \in Consumer |-> << >>]

\* Wrong on purpose: pushes to the end that pop takes from.
PushLifo(p) ==
  /\ pc[p] = "out"
  /\ done[p] < Times
  /\ done' = [done EXCEPT ![p] = @ + 1]
  /\ d_queue' = << << p, done[p] + 1 >> >> \o d_queue
  /\ pc' = [pc EXCEPT ![p] = "notify"]
  /\ UNCHANGED << waiters, got >>

\* The critical section of push.
Push(p) ==
  /\ pc[p] = "out"
  /\ done[p] < Times
  /\ done' = [done EXCEPT ![p] = @ + 1]
  /\ d_queue' = Append(d_queue, << p, done[p] + 1 >>)
  /\ pc' = [pc EXCEPT ![p] = "notify"]
  /\ UNCHANGED << waiters, got >>

\* Wrong on purpose: notifies only when the queue has become non-empty.
NotifyFirstOnly(p) ==
  /\ pc[p] = "notify"
  /\ pc' = [pc EXCEPT ![p] = "out"]
  /\ IF waiters = {} \/ Len(d_queue) # 1 THEN UNCHANGED waiters
     ELSE \E c \in waiters : waiters' = waiters \ {c}
  /\ UNCHANGED << d_queue, done, got >>

\* notify_one, outside the lock: some sleeper, if there is one.
Notify(p) ==
  /\ pc[p] = "notify"
  /\ pc' = [pc EXCEPT ![p] = "out"]
  /\ IF waiters = {} THEN UNCHANGED waiters
     ELSE \E c \in waiters : waiters' = waiters \ {c}
  /\ UNCHANGED << d_queue, done, got >>

CallPop(c) ==
  /\ pc[c] = "out"
  /\ pc' = [pc EXCEPT ![c] = "test"]
  /\ UNCHANGED << d_queue, waiters, done, got >>

\* The critical section of pop from a test of the predicate on: sleep or take.
TestAndTake(c) ==
  /\ pc[c] = "test"
  /\ c \notin waiters
  /\ IF d_queue = << >>
     THEN /\ waiters' = waiters \cup {c}
          /\ UNCHANGED << d_queue, pc, got >>
     ELSE /\ got' = [got EXCEPT ![c] = Append(@, Head(d_queue))]
          /\ d_queue' = Tail(d_queue)
          /\ pc' = [pc EXCEPT ![c] = "out"]
          /\ UNCHANGED waiters
  /\ UNCHANGED done

SpuriousWake(c) ==
  /\ c \in waiters
  /\ waiters' = waiters \ {c}
  /\ UNCHANGED << d_queue, pc, done, got >>

Next ==
  \/ \E p \in Producer : Push(p) \/ Notify(p)
  \/ \E c \in Consumer : CallPop(c) \/ TestAndTake(c) \/ SpuriousWake(c)

Spec == Init /\ [][Next]_vars

\* Threads inside push and pop are scheduled; nobody has to call them.
Fairness ==
  /\ \A p \in Producer : WF_vars(Notify(p))
  /\ \A c \in Consumer : WF_vars(TestAndTake(c))

FairSpec == Spec /\ Fairness

-----------------------------------------------------------------------------
TypeOK ==
  /\ d_queue \in Seq(Item)
  /\ waiters \subseteq {c \in Consumer : pc[c] = "test"}
  /\ pc \in [Producer \cup Consumer -> {"out", "notify", "test"}]
  /\ done \in [Producer -> 0 .. Times]
  /\ got \in [Consumer -> Seq(Item)]

Elems(s) == {s[i] : i \in 1 .. Len(s)}
Pushed == {x \in Item : x[2] <= done[x[1]]}
Popped == UNION {Elems(got[c]) : c \in Consumer}

\* What consumer c got, and then may get.
Stream(c) == got[c] \o d_queue

InOrder(c) ==
  \A i, j \in 1 .. Len(Stream(c)) :
    i < j /\ Stream(c)[i][1] = Stream(c)[j][1] => Stream(c)[i][2] < Stream(c)[j][2]

\* Every pushed item is in the queue or with exactly one consumer, once; and what
\* one consumer got from one producer, with what is still queued, is in order.
FifoOnce ==
  /\ Elems(d_queue) \cup Popped = Pushed
  /\ \A c \in Consumer : InOrder(c)
  /\ \A c, d \in Consumer : c # d => Elems(got[c]) \cap Elems(got[d]) = {}

Notifying == {p \in Producer : pc[p] = "notify"}
Awake == {c \in Consumer : pc[c] = "test" /\ c \notin waiters}

\* Whoever sleeps while there is something to take has a wakeup coming: as many
\* notifies are pending as would be needed to hand the queue out.
NoLostWakeup ==
  waiters # {} => Len(d_queue) <= Cardinality(Notifying) + Cardinality(Awake)

\* A queue on which a consumer waits does not stay non-empty.
ItemTaken == waiters # {} /\ d_queue # << >> ~> waiters = {} \/ d_queue = << >>
=============================================================================
