------------------------------ MODULE ReadSync ------------------------------
(***************************************************************************)
(* How Read paces its threads: before the first of every Factor reads a      *)
(* thread takes a token from a queue of its group (even or odd thread id),   *)
(* after the last it hands one to the other group.  Each group has a queue   *)
(* for even and one for odd rounds.  Only the number of tokens matters.     *)
(***************************************************************************)
EXTENDS Integers, FiniteSets

CONSTANTS
  NumThreads,  \* NUM_THREADS
  Factor,      \* SHRINK_SYNC_FACTOR
  Reads        \* bound: Reads per thread

ReadSyncAssumption ==
  /\ NumThreads \in Nat /\ NumThreads % 2 = 0 /\ NumThreads > 0
  /\ Factor \in Nat \ {0}
  \* "should be divided" (engine_race.h:53)
  /\ Reads \in Nat /\ Reads % Factor = 0

Tid == 0 .. NumThreads - 1
Queue == 0 .. 3  \* even threads 0, 1; odd threads 2, 3

VARIABLES
  notify_queues_,      \* tokens in each
  waiting,             \* threads inside read_barrier_.Wait
  local_block_offset,
  pc                   \* "out", "barrier", "take", "read", "notify"

vars == << notify_queues_, waiting, local_block_offset, pc >>

Init ==
  /\ notify_queues_ = [q \in Queue |-> 0]
  /\ waiting = {}
  /\ local_block_offset = [t \in Tid |-> 0]
  /\ pc = [t \in Tid |-> "out"]

Goto(t, to) == pc' = [pc EXCEPT ![t] = to]

get_notify_big_round(offset) == offset \div Factor

\* Queue that thread t takes its token from in a big round.
OwnQueue(t, round) == IF t % 2 = 0 THEN round % 2 ELSE (round % 2) + 2

\* Wrong on purpose: odd threads notify the even queue of the same round.
NotifiedQueueSameRound(t, round) == IF t % 2 = 0 THEN (round % 2) + 2 ELSE round % 2

\* Queue that it hands one to: odd threads of this round, even ones of the next.
NotifiedQueue(t, round) == IF t % 2 = 0 THEN (round % 2) + 2 ELSE (round + 1) % 2

\* The first Read of thread 0 creates the queues with a token for half the
\* threads; every first Read waits for all threads.
Call(t) ==
  /\ pc[t] = "out"
  /\ local_block_offset[t] < Reads
  /\ notify_queues_' = IF t = 0 /\ local_block_offset[t] = 0
                       THEN [[q \in Queue |-> 0] EXCEPT ![0] = NumThreads \div 2]
                       ELSE notify_queues_
  /\ Goto(t, IF local_block_offset[t] = 0 THEN "barrier"
             ELSE IF local_block_offset[t] % Factor = 0 THEN "take" ELSE "read")
  /\ UNCHANGED << waiting, local_block_offset >>

\* read_barrier_, as Barrier implements it.
BarrierWait(t) ==
  LET here == waiting \cup {t} IN
  /\ pc[t] = "barrier"
  /\ t \notin waiting
  /\ IF Cardinality(here) = NumThreads
     THEN waiting' = {} /\ pc' = [u \in Tid |-> IF u \in here THEN "take" ELSE pc[u]]
     ELSE waiting' = here /\ UNCHANGED pc
  /\ UNCHANGED << notify_queues_, local_block_offset >>

\* wait_dequeue.
Take(t) ==
  LET q == OwnQueue(t, get_notify_big_round(local_block_offset[t])) IN
  /\ pc[t] = "take"
  /\ notify_queues_[q] > 0
  /\ notify_queues_' = [notify_queues_ EXCEPT ![q] = @ - 1]
  /\ Goto(t, "read")
  /\ UNCHANGED << waiting, local_block_offset >>

\* The pread, or the finding that there is nothing to read.
ReadValue(t) ==
  /\ pc[t] = "read"
  /\ local_block_offset' = [local_block_offset EXCEPT ![t] = @ + 1]
  /\ Goto(t, "notify")
  /\ UNCHANGED << notify_queues_, waiting >>

\* Wrong on purpose: hands over a token after every read.
NotifyEveryRead(t) ==
  LET q == NotifiedQueue(t, get_notify_big_round(local_block_offset[t] - 1)) IN
  /\ pc[t] = "notify"
  /\ notify_queues_' = [notify_queues_ EXCEPT ![q] = @ + 1]
  /\ Goto(t, "out")
  /\ UNCHANGED << waiting, local_block_offset >>

\* NotifyRandomReader and the return from Read.
NotifyRandomReader(t) ==
  LET current == local_block_offset[t] - 1
      q == NotifiedQueue(t, get_notify_big_round(current))
  IN
  /\ pc[t] = "notify"
  /\ notify_queues_' = IF current % Factor = Factor - 1
                       THEN [notify_queues_ EXCEPT ![q] = @ + 1]
                       ELSE notify_queues_
  /\ Goto(t, "out")
  /\ UNCHANGED << waiting, local_block_offset >>

Finished ==
  /\ \A t \in Tid : pc[t] = "out" /\ local_block_offset[t] = Reads
  /\ UNCHANGED vars

Step(t) == BarrierWait(t) \/ Take(t) \/ ReadValue(t) \/ NotifyRandomReader(t)

Next == (\E t \in Tid : Call(t) \/ Step(t)) \/ Finished

Spec == Init /\ [][Next]_vars

\* Threads are scheduled and every client thread makes all its Reads.
Fairness == \A t \in Tid : WF_vars(Call(t)) /\ WF_vars(Step(t))

FairSpec == Spec /\ Fairness

-----------------------------------------------------------------------------
TypeOK ==
  /\ notify_queues_ \in [Queue -> 0 .. NumThreads \div 2]
  /\ waiting \subseteq Tid
  /\ local_block_offset \in [Tid -> 0 .. Reads]
  /\ pc \in [Tid -> {"out", "barrier", "take", "read", "notify"}]

\* Between taking a token and handing it over.
Holding(t) ==
  \/ pc[t] = "read"
  \/ pc[t] = "notify"
  \/ pc[t] = "out" /\ local_block_offset[t] % Factor # 0

\* Past its first Read's barrier.
Away(t) == pc[t] \in {"take", "read", "notify"} \/ local_block_offset[t] > 0
Begun == \E t \in Tid : Away(t)

Tokens == notify_queues_[0] + notify_queues_[1] + notify_queues_[2] + notify_queues_[3]
Holders == {t \in Tid : Holding(t)}

\* Tokens are neither lost nor made: half as many reads as threads are in flight
\* or allowed, the queue depth the pacing is for (Read 439-449, 464-470, 412-424).
TokensConserved == Begun => Tokens + Cardinality(Holders) = NumThreads \div 2

\* The barrier opens once, for all, when thread 0 has put the tokens out.
StartInv ==
  /\ waiting \subseteq {t \in Tid : pc[t] = "barrier"}
  /\ \A t \in Tid :
       /\ pc[t] \in {"barrier", "take", "read"} => local_block_offset[t] < Reads
       /\ pc[t] = "notify" => local_block_offset[t] > 0
       /\ pc[t] = "barrier" => local_block_offset[t] = 0
       /\ pc[t] = "take" => local_block_offset[t] % Factor = 0
       /\ Begun => Away(t) /\ pc[t] # "barrier"
  /\ ~Begun /\ pc[0] = "barrier" => Tokens = NumThreads \div 2

IInv == TypeOK /\ StartInv /\ TokensConserved

\* A thread that waits for its token always gets it, when all threads read on.
ReadReturns == \A t \in Tid : pc[t] # "out" ~> pc[t] = "out"
=============================================================================
