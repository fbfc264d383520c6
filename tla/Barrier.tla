------------------------------ MODULE Barrier -------------------------------
(***************************************************************************)
(* barrier.h: the reusable barrier of Write, Read and Range.  Each thread    *)
(* calls Wait once per round of its own loop.  mMutex is never held across   *)
(* an action: a critical section ends in mCond.wait, which releases it and   *)
(* falls asleep atomically, or in the return from Wait.                     *)
(***************************************************************************)
EXTENDS Integers, FiniteSets

CONSTANTS
  Thread,
  MaxRound   \* bound: Waits per thread

ASSUME BarrierAssumption ==
  /\ IsFiniteSet(Thread)
  /\ MaxRound \in Nat

VARIABLES
  mCount, mGeneration,
  lGen,    \* the local of each thread's last Wait
  pc,      \* "out", "asleep" in mCond, "woken" from it, "leaving" Wait
  round    \* loop counter of the caller

vars == << mCount, mGeneration, lGen, pc, round >>

\* The barrier is built for exactly the threads that use it.
mThreshold == Cardinality(Thread)

PCs == {"out", "asleep", "woken", "leaving"}

Init ==
  /\ mCount = mThreshold
  /\ mGeneration = 0
  /\ lGen = [t \in Thread |-> 0]
  /\ pc = [t \in Thread |-> "out"]
  /\ round = [t \in Thread |-> 0]

\* Wrong on purpose: notify_one.
NotifiedOne ==
  LET sleepers == {t \in Thread : pc[t] = "asleep"} IN
  IF sleepers = {} THEN pc ELSE [pc EXCEPT ![CHOOSE t \in sleepers : TRUE] = "woken"]

\* notify_all: every sleeper wakes.
Notified == [t \in Thread |-> IF pc[t] = "asleep" THEN "woken" ELSE pc[t]]

\* Wrong on purpose: the count is not reset for the next round.
ArriveNoReset(t) ==
  /\ pc[t] = "out"
  /\ round[t] < MaxRound
  /\ lGen' = [lGen EXCEPT ![t] = mGeneration]
  /\ mCount' = IF mCount = 0 THEN 0 ELSE mCount - 1
  /\ IF mCount - 1 <= 0
     THEN /\ mGeneration' = mGeneration + 1
          /\ pc' = [Notified EXCEPT ![t] = "leaving"]
     ELSE /\ pc' = [pc EXCEPT ![t] = "asleep"]
          /\ UNCHANGED mGeneration
  /\ UNCHANGED round

\* Wait from its call to the sleep, or for the last thread to the return.
Arrive(t) ==
  /\ pc[t] = "out"
  /\ round[t] < MaxRound
  /\ lGen' = [lGen EXCEPT ![t] = mGeneration]
  /\ IF mCount - 1 = 0
     THEN /\ mGeneration' = mGeneration + 1
          /\ mCount' = mThreshold
          /\ pc' = [Notified EXCEPT ![t] = "leaving"]
     ELSE /\ mCount' = mCount - 1
          /\ pc' = [pc EXCEPT ![t] = "asleep"]
          /\ UNCHANGED mGeneration
  /\ UNCHANGED round

SpuriousWake(t) ==
  /\ pc[t] = "asleep"
  /\ pc' = [pc EXCEPT ![t] = "woken"]
  /\ UNCHANGED << mCount, mGeneration, lGen, round >>

\* Wrong on purpose: waits for the count to be full again, not for the generation.
ReleasedByCount(t) == mCount = mThreshold

\* Wrong on purpose: a wait without a predicate trusts every wakeup.
ReleasedByWakeup(t) == pc[t] = "woken"

\* The predicate of wait.
Released(t) == lGen[t] # mGeneration

\* A woken thread has mMutex again and tests the predicate.
Recheck(t) ==
  /\ pc[t] = "woken"
  /\ pc' = [pc EXCEPT ![t] = IF Released(t) THEN "leaving" ELSE "asleep"]
  /\ UNCHANGED << mCount, mGeneration, lGen, round >>

Return(t) ==
  /\ pc[t] = "leaving"
  /\ pc' = [pc EXCEPT ![t] = "out"]
  /\ round' = [round EXCEPT ![t] = @ + 1]
  /\ UNCHANGED << mCount, mGeneration, lGen >>

Finished ==
  /\ \A t \in Thread : pc[t] = "out" /\ round[t] = MaxRound
  /\ UNCHANGED vars

Next ==
  \/ \E t \in Thread : Arrive(t) \/ SpuriousWake(t) \/ Recheck(t) \/ Return(t)
  \/ Finished

Spec == Init /\ [][Next]_vars

\* Threads are scheduled, and every caller's loop runs to its end.
Fairness == \A t \in Thread : WF_vars(Arrive(t)) /\ WF_vars(Recheck(t)) /\ WF_vars(Return(t))

FairSpec == Spec /\ Fairness

-----------------------------------------------------------------------------
TypeOK ==
  /\ mCount \in 0 .. mThreshold
  /\ mGeneration \in 0 .. MaxRound
  /\ lGen \in [Thread -> 0 .. MaxRound]
  /\ pc \in [Thread -> PCs]
  /\ round \in [Thread -> 0 .. MaxRound]

\* Threads counted in the current generation.
Counted == {t \in Thread : pc[t] \in {"asleep", "woken"} /\ lGen[t] = mGeneration}

\* The inductive invariant: the count is what the sleepers of this generation
\* left of it, a thread that is out is ready for this generation, and one that is
\* inside belongs to this generation or, released and not yet gone, to the last.
BarrierInv ==
  /\ mCount = mThreshold - Cardinality(Counted)
  /\ Thread # {} => mCount > 0
  /\ \A t \in Thread :
       /\ pc[t] = "out" => round[t] = mGeneration
       /\ pc[t] # "out" => lGen[t] = round[t]
       /\ pc[t] \in {"asleep", "woken"} => round[t] \in {mGeneration, mGeneration - 1}
       /\ pc[t] = "leaving" => round[t] = mGeneration - 1
       /\ pc[t] = "asleep" => round[t] = mGeneration

\* No thread is ahead of another by more than the Wait the other is still in
\* (barrier.h:14-24 through any number of reuses and spurious wakeups).
Lockstep ==
  \A t, u \in Thread :
    round[t] > round[u] => round[t] = round[u] + 1 /\ pc[u] # "out"

Abs == INSTANCE BarrierSpec WITH inside <- [t \in Thread |-> pc[t] # "out"]

\* Barrier implements the abstract barrier: a Wait returns only when every thread
\* has called the Wait of the same round.
ImplementsBarrier == Abs!BSpec

\* Every Wait returns, when every thread keeps calling: no wakeup is lost.
WaitReturns == \A t \in Thread : pc[t] # "out" ~> pc[t] = "out"
=============================================================================
