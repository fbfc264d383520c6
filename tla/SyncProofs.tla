----------------------------- MODULE SyncProofs -----------------------------
(***************************************************************************)
(* Proofs about the components by which threads wait for each other, for     *)
(* any numbers of threads, tasks, items and calls.                          *)
(***************************************************************************)
EXTENDS MCSync, Sequences, FiniteSetTheorems, TLAPS

\* What the components count is counted here.
LEMMA SameCounting ==
  ASSUME NEW T
  PROVE  /\ S!Cardinality(T) = Cardinality(T) /\ R!Cardinality(T) = Cardinality(T)
         /\ Q!Cardinality(T) = Cardinality(T) /\ B!Cardinality(T) = Cardinality(T)
         /\ S!IsFiniteSet(T) = IsFiniteSet(T) /\ Q!IsFiniteSet(T) = IsFiniteSet(T)
BY DEF Cardinality, S!Cardinality, R!Cardinality, Q!Cardinality, B!Cardinality,
   IsFiniteSet, S!IsFiniteSet, Q!IsFiniteSet

LEMMA SyncNumbers ==
  /\ IsFiniteSet(Producer) /\ IsFiniteSet(Consumer) /\ Producer \cap Consumer = {}
  /\ Times \in Nat
  /\ NumThreads \in Nat \ {0} /\ NumThreads % 2 = 0
  /\ Factor \in Nat \ {0} /\ Reads \in Nat /\ Reads % Factor = 0
  /\ Depth \in Nat \ {0} /\ Agg \in Nat \ {0} /\ MaxValues \in Nat /\ MaxCalls \in Nat
  /\ MaxTasks \in Nat /\ MaxBulk \in Nat /\ MaxItems \in Nat
BY SyncAssumption, SameCounting DEF Q!BlockingQueueAssumption, R!ReadSyncAssumption, B!ReadBucketAssumption,
   P!ThreadPoolAssumption, S!BlockingConcurrentQueueAssumption

-----------------------------------------------------------------------------
(* Barrier.                                                                 *)

\* BarrierInv by its parts.
BarrierCount ==
  /\ mCount = mThreshold - Cardinality(Counted)
  /\ Thread # {} => mCount > 0

BarrierRounds ==
  \A t \in Thread :
    /\ pc[t] = "out" => round[t] = mGeneration
    /\ pc[t] # "out" => lGen[t] = round[t]
    /\ pc[t] \in {"asleep", "woken"} => round[t] \in {mGeneration, mGeneration - 1}
    /\ pc[t] = "leaving" => round[t] = mGeneration - 1
    /\ pc[t] = "asleep" => round[t] = mGeneration

LEMMA BarrierParts ==
  BarrierInv <=> BarrierCount /\ BarrierRounds
BY DEF BarrierInv, BarrierCount, BarrierRounds

\* Sets of threads can be counted.
LEMMA ThreadsFinite ==
  ASSUME NEW A \in SUBSET Thread
  PROVE  /\ IsFiniteSet(A) /\ Cardinality(A) \in Nat
         /\ mThreshold \in Nat /\ Cardinality(A) <= mThreshold
         /\ Cardinality(A) = mThreshold => A = Thread
BY BarrierAssumption, FS_Subset, FS_CardinalityType DEF mThreshold

\* The count is one exactly when everybody else has been counted.
LEMMA LastArrival ==
  ASSUME BarrierCount, NEW t \in Thread, t \notin Counted
  PROVE  mCount = 1 => Counted = Thread \ {t}
<1> SUFFICES ASSUME mCount = 1 PROVE Counted = Thread \ {t}
  OBVIOUS
<1>1. Counted \in SUBSET Thread /\ Counted \cup {t} \in SUBSET Thread
  BY DEF Counted
<1>2. Cardinality(Counted) \in Nat /\ mThreshold \in Nat
  BY <1>1, ThreadsFinite
<1>3. Cardinality(Counted \cup {t}) = Cardinality(Counted) + 1
  BY <1>1, ThreadsFinite, FS_AddElement
<1>4. Cardinality(Counted \cup {t}) = mThreshold
  BY <1>2, <1>3 DEF BarrierCount
<1>5. Counted \cup {t} = Thread
  BY <1>1, <1>4, ThreadsFinite
<1> QED
  BY <1>5

\* One call, waking, testing or returning thread.
LEMMA ArriveStep ==
  ASSUME TypeOK, BarrierCount, BarrierRounds, NEW t \in Thread, Arrive(t)
  PROVE  TypeOK' /\ BarrierCount' /\ BarrierRounds'
<1>0. mThreshold \in Nat /\ MaxRound \in Nat /\ mCount \in Nat /\ mGeneration \in Nat
  BY BarrierAssumption, ThreadsFinite DEF TypeOK
<1>1. /\ pc[t] = "out" /\ round[t] = mGeneration /\ mGeneration < MaxRound
      /\ lGen' = [lGen EXCEPT ![t] = mGeneration] /\ round' = round
      /\ t \notin Counted /\ mCount > 0
  BY DEF Arrive, BarrierRounds, BarrierCount, Counted
<1>2. CASE mCount - 1 = 0
  <2>1. /\ mGeneration' = mGeneration + 1 /\ mCount' = mThreshold
        /\ pc' = [Notified EXCEPT ![t] = "leaving"]
    BY <1>2 DEF Arrive
  <2>2. Counted = Thread \ {t}
    BY <1>0, <1>1, <1>2, LastArrival
  <2>3. \A u \in Thread \ {t} : pc[u] \in {"asleep", "woken"} /\ lGen[u] = mGeneration
    BY <2>2 DEF Counted
  <2>4. pc'[t] = "leaving" /\ \A u \in Thread \ {t} : pc'[u] = "woken"
    BY <2>1, <2>3 DEF Notified
  <2>5. lGen'[t] = mGeneration /\ \A u \in Thread \ {t} : lGen'[u] = lGen[u]
    BY <1>1 DEF TypeOK
  <2>6. Counted' = {}
    <3>1. \A u \in Thread : lGen'[u] = mGeneration
      BY <2>3, <2>5
    <3> QED
      BY <1>0, <2>1, <3>1 DEF Counted
  <2>7. BarrierCount'
    <3>1. Cardinality(Counted') = 0
      BY <2>6, FS_EmptySet
    <3>2. mThreshold' = mThreshold
      BY DEF mThreshold
    <3>3. mCount \in 0 .. mThreshold
      BY DEF TypeOK
    <3> QED
      BY <1>0, <1>1, <2>1, <3>1, <3>2, <3>3 DEF BarrierCount
  <2>8. BarrierRounds'
    BY <1>0, <1>1, <2>1, <2>3, <2>4, <2>5 DEF BarrierRounds
  <2>9. TypeOK'
    <3>1. pc' \in [Thread -> PCs]
      BY <2>1 DEF TypeOK, Notified, PCs
    <3>2. lGen' \in [Thread -> 0 .. MaxRound]
      BY <1>0, <1>1 DEF TypeOK
    <3> QED
      BY <1>0, <1>1, <2>1, <3>1, <3>2 DEF TypeOK, mThreshold
  <2> QED
    BY <2>7, <2>8, <2>9
<1>3. CASE mCount - 1 # 0
  <2>1. /\ mGeneration' = mGeneration /\ mCount' = mCount - 1
        /\ pc' = [pc EXCEPT ![t] = "asleep"]
    BY <1>3 DEF Arrive
  <2>2. /\ pc'[t] = "asleep" /\ lGen'[t] = mGeneration
        /\ \A u \in Thread \ {t} : pc'[u] = pc[u] /\ lGen'[u] = lGen[u]
    BY <1>1, <2>1 DEF TypeOK
  <2>3. Counted' = Counted \cup {t}
    BY <2>1, <2>2 DEF Counted
  <2>4. Cardinality(Counted') = Cardinality(Counted) + 1 /\ Cardinality(Counted) \in Nat
    <3>1. Counted \in SUBSET Thread
      BY DEF Counted
    <3> QED
      BY <1>1, <2>3, <3>1, ThreadsFinite, FS_AddElement
  <2>5. BarrierCount'
    BY <1>0, <1>1, <1>3, <2>1, <2>4 DEF BarrierCount, mThreshold
  <2>6. BarrierRounds'
    BY <1>0, <1>1, <2>1, <2>2 DEF BarrierRounds
  <2>7. TypeOK'
    <3>1. pc' \in [Thread -> PCs]
      BY <2>1 DEF TypeOK, PCs
    <3>2. lGen' \in [Thread -> 0 .. MaxRound]
      BY <1>0, <1>1 DEF TypeOK
    <3> QED
      BY <1>0, <1>1, <2>1, <3>1, <3>2 DEF TypeOK, mThreshold
  <2> QED
    BY <2>5, <2>6, <2>7
<1> QED
  BY <1>2, <1>3

\* The other steps change nobody's being counted.
LEMMA InsideStep ==
  ASSUME TypeOK, BarrierCount, BarrierRounds, NEW t \in Thread,
         SpuriousWake(t) \/ Recheck(t) \/ Return(t)
  PROVE  TypeOK' /\ BarrierCount' /\ BarrierRounds'
<1>0. MaxRound \in Nat /\ mGeneration \in Nat /\ mGeneration <= MaxRound
  BY BarrierAssumption DEF TypeOK
<1>1. UNCHANGED << mCount, mGeneration, lGen >>
  BY DEF SpuriousWake, Recheck, Return
<1>2. \A u \in Thread \ {t} : pc'[u] = pc[u] /\ round'[u] = round[u]
  BY DEF SpuriousWake, Recheck, Return, TypeOK
<1>3. CASE SpuriousWake(t)
  <2>1. pc[t] = "asleep" /\ pc'[t] = "woken" /\ round' = round
    BY <1>3 DEF SpuriousWake, TypeOK
  <2>2. TypeOK'
    BY <1>1, <1>3 DEF SpuriousWake, TypeOK, PCs, mThreshold
  <2>3. BarrierRounds'
    BY <1>1, <1>2, <2>1 DEF BarrierRounds
  <2>4. Counted' = Counted
    BY <1>1, <1>2, <2>1 DEF Counted
  <2>5. BarrierCount'
    BY <1>1, <2>4 DEF BarrierCount, mThreshold
  <2> QED
    BY <2>2, <2>3, <2>5
<1>4. CASE Recheck(t)
  <2>1. /\ pc[t] = "woken" /\ round' = round
        /\ pc'[t] = IF lGen[t] # mGeneration THEN "leaving" ELSE "asleep"
    BY <1>4 DEF Recheck, Released, TypeOK
  <2>2. TypeOK'
    BY <1>1, <1>4 DEF Recheck, TypeOK, PCs, mThreshold
  <2>3. BarrierRounds'
    BY <1>1, <1>2, <2>1 DEF BarrierRounds
  <2>4. Counted' = Counted
    BY <1>1, <1>2, <2>1 DEF Counted
  <2>5. BarrierCount'
    BY <1>1, <2>4 DEF BarrierCount, mThreshold
  <2> QED
    BY <2>2, <2>3, <2>5
<1>5. CASE Return(t)
  <2>1. /\ pc[t] = "leaving" /\ pc'[t] = "out"
        /\ round' = [round EXCEPT ![t] = @ + 1] /\ pc' = [pc EXCEPT ![t] = "out"]
    BY <1>5 DEF Return, TypeOK
  <2>2. round[t] = mGeneration - 1 /\ round'[t] = mGeneration
    <3>1. round[t] = mGeneration - 1
      BY <2>1 DEF BarrierRounds
    <3>2. round'[t] = round[t] + 1
      BY <2>1 DEF TypeOK
    <3> QED
      BY <1>0, <3>1, <3>2
  <2>3. TypeOK'
    <3>1. round' \in [Thread -> 0 .. MaxRound]
      BY <1>0, <2>1, <2>2 DEF TypeOK
    <3>2. pc' \in [Thread -> PCs]
      BY <2>1 DEF TypeOK, PCs
    <3> QED
      BY <1>1, <3>1, <3>2 DEF TypeOK, mThreshold
  <2>4. BarrierRounds'
    BY <1>1, <1>2, <2>1, <2>2 DEF BarrierRounds
  <2>5. Counted' = Counted
    BY <1>1, <1>2, <2>1 DEF Counted
  <2>6. BarrierCount'
    BY <1>1, <2>5 DEF BarrierCount, mThreshold
  <2> QED
    BY <2>3, <2>4, <2>6
<1> QED
  BY <1>3, <1>4, <1>5

LEMMA BarrierStart ==
  ASSUME Init
  PROVE  TypeOK /\ BarrierCount /\ BarrierRounds
<1>1. mThreshold \in Nat /\ MaxRound \in Nat /\ (Thread # {} => mThreshold > 0)
  <2>1. mThreshold \in Nat /\ (mThreshold = 0 => Thread = {})
    BY BarrierAssumption, FS_CardinalityType, FS_EmptySet DEF mThreshold
  <2> QED
    BY <2>1, BarrierAssumption
<1>2. TypeOK
  BY <1>1 DEF Init, TypeOK, PCs
<1>3. Counted = {}
  BY DEF Init, Counted
<1>4. Cardinality(Counted) = 0
  BY <1>3, FS_EmptySet
<1>5. BarrierCount
  BY <1>1, <1>4 DEF Init, BarrierCount
<1>6. BarrierRounds
  BY DEF Init, BarrierRounds
<1> QED
  BY <1>2, <1>5, <1>6

LEMMA BarrierStep ==
  ASSUME TypeOK, BarrierCount, BarrierRounds, [Next]_vars
  PROVE  TypeOK' /\ BarrierCount' /\ BarrierRounds'
<1>1. CASE UNCHANGED vars
  <2>1. UNCHANGED << mCount, mGeneration, lGen, pc, round >>
    BY <1>1 DEF vars
  <2>2. TypeOK'
    BY <2>1 DEF TypeOK, mThreshold
  <2>3. Counted' = Counted
    BY <2>1 DEF Counted
  <2>4. BarrierCount' /\ BarrierRounds'
    BY <2>1, <2>3 DEF BarrierCount, BarrierRounds, mThreshold
  <2> QED
    BY <2>2, <2>4
<1>2. CASE Next
  BY <1>1, <1>2, ArriveStep, InsideStep DEF Next, Finished
<1> QED
  BY <1>1, <1>2

\* The types hold in every run; the generation never passes the last round.
THEOREM BarrierTypes ==
  Spec => []TypeOK
<1>1. Init => TypeOK /\ BarrierCount /\ BarrierRounds
  BY BarrierStart
<1>2. TypeOK /\ BarrierCount /\ BarrierRounds /\ [Next]_vars => TypeOK' /\ BarrierCount' /\ BarrierRounds'
  BY BarrierStep
<1> QED
  BY <1>1, <1>2, PTL DEF Spec

\* The count is what the sleepers of the current generation left of it, through
\* any number of reuses and spurious wakeups (barrier.h:14-24).
THEOREM Counting ==
  Spec => []BarrierInv
<1>1. Init => TypeOK /\ BarrierCount /\ BarrierRounds
  BY BarrierStart
<1>2. TypeOK /\ BarrierCount /\ BarrierRounds /\ [Next]_vars => TypeOK' /\ BarrierCount' /\ BarrierRounds'
  BY BarrierStep
<1>3. BarrierCount /\ BarrierRounds => BarrierInv
  BY BarrierParts
<1> QED
  BY <1>1, <1>2, <1>3, PTL DEF Spec

\* No thread is ahead of another by more than the Wait the other is still in.
THEOREM InLockstep ==
  Spec => []Lockstep
<1>1. TypeOK /\ BarrierInv => Lockstep
  <2> SUFFICES ASSUME TypeOK, BarrierRounds, NEW t \in Thread, NEW u \in Thread, round[t] > round[u]
               PROVE  round[t] = round[u] + 1 /\ pc[u] # "out"
    BY BarrierParts DEF Lockstep
  <2>1. mGeneration \in Nat
    BY BarrierAssumption DEF TypeOK
  <2>2. pc[t] \in PCs /\ pc[u] \in PCs
    BY DEF TypeOK
  <2>3. round[t] \in {mGeneration, mGeneration - 1} /\ round[u] \in {mGeneration, mGeneration - 1}
    BY <2>2 DEF BarrierRounds, PCs
  <2>4. pc[u] = "out" => round[u] = mGeneration
    BY DEF BarrierRounds
  <2> QED
    BY <2>1, <2>3, <2>4
<1> QED
  BY <1>1, BarrierTypes, Counting, PTL

-----------------------------------------------------------------------------
(* The abstract barrier.                                                    *)

AbsInside == [t \in Thread |-> pc[t] # "out"]

LEMMA EnterStep ==
  ASSUME TypeOK, NEW t \in Thread, Arrive(t)
  PROVE  Abs!Enter(t)
<1>1. pc[t] = "out" /\ round' = round
  BY DEF Arrive
<1>2. pc'[t] # "out" /\ \A u \in Thread \ {t} : (pc'[u] # "out") = (pc[u] # "out")
  BY DEF Arrive, Notified, TypeOK, PCs
<1>3. AbsInside' = [AbsInside EXCEPT ![t] = TRUE]
  BY <1>2 DEF AbsInside
<1> QED
  BY <1>1, <1>3 DEF Abs!Enter, AbsInside

LEMMA LeaveStep ==
  ASSUME TypeOK, BarrierRounds, NEW t \in Thread, Return(t)
  PROVE  Abs!Leave(t)
<1>1. pc[t] = "leaving" /\ pc' = [pc EXCEPT ![t] = "out"] /\ round' = [round EXCEPT ![t] = @ + 1]
  BY DEF Return
<1>2. mGeneration \in Nat /\ round[t] = mGeneration - 1
  BY <1>1, BarrierAssumption DEF TypeOK, BarrierRounds
<1>3. ASSUME NEW u \in Thread
      PROVE  round[u] > round[t] \/ (round[u] = round[t] /\ pc[u] # "out")
  <2>1. pc[u] \in PCs
    BY DEF TypeOK
  <2>2. /\ round[u] \in {mGeneration, mGeneration - 1}
        /\ pc[u] = "out" => round[u] = mGeneration
    BY <2>1 DEF BarrierRounds, PCs
  <2> QED
    BY <1>2, <2>2
<1>4. AbsInside' = [AbsInside EXCEPT ![t] = FALSE]
  BY <1>1 DEF AbsInside, TypeOK
<1> QED
  BY <1>1, <1>3, <1>4 DEF Abs!Leave, AbsInside

LEMMA BarrierRefineStep ==
  ASSUME TypeOK, BarrierRounds, [Next]_vars
  PROVE  [Abs!BNext]_(Abs!bvars)
<1>1. ASSUME NEW t \in Thread, Arrive(t) PROVE Abs!BNext
  BY <1>1, EnterStep DEF Abs!BNext
<1>2. ASSUME NEW t \in Thread, Return(t) PROVE Abs!BNext
  BY <1>2, LeaveStep DEF Abs!BNext
<1>3. ASSUME NEW t \in Thread, SpuriousWake(t) \/ Recheck(t) PROVE UNCHANGED Abs!bvars
  <2>1. round' = round /\ \A u \in Thread : (pc'[u] # "out") = (pc[u] # "out")
    BY <1>3 DEF SpuriousWake, Recheck, TypeOK
  <2> QED
    BY <2>1 DEF Abs!bvars
<1>4. CASE UNCHANGED vars
  BY <1>4 DEF vars, Abs!bvars
<1> QED
  BY <1>1, <1>2, <1>3, <1>4 DEF Next, Finished

\* A Wait returns only when every thread has called the Wait of the same round.
THEOREM BarrierRefined ==
  Spec => ImplementsBarrier
<1>1. Init => Abs!BInit
  BY DEF Init, Abs!BInit
<1>2. TypeOK /\ BarrierRounds /\ [Next]_vars => [Abs!BNext]_(Abs!bvars)
  BY BarrierRefineStep
<1>3. BarrierInv => BarrierRounds
  BY BarrierParts
<1> QED
  BY <1>1, <1>2, <1>3, BarrierTypes, Counting, PTL DEF Spec, ImplementsBarrier, Abs!BSpec

-----------------------------------------------------------------------------
(* BlockingConcurrentQueue.                                                 *)

\* The units of a sum are those of one summand and the rest.
LEMMA SumSplit ==
  ASSUME NEW D, IsFiniteSet(D), NEW f \in [D -> 0 .. MaxBulk], NEW x \in D
  PROVE  /\ S!Sum(f) = Cardinality({u \in S!Units(f) : u[1] # x}) + f[x]
         /\ Cardinality({u \in S!Units(f) : u[1] # x}) \in Nat
<1> DEFINE rest == {u \in S!Units(f) : u[1] # x}
           column == {x} \X (1 .. f[x])
<1>1. f[x] \in 0 .. MaxBulk /\ f[x] \in Nat
  BY SyncNumbers
<1>2. IsFiniteSet(column) /\ Cardinality(column) = f[x]
  <2>1. IsFiniteSet({x}) /\ Cardinality({x}) = 1
    BY FS_Singleton
  <2>2. IsFiniteSet(1 .. f[x]) /\ Cardinality(1 .. f[x]) = f[x]
    BY <1>1, FS_Interval
  <2> QED
    <3>1. IsFiniteSet(column) /\ Cardinality(column) = Cardinality({x}) * Cardinality(1 .. f[x])
      BY <2>1, <2>2, FS_Product
    <3>2. 1 * f[x] = f[x]
      BY <1>1
    <3> QED
      BY <2>1, <2>2, <3>1, <3>2
<1>3. IsFiniteSet(rest)
  <2>1. IsFiniteSet(1 .. MaxBulk)
    BY SyncNumbers, FS_Interval
  <2>2. IsFiniteSet(D \X (1 .. MaxBulk))
    BY <2>1, FS_Product
  <2>3. rest \subseteq D \X (1 .. MaxBulk)
    BY DEF S!Units
  <2> QED
    BY <2>2, <2>3, FS_Subset
<1>4. S!Units(f) = rest \cup column
  <2>1. ASSUME NEW u \in S!Units(f) PROVE u \in rest \cup column
    <3>1. u \in D \X (1 .. MaxBulk) /\ u[2] <= f[u[1]]
      BY DEF S!Units
    <3> QED
      BY <1>1, <3>1
  <2>2. ASSUME NEW i \in 1 .. f[x] PROVE << x, i >> \in S!Units(f)
    BY <1>1, SyncNumbers DEF S!Units
  <2> QED
    BY <2>1, <2>2
<1>5. rest \cap column = {}
  OBVIOUS
<1>6. Cardinality(rest) \in Nat
  BY <1>3, FS_CardinalityType
<1> HIDE DEF rest, column
<1>7. Cardinality(rest \cup column) = Cardinality(rest) + Cardinality(column) - 0
  <2>1. Cardinality(rest \cup column)
          = Cardinality(rest) + Cardinality(column) - Cardinality(rest \cap column)
    BY <1>2, <1>3, FS_Union
  <2>2. Cardinality(rest \cap column) = 0
    BY <1>5, FS_EmptySet
  <2> QED
    BY <2>1, <2>2
<1>8. S!Sum(f) = Cardinality(rest) + f[x]
  <2>1. S!Sum(f) = Cardinality(rest \cup column)
    BY <1>4, SameCounting DEF S!Sum
  <2> QED
    BY <1>1, <1>2, <1>6, <1>7, <2>1
<1> QED
  BY <1>6, <1>8 DEF rest

\* One summand changes: so does the sum.
LEMMA SumChange ==
  ASSUME NEW D, IsFiniteSet(D), NEW f \in [D -> 0 .. MaxBulk], NEW g \in [D -> 0 .. MaxBulk],
         NEW x \in D, \A y \in D \ {x} : g[y] = f[y]
  PROVE  /\ S!Sum(g) = S!Sum(f) - f[x] + g[x]
         /\ S!Sum(f) \in Nat /\ S!Sum(g) \in Nat /\ f[x] <= S!Sum(f)
<1>1. {u \in S!Units(f) : u[1] # x} = {u \in S!Units(g) : u[1] # x}
  BY DEF S!Units
<1>2. f[x] \in Nat /\ g[x] \in Nat
  BY SyncNumbers
<1> QED
  <2> DEFINE rest == Cardinality({u \in S!Units(f) : u[1] # x})
  <2>1. S!Sum(f) = rest + f[x] /\ rest \in Nat
    BY SumSplit
  <2>2. S!Sum(g) = Cardinality({u \in S!Units(g) : u[1] # x}) + g[x]
    BY SumSplit
  <2>3. S!Sum(g) = rest + g[x]
    BY <1>1, <2>2
  <2> HIDE DEF rest
  <2> QED
    BY <1>2, <2>1, <2>3

LEMMA SumZero ==
  ASSUME NEW D, NEW f \in [D -> 0 .. MaxBulk], \A y \in D : f[y] = 0
  PROVE  S!Sum(f) = 0
<1>1. S!Units(f) = {}
  BY DEF S!Units
<1> QED
  BY <1>1, FS_EmptySet, SameCounting DEF S!Sum

LEMMA SumType ==
  ASSUME NEW D, IsFiniteSet(D), NEW f \in [D -> 0 .. MaxBulk]
  PROVE  S!Sum(f) \in Nat
<1>1. IsFiniteSet(1 .. MaxBulk)
  BY SyncNumbers, FS_Interval
<1>2. IsFiniteSet(D \X (1 .. MaxBulk))
  BY <1>1, FS_Product
<1>3. IsFiniteSet(S!Units(f))
  BY <1>2, FS_Subset DEF S!Units
<1> QED
  BY <1>3, FS_CardinalityType, SameCounting DEF S!Sum

\* All sums are numbers.
LEMMA SumsType ==
  ASSUME S!TypeOK
  PROVE  S!toSignal \in Nat /\ S!toPost \in Nat /\ S!waiters \in Nat /\ S!Sum(held) \in Nat
<1>1. S!Signalling \in [Producer -> 0 .. MaxBulk]
  BY SyncNumbers DEF S!TypeOK, S!Signalling
<1>2. S!Posting \in [Producer -> 0 .. MaxBulk]
  BY SyncNumbers DEF S!TypeOK, S!Posting
<1>3. held \in [Consumer -> 0 .. MaxBulk]
  BY DEF S!TypeOK
<1>4. IsFiniteSet(S!Waiting)
  BY SyncNumbers, FS_Subset DEF S!Waiting
<1>5. S!waiters \in Nat
  BY <1>4, FS_CardinalityType, SameCounting DEF S!waiters
<1> QED
  BY <1>1, <1>2, <1>3, <1>5, SumType, SyncNumbers DEF S!toSignal, S!toPost

\* Only the thread that moves may change what it signals, waits for or holds.
LEMMA ProducerSums ==
  ASSUME S!TypeOK, S!TypeOK', NEW p \in Producer,
         \A q \in Producer \ {p} : ppc'[q] = ppc[q] /\ arg'[q] = arg[q]
  PROVE  /\ S!toSignal' = S!toSignal - S!Signalling[p] + S!Signalling'[p]
         /\ S!toPost' = S!toPost - S!Posting[p] + S!Posting'[p]
         /\ S!toSignal \in Nat /\ S!toSignal' \in Nat /\ S!toPost \in Nat /\ S!toPost' \in Nat
<1>1. S!Signalling \in [Producer -> 0 .. MaxBulk] /\ S!Signalling' \in [Producer -> 0 .. MaxBulk]
  BY SyncNumbers DEF S!TypeOK, S!Signalling
<1>2. S!Posting \in [Producer -> 0 .. MaxBulk] /\ S!Posting' \in [Producer -> 0 .. MaxBulk]
  BY SyncNumbers DEF S!TypeOK, S!Posting
<1>3. S!toSignal' = S!Sum(S!Signalling') /\ S!toPost' = S!Sum(S!Posting')
  BY DEF S!toSignal, S!toPost, S!Sum, S!Units
<1>4. /\ S!Sum(S!Signalling') = S!Sum(S!Signalling) - S!Signalling[p] + S!Signalling'[p]
      /\ S!Sum(S!Signalling) \in Nat /\ S!Sum(S!Signalling') \in Nat
  <2>1. \A q \in Producer \ {p} : S!Signalling'[q] = S!Signalling[q]
    BY DEF S!Signalling
  <2> QED
    BY <1>1, <2>1, SumChange, SyncNumbers
<1>5. /\ S!Sum(S!Posting') = S!Sum(S!Posting) - S!Posting[p] + S!Posting'[p]
      /\ S!Sum(S!Posting) \in Nat /\ S!Sum(S!Posting') \in Nat
  <2>1. \A q \in Producer \ {p} : S!Posting'[q] = S!Posting[q]
    BY DEF S!Posting
  <2> QED
    BY <1>2, <2>1, SumChange, SyncNumbers
<1> QED
  BY <1>3, <1>4, <1>5 DEF S!toSignal, S!toPost

Waits(c) == IF ccpc[c] \in {"sleep", "adjust", "drain"} THEN 1 ELSE 0

LEMMA ConsumerSums ==
  ASSUME S!TypeOK, S!TypeOK', NEW c \in Consumer,
         \A d \in Consumer \ {c} : ccpc'[d] = ccpc[d] /\ held'[d] = held[d]
  PROVE  /\ S!waiters' = S!waiters - Waits(c) + Waits(c)'
         /\ S!Sum(held') = S!Sum(held) - held[c] + held'[c]
         /\ S!waiters \in Nat /\ S!waiters' \in Nat /\ S!Sum(held) \in Nat /\ S!Sum(held') \in Nat
         /\ Waits(c) <= S!waiters
<1>1. S!Sum(held') = S!Sum(held) - held[c] + held'[c] /\ S!Sum(held) \in Nat /\ S!Sum(held') \in Nat
  <2>1. held \in [Consumer -> 0 .. MaxBulk] /\ held' \in [Consumer -> 0 .. MaxBulk]
    BY DEF S!TypeOK
  <2> QED
    BY <2>1, SumChange, SyncNumbers
<1>2. S!waiters = Cardinality(S!Waiting) /\ S!waiters' = Cardinality(S!Waiting')
  BY SameCounting DEF S!waiters
<1> DEFINE others == {d \in Consumer \ {c} : ccpc[d] \in {"sleep", "adjust", "drain"}}
<1>3. IsFiniteSet(others) /\ Cardinality(others) \in Nat /\ c \notin others
  <2>1. IsFiniteSet(others)
    BY SyncNumbers, FS_Subset
  <2> QED
    BY <2>1, FS_CardinalityType
<1>4. /\ S!Waiting = IF Waits(c) = 1 THEN others \cup {c} ELSE others
      /\ S!Waiting' = IF Waits(c)' = 1 THEN others \cup {c} ELSE others
      /\ Waits(c) \in 0 .. 1 /\ Waits(c)' \in 0 .. 1
  BY DEF S!Waiting, Waits
<1> HIDE DEF others
<1>5. Cardinality(others \cup {c}) = Cardinality(others) + 1
  BY <1>3, FS_AddElement
<1>6. S!waiters = Cardinality(others) + Waits(c) /\ S!waiters' = Cardinality(others) + Waits(c)'
  BY <1>2, <1>3, <1>4, <1>5
<1> QED
  BY <1>1, <1>3, <1>4, <1>6

\* What others signal, and hold, stays.
LEMMA SumsKept ==
  /\ UNCHANGED << ppc, arg >> => UNCHANGED << S!toSignal, S!toPost >>
  /\ UNCHANGED << ccpc, held >> => UNCHANGED << S!waiters, S!Sum(held) >>
<1>1. ASSUME UNCHANGED << ppc, arg >> PROVE UNCHANGED << S!toSignal, S!toPost >>
  <2>1. S!Signalling' = S!Signalling /\ S!Posting' = S!Posting
    BY <1>1 DEF S!Signalling, S!Posting
  <2> QED
    BY <2>1 DEF S!toSignal, S!toPost, S!Sum, S!Units
<1>2. ASSUME UNCHANGED << ccpc, held >> PROVE UNCHANGED << S!waiters, S!Sum(held) >>
  <2>1. S!Waiting' = S!Waiting /\ held' = held
    BY <1>2 DEF S!Waiting
  <2> QED
    BY <2>1 DEF S!waiters, S!Sum, S!Units
<1> QED
  BY <1>1, <1>2

LEMMA ProducerWellFormed ==
  ASSUME S!TypeOK, S!CallInv, NEW p \in Producer, S!Enqueue(p) \/ S!Produce(p)
  PROVE  /\ S!TypeOK' /\ S!CallInv'
         /\ \A q \in Producer \ {p} : ppc'[q] = ppc[q] /\ arg'[q] = arg[q]
         /\ UNCHANGED << other, ccpc, mode, want, held >>
<1>1. UNCHANGED << other, ccpc, mode, want, held >>
  BY DEF S!Enqueue, S!Produce, S!Signal, S!Post, S!consumers
<1>2. \E to \in {"idle", "signal", "post"}, n \in 0 .. MaxBulk :
        ppc' = [ppc EXCEPT ![p] = to] /\ arg' = [arg EXCEPT ![p] = n] /\ (to # "idle" => n > 0)
  <2>1. CASE S!Enqueue(p)
    <3>1. PICK n \in 1 .. MaxBulk :
            ppc' = [ppc EXCEPT ![p] = "signal"] /\ arg' = [arg EXCEPT ![p] = n]
      BY <2>1 DEF S!Enqueue
    <3>2. n \in 0 .. MaxBulk /\ n > 0
      BY SyncNumbers
    <3> QED
      BY <3>1, <3>2
  <2>2. CASE S!Signal(p)
    <3>1. m_count \in Int /\ arg[p] \in 0 .. MaxBulk
      BY DEF S!TypeOK
    <3> DEFINE n == S!Fewer(-m_count, arg[p])
               k == IF n > 0 THEN n ELSE 0
               to == IF n > 0 THEN "post" ELSE "idle"
    <3>2. k \in 0 .. MaxBulk /\ (to # "idle" => k > 0) /\ to \in {"idle", "signal", "post"}
      BY <3>1, SyncNumbers DEF S!Fewer
    <3>3. ppc' = [ppc EXCEPT ![p] = to] /\ arg' = [arg EXCEPT ![p] = k]
      BY <2>2 DEF S!Signal
    <3> QED
      BY <3>2, <3>3
  <2>3. CASE S!Post(p)
    <3>1. arg[p] \in 0 .. MaxBulk /\ arg[p] > 0
      BY <2>3 DEF S!TypeOK, S!CallInv, S!Post
    <3> DEFINE k == arg[p] - 1
               to == IF arg[p] = 1 THEN "idle" ELSE "post"
    <3>2. k \in 0 .. MaxBulk /\ (to # "idle" => k > 0) /\ to \in {"idle", "signal", "post"}
      BY <3>1, SyncNumbers
    <3>3. ppc' = [ppc EXCEPT ![p] = to] /\ arg' = [arg EXCEPT ![p] = k]
      BY <2>3 DEF S!Post
    <3> QED
      BY <3>2, <3>3
  <2> QED
    BY <2>1, <2>2, <2>3 DEF S!Produce
<1>3. PICK to \in {"idle", "signal", "post"}, n \in 0 .. MaxBulk :
        ppc' = [ppc EXCEPT ![p] = to] /\ arg' = [arg EXCEPT ![p] = n] /\ (to # "idle" => n > 0)
  BY <1>2
<1>4. /\ ppc' \in [Producer -> {"idle", "signal", "post"}] /\ arg' \in [Producer -> 0 .. MaxBulk]
      /\ ppc'[p] = to /\ arg'[p] = n
      /\ \A q \in Producer \ {p} : ppc'[q] = ppc[q] /\ arg'[q] = arg[q]
  BY <1>3 DEF S!TypeOK
<1>5. m_count' \in Int /\ m_sema' \in Nat /\ items' \in Nat /\ signalled' \in Nat
  BY SyncNumbers DEF S!TypeOK, S!Enqueue, S!Produce, S!Signal, S!Post, S!sema
<1>6. S!TypeOK'
  BY <1>1, <1>4, <1>5 DEF S!TypeOK
<1>7. S!CallInv'
  BY <1>1, <1>3, <1>4 DEF S!CallInv
<1> QED
  BY <1>1, <1>4, <1>6, <1>7

LEMMA ConsumerWellFormed ==
  ASSUME S!TypeOK, S!CallInv, NEW c \in Consumer, S!Call(c) \/ S!Consume(c)
  PROVE  /\ S!TypeOK' /\ S!CallInv'
         /\ \A d \in Consumer \ {c} : ccpc'[d] = ccpc[d] /\ held'[d] = held[d]
         /\ UNCHANGED << other, ppc, arg >>
<1> DEFINE Places == {"idle", "acquire", "sub", "sleep", "adjust", "drain", "more", "take"}
<1>1. UNCHANGED << other, signalled, ppc, arg >>
  BY DEF S!Call, S!Consume, S!TryWait, S!TryFails, S!StopSpinning, S!Sub, S!Wake, S!TimeOut, S!Adjust,
         S!SeeSignalled, S!Drain, S!More, S!Take, S!Quiet, S!producers
<1>0. /\ m_count \in Int /\ m_sema \in Nat /\ items \in Nat
      /\ want[c] \in 0 .. MaxBulk /\ held[c] \in 0 .. MaxBulk /\ ccpc[c] \in Places /\ mode[c] \in S!Modes
      /\ ccpc[c] # "idle" => want[c] > 0
      /\ held[c] <= IF ccpc[c] = "take" THEN want[c] ELSE IF ccpc[c] = "more" THEN 1 ELSE 0
      /\ ccpc[c] = "more" => want[c] > 1
      /\ ccpc \in [Consumer -> Places] /\ mode \in [Consumer -> S!Modes]
      /\ want \in [Consumer -> 0 .. MaxBulk] /\ held \in [Consumer -> 0 .. MaxBulk]
  BY DEF S!TypeOK, S!CallInv
<1>2. /\ ccpc' = [ccpc EXCEPT ![c] = ccpc'[c]] /\ ccpc'[c] \in Places
      /\ mode' = [mode EXCEPT ![c] = mode'[c]] /\ mode'[c] \in S!Modes
      /\ want' = [want EXCEPT ![c] = want'[c]] /\ want'[c] \in 0 .. MaxBulk
      /\ held' = [held EXCEPT ![c] = held'[c]] /\ held'[c] \in 0 .. MaxBulk
      /\ ccpc'[c] # "idle" => want'[c] > 0
      /\ held'[c] <= IF ccpc'[c] = "take" THEN want'[c] ELSE IF ccpc'[c] = "more" THEN 1 ELSE 0
      /\ ccpc'[c] = "more" => want'[c] > 1
      /\ m_count' \in Int /\ m_sema' \in Nat /\ items' \in Nat
  <2>0. /\ mode = [mode EXCEPT ![c] = mode[c]] /\ want = [want EXCEPT ![c] = want[c]]
        /\ held = [held EXCEPT ![c] = held[c]] /\ ccpc = [ccpc EXCEPT ![c] = ccpc[c]]
    BY <1>0
  <2>1. CASE S!Call(c)
    BY <1>0, <2>0, <2>1, SyncNumbers DEF S!Call, S!Goto, S!Quiet, S!sema
  <2>2. CASE S!TryWait(c)
    <3> DEFINE n == S!Fewer(m_count, want[c])
    <3>1. /\ ccpc[c] = "acquire" /\ m_count' = m_count - n /\ held' = [held EXCEPT ![c] = held[c] + n]
          /\ ccpc' = [ccpc EXCEPT ![c] = "take"] /\ UNCHANGED << m_sema, mode, want, items >> /\ m_count > 0
      BY <2>2 DEF S!TryWait, S!Get, S!Goto, S!Quiet
    <3>2. n \in Nat /\ n <= want[c] /\ held[c] = 0
      BY <1>0, <3>1 DEF S!Fewer
    <3> HIDE DEF n
    <3>3. ccpc'[c] = "take" /\ held'[c] = n /\ n \in 0 .. MaxBulk /\ mode'[c] = mode[c] /\ want'[c] = want[c]
      BY <1>0, <3>1, <3>2, SyncNumbers
    <3> QED
      BY <1>0, <2>0, <3>1, <3>2, <3>3
  <2>3. CASE S!TryFails(c)
    BY <1>0, <2>0, <2>3, SyncNumbers DEF S!TryFails, S!Return, S!Goto, S!Quiet, S!sema, S!Modes
  <2>4. CASE S!StopSpinning(c) \/ S!TimeOut(c) \/ S!SeeSignalled(c)
    <3>1. \E to \in {"sub", "adjust", "drain"} : ccpc' = [ccpc EXCEPT ![c] = to]
      BY <2>4 DEF S!StopSpinning, S!TimeOut, S!SeeSignalled, S!Goto
    <3>2. UNCHANGED << m_count, m_sema, items, mode, want, held >> /\ ccpc[c] \in {"acquire", "sleep", "adjust"}
      BY <2>4 DEF S!StopSpinning, S!TimeOut, S!SeeSignalled, S!Quiet, S!sema
    <3> QED
      BY <1>0, <2>0, <3>1, <3>2
  <2>5. CASE S!Adjust(c)
    BY <1>0, <2>0, <2>5, SyncNumbers DEF S!Adjust, S!Return, S!Goto, S!Quiet, S!Modes
  <2>6. CASE S!Granted(c) /\ UNCHANGED << mode, want, items >> /\ m_count' \in Int /\ m_sema' \in Nat
             /\ ccpc[c] \in {"sub", "sleep", "drain"}
    <3>1. held' = [held EXCEPT ![c] = held[c] + 1] /\ held[c] + 1 = 1 /\ 1 \in 0 .. MaxBulk
      BY <1>0, <2>6, SyncNumbers DEF S!Granted, S!Get
    <3>2. ccpc' = [ccpc EXCEPT ![c] = IF want[c] > 1 THEN "more" ELSE "take"]
      BY <2>6 DEF S!Granted, S!Goto
    <3> QED
      BY <1>0, <2>0, <2>6, <3>1, <3>2
  <2>7. CASE S!Sub(c) \/ S!Wake(c) \/ S!Drain(c)
    <3>1. \/ S!Granted(c)
          \/ \E to \in {"sleep", "adjust"} : ccpc' = [ccpc EXCEPT ![c] = to] /\ UNCHANGED held
      BY <2>7 DEF S!Sub, S!Wake, S!Drain, S!Goto
    <3>2. UNCHANGED << mode, want, items >> /\ m_count' \in Int /\ m_sema' \in Nat
          /\ ccpc[c] \in {"sub", "sleep", "drain"}
      BY <1>0, <2>7 DEF S!Sub, S!Wake, S!Drain, S!Quiet
    <3> QED
      BY <1>0, <2>0, <2>6, <3>1, <3>2
  <2>8. CASE S!More(c)
    <3> DEFINE n == IF m_count > 0 THEN S!Fewer(m_count, want[c] - 1) ELSE 0
    <3>1. /\ ccpc[c] = "more" /\ m_count' = m_count - n /\ held' = [held EXCEPT ![c] = held[c] + n]
          /\ ccpc' = [ccpc EXCEPT ![c] = "take"] /\ UNCHANGED << m_sema, mode, want, items >>
      BY <2>8 DEF S!More, S!Get, S!Goto, S!Quiet
    <3>2. n \in Nat /\ n <= want[c] - 1 /\ held[c] <= 1
      BY <1>0, <3>1 DEF S!Fewer
    <3> HIDE DEF n
    <3>3. /\ ccpc'[c] = "take" /\ held'[c] = held[c] + n /\ held[c] + n \in 0 .. MaxBulk
          /\ held[c] + n <= want[c] /\ mode'[c] = mode[c] /\ want'[c] = want[c]
      BY <1>0, <3>1, <3>2, SyncNumbers
    <3> QED
      BY <1>0, <2>0, <3>1, <3>2, <3>3
  <2>9. CASE S!Take(c)
    <3>1. PICK n \in 1 .. S!Fewer(held[c], items) :
            /\ ccpc[c] = "take" /\ items' = items - n
            /\ held' = [held EXCEPT ![c] = held[c] - n]
            /\ IF n = held[c] THEN S!Return(c) ELSE UNCHANGED <<ccpc, mode, want>>
            /\ UNCHANGED << m_count, m_sema >>
      BY <2>9 DEF S!Take, S!sema
    <3>2. n \in Nat /\ n <= held[c] /\ n <= items
      BY <1>0 DEF S!Fewer
    <3>5. /\ held'[c] = held[c] - n /\ held[c] - n \in 0 .. MaxBulk /\ held[c] - n <= held[c]
          /\ items' \in Nat /\ held[c] <= want[c]
      BY <1>0, <3>1, <3>2, SyncNumbers
    <3>3. CASE n = held[c]
      <4>1. held[c] - n = 0
        BY <1>0, <3>3
      <4> QED
        BY <1>0, <2>0, <3>1, <3>3, <3>5, <4>1, SyncNumbers DEF S!Return, S!Goto, S!Modes
    <3>4. CASE n # held[c]
      <4>1. UNCHANGED << ccpc, mode, want, m_count, m_sema >> /\ ccpc[c] = "take"
        BY <3>1, <3>4
      <4>2. held[c] - n <= want[c]
        BY <1>0, <3>2, <3>5
      <4> QED
        BY <1>0, <2>0, <3>1, <3>5, <4>1, <4>2
    <3> QED
      BY <3>3, <3>4
  <2> QED
    BY <2>1, <2>2, <2>3, <2>4, <2>5, <2>7, <2>8, <2>9 DEF S!Consume
<1>4. S!TypeOK'
  BY <1>0, <1>1, <1>2 DEF S!TypeOK
<1>5. \A d \in Consumer \ {c} : /\ ccpc'[d] = ccpc[d] /\ held'[d] = held[d]
                                /\ want'[d] = want[d]
  BY <1>0, <1>2
<1>6. S!CallInv'
  BY <1>0, <1>1, <1>2, <1>5 DEF S!CallInv
<1> QED
  BY <1>1, <1>4, <1>5, <1>6

\* The permits of the abstract semaphore.
Permits == m_sema + S!toPost + (IF m_count > 0 THEN m_count ELSE 0) + other.m_count

LEMMA ProducerKeeps ==
  ASSUME S!IInv, NEW p \in Producer, S!Enqueue(p) \/ S!Produce(p)
  PROVE  /\ S!IInv' /\ UNCHANGED held
         /\ \/ UNCHANGED << Permits, S!Signalling >>
            \/ S!Promise!Call(p)
            \/ S!Promise!Signal(p)
<1>0. S!TypeOK /\ S!CallInv /\ S!WakeupsExact /\ S!PermitHasItem
  BY DEF S!IInv
<1>1. /\ S!TypeOK' /\ S!CallInv'
      /\ \A q \in Producer \ {p} : ppc'[q] = ppc[q] /\ arg'[q] = arg[q]
      /\ UNCHANGED << other, ccpc, mode, want, held >>
  BY <1>0, ProducerWellFormed
<1>2. /\ S!toSignal' = S!toSignal - S!Signalling[p] + S!Signalling'[p]
      /\ S!toPost' = S!toPost - S!Posting[p] + S!Posting'[p]
      /\ S!toSignal \in Nat /\ S!toSignal' \in Nat /\ S!toPost \in Nat /\ S!toPost' \in Nat
  BY <1>0, <1>1, ProducerSums
<1>3. S!waiters' = S!waiters /\ S!Sum(held') = S!Sum(held)
  BY <1>1, SumsKept
<1>4. /\ m_count \in Int /\ m_sema \in Nat /\ items \in Nat /\ arg[p] \in Nat /\ other.m_count \in Int
      /\ ppc \in [Producer -> {"idle", "signal", "post"}] /\ arg \in [Producer -> 0 .. MaxBulk]
      /\ m_count' \in Int /\ m_sema' \in Nat /\ items' \in Nat
  BY <1>0, <1>1, SyncNumbers DEF S!TypeOK
<1>5. S!waiters \in Nat /\ S!Sum(held) \in Nat
  BY <1>0, SumsType
<1> DEFINE before == IF m_count > 0 THEN m_count ELSE 0
           after == IF m_count' > 0 THEN m_count' ELSE 0
<1>6. /\ S!WakeupsExact' <=> m_sema' + S!toPost' = S!waiters + S!Fewer(m_count', 0)
      /\ S!PermitHasItem' <=> /\ items' = S!toSignal' + S!Sum(held) + m_count' + S!waiters
                              /\ other.items = other.m_count /\ other.m_sema = 0
      /\ Permits = m_sema + S!toPost + before + other.m_count
      /\ Permits' = m_sema' + S!toPost' + after + other.m_count
      /\ m_sema + S!toPost = S!waiters + S!Fewer(m_count, 0)
      /\ items = S!toSignal + S!Sum(held) + m_count + S!waiters
      /\ other.items = other.m_count /\ other.m_sema = 0
  BY <1>0, <1>1, <1>3 DEF S!WakeupsExact, S!PermitHasItem, Permits, S!Fewer
<1>s. S!Signalling' = [S!Signalling EXCEPT ![p] = S!Signalling'[p]]
  BY <1>1 DEF S!Signalling
<1>7. CASE S!Enqueue(p)
  <2>1. PICK n \in 1 .. MaxBulk :
          /\ ppc[p] = "idle" /\ ppc'[p] = "signal" /\ arg'[p] = n /\ items' = items + n
          /\ UNCHANGED << m_count, m_sema >>
    BY <1>4, <1>7 DEF S!Enqueue, S!sema
  <2>2. n \in Nat /\ n > 0
    BY SyncNumbers
  <2>3. /\ S!Signalling[p] = 0 /\ S!Signalling'[p] = n
        /\ S!Posting[p] = 0 /\ S!Posting'[p] = 0
    BY <2>1 DEF S!Signalling, S!Posting
  <2>4. S!WakeupsExact' /\ S!PermitHasItem' /\ Permits' = Permits
    BY <1>0, <1>1, <1>2, <1>4, <1>5, <1>6, <2>1, <2>2, <2>3
  <2>5. S!Promise!Call(p)
    BY <1>1, <1>s, <2>3, <2>4 DEF S!Promise!Call, Permits
  <2> QED
    BY <1>1, <2>4, <2>5 DEF S!IInv
<1>8. CASE S!Signal(p)
  <2> DEFINE n == S!Fewer(-m_count, arg[p])
             k == IF n > 0 THEN n ELSE 0
  <2>1. /\ ppc[p] = "signal" /\ m_count' = m_count + arg[p] /\ arg'[p] = k
        /\ ppc'[p] = IF n > 0 THEN "post" ELSE "idle"
        /\ UNCHANGED << m_sema, items >>
    BY <1>4, <1>8 DEF S!Signal
  <2>2. k \in Nat /\ k = IF -m_count < arg[p] THEN (IF -m_count > 0 THEN -m_count ELSE 0) ELSE arg[p]
    BY <1>4 DEF S!Fewer
  <2>3. /\ S!Signalling[p] = arg[p] /\ S!Signalling'[p] = 0
        /\ S!Posting[p] = 0 /\ S!Posting'[p] = k
    BY <2>1 DEF S!Signalling, S!Posting
  <2> HIDE DEF k
  <2>4. S!WakeupsExact' /\ S!PermitHasItem'
    BY <1>2, <1>4, <1>5, <1>6, <2>1, <2>2, <2>3 DEF S!Fewer
  <2>5. Permits' = Permits + arg[p]
    BY <1>2, <1>4, <1>5, <1>6, <2>1, <2>2, <2>3
  <2>6. arg[p] > 0
    BY <1>0, <1>4, <2>1 DEF S!CallInv
  <2>7. S!Promise!Signal(p)
    BY <1>1, <1>s, <2>3, <2>5, <2>6 DEF S!Promise!Signal, Permits
  <2> QED
    BY <1>1, <2>4, <2>7 DEF S!IInv
<1>9. CASE S!Post(p)
  <2>1. /\ ppc[p] = "post" /\ m_sema' = m_sema + 1 /\ arg'[p] = arg[p] - 1
        /\ ppc'[p] = IF arg[p] = 1 THEN "idle" ELSE "post"
        /\ UNCHANGED << m_count, items >>
    BY <1>4, <1>9 DEF S!Post
  <2>2. /\ S!Signalling[p] = 0 /\ S!Signalling'[p] = 0
        /\ S!Posting[p] = arg[p] /\ S!Posting'[p] = arg[p] - 1
    BY <1>4, <2>1 DEF S!Signalling, S!Posting
  <2>3. S!WakeupsExact' /\ S!PermitHasItem'
    BY <1>2, <1>4, <1>5, <1>6, <2>1, <2>2 DEF S!Fewer
  <2>4. Permits' = Permits
    BY <1>2, <1>4, <1>5, <1>6, <2>1, <2>2
  <2>5. S!Signalling' = S!Signalling
    BY <1>1, <2>2 DEF S!Signalling
  <2> QED
    BY <1>1, <2>3, <2>4, <2>5 DEF S!IInv
<1> QED
  BY <1>7, <1>8, <1>9 DEF S!Produce

\* A consumer acquires, uses, or does nothing that the abstract semaphore sees.
LEMMA ConsumerKeeps ==
  ASSUME S!IInv, NEW c \in Consumer, S!Call(c) \/ S!Consume(c)
  PROVE  /\ S!IInv'
         /\ UNCHANGED S!Signalling
         /\ \/ UNCHANGED << Permits, held >>
            \/ S!Promise!Acquire(c)
            \/ S!Promise!Use(c)
<1>0. S!TypeOK /\ S!CallInv /\ S!WakeupsExact /\ S!PermitHasItem
  BY DEF S!IInv
<1>1. /\ S!TypeOK' /\ S!CallInv'
      /\ \A d \in Consumer \ {c} : ccpc'[d] = ccpc[d] /\ held'[d] = held[d]
      /\ UNCHANGED << other, ppc, arg >>
  BY <1>0, ConsumerWellFormed
<1>2. /\ S!waiters' = S!waiters - Waits(c) + Waits(c)'
      /\ S!Sum(held') = S!Sum(held) - held[c] + held'[c]
      /\ S!waiters \in Nat /\ S!waiters' \in Nat /\ S!Sum(held) \in Nat /\ S!Sum(held') \in Nat
      /\ Waits(c) <= S!waiters
  BY <1>0, <1>1, ConsumerSums
<1>3. S!toSignal' = S!toSignal /\ S!toPost' = S!toPost
  BY <1>1, SumsKept
<1>4. /\ m_count \in Int /\ m_sema \in Nat /\ items \in Nat /\ held[c] \in Nat /\ other.m_count \in Nat
      /\ ccpc \in [Consumer -> {"idle", "acquire", "sub", "sleep", "adjust", "drain", "more", "take"}]
      /\ held \in [Consumer -> 0 .. MaxBulk] /\ held' \in [Consumer -> 0 .. MaxBulk] /\ held'[c] \in Nat
      /\ want[c] \in Nat
      /\ m_count' \in Int /\ m_sema' \in Nat /\ items' \in Nat
      /\ S!toSignal \in Nat /\ S!toPost \in Nat
  BY <1>0, <1>1, SumsType, SyncNumbers DEF S!TypeOK, S!PermitHasItem
<1> DEFINE before == IF m_count > 0 THEN m_count ELSE 0
           after == IF m_count' > 0 THEN m_count' ELSE 0
           lost == held'[c] - held[c]
<1>5. /\ S!WakeupsExact' <=> m_sema' + S!toPost = S!waiters' + S!Fewer(m_count', 0)
      /\ S!PermitHasItem' <=> /\ items' = S!toSignal + S!Sum(held') + m_count' + S!waiters'
                              /\ other.items = other.m_count /\ other.m_sema = 0
      /\ m_sema + S!toPost = S!waiters + S!Fewer(m_count, 0)
      /\ items = S!toSignal + S!Sum(held) + m_count + S!waiters
      /\ other.items = other.m_count /\ other.m_sema = 0
  BY <1>0, <1>1, <1>3 DEF S!WakeupsExact, S!PermitHasItem, S!Fewer
<1>6. /\ Permits = m_sema + S!toPost + before + other.m_count
      /\ Permits' = m_sema' + S!toPost + after + other.m_count
      /\ Permits \in Nat /\ Permits' \in Nat
  BY <1>1, <1>3, <1>4 DEF Permits
<1>7. held' = [held EXCEPT ![c] = held[c] + lost]
  BY <1>1, <1>4
<1>8. Permits' = Permits - lost /\ lost > 0 => S!Promise!Acquire(c)
  <2> SUFFICES ASSUME Permits' = Permits - lost, lost > 0
               PROVE  Permits' \in 0 .. Permits - 1 /\ held' = [held EXCEPT ![c] = @ + Permits - Permits']
    BY <1>1 DEF S!Promise!Acquire, Permits, S!Signalling
  <2>1. held[c] + Permits - Permits' = held[c] + lost /\ lost \in Int
    BY <1>4, <1>6
  <2> QED
    BY <1>4, <1>6, <1>7, <2>1
<1>9. Permits' = Permits /\ lost = 0 => UNCHANGED << Permits, held >>
  BY <1>4, <1>7
<1> SUFFICES /\ S!IInv'
             /\ UNCHANGED << Permits, held >> \/ S!Promise!Acquire(c) \/ S!Promise!Use(c)
  BY <1>1 DEF S!Signalling
<1> HIDE DEF lost
<1>10. ASSUME /\ m_sema' + S!toPost = S!waiters' + S!Fewer(m_count', 0)
              /\ items' = S!toSignal + S!Sum(held') + m_count' + S!waiters'
       PROVE  S!IInv'
  BY <1>1, <1>5, <1>10 DEF S!IInv
<1>11. CASE \/ S!Call(c) \/ S!TryFails(c) \/ S!StopSpinning(c) \/ S!TimeOut(c) \/ S!SeeSignalled(c)
            \/ S!Drain(c) /\ m_sema = 0
  <2>1. /\ UNCHANGED << m_count, m_sema, items, held >>
        /\ Waits(c)' = Waits(c)
    BY <1>4, <1>11 DEF S!Call, S!TryFails, S!StopSpinning, S!TimeOut, S!SeeSignalled, S!Drain,
       S!Return, S!Goto, S!Quiet, S!sema, Waits
  <2>2. UNCHANGED << Permits, held >>
    BY <1>6, <2>1
  <2>3. S!waiters' = S!waiters /\ S!Sum(held') = S!Sum(held)
    <3>1. Waits(c) \in 0 .. 1
      BY DEF Waits
    <3> QED
      BY <1>2, <1>4, <2>1, <3>1
  <2>4. /\ m_sema' + S!toPost = S!waiters' + S!Fewer(m_count', 0)
        /\ items' = S!toSignal + S!Sum(held') + m_count' + S!waiters'
    BY <1>5, <2>1, <2>3
  <2> QED
    BY <1>10, <2>2, <2>4
<1>12. CASE S!Adjust(c)
  <2>1. /\ m_count < 0 /\ m_count' = m_count + 1 /\ UNCHANGED << m_sema, items, held >>
        /\ Waits(c)' = 0 /\ Waits(c) = 1
    BY <1>4, <1>12 DEF S!Adjust, S!Return, S!Goto, S!Quiet, Waits
  <2>2. UNCHANGED << Permits, held >>
    BY <1>4, <1>6, <2>1
  <2> QED
    BY <1>2, <1>4, <1>5, <1>10, <2>1, <2>2 DEF S!Fewer
<1>13. CASE S!TryWait(c) \/ S!More(c)
  <2>1. \E n \in Nat :
          /\ n = 0 \/ n <= m_count
          /\ m_count' = m_count - n /\ held'[c] = held[c] + n /\ UNCHANGED << m_sema, items >>
          /\ Waits(c)' = 0 /\ Waits(c) = 0
    <3>1. CASE S!TryWait(c)
      <4> DEFINE n == S!Fewer(m_count, want[c])
      <4>1. /\ m_count' = m_count - n /\ held'[c] = held[c] + n /\ UNCHANGED << m_sema, items >>
            /\ Waits(c)' = 0 /\ Waits(c) = 0 /\ m_count > 0
        BY <1>4, <3>1 DEF S!TryWait, S!Get, S!Goto, S!Quiet, Waits
      <4>2. n \in Nat /\ n <= m_count
        BY <1>4, <4>1 DEF S!Fewer
      <4> QED
        BY <4>1, <4>2
    <3>2. CASE S!More(c)
      <4> DEFINE n == IF m_count > 0 THEN S!Fewer(m_count, want[c] - 1) ELSE 0
      <4>1. /\ m_count' = m_count - n /\ held'[c] = held[c] + n /\ UNCHANGED << m_sema, items >>
            /\ Waits(c)' = 0 /\ Waits(c) = 0 /\ ccpc[c] = "more"
        BY <1>4, <3>2 DEF S!More, S!Get, S!Goto, S!Quiet, Waits
      <4>2. n \in Nat /\ (n = 0 \/ n <= m_count)
        BY <1>0, <1>4, <4>1 DEF S!Fewer, S!CallInv
      <4> QED
        BY <4>1, <4>2
    <3> QED
      BY <1>13, <3>1, <3>2
  <2>2. PICK n \in Nat :
          /\ n = 0 \/ n <= m_count
          /\ m_count' = m_count - n /\ held'[c] = held[c] + n /\ UNCHANGED << m_sema, items >>
          /\ Waits(c)' = 0 /\ Waits(c) = 0
    BY <2>1
  <2>3. Permits' = Permits - n /\ lost = n
    BY <1>4, <1>6, <2>2 DEF lost
  <2>4. /\ m_sema' + S!toPost = S!waiters' + S!Fewer(m_count', 0)
        /\ items' = S!toSignal + S!Sum(held') + m_count' + S!waiters'
    BY <1>2, <1>4, <1>5, <2>2 DEF S!Fewer
  <2> QED
    BY <1>6, <1>8, <1>9, <1>10, <2>3, <2>4
<1>14. CASE S!Sub(c)
  <2>1. /\ m_count' = m_count - 1 /\ UNCHANGED << m_sema, items >> /\ Waits(c) = 0
        /\ m_count > 0 => held'[c] = held[c] + 1 /\ Waits(c)' = 0
        /\ ~ (m_count > 0) => held'[c] = held[c] /\ Waits(c)' = 1
    BY <1>4, <1>14 DEF S!Sub, S!Granted, S!Get, S!Goto, S!Quiet, Waits
  <2>2. /\ m_count > 0 => Permits' = Permits - 1 /\ lost = 1
        /\ ~ (m_count > 0) => Permits' = Permits /\ lost = 0
    BY <1>4, <1>6, <2>1 DEF lost
  <2>3. /\ m_sema' + S!toPost = S!waiters' + S!Fewer(m_count', 0)
        /\ items' = S!toSignal + S!Sum(held') + m_count' + S!waiters'
    BY <1>2, <1>4, <1>5, <2>1 DEF S!Fewer
  <2> QED
    BY <1>8, <1>9, <1>10, <2>2, <2>3
<1>15. CASE S!Wake(c) \/ (S!Drain(c) /\ m_sema # 0)
  <2>1. /\ m_sema > 0 /\ m_sema' = m_sema - 1 /\ UNCHANGED << m_count, items >>
        /\ held'[c] = held[c] + 1 /\ Waits(c) = 1 /\ Waits(c)' = 0
    BY <1>4, <1>15 DEF S!Wake, S!Drain, S!Granted, S!Get, S!Goto, S!Quiet, Waits
  <2>2. Permits' = Permits - 1 /\ lost = 1
    BY <1>4, <1>6, <2>1 DEF lost
  <2>3. /\ m_sema' + S!toPost = S!waiters' + S!Fewer(m_count', 0)
        /\ items' = S!toSignal + S!Sum(held') + m_count' + S!waiters'
    BY <1>2, <1>4, <1>5, <2>1 DEF S!Fewer
  <2> QED
    BY <1>8, <1>10, <2>2, <2>3
<1>16. CASE S!Take(c)
  <2>1. PICK n \in 1 .. S!Fewer(held[c], items) :
          /\ items' = items - n /\ held' = [held EXCEPT ![c] = held[c] - n]
          /\ UNCHANGED << m_count, m_sema >> /\ Waits(c) = 0 /\ Waits(c)' = 0
    BY <1>4, <1>16 DEF S!Take, S!Return, S!Goto, S!sema, Waits
  <2>2. n \in Nat /\ n \in 1 .. held[c] /\ held'[c] = held[c] - n
    BY <1>4, <2>1 DEF S!Fewer
  <2>3. Permits' = Permits
    BY <1>6, <2>1
  <2>4. S!Promise!Use(c)
    BY <1>1, <2>1, <2>2, <2>3 DEF S!Promise!Use, Permits, S!Signalling
  <2>5. /\ m_sema' + S!toPost = S!waiters' + S!Fewer(m_count', 0)
        /\ items' = S!toSignal + S!Sum(held') + m_count' + S!waiters'
    BY <1>2, <1>4, <1>5, <2>1, <2>2 DEF S!Fewer
  <2> QED
    BY <1>10, <2>4, <2>5
<1>17. \/ S!Call(c) \/ S!TryFails(c) \/ S!StopSpinning(c) \/ S!TimeOut(c) \/ S!SeeSignalled(c)
       \/ S!Adjust(c) \/ S!TryWait(c) \/ S!More(c) \/ S!Sub(c) \/ S!Wake(c) \/ S!Take(c)
       \/ (S!Drain(c) /\ m_sema = 0) \/ (S!Drain(c) /\ m_sema # 0)
  BY DEF S!Consume
<1> QED
  BY <1>11, <1>12, <1>13, <1>14, <1>15, <1>16, <1>17


LEMMA SwapKeeps ==
  ASSUME S!IInv, S!Swap
  PROVE  S!IInv' /\ UNCHANGED << Permits, held, S!Signalling >>
<1>0. S!TypeOK /\ S!CallInv /\ S!WakeupsExact /\ S!PermitHasItem
  BY DEF S!IInv
<1>1. /\ UNCHANGED << signalled, ppc, arg, ccpc, mode, want, held >>
      /\ m_count' = other.m_count /\ m_sema' = other.m_sema /\ items' = other.items
      /\ other' = [m_count |-> m_count, m_sema |-> m_sema, items |-> items]
      /\ other \in [m_count : Int, m_sema : Nat, items : Nat]
      /\ m_count \in Int /\ m_sema \in Nat /\ items \in Nat
  BY <1>0 DEF S!Swap, S!producers, S!consumers, S!TypeOK
\* Nobody is in a call: nothing is to be signalled, posted, slept for or held.
<1>2. S!toSignal = 0 /\ S!toPost = 0
  <2>1. S!Signalling \in [Producer -> 0 .. MaxBulk] /\ S!Posting \in [Producer -> 0 .. MaxBulk]
        /\ \A p \in Producer : S!Signalling[p] = 0 /\ S!Posting[p] = 0
    BY SyncNumbers DEF S!Swap, S!Idle, S!Signalling, S!Posting
  <2> QED
    BY <2>1, SumZero DEF S!toSignal, S!toPost
<1>3. S!waiters = 0
  <2>1. S!Waiting = {}
    BY DEF S!Swap, S!Idle, S!Waiting
  <2> QED
    BY <2>1, FS_EmptySet, SameCounting DEF S!waiters
<1>4. S!Sum(held) = 0
  <2>1. held \in [Consumer -> 0 .. MaxBulk] /\ \A c \in Consumer : held[c] = 0
    BY <1>0, SyncNumbers DEF S!Swap, S!Idle, S!TypeOK, S!CallInv
  <2> QED
    BY <2>1, SumZero
<1>5. S!toSignal' = 0 /\ S!toPost' = 0 /\ S!waiters' = 0 /\ S!Sum(held') = 0
  BY <1>1, <1>2, <1>3, <1>4, SumsKept
<1>6. items = m_count /\ m_sema = 0 /\ other.items = other.m_count /\ other.m_sema = 0
  BY <1>0, <1>1, <1>2, <1>3, <1>4 DEF S!WakeupsExact, S!PermitHasItem, S!Fewer
<1>7. S!TypeOK' /\ S!CallInv'
  BY <1>0, <1>1 DEF S!TypeOK, S!CallInv
<1>8. S!WakeupsExact' /\ S!PermitHasItem'
  BY <1>1, <1>5, <1>6 DEF S!WakeupsExact, S!PermitHasItem, S!Fewer
<1>9. Permits' = Permits
  BY <1>1, <1>2, <1>5, <1>6 DEF Permits
<1>10. S!Signalling' = S!Signalling
  BY <1>1 DEF S!Signalling
<1> QED
  BY <1>1, <1>7, <1>8, <1>9, <1>10 DEF S!IInv

\* What a step keeps, and what it is for the abstract semaphore.
LEMMA SemaphoreStep ==
  ASSUME S!IInv, [S!Next]_(S!vars)
  PROVE  S!IInv' /\ [S!Promise!Next]_(S!Promise!vars)
<1>1. CASE UNCHANGED S!vars
  <2>1. UNCHANGED << m_count, m_sema, items, other, signalled, ppc, arg, ccpc, mode, want, held >>
    BY <1>1 DEF S!vars, S!sema, S!producers, S!consumers
  <2>2. UNCHANGED << S!toSignal, S!toPost, S!waiters, S!Sum(held) >>
    BY <2>1, SumsKept
  <2>3. S!IInv'
    BY <2>1, <2>2 DEF S!IInv, S!TypeOK, S!CallInv, S!WakeupsExact, S!PermitHasItem, S!Fewer
  <2>4. S!Signalling' = S!Signalling
    BY <2>1 DEF S!Signalling
  <2> QED
    BY <2>1, <2>2, <2>3, <2>4 DEF S!Promise!vars
<1>2. ASSUME NEW p \in Producer, S!Enqueue(p) \/ S!Produce(p)
      PROVE  S!IInv' /\ [S!Promise!Next]_(S!Promise!vars)
  <2>1. /\ S!IInv' /\ UNCHANGED held
        /\ \/ UNCHANGED << Permits, S!Signalling >> \/ S!Promise!Call(p) \/ S!Promise!Signal(p)
    BY <1>2, ProducerKeeps
  <2> QED
    BY <2>1 DEF Permits, S!Promise!vars, S!Promise!Next
<1>3. ASSUME NEW c \in Consumer, S!Call(c) \/ S!Consume(c)
      PROVE  S!IInv' /\ [S!Promise!Next]_(S!Promise!vars)
  <2>1. /\ S!IInv' /\ UNCHANGED S!Signalling
        /\ \/ UNCHANGED << Permits, held >> \/ S!Promise!Acquire(c) \/ S!Promise!Use(c)
    BY <1>3, ConsumerKeeps
  <2> QED
    BY <2>1 DEF Permits, S!Promise!vars, S!Promise!Next
<1>4. ASSUME S!Swap
      PROVE  S!IInv' /\ [S!Promise!Next]_(S!Promise!vars)
  BY <1>4, SwapKeeps DEF Permits, S!Promise!vars
<1> QED
  BY <1>1, <1>2, <1>3, <1>4 DEF S!Next

LEMMA SemaphoreInit ==
  ASSUME S!Init
  PROVE  S!IInv /\ S!Promise!Init
<1>1. S!TypeOK /\ S!CallInv
  BY SyncNumbers DEF S!Init, S!TypeOK, S!CallInv, S!Modes
<1>2. S!toSignal = 0 /\ S!toPost = 0
  <2>1. S!Signalling \in [Producer -> 0 .. MaxBulk] /\ S!Posting \in [Producer -> 0 .. MaxBulk]
        /\ \A p \in Producer : S!Signalling[p] = 0 /\ S!Posting[p] = 0
    BY SyncNumbers DEF S!Init, S!Signalling, S!Posting
  <2> QED
    BY <2>1, SumZero DEF S!toSignal, S!toPost
<1>3. S!waiters = 0
  <2>1. S!Waiting = {}
    BY DEF S!Init, S!Waiting
  <2> QED
    BY <2>1, FS_EmptySet, SameCounting DEF S!waiters
<1>4. S!Sum(held) = 0
  <2>1. held \in [Consumer -> 0 .. MaxBulk] /\ \A c \in Consumer : held[c] = 0
    BY SyncNumbers DEF S!Init
  <2> QED
    BY <2>1, SumZero
<1>5. S!WakeupsExact /\ S!PermitHasItem
  BY <1>2, <1>3, <1>4 DEF S!Init, S!WakeupsExact, S!PermitHasItem, S!Fewer
<1>6. S!Promise!Init
  BY <1>2 DEF S!Init, S!Promise!Init, S!Signalling
<1> QED
  BY <1>1, <1>5, <1>6 DEF S!IInv

\* A behaviour of the five components is, for each, a behaviour of its own.
LEMMA SyncIsSemaphore == SyncSpec => S!Init /\ [][S!Next]_(S!vars)
<1>1. SyncInit => S!Init
  BY DEF SyncInit
<1>2. [SyncNext]_all => [S!Next]_(S!vars)
  <2>1. [SyncNext]_all => [S!Next]_semaVars
    BY DEF SyncNext, MayStop, all
  <2>2. semaVars' = semaVars => UNCHANGED S!vars
    BY DEF semaVars, S!vars, S!sema, S!producers, S!consumers
  <2> QED
    BY <2>1, <2>2
<1> QED
  BY <1>1, <1>2, PTL DEF SyncSpec

(***************************************************************************)
(* The wake-ups and the permits of BlockingConcurrentQueue come out even:  *)
(* a timed wait that gives up takes back its place or its wake-up, and     *)
(* whoever has a permit will find an item (LightweightSemaphore, and the   *)
(* loops around the inner try_dequeue).                                    *)
(***************************************************************************)
THEOREM PermitsComeOutEven == SyncSpec => []PermitsExact
<1>1. S!Init => S!IInv
  BY SemaphoreInit
<1>2. S!IInv /\ [S!Next]_(S!vars) => S!IInv'
  BY SemaphoreStep
<1> QED
  BY <1>1, <1>2, SyncIsSemaphore, PTL DEF PermitsExact

(***************************************************************************)
(* LightweightSemaphore, with its count in user space, its sleepers, its   *)
(* bulk acquisitions and its timeouts, is a counting semaphore: a signal   *)
(* for n items gives n permits, neither more nor fewer, at one moment of   *)
(* its call, and a permit is acquired once.                                *)
(***************************************************************************)
THEOREM SemaphoreRefined == SyncSpec => ImplementsSemaphore
<1>1. S!Init => S!IInv /\ S!Promise!Init
  BY SemaphoreInit
<1>2. S!IInv /\ [S!Next]_(S!vars) => S!IInv' /\ [S!Promise!Next]_(S!Promise!vars)
  BY SemaphoreStep
<1>3. S!Promise!Init /\ [][S!Promise!Next]_(S!Promise!vars) => ImplementsSemaphore
  BY DEF ImplementsSemaphore, S!ImplementsSemaphore, S!Promise!Spec
<1> QED
  BY <1>1, <1>2, <1>3, SyncIsSemaphore, PTL


-----------------------------------------------------------------------------
(* ThreadPool.                                                              *)

LEMMA PoolTasks ==
  /\ \A t \in P!Task : t # P!NoTask /\ t = << t[1], t[2] >> /\ t[1] \in Caller /\ t[2] \in 1 .. MaxTasks
  /\ \A c \in Caller, n \in 1 .. MaxTasks : << c, n >> \in P!Task
  /\ PoolWorker # {}
BY SyncAssumption DEF P!Task, P!NoTask, P!ThreadPoolAssumption

\* The head of the queue leaves it, the others stay.
LEMMA QueueHead ==
  ASSUME NEW T, NEW s \in Seq(T), s # << >>
  PROVE  /\ Head(s) \in T /\ Head(s) = s[1] /\ Tail(s) \in Seq(T)
         /\ Len(s) \in Nat \ {0} /\ 1 \in 1 .. Len(s) /\ Len(Tail(s)) = Len(s) - 1
         /\ \A i \in 1 .. Len(s) - 1 : i + 1 \in 1 .. Len(s) /\ Tail(s)[i] = s[i + 1]
         /\ \A i \in 1 .. Len(s) : i = 1 \/ (i - 1 \in 1 .. Len(s) - 1 /\ s[i] = Tail(s)[i - 1])
OBVIOUS

LEMMA QueueAppend ==
  ASSUME NEW T, NEW s \in Seq(T), NEW x \in T
  PROVE  /\ Append(s, x) \in Seq(T) /\ Len(s) \in Nat /\ Len(Append(s, x)) = Len(s) + 1
         /\ \A i \in 1 .. Len(s) : i \in 1 .. Len(s) + 1 /\ Append(s, x)[i] = s[i]
         /\ Append(s, x)[Len(s) + 1] = x
         /\ \A i \in 1 .. Len(s) + 1 : i \in 1 .. Len(s) \/ i = Len(s) + 1
OBVIOUS

LEMMA PoolInit ==
  ASSUME P!Init
  PROVE  P!IInv
<1>1. P!TypeOK
  <2>1. /\ enqueued \in [Caller -> 0 .. MaxTasks] /\ ran \in [P!Task -> 0 .. 1]
        /\ cpc \in [Caller -> {"out", "notify"}] /\ wpc \in [PoolWorker -> {"test", "run", "returned"}]
        /\ task \in [PoolWorker -> P!Task \cup {P!NoTask}]
    BY SyncNumbers DEF P!Init
  <2>2. tasks = << >> /\ stop = FALSE /\ asleep = {} /\ dpc = "before"
    BY DEF P!Init
  <2>3. tasks \in Seq(P!Task)
    BY <2>2
  <2>4. stop \in BOOLEAN
    BY <2>2
  <2> QED
    BY <2>1, <2>2, <2>3, <2>4 DEF P!TypeOK
<1>2. P!InOnePlace
  <2>1. \A t \in P!Task : ~ P!Queued(t) /\ ~ P!Running(t) /\ ran[t] = 0 /\ t \notin P!Accepted
    <3> SUFFICES ASSUME NEW t \in P!Task
                 PROVE  ~ P!Queued(t) /\ ~ P!Running(t) /\ ran[t] = 0 /\ t \notin P!Accepted
      OBVIOUS
    <3>1. t[1] \in Caller /\ t[2] \in 1 .. MaxTasks /\ t # P!NoTask
      BY PoolTasks
    <3>2. Len(tasks) = 0
      BY DEF P!Init
    <3>3. t \notin P!Accepted
      BY <3>1, SyncNumbers DEF P!Init, P!Accepted
    <3> QED
      BY <3>1, <3>2, <3>3 DEF P!Init, P!Queued, P!Running
  <2>2. Len(tasks) = 0 /\ \A w \in PoolWorker : task[w] = P!NoTask
    BY DEF P!Init
  <2> QED
    BY <2>1, <2>2 DEF P!InOnePlace, P!Place, P!QueuedOnce, P!RunByOne
<1>3. P!EndInv
  BY DEF P!Init, P!EndInv
<1> QED
  BY <1>1, <1>2, <1>3 DEF P!IInv

LEMMA PoolStep ==
  ASSUME P!IInv, [P!Next]_(P!vars)
  PROVE  P!IInv'
<1>0. P!TypeOK /\ P!InOnePlace /\ P!EndInv
  BY DEF P!IInv
<1>1. CASE UNCHANGED P!vars
  <2>1. UNCHANGED << tasks, stop, asleep, wpc, task, cpc, enqueued, ran, dpc >>
    BY <1>1 DEF P!vars
  <2>2. \A t : P!Queued(t)' = P!Queued(t) /\ P!Running(t)' = P!Running(t)
    BY <2>1 DEF P!Queued, P!Running
  <2> QED
    BY <1>0, <2>1, <2>2 DEF P!IInv, P!TypeOK, P!InOnePlace, P!Place, P!QueuedOnce, P!RunByOne, P!EndInv, P!Accepted
<1>2. ASSUME NEW w \in PoolWorker, P!Test(w), tasks # << >>
      PROVE  P!IInv'
  <2>1. /\ wpc[w] = "test" /\ wpc' = [wpc EXCEPT ![w] = "run"]
        /\ task' = [task EXCEPT ![w] = Head(tasks)] /\ tasks' = Tail(tasks)
        /\ UNCHANGED << asleep, stop, cpc, enqueued, ran, dpc >> /\ w \notin asleep
    BY <1>2 DEF P!Test
  <2>2. /\ Head(tasks) \in P!Task /\ Head(tasks) = tasks[1] /\ Tail(tasks) \in Seq(P!Task)
        /\ Len(tasks) \in Nat \ {0} /\ 1 \in 1 .. Len(tasks) /\ Len(Tail(tasks)) = Len(tasks) - 1
        /\ \A i \in 1 .. Len(tasks) - 1 : i + 1 \in 1 .. Len(tasks) /\ Tail(tasks)[i] = tasks[i + 1]
        /\ \A i \in 1 .. Len(tasks) :
             i = 1 \/ (i - 1 \in 1 .. Len(tasks) - 1 /\ tasks[i] = Tail(tasks)[i - 1])
    BY <1>0, <1>2, QueueHead DEF P!TypeOK
  <2> DEFINE h == Head(tasks)
  <2>3. P!Queued(h) /\ h \in P!Task /\ h # P!NoTask
    BY <2>2, PoolTasks DEF P!Queued
  <2>4. task[w] = P!NoTask /\ \A v \in PoolWorker : task'[v] = IF v = w THEN h ELSE task[v]
    BY <1>0, <2>1 DEF P!EndInv, P!TypeOK
  <2>5. P!TypeOK'
    BY <1>0, <2>1, <2>2 DEF P!TypeOK
  <2>6. \A t \in P!Task : /\ P!Queued(t)' <=> P!Queued(t) /\ t # h
                          /\ P!Running(t)' <=> P!Running(t) \/ t = h
    <3> SUFFICES ASSUME NEW t \in P!Task
                 PROVE  /\ P!Queued(t)' <=> P!Queued(t) /\ t # h
                        /\ P!Running(t)' <=> P!Running(t) \/ t = h
      OBVIOUS
    <3>1. \A i, j \in 1 .. Len(tasks) : i # j => tasks[i] # tasks[j]
      BY <1>0 DEF P!InOnePlace, P!QueuedOnce
    <3>2. P!Queued(t)' => P!Queued(t) /\ t # h
      <4> SUFFICES ASSUME NEW i \in 1 .. Len(tasks) - 1, Tail(tasks)[i] = t
                   PROVE  P!Queued(t) /\ t # h
        BY <2>1, <2>2 DEF P!Queued
      <4>1. i + 1 \in 1 .. Len(tasks) /\ tasks[i + 1] = t /\ i + 1 # 1
        BY <2>2
      <4> QED
        BY <2>2, <3>1, <4>1 DEF P!Queued
    <3>3. P!Queued(t) /\ t # h => P!Queued(t)'
      <4> SUFFICES ASSUME NEW i \in 1 .. Len(tasks), tasks[i] = t, t # h
                   PROVE  \E j \in 1 .. Len(tasks) - 1 : Tail(tasks)[j] = t
        BY <2>1, <2>2 DEF P!Queued
      <4> QED
        BY <2>2
    <3>4. P!Running(t)' <=> P!Running(t) \/ t = h
      <4>1. t # P!NoTask
        BY PoolTasks
      <4> QED
        BY <2>4, <4>1 DEF P!Running
    <3> QED
      BY <3>2, <3>3, <3>4
  <2>7. P!InOnePlace'
    <3>1. P!QueuedOnce'
      <4> SUFFICES ASSUME NEW i \in 1 .. Len(tasks) - 1, NEW j \in 1 .. Len(tasks) - 1, i # j
                   PROVE  Tail(tasks)[i] # Tail(tasks)[j]
        BY <2>1, <2>2 DEF P!QueuedOnce
      <4>1. /\ i + 1 \in 1 .. Len(tasks) /\ j + 1 \in 1 .. Len(tasks) /\ i + 1 # j + 1
            /\ Tail(tasks)[i] = tasks[i + 1] /\ Tail(tasks)[j] = tasks[j + 1]
        BY <2>2
      <4> QED
        BY <1>0, <4>1 DEF P!InOnePlace, P!QueuedOnce
    <3>2. P!RunByOne'
      <4>1. ~ P!Running(h)
        BY <1>0, <2>3 DEF P!InOnePlace, P!Place
      <4> QED
        BY <1>0, <2>3, <2>4, <4>1 DEF P!InOnePlace, P!RunByOne, P!Running
    <3>3. \A t \in P!Task : P!Place(t)
      BY <1>0 DEF P!InOnePlace
    <3>4. P!Accepted' = P!Accepted
      BY <2>1 DEF P!Accepted
    <3>5. \A t \in P!Task : P!Place(t)'
      <4> SUFFICES ASSUME NEW t \in P!Task PROVE P!Place(t)'
        OBVIOUS
      <4>1. P!Place(t) /\ P!Place(h)
        BY <2>3, <3>3
      <4>2. (P!Queued(t)' <=> P!Queued(t) /\ t # h) /\ (P!Running(t)' <=> P!Running(t) \/ t = h)
        BY <2>6
      <4>3. (t \in P!Accepted' <=> t \in P!Accepted) /\ ran'[t] = ran[t]
        BY <2>1, <3>4
      <4> QED
        BY <2>3, <4>1, <4>2, <4>3 DEF P!Place
    <3> QED
      BY <3>1, <3>2, <3>5 DEF P!InOnePlace
  <2>8. P!EndInv'
    BY <1>0, <1>2, <2>1, <2>3, <2>4 DEF P!EndInv, P!TypeOK
  <2> QED
    BY <2>5, <2>7, <2>8 DEF P!IInv

\* A step that moves no task.
<1>3. ASSUME UNCHANGED << tasks, task, enqueued, ran >>, P!TypeOK', P!EndInv'
      PROVE  P!IInv'
  <2>1. \A t : P!Queued(t)' = P!Queued(t) /\ P!Running(t)' = P!Running(t)
    BY <1>3 DEF P!Queued, P!Running
  <2> QED
    BY <1>0, <1>3, <2>1 DEF P!IInv, P!InOnePlace, P!Place, P!QueuedOnce, P!RunByOne, P!Accepted
<1>4. ASSUME NEW w \in PoolWorker, P!Test(w), tasks = << >>
      PROVE  P!IInv'
  <2>1. /\ UNCHANGED << tasks, task, stop, cpc, enqueued, ran, dpc >> /\ wpc[w] = "test" /\ w \notin asleep
        /\ \/ stop /\ wpc' = [wpc EXCEPT ![w] = "returned"] /\ UNCHANGED asleep
           \/ asleep' = asleep \cup {w} /\ UNCHANGED wpc
    BY <1>4 DEF P!Test
  <2>2. P!TypeOK'
    BY <1>0, <2>1 DEF P!TypeOK
  <2>3. P!EndInv'
    BY <1>0, <1>4, <2>1 DEF P!EndInv, P!TypeOK
  <2> QED
    BY <1>3, <2>1, <2>2, <2>3
<1>5. ASSUME NEW w \in PoolWorker, P!Run(w)
      PROVE  P!IInv'
  <2> DEFINE h == task[w]
  <2>1. /\ wpc[w] = "run" /\ ran' = [ran EXCEPT ![h] = ran[h] + 1]
        /\ task' = [task EXCEPT ![w] = P!NoTask] /\ wpc' = [wpc EXCEPT ![w] = "test"]
        /\ UNCHANGED << tasks, stop, asleep, cpc, enqueued, dpc >>
    BY <1>5 DEF P!Run
  <2>2. h # P!NoTask /\ h \in P!Task /\ P!Running(h) /\ ran[h] = 0 /\ ~ P!Queued(h)
    <3>1. h # P!NoTask /\ h \in P!Task
      BY <1>0, <2>1 DEF P!EndInv, P!TypeOK
    <3>2. P!Running(h)
      BY DEF P!Running
    <3> QED
      BY <1>0, <3>1, <3>2 DEF P!InOnePlace, P!Place
  <2>3. \A v \in PoolWorker : task'[v] = IF v = w THEN P!NoTask ELSE task[v]
    BY <1>0, <2>1 DEF P!TypeOK
  <2>4. \A t \in P!Task : ran'[t] = IF t = h THEN 1 ELSE ran[t]
    BY <1>0, <2>1, <2>2 DEF P!TypeOK
  <2>5. P!TypeOK'
    BY <1>0, <2>1, <2>2 DEF P!TypeOK
  <2>6. \A t \in P!Task : /\ P!Queued(t)' <=> P!Queued(t)
                          /\ P!Running(t)' <=> P!Running(t) /\ t # h
    <3> SUFFICES ASSUME NEW t \in P!Task
                 PROVE  /\ P!Queued(t)' <=> P!Queued(t)
                        /\ P!Running(t)' <=> P!Running(t) /\ t # h
      OBVIOUS
    <3>1. t # P!NoTask
      BY PoolTasks
    <3>2. \A u, v \in PoolWorker : u # v /\ task[u] # P!NoTask => task[u] # task[v]
      BY <1>0 DEF P!InOnePlace, P!RunByOne
    <3>3. P!Running(t)' => P!Running(t) /\ t # h
      BY <2>3, <3>1, <3>2 DEF P!Running
    <3>4. P!Running(t) /\ t # h => P!Running(t)'
      BY <2>3 DEF P!Running
    <3>5. P!Queued(t)' <=> P!Queued(t)
      BY <2>1 DEF P!Queued
    <3> QED
      BY <3>3, <3>4, <3>5
  <2>7. P!InOnePlace'
    <3>1. P!QueuedOnce'
      BY <1>0, <2>1 DEF P!InOnePlace, P!QueuedOnce
    <3>2. P!RunByOne'
      BY <1>0, <2>3 DEF P!InOnePlace, P!RunByOne
    <3>3. \A t \in P!Task : P!Place(t)
      BY <1>0 DEF P!InOnePlace
    <3>4. P!Accepted' = P!Accepted
      BY <2>1 DEF P!Accepted
    <3>5. \A t \in P!Task : P!Place(t)'
      <4> SUFFICES ASSUME NEW t \in P!Task PROVE P!Place(t)'
        OBVIOUS
      <4>1. P!Place(t) /\ P!Place(h)
        BY <2>2, <3>3
      <4>2. (P!Queued(t)' <=> P!Queued(t)) /\ (P!Running(t)' <=> P!Running(t) /\ t # h)
        BY <2>6
      <4>3. (t \in P!Accepted' <=> t \in P!Accepted) /\ ran'[t] = IF t = h THEN 1 ELSE ran[t]
        BY <2>4, <3>4
      <4> QED
        BY <2>2, <4>1, <4>2, <4>3 DEF P!Place
    <3> QED
      BY <3>1, <3>2, <3>5 DEF P!InOnePlace
  <2>8. P!EndInv'
    BY <1>0, <2>1, <2>3 DEF P!EndInv, P!TypeOK
  <2> QED
    BY <2>5, <2>7, <2>8 DEF P!IInv
<1>6. ASSUME NEW c \in Caller, P!Enqueue(c)
      PROVE  P!IInv'
  <2> DEFINE n == enqueued[c] + 1
             new == << c, n >>
  <2>1. /\ enqueued[c] < MaxTasks /\ ~ stop /\ enqueued' = [enqueued EXCEPT ![c] = n]
        /\ tasks' = Append(tasks, new) /\ cpc' = [cpc EXCEPT ![c] = "notify"]
        /\ UNCHANGED << stop, asleep, wpc, task, ran, dpc >>
    BY <1>6 DEF P!Enqueue
  <2>2. enqueued[c] \in 0 .. MaxTasks /\ enqueued[c] \in Nat /\ n \in 1 .. MaxTasks /\ n \in 0 .. MaxTasks
    BY <1>0, <2>1, SyncNumbers DEF P!TypeOK
  <2>3. new \in P!Task /\ new \notin P!Accepted
    BY <2>2, PoolTasks DEF P!Accepted
  <2>4. \A t \in P!Task : t \in P!Accepted' <=> t \in P!Accepted \/ t = new
    <3> SUFFICES ASSUME NEW t \in P!Task
                 PROVE  t[2] <= enqueued'[t[1]] <=> t[2] <= enqueued[t[1]] \/ t = new
      BY DEF P!Accepted
    <3>1. t = << t[1], t[2] >> /\ t[1] \in Caller /\ t[2] \in 1 .. MaxTasks /\ t[2] \in Nat
      BY PoolTasks, SyncNumbers
    <3>2. enqueued'[t[1]] = IF t[1] = c THEN n ELSE enqueued[t[1]]
      BY <1>0, <2>1, <3>1 DEF P!TypeOK
    <3> QED
      BY <2>2, <3>1, <3>2
  <2>5. /\ tasks' \in Seq(P!Task) /\ Len(tasks) \in Nat /\ Len(tasks') = Len(tasks) + 1
        /\ \A i \in 1 .. Len(tasks) : i \in 1 .. Len(tasks) + 1 /\ tasks'[i] = tasks[i]
        /\ tasks'[Len(tasks) + 1] = new
        /\ \A i \in 1 .. Len(tasks) + 1 : i \in 1 .. Len(tasks) \/ i = Len(tasks) + 1
    BY <1>0, <2>1, <2>3, QueueAppend DEF P!TypeOK
  <2>6. \A t \in P!Task : /\ P!Queued(t)' <=> P!Queued(t) \/ t = new
                          /\ P!Running(t)' <=> P!Running(t)
    <3>1. Len(tasks) + 1 \in 1 .. Len(tasks) + 1
      BY <2>5
    <3> QED
      BY <2>1, <2>5, <3>1 DEF P!Queued, P!Running
  <2>7. P!TypeOK'
    BY <1>0, <2>1, <2>2, <2>5 DEF P!TypeOK
  <2>8. P!InOnePlace'
    <3>1. \A t \in P!Task : P!Place(t)
      BY <1>0 DEF P!InOnePlace
    <3>2. ~ P!Queued(new) /\ ~ P!Running(new) /\ ran[new] = 0
      <4>1. ~ P!Queued(new) /\ ~ P!Running(new) /\ ran[new] # 1
        BY <2>3, <3>1 DEF P!Place
      <4>2. ran[new] \in 0 .. 1
        BY <1>0, <2>3 DEF P!TypeOK
      <4> QED
        BY <4>1, <4>2
    <3>3. \A t \in P!Task : P!Place(t)'
      <4> SUFFICES ASSUME NEW t \in P!Task PROVE P!Place(t)'
        OBVIOUS
      <4>1. P!Place(t)
        BY <3>1
      <4>2. (P!Queued(t)' <=> P!Queued(t) \/ t = new) /\ (P!Running(t)' <=> P!Running(t))
        BY <2>6
      <4>3. (t \in P!Accepted' <=> t \in P!Accepted \/ t = new) /\ ran'[t] = ran[t]
        BY <2>1, <2>4
      <4>4. CASE t = new
        BY <3>2, <4>2, <4>3, <4>4 DEF P!Place
      <4>5. CASE t # new
        BY <4>1, <4>2, <4>3, <4>5 DEF P!Place
      <4> QED
        BY <4>4, <4>5 DEF P!Place
    <3>4. P!QueuedOnce'
      BY <1>0, <2>5, <3>2 DEF P!InOnePlace, P!QueuedOnce, P!Queued
    <3>5. P!RunByOne'
      BY <1>0, <2>1 DEF P!InOnePlace, P!RunByOne
    <3> QED
      BY <3>3, <3>4, <3>5 DEF P!InOnePlace
  <2>9. P!EndInv'
    BY <1>0, <2>1 DEF P!EndInv, P!TypeOK
  <2> QED
    BY <2>7, <2>8, <2>9 DEF P!IInv
<1>7. ASSUME \/ \E w \in PoolWorker : P!SpuriousWake(w)
             \/ \E c \in Caller : P!Notify(c)
             \/ P!Stop \/ P!NotifyStop \/ P!Join
      PROVE  P!IInv'
  <2>1. UNCHANGED << tasks, task, enqueued, ran, wpc >> /\ asleep' \subseteq asleep
    BY <1>7 DEF P!SpuriousWake, P!Notify, P!Stop, P!NotifyStop, P!Join
  <2>2. /\ cpc' \in [Caller -> {"out", "notify"}]
        /\ \/ UNCHANGED << stop, dpc >>
           \/ dpc = "before" /\ stop' = TRUE /\ dpc' = "notify"
           \/ dpc = "notify" /\ dpc' = "join" /\ UNCHANGED stop
           \/ dpc = "join" /\ dpc' = "after" /\ UNCHANGED stop /\ \A w \in PoolWorker : wpc[w] = "returned"
    BY <1>0, <1>7 DEF P!TypeOK, P!SpuriousWake, P!Notify, P!Stop, P!NotifyStop, P!Join
  <2>3. P!TypeOK'
    BY <1>0, <2>1, <2>2 DEF P!TypeOK
  <2>4. P!EndInv'
    BY <1>0, <2>1, <2>2 DEF P!EndInv, P!TypeOK
  <2> QED
    BY <1>3, <2>1, <2>3, <2>4
<1> QED
  BY <1>1, <1>2, <1>4, <1>5, <1>6, <1>7 DEF P!Next

\* A pool that has ended has run what it accepted: no worker left a task behind.
LEMMA PoolEnded ==
  ASSUME P!IInv
  PROVE  P!TasksRun
<1>0. P!TypeOK /\ P!InOnePlace /\ P!EndInv
  BY DEF P!IInv
<1>1. \A t \in P!Task : /\ ran[t] \in 0 .. 1
                        /\ (P!Queued(t) \/ P!Running(t) \/ ran[t] = 1) <=> t \in P!Accepted
  BY <1>0 DEF P!TypeOK, P!InOnePlace, P!Place
<1>2. ASSUME dpc = "after", NEW t \in P!Task
      PROVE  ~ P!Queued(t) /\ ~ P!Running(t)
  <2>1. \A w \in PoolWorker : wpc[w] = "returned" /\ task[w] = P!NoTask /\ tasks = << >>
    BY <1>0, <1>2 DEF P!EndInv
  <2>2. Len(tasks) = 0
    BY <2>1, PoolTasks
  <2> QED
    BY <2>1, <2>2, PoolTasks DEF P!Queued, P!Running
<1>3. P!Accepted \subseteq P!Task
  BY DEF P!Accepted
<1> QED
  <2>1. \A t \in P!Task : ran[t] <= IF t \in P!Accepted THEN 1 ELSE 0
    <3> SUFFICES ASSUME NEW t \in P!Task PROVE ran[t] <= IF t \in P!Accepted THEN 1 ELSE 0
      OBVIOUS
    <3>1. ran[t] \in 0 .. 1 /\ (t \notin P!Accepted => ran[t] # 1)
      BY <1>1
    <3> QED
      BY <3>1
  <2>2. dpc = "after" => \A t \in P!Accepted : ran[t] = 1
    BY <1>1, <1>2, <1>3
  <2> QED
    BY <2>1, <2>2 DEF P!TasksRun

LEMMA SyncIsPool == SyncSpec => P!Init /\ [][P!Next]_(P!vars)
<1>1. SyncInit => P!Init
  BY DEF SyncInit
<1>2. [SyncNext]_all => [P!Next]_(P!vars)
  <2>1. [SyncNext]_all => [P!Next]_poolVars
    BY DEF SyncNext, MayStop, all
  <2> QED
    BY <2>1 DEF poolVars, P!vars
<1> QED
  BY <1>1, <1>2, PTL DEF SyncSpec

(***************************************************************************)
(* Each task that ThreadPool accepts is queued, in the hands of a worker,  *)
(* or run, once; and when the destructor has joined the workers each has   *)
(* been run, whatever was enqueued while it stopped.                       *)
(***************************************************************************)
THEOREM EveryTaskRuns == SyncSpec => []TasksRun
<1>1. P!Init => P!IInv
  BY PoolInit
<1>2. P!IInv /\ [P!Next]_(P!vars) => P!IInv'
  BY PoolStep
<1>3. P!IInv => TasksRun
  BY PoolEnded DEF TasksRun
<1> QED
  BY <1>1, <1>2, <1>3, SyncIsPool, PTL


-----------------------------------------------------------------------------
(* BlockingQueue.                                                           *)

LEMMA QueueItems ==
  /\ \A x \in Q!Item : x = << x[1], x[2] >> /\ x[1] \in Producer /\ x[2] \in 1 .. Times /\ x[2] \in Nat
  /\ \A p \in Producer, n \in 1 .. Times : << p, n >> \in Q!Item
BY SyncNumbers DEF Q!Item

LEMMA ElemsHead ==
  ASSUME NEW T, NEW s \in Seq(T), s # << >>
  PROVE  Q!Elems(s) = {Head(s)} \cup Q!Elems(Tail(s)) /\ Q!Elems(Tail(s)) \subseteq Q!Elems(s)
<1>1. /\ Head(s) = s[1] /\ 1 \in 1 .. Len(s) /\ Len(Tail(s)) = Len(s) - 1
      /\ \A i \in 1 .. Len(s) - 1 : i + 1 \in 1 .. Len(s) /\ Tail(s)[i] = s[i + 1]
      /\ \A i \in 1 .. Len(s) : i = 1 \/ (i - 1 \in 1 .. Len(s) - 1 /\ s[i] = Tail(s)[i - 1])
  BY QueueHead
<1>2. Q!Elems(Tail(s)) \subseteq Q!Elems(s)
  BY <1>1 DEF Q!Elems
<1>3. Head(s) \in Q!Elems(s)
  BY <1>1 DEF Q!Elems
<1>4. \A x \in Q!Elems(s) : x = Head(s) \/ x \in Q!Elems(Tail(s))
  <2> SUFFICES ASSUME NEW i \in 1 .. Len(s) PROVE s[i] = Head(s) \/ s[i] \in Q!Elems(Tail(s))
    BY DEF Q!Elems
  <2>1. CASE i = 1
    BY <1>1, <2>1
  <2>2. CASE i # 1
    <3>1. i - 1 \in 1 .. Len(Tail(s)) /\ s[i] = Tail(s)[i - 1]
      BY <1>1, <2>2
    <3> QED
      BY <3>1 DEF Q!Elems
  <2> QED
    BY <2>1, <2>2
<1> QED
  BY <1>2, <1>3, <1>4

LEMMA ElemsAppend ==
  ASSUME NEW T, NEW s \in Seq(T), NEW x \in T
  PROVE  Q!Elems(Append(s, x)) = Q!Elems(s) \cup {x}
<1>1. /\ Len(s) \in Nat /\ Len(Append(s, x)) = Len(s) + 1
      /\ \A i \in 1 .. Len(s) : i \in 1 .. Len(s) + 1 /\ Append(s, x)[i] = s[i]
      /\ Append(s, x)[Len(s) + 1] = x
      /\ \A i \in 1 .. Len(s) + 1 : i \in 1 .. Len(s) \/ i = Len(s) + 1
  BY QueueAppend
<1>2. Len(s) + 1 \in 1 .. Len(s) + 1
  BY <1>1
<1> QED
  BY <1>1, <1>2 DEF Q!Elems

\* Two sequences, one after the other.
LEMMA StreamParts ==
  ASSUME NEW T, NEW s \in Seq(T), NEW r \in Seq(T)
  PROVE  /\ s \o r \in Seq(T) /\ Len(s) \in Nat /\ Len(r) \in Nat /\ Len(s \o r) = Len(s) + Len(r)
         /\ \A i \in 1 .. Len(s) : i \in 1 .. Len(s) + Len(r) /\ (s \o r)[i] = s[i]
         /\ \A i \in 1 .. Len(r) : Len(s) + i \in 1 .. Len(s) + Len(r) /\ (s \o r)[Len(s) + i] = r[i]
         /\ \A i \in 1 .. Len(s) + Len(r) :
              i \in 1 .. Len(s) \/ (i - Len(s) \in 1 .. Len(r) /\ (s \o r)[i] = r[i - Len(s)])
OBVIOUS

\* A thread is one: what is counted without it, and with it.
LEMMA CountOne ==
  ASSUME NEW D, IsFiniteSet(D), NEW x, x \notin D
  PROVE  Cardinality(D \cup {x}) = Cardinality(D) + 1 /\ Cardinality(D) \in Nat
         /\ IsFiniteSet(D \cup {x})
BY FS_AddElement, FS_CardinalityType

LEMMA QueueCounted ==
  /\ IsFiniteSet(Q!Notifying) /\ IsFiniteSet(Q!Awake)
  /\ Cardinality(Q!Notifying) \in Nat /\ Cardinality(Q!Awake) \in Nat
  /\ Q!NoLostWakeup <=> (waiters # {} => Len(d_queue) <= Cardinality(Q!Notifying) + Cardinality(Q!Awake))
<1>1. IsFiniteSet(Q!Notifying)
  BY SyncNumbers, FS_Subset DEF Q!Notifying
<1>2. IsFiniteSet(Q!Awake)
  BY SyncNumbers, FS_Subset DEF Q!Awake
<1>3. Cardinality(Q!Notifying) \in Nat /\ Cardinality(Q!Awake) \in Nat
  BY <1>1, <1>2, FS_CardinalityType
<1> QED
  BY <1>1, <1>2, <1>3, SameCounting DEF Q!NoLostWakeup

LEMMA QueueCountedNext ==
  /\ Cardinality(Q!Notifying') \in Nat /\ Cardinality(Q!Awake') \in Nat
  /\ IsFiniteSet(Q!Notifying') /\ IsFiniteSet(Q!Awake')
  /\ Q!NoLostWakeup' <=>
       (waiters' # {} => Len(d_queue') <= Cardinality(Q!Notifying') + Cardinality(Q!Awake'))
<1>1. IsFiniteSet(Q!Notifying')
  BY SyncNumbers, FS_Subset DEF Q!Notifying
<1>2. IsFiniteSet(Q!Awake')
  BY SyncNumbers, FS_Subset DEF Q!Awake
<1>3. Cardinality(Q!Notifying') \in Nat /\ Cardinality(Q!Awake') \in Nat
  BY <1>1, <1>2, FS_CardinalityType
<1> QED
  BY <1>1, <1>2, <1>3, SameCounting DEF Q!NoLostWakeup

LEMMA QueueInit ==
  ASSUME Q!Init
  PROVE  QueueExact
<1>1. Q!TypeOK
  <2>1. /\ qpc \in [Producer \cup Consumer -> {"out", "notify", "test"}] /\ done \in [Producer -> 0 .. Times]
        /\ waiters = {}
    BY SyncNumbers DEF Q!Init
  <2>2. d_queue \in Seq(Q!Item) /\ got \in [Consumer -> Seq(Q!Item)]
    BY DEF Q!Init
  <2> QED
    BY <2>1, <2>2 DEF Q!TypeOK
<1>2. Q!FifoOnce
  <2>0. Q!Elems(<< >>) = {}
    BY DEF Q!Elems
  <2>1. Q!Elems(d_queue) = {} /\ \A c \in Consumer : Q!Elems(got[c]) = {}
    BY <2>0 DEF Q!Init
  <2>2. Q!Popped = {}
    BY <2>1 DEF Q!Popped
  <2>3. Q!Pushed = {}
    <3>1. \A x \in Q!Item : ~ (x[2] <= done[x[1]])
      BY QueueItems DEF Q!Init
    <3> QED
      BY <3>1 DEF Q!Pushed
  <2>4. \A c \in Consumer : Q!InOrder(c)
    <3> SUFFICES ASSUME NEW c \in Consumer PROVE Q!InOrder(c)
      OBVIOUS
    <3>1. Q!Stream(c) = << >> /\ Len(<< >>) = 0
      BY DEF Q!Init, Q!Stream
    <3> QED
      BY <3>1 DEF Q!InOrder
  <2> QED
    BY <2>1, <2>2, <2>3, <2>4 DEF Q!FifoOnce
<1>3. Q!NoLostWakeup
  BY DEF Q!Init, Q!NoLostWakeup
<1> QED
  BY <1>1, <1>2, <1>3 DEF QueueExact


LEMMA QueuePush ==
  ASSUME QueueExact, NEW p \in Producer, Q!Push(p)
  PROVE  QueueExact'
<1> DEFINE n == done[p] + 1
           new == << p, n >>
<1>0. Q!TypeOK /\ Q!FifoOnce /\ Q!NoLostWakeup
  BY DEF QueueExact
<1>1. /\ qpc[p] = "out" /\ done[p] < Times /\ done' = [done EXCEPT ![p] = n]
      /\ d_queue' = Append(d_queue, new) /\ qpc' = [qpc EXCEPT ![p] = "notify"]
      /\ UNCHANGED << waiters, got >>
  BY DEF Q!Push
<1>2. /\ d_queue \in Seq(Q!Item) /\ done \in [Producer -> 0 .. Times] /\ got \in [Consumer -> Seq(Q!Item)]
      /\ qpc \in [Producer \cup Consumer -> {"out", "notify", "test"}]
      /\ waiters \subseteq {c \in Consumer : qpc[c] = "test"} /\ p \notin Consumer
  BY <1>0, SyncNumbers DEF Q!TypeOK
<1>3. n \in 1 .. Times /\ n \in 0 .. Times /\ n \in Nat /\ done[p] \in Nat
  BY <1>1, <1>2, SyncNumbers
<1>4. new \in Q!Item /\ new[1] = p /\ new[2] = n
  BY <1>3, QueueItems
<1>5. d_queue' \in Seq(Q!Item)
  BY <1>1, <1>2, <1>4
<1>6. Q!TypeOK'
  BY <1>1, <1>2, <1>3, <1>5 DEF Q!TypeOK
<1>7. Q!Pushed' = Q!Pushed \cup {new}
  <2> SUFFICES ASSUME NEW x \in Q!Item
               PROVE  x[2] <= done'[x[1]] <=> x[2] <= done[x[1]] \/ x = new
    BY <1>4 DEF Q!Pushed
  <2>1. x = << x[1], x[2] >> /\ x[1] \in Producer /\ x[2] \in Nat
    BY QueueItems
  <2>2. done'[x[1]] = IF x[1] = p THEN n ELSE done[x[1]]
    BY <1>1, <1>2, <2>1
  <2> QED
    BY <1>3, <2>1, <2>2
<1>8. Q!Elems(d_queue') = Q!Elems(d_queue) \cup {new} /\ Q!Popped' = Q!Popped
  <2>1. Q!Elems(Append(d_queue, new)) = Q!Elems(d_queue) \cup {new}
    BY <1>2, <1>4, ElemsAppend
  <2>2. Q!Popped' = Q!Popped
    BY <1>1 DEF Q!Popped, Q!Elems
  <2> QED
    BY <1>1, <2>1, <2>2
<1> HIDE DEF new, n
<1>9. ASSUME NEW c \in Consumer
      PROVE  Q!InOrder(c)'
  <2> DEFINE s == got[c] \o d_queue
  <2>1. s \in Seq(Q!Item) /\ Len(s) \in Nat
    BY <1>2, <1>9
  <2>2. Q!Stream(c) = s /\ Q!Stream(c)' = Append(s, new)
    <3>1. got[c] \in Seq(Q!Item)
      BY <1>2, <1>9
    <3>2. got[c] \o Append(d_queue, new) = Append(got[c] \o d_queue, new)
      BY <1>2, <1>4, <3>1
    <3> QED
      BY <1>1, <3>2 DEF Q!Stream
  <2>3. \A i \in 1 .. Len(s) : s[i] \in Q!Pushed
    <3> SUFFICES ASSUME NEW i \in 1 .. Len(s) PROVE s[i] \in Q!Pushed
      OBVIOUS
    <3>1. got[c] \in Seq(Q!Item)
      BY <1>2, <1>9
    <3>2. \/ i \in 1 .. Len(got[c]) /\ s[i] = got[c][i]
          \/ i - Len(got[c]) \in 1 .. Len(d_queue) /\ s[i] = d_queue[i - Len(got[c])]
      BY <1>2, <3>1, StreamParts
    <3>3. s[i] \in Q!Elems(got[c]) \/ s[i] \in Q!Elems(d_queue)
      BY <3>2 DEF Q!Elems
    <3> QED
      BY <1>0, <1>9, <3>3 DEF Q!FifoOnce, Q!Popped
  <2> HIDE DEF s
  <2>4. /\ Len(Append(s, new)) = Len(s) + 1
        /\ \A i \in 1 .. Len(s) : Append(s, new)[i] = s[i]
        /\ Append(s, new)[Len(s) + 1] = new
        /\ \A i \in 1 .. Len(s) + 1 : i \in 1 .. Len(s) \/ i = Len(s) + 1
    BY <1>4, <2>1, QueueAppend
  <2>5. Q!InOrder(c)
    BY <1>0, <1>9 DEF Q!FifoOnce
  <2> SUFFICES ASSUME NEW i \in 1 .. Len(s) + 1, NEW j \in 1 .. Len(s) + 1, i < j,
                      Append(s, new)[i][1] = Append(s, new)[j][1]
               PROVE  Append(s, new)[i][2] < Append(s, new)[j][2]
    BY <2>2, <2>4 DEF Q!InOrder
  <2>6. i \in 1 .. Len(s) /\ Append(s, new)[i] = s[i]
    BY <2>1, <2>4
  <2>7. CASE j \in 1 .. Len(s)
    BY <2>2, <2>4, <2>5, <2>6, <2>7 DEF Q!InOrder
  <2>8. CASE j = Len(s) + 1
    <3>1. s[i][1] = p /\ s[i] \in Q!Pushed
      BY <1>4, <2>3, <2>4, <2>6, <2>8
    <3>2. s[i][2] <= done[p] /\ s[i][2] \in Nat
      BY <3>1, QueueItems DEF Q!Pushed
    <3>3. Append(s, new)[j][2] = n
      BY <1>4, <2>4, <2>8
    <3> QED
      BY <1>3, <2>6, <3>2, <3>3 DEF n
  <2> QED
    BY <2>4, <2>7, <2>8
<1>10. Q!FifoOnce'
  <2>1. Q!Elems(d_queue') \cup Q!Popped' = Q!Pushed'
    BY <1>0, <1>7, <1>8 DEF Q!FifoOnce
  <2>2. \A c, d \in Consumer : c # d => Q!Elems(got'[c]) \cap Q!Elems(got'[d]) = {}
    BY <1>0, <1>1 DEF Q!FifoOnce
  <2> QED
    BY <1>9, <2>1, <2>2 DEF Q!FifoOnce, Q!Elems
<1>11. Q!NoLostWakeup'
  <2>1. Q!Notifying' = Q!Notifying \cup {p} /\ p \notin Q!Notifying
    BY <1>1, <1>2 DEF Q!Notifying
  <2>2. Q!Awake' = Q!Awake
    BY <1>1, <1>2 DEF Q!Awake
  <2>3. Cardinality(Q!Notifying') = Cardinality(Q!Notifying) + 1
    BY <2>1, CountOne, QueueCounted
  <2>4. Len(d_queue') = Len(d_queue) + 1 /\ Len(d_queue) \in Nat
    BY <1>1, <1>2, <1>4
  <2> QED
    BY <1>0, <1>1, <2>2, <2>3, <2>4, QueueCounted, QueueCountedNext
<1> QED
  BY <1>6, <1>10, <1>11 DEF QueueExact

\* A step that moves no item.
LEMMA QueueSame ==
  ASSUME QueueExact, Q!TypeOK', UNCHANGED << d_queue, done, got >>, Q!NoLostWakeup'
  PROVE  QueueExact'
<1>1. Q!FifoOnce'
  <2>1. Q!Popped' = Q!Popped /\ Q!Pushed' = Q!Pushed
    BY DEF Q!Popped, Q!Pushed, Q!Elems
  <2>2. ASSUME NEW c \in Consumer PROVE Q!InOrder(c)'
    <3>1. Q!InOrder(c) /\ Q!Stream(c)' = Q!Stream(c)
      BY DEF QueueExact, Q!FifoOnce, Q!Stream
    <3> QED
      BY <3>1 DEF Q!InOrder
  <2>3. Q!Elems(d_queue') \cup Q!Popped' = Q!Pushed'
    BY <2>1 DEF QueueExact, Q!FifoOnce
  <2>4. \A c, d \in Consumer : c # d => Q!Elems(got'[c]) \cap Q!Elems(got'[d]) = {}
    BY DEF QueueExact, Q!FifoOnce
  <2> QED
    BY <2>2, <2>3, <2>4 DEF Q!FifoOnce, Q!Elems
<1> QED
  BY <1>1 DEF QueueExact

LEMMA QueueWakeups ==
  ASSUME QueueExact,
         \/ \E p \in Producer : Q!Notify(p)
         \/ \E c \in Consumer : Q!CallPop(c) \/ Q!SpuriousWake(c)
         \/ \E c \in Consumer : Q!TestAndTake(c) /\ d_queue = << >>
         \/ UNCHANGED Q!vars
  PROVE  QueueExact'
<1>0. Q!TypeOK /\ Q!FifoOnce /\ Q!NoLostWakeup
  BY DEF QueueExact
<1>1. /\ d_queue \in Seq(Q!Item) /\ done \in [Producer -> 0 .. Times] /\ got \in [Consumer -> Seq(Q!Item)]
      /\ qpc \in [Producer \cup Consumer -> {"out", "notify", "test"}]
      /\ waiters \subseteq {c \in Consumer : qpc[c] = "test"} /\ Producer \cap Consumer = {}
      /\ Len(d_queue) \in Nat
  BY <1>0, SyncNumbers DEF Q!TypeOK
<1>2. UNCHANGED << d_queue, done, got >>
  BY DEF Q!Notify, Q!CallPop, Q!SpuriousWake, Q!TestAndTake, Q!vars
<1>3. ASSUME NEW p \in Producer, Q!Notify(p)
      PROVE  Q!TypeOK' /\ Q!NoLostWakeup'
  <2>1. qpc[p] = "notify" /\ qpc' = [qpc EXCEPT ![p] = "out"] /\ p \notin Consumer
        /\ \/ waiters = {} /\ waiters' = {}
           \/ \E c \in waiters : waiters' = waiters \ {c}
    BY <1>1, <1>3 DEF Q!Notify
  <2>2. Q!TypeOK'
    BY <1>1, <1>2, <2>1 DEF Q!TypeOK
  <2>3. CASE waiters = {} /\ waiters' = {}
    BY <2>2, <2>3 DEF Q!NoLostWakeup
  <2>4. CASE \E c \in waiters : waiters' = waiters \ {c}
    <3>1. PICK c \in waiters : waiters' = waiters \ {c}
      BY <2>4
    <3>2. Q!Notifying = Q!Notifying' \cup {p} /\ p \notin Q!Notifying'
      BY <1>1, <2>1 DEF Q!Notifying
    <3>3. Q!Awake' = Q!Awake \cup {c} /\ c \notin Q!Awake
      BY <1>1, <2>1, <3>1 DEF Q!Awake
    <3>4. Cardinality(Q!Notifying) = Cardinality(Q!Notifying') + 1
      BY <3>2, CountOne, QueueCountedNext
    <3>5. Cardinality(Q!Awake') = Cardinality(Q!Awake) + 1
      BY <3>3, CountOne, QueueCounted
    <3>6. Len(d_queue) <= Cardinality(Q!Notifying) + Cardinality(Q!Awake)
      BY <1>0, <3>1, QueueCounted
    <3> QED
      BY <1>1, <1>2, <2>2, <3>4, <3>5, <3>6, QueueCounted, QueueCountedNext
  <2> QED
    BY <2>1, <2>3, <2>4
<1>4. ASSUME NEW c \in Consumer, Q!CallPop(c) \/ Q!SpuriousWake(c)
      PROVE  Q!TypeOK' /\ Q!NoLostWakeup'
  <2>1. /\ waiters' \subseteq waiters /\ c \notin Producer
        /\ \/ qpc[c] = "out" /\ qpc' = [qpc EXCEPT ![c] = "test"] /\ UNCHANGED waiters
           \/ c \in waiters /\ waiters' = waiters \ {c} /\ UNCHANGED qpc
    BY <1>1, <1>4 DEF Q!CallPop, Q!SpuriousWake
  <2>2. Q!TypeOK'
    BY <1>1, <1>2, <2>1 DEF Q!TypeOK
  <2>3. Q!Notifying' = Q!Notifying
    BY <1>1, <2>1 DEF Q!Notifying
  <2>4. Q!Awake' = Q!Awake \cup {c} /\ c \notin Q!Awake
    BY <1>1, <2>1 DEF Q!Awake
  <2>5. Cardinality(Q!Awake') = Cardinality(Q!Awake) + 1
    BY <2>4, CountOne, QueueCounted
  <2>6. waiters' # {} => waiters # {}
    BY <2>1
  <2> QED
    BY <1>0, <1>1, <1>2, <2>2, <2>3, <2>5, <2>6, QueueCounted, QueueCountedNext
<1>5. ASSUME NEW c \in Consumer, Q!TestAndTake(c), d_queue = << >>
      PROVE  Q!TypeOK' /\ Q!NoLostWakeup'
  <2>1. qpc[c] = "test" /\ waiters' = waiters \cup {c} /\ UNCHANGED qpc
    BY <1>5 DEF Q!TestAndTake
  <2>2. Q!TypeOK'
    BY <1>1, <1>2, <2>1 DEF Q!TypeOK
  <2>3. Len(d_queue') = 0
    BY <1>2, <1>5
  <2> QED
    BY <2>2, <2>3, QueueCountedNext
<1>6. ASSUME UNCHANGED Q!vars
      PROVE  Q!TypeOK' /\ Q!NoLostWakeup'
  <2>1. UNCHANGED << d_queue, waiters, qpc, done, got >>
    BY <1>6 DEF Q!vars
  <2>2. Q!Notifying' = Q!Notifying /\ Q!Awake' = Q!Awake
    BY <2>1 DEF Q!Notifying, Q!Awake
  <2> QED
    BY <1>0, <2>1, <2>2, QueueCounted, QueueCountedNext DEF Q!TypeOK
<1> QED
  BY <1>2, <1>3, <1>4, <1>5, <1>6, QueueSame

LEMMA QueueTake ==
  ASSUME QueueExact, NEW c \in Consumer, Q!TestAndTake(c), d_queue # << >>
  PROVE  QueueExact'
<1> DEFINE h == Head(d_queue)
           rest == Tail(d_queue)
<1>0. Q!TypeOK /\ Q!FifoOnce /\ Q!NoLostWakeup
  BY DEF QueueExact
<1>1. /\ qpc[c] = "test" /\ c \notin waiters /\ got' = [got EXCEPT ![c] = Append(got[c], h)]
      /\ d_queue' = rest /\ qpc' = [qpc EXCEPT ![c] = "out"] /\ UNCHANGED << waiters, done >>
  BY DEF Q!TestAndTake
<1>2. /\ d_queue \in Seq(Q!Item) /\ done \in [Producer -> 0 .. Times] /\ got \in [Consumer -> Seq(Q!Item)]
      /\ qpc \in [Producer \cup Consumer -> {"out", "notify", "test"}]
      /\ waiters \subseteq {d \in Consumer : qpc[d] = "test"} /\ Producer \cap Consumer = {}
  BY <1>0, SyncNumbers DEF Q!TypeOK
<1>3. /\ h \in Q!Item /\ h = d_queue[1] /\ rest \in Seq(Q!Item)
      /\ Len(d_queue) \in Nat \ {0} /\ 1 \in 1 .. Len(d_queue) /\ Len(rest) = Len(d_queue) - 1
      /\ \A i \in 1 .. Len(d_queue) - 1 : i + 1 \in 1 .. Len(d_queue) /\ rest[i] = d_queue[i + 1]
  BY <1>2, QueueHead
<1>4. /\ \A d \in Consumer : got'[d] = IF d = c THEN Append(got[c], h) ELSE got[d]
      /\ got[c] \in Seq(Q!Item) /\ Append(got[c], h) \in Seq(Q!Item)
  BY <1>1, <1>2, <1>3
<1>5. Q!TypeOK'
  BY <1>1, <1>2, <1>3, <1>4 DEF Q!TypeOK
<1>6. Q!Elems(d_queue) = {h} \cup Q!Elems(rest)
  BY <1>2, ElemsHead
<1>7. \A d \in Consumer : Q!Elems(got'[d]) = IF d = c THEN Q!Elems(got[c]) \cup {h} ELSE Q!Elems(got[d])
  <2>1. Q!Elems(Append(got[c], h)) = Q!Elems(got[c]) \cup {h}
    BY <1>3, <1>4, ElemsAppend
  <2> QED
    BY <1>4, <2>1
<1>8. Q!Elems(rest) \cup Q!Popped' = Q!Pushed'
  <2>1. Q!Pushed' = Q!Pushed
    BY <1>1 DEF Q!Pushed
  <2>2. Q!Popped' = Q!Popped \cup {h}
    <3>1. Q!Popped' = UNION {Q!Elems(got'[d]) : d \in Consumer}
      BY DEF Q!Popped, Q!Elems
    <3> QED
      BY <1>7, <3>1 DEF Q!Popped
  <2> QED
    BY <1>0, <1>6, <2>1, <2>2 DEF Q!FifoOnce
\* What c may get is what it was; the others lose the head.
<1>9. Q!InOrder(c)'
  <2>1. Append(got[c], h) \o rest = got[c] \o d_queue
    BY <1>2, <1>3, <1>4
  <2>2. Q!Stream(c)' = Q!Stream(c)
    BY <1>1, <1>4, <2>1 DEF Q!Stream
  <2> QED
    BY <1>0, <2>2 DEF Q!FifoOnce, Q!InOrder
<1>10. ASSUME NEW d \in Consumer, d # c
       PROVE  Q!InOrder(d)' /\ h \notin Q!Elems(got[d])
  <2> DEFINE s == got[d] \o d_queue
             m == Len(got[d])
             r == got[d] \o rest
  <2>0. got[d] \in Seq(Q!Item) /\ Q!Stream(d) = s /\ Q!Stream(d)' = r
    BY <1>1, <1>2, <1>4, <1>10 DEF Q!Stream
  <2>1. /\ m \in Nat /\ Len(s) = m + Len(d_queue)
        /\ \A i \in 1 .. m : i \in 1 .. Len(s) /\ s[i] = got[d][i]
        /\ \A i \in 1 .. Len(d_queue) : m + i \in 1 .. Len(s) /\ s[m + i] = d_queue[i]
    BY <1>2, <2>0, StreamParts
  <2>2. /\ Len(r) = m + Len(rest)
        /\ \A i \in 1 .. m : r[i] = got[d][i]
        /\ \A i \in 1 .. Len(r) : i \in 1 .. m \/ (i - m \in 1 .. Len(rest) /\ r[i] = rest[i - m])
    BY <1>3, <2>0, StreamParts
  <2>3. \A i, j \in 1 .. Len(s) : i < j /\ s[i][1] = s[j][1] => s[i][2] < s[j][2]
    BY <1>0, <1>10, <2>0 DEF Q!FifoOnce, Q!InOrder
  <2> DEFINE old(i) == IF i <= m THEN i ELSE i + 1
  <2>4. \A i \in 1 .. Len(r) : old(i) \in 1 .. Len(s) /\ r[i] = s[old(i)]
    <3> SUFFICES ASSUME NEW i \in 1 .. Len(r) PROVE old(i) \in 1 .. Len(s) /\ r[i] = s[old(i)]
      OBVIOUS
    <3>1. CASE i \in 1 .. m
      BY <2>1, <2>2, <3>1
    <3>2. CASE i - m \in 1 .. Len(rest) /\ r[i] = rest[i - m]
      <4>1. PICK k \in 1 .. Len(rest) : k = i - m /\ r[i] = rest[k]
        BY <3>2
      <4>2. k \in 1 .. Len(d_queue) - 1 /\ k + 1 \in 1 .. Len(d_queue) /\ rest[k] = d_queue[k + 1]
        BY <1>3, <4>1
      <4>3. i \in Int /\ m \in Int /\ k \in Int /\ k >= 1
        BY <2>1, <4>1
      <4>4. i > m /\ old(i) = m + (k + 1)
        BY <4>1, <4>3
      <4> QED
        BY <2>1, <4>1, <4>2, <4>4
    <3> QED
      BY <2>2, <3>1, <3>2
  <2>5. \A i, j \in 1 .. Len(r) : i < j => old(i) < old(j)
    BY <1>3, <2>1, <2>2
  <2> HIDE DEF old
  <2>6. Q!InOrder(d)'
    <3> SUFFICES ASSUME NEW i \in 1 .. Len(r), NEW j \in 1 .. Len(r), i < j, r[i][1] = r[j][1]
                 PROVE  r[i][2] < r[j][2]
      BY <2>0 DEF Q!InOrder
    <3>1. /\ old(i) \in 1 .. Len(s) /\ r[i] = s[old(i)] /\ old(j) \in 1 .. Len(s) /\ r[j] = s[old(j)]
          /\ old(i) < old(j)
      BY <2>4, <2>5
    <3> QED
      BY <2>3, <3>1
  <2>7. h \notin Q!Elems(got[d])
    <3> SUFFICES ASSUME NEW i \in 1 .. m, got[d][i] = h PROVE FALSE
      BY DEF Q!Elems
    <3>1. s[i] = h /\ s[m + 1] = h /\ i \in 1 .. Len(s) /\ m + 1 \in 1 .. Len(s) /\ i < m + 1
      BY <1>3, <2>1
    <3>2. h[2] \in Nat
      BY <1>3, QueueItems
    <3>3. s[i][2] < s[m + 1][2]
      BY <2>3, <3>1
    <3> QED
      BY <3>1, <3>2, <3>3
  <2> QED
    BY <2>6, <2>7
<1>11. \A d, e \in Consumer : d # e => Q!Elems(got'[d]) \cap Q!Elems(got'[e]) = {}
  BY <1>0, <1>7, <1>10 DEF Q!FifoOnce
<1>12. Q!FifoOnce'
  <2>1. \A d \in Consumer : Q!InOrder(d)'
    BY <1>9, <1>10
  <2>2. Q!Elems(d_queue') \cup Q!Popped' = Q!Pushed'
    BY <1>1, <1>8
  <2> QED
    BY <1>11, <2>1, <2>2 DEF Q!FifoOnce, Q!Elems
<1>13. Q!NoLostWakeup'
  <2>1. Q!Notifying' = Q!Notifying
    BY <1>1, <1>2 DEF Q!Notifying
  <2>2. Q!Awake = Q!Awake' \cup {c} /\ c \notin Q!Awake'
    BY <1>1, <1>2 DEF Q!Awake
  <2>3. Cardinality(Q!Awake) = Cardinality(Q!Awake') + 1
    BY <2>2, CountOne, QueueCountedNext
  <2> QED
    BY <1>0, <1>1, <1>3, <2>1, <2>3, QueueCounted, QueueCountedNext
<1> QED
  BY <1>5, <1>12, <1>13 DEF QueueExact

LEMMA SyncIsQueue == SyncSpec => Q!Init /\ [][Q!Next]_(Q!vars)
<1>1. SyncInit => Q!Init
  BY DEF SyncInit
<1>2. [SyncNext]_all => [Q!Next]_(Q!vars)
  <2>1. [SyncNext]_all => [Q!Next]_queueVars
    BY DEF SyncNext, MayStop, all
  <2> QED
    BY <2>1 DEF queueVars, Q!vars
<1> QED
  BY <1>1, <1>2, PTL DEF SyncSpec

(***************************************************************************)
(* blocking_queue hands out what was pushed, each item once and those of   *)
(* one producer in order, and a consumer that sleeps over an item has a    *)
(* wakeup coming although push notifies after it has unlocked.             *)
(***************************************************************************)
THEOREM QueueHandsOutOnce == SyncSpec => []QueueExact
<1>1. Q!Init => QueueExact
  BY QueueInit
<1>2. QueueExact /\ [Q!Next]_(Q!vars) => QueueExact'
  <2> SUFFICES ASSUME QueueExact, [Q!Next]_(Q!vars) PROVE QueueExact'
    OBVIOUS
  <2>1. ASSUME NEW p \in Producer, Q!Push(p) PROVE QueueExact'
    BY <2>1, QueuePush
  <2>2. ASSUME NEW c \in Consumer, Q!TestAndTake(c), d_queue # << >> PROVE QueueExact'
    BY <2>2, QueueTake
  <2>3. CASE \/ \E p \in Producer : Q!Notify(p)
             \/ \E c \in Consumer : Q!CallPop(c) \/ Q!SpuriousWake(c)
             \/ \E c \in Consumer : Q!TestAndTake(c) /\ d_queue = << >>
             \/ UNCHANGED Q!vars
    BY <2>3, QueueWakeups
  <2> QED
    BY <2>1, <2>2, <2>3 DEF Q!Next
<1> QED
  BY <1>1, <1>2, SyncIsQueue, PTL


-----------------------------------------------------------------------------
(* ReadSync.                                                                *)

LEMMA Halves ==
  /\ NumThreads \div 2 \in Nat /\ NumThreads = 2 * (NumThreads \div 2)
  /\ \A n \in Nat : n % 2 \in {0, 1}
BY SyncNumbers

\* Quotient and remainder are unique.
LEMMA QuotientUnique ==
  ASSUME NEW d \in Nat \ {0}, NEW q \in Nat, NEW k \in Nat, NEW r \in 0 .. d - 1, NEW m \in 0 .. d - 1,
         d * q + r = d * k + m
  PROVE  q = k /\ r = m
<1>1. ~ q < k
  <2> SUFFICES ASSUME q < k PROVE FALSE
    OBVIOUS
  <2>1. d * (k - q) >= d
    OBVIOUS
  <2> QED
    BY <2>1
<1>2. ~ k < q
  <2> SUFFICES ASSUME k < q PROVE FALSE
    OBVIOUS
  <2>1. d * (q - k) >= d
    OBVIOUS
  <2> QED
    BY <2>1
<1> QED
  BY <1>1, <1>2

LEMMA Quotient ==
  ASSUME NEW n \in Nat, NEW d \in Nat \ {0}
  PROVE  n \div d \in Nat /\ n % d \in 0 .. d - 1 /\ n = d * (n \div d) + (n % d)
OBVIOUS

LEMMA QuotientIs ==
  ASSUME NEW n \in Nat, NEW d \in Nat \ {0}, NEW q \in Nat, NEW r \in 0 .. d - 1, n = d * q + r
  PROVE  n \div d = q /\ n % d = r
<1>1. n \div d \in Nat /\ n % d \in 0 .. d - 1 /\ d * (n \div d) + (n % d) = d * q + r
  BY Quotient
<1> QED
  BY <1>1, QuotientUnique

\* The last of a run of d numbers is followed by a multiple of d.
LEMMA NextMultiple ==
  ASSUME NEW n \in Nat, NEW d \in Nat \ {0}
  PROVE  n % d = d - 1 <=> (n + 1) % d = 0
<1> DEFINE q == n \div d
           r == n % d
<1>1. q \in Nat /\ r \in 0 .. d - 1 /\ n = d * q + r
  BY Quotient
<1> HIDE DEF q, r
<1>2. CASE r = d - 1
  <2>1. n + 1 = d * (q + 1) + 0
    BY <1>1, <1>2
  <2>2. (n + 1) % d = 0
    BY <1>1, <2>1, QuotientIs
  <2> QED
    BY <1>2, <2>2 DEF r
<1>3. CASE r # d - 1
  <2>1. r + 1 \in 0 .. d - 1 /\ n + 1 = d * q + (r + 1) /\ r + 1 # 0
    BY <1>1, <1>3
  <2>2. (n + 1) % d = r + 1
    <3>1. n + 1 \in Nat
      OBVIOUS
    <3> QED
      BY <1>1, <2>1, <3>1, QuotientIs
  <2> QED
    BY <1>3, <2>1, <2>2 DEF r
<1> QED
  BY <1>2, <1>3

LEMMA TidCount ==
  /\ IsFiniteSet(R!Tid) /\ Cardinality(R!Tid) = NumThreads /\ 0 \in R!Tid
  /\ \A T : T \subseteq R!Tid /\ R!Cardinality(T) = NumThreads => T = R!Tid
<1>1. NumThreads \in Nat /\ NumThreads > 0 /\ NumThreads - 1 - 0 + 1 = NumThreads
  BY SyncNumbers
<1>2. IsFiniteSet(R!Tid) /\ Cardinality(R!Tid) = NumThreads /\ 0 \in R!Tid
  BY <1>1, FS_Interval DEF R!Tid
<1>3. ASSUME NEW T, T \subseteq R!Tid, R!Cardinality(T) = NumThreads
      PROVE  T = R!Tid
  BY <1>2, <1>3, FS_Subset, SameCounting
<1> QED
  BY <1>2, <1>3

\* One thread begins or ceases to hold a token.
LEMMA HolderChange ==
  ASSUME NEW t \in R!Tid, \A u \in R!Tid \ {t} : R!Holding(u)' <=> R!Holding(u)
  PROVE  /\ R!Cardinality(R!Holders) \in Nat /\ R!Cardinality(R!Holders') \in Nat
         /\ (R!Holding(t)' <=> R!Holding(t)) => R!Cardinality(R!Holders') = R!Cardinality(R!Holders)
         /\ R!Holding(t)' /\ ~ R!Holding(t) => R!Cardinality(R!Holders') = R!Cardinality(R!Holders) + 1
         /\ ~ R!Holding(t)' /\ R!Holding(t) => R!Cardinality(R!Holders') = R!Cardinality(R!Holders) - 1
<1>1. IsFiniteSet(R!Holders) /\ IsFiniteSet(R!Holders')
  BY TidCount, FS_Subset DEF R!Holders
<1>2. Cardinality(R!Holders) \in Nat /\ Cardinality(R!Holders') \in Nat
  BY <1>1, FS_CardinalityType
<1>3. ASSUME R!Holding(t)' <=> R!Holding(t) PROVE R!Holders' = R!Holders
  BY <1>3 DEF R!Holders
<1>4. ASSUME R!Holding(t)', ~ R!Holding(t) PROVE Cardinality(R!Holders') = Cardinality(R!Holders) + 1
  <2>1. R!Holders' = R!Holders \cup {t} /\ t \notin R!Holders
    BY <1>4 DEF R!Holders
  <2> QED
    BY <1>1, <2>1, CountOne
<1>5. ASSUME ~ R!Holding(t)', R!Holding(t) PROVE Cardinality(R!Holders) = Cardinality(R!Holders') + 1
  <2>1. R!Holders = R!Holders' \cup {t} /\ t \notin R!Holders'
    BY <1>5 DEF R!Holders
  <2> QED
    BY <1>1, <2>1, CountOne
<1>6. R!Cardinality(R!Holders) = Cardinality(R!Holders) /\ R!Cardinality(R!Holders') = Cardinality(R!Holders')
  BY SameCounting
<1> QED
  BY <1>2, <1>3, <1>4, <1>5, <1>6

\* One token more, or less, in one of the queues.
LEMMA TokenChange ==
  ASSUME notify_queues_ \in [R!Queue -> Nat], NEW q \in R!Queue, NEW k \in Int,
         notify_queues_' = [notify_queues_ EXCEPT ![q] = notify_queues_[q] + k],
         notify_queues_[q] + k >= 0
  PROVE  /\ notify_queues_' \in [R!Queue -> Nat]
         /\ R!Tokens \in Nat /\ R!Tokens' \in Nat /\ R!Tokens' = R!Tokens + k
<1>1. /\ notify_queues_[0] \in Nat /\ notify_queues_[1] \in Nat /\ notify_queues_[2] \in Nat
      /\ notify_queues_[3] \in Nat /\ q \in {0, 1, 2, 3} /\ notify_queues_[q] + k \in Nat
      /\ notify_queues_' \in [R!Queue -> Nat]
      /\ notify_queues_'[0] = IF q = 0 THEN notify_queues_[0] + k ELSE notify_queues_[0]
      /\ notify_queues_'[1] = IF q = 1 THEN notify_queues_[1] + k ELSE notify_queues_[1]
      /\ notify_queues_'[2] = IF q = 2 THEN notify_queues_[2] + k ELSE notify_queues_[2]
      /\ notify_queues_'[3] = IF q = 3 THEN notify_queues_[3] + k ELSE notify_queues_[3]
  BY DEF R!Queue
<1> QED
  BY <1>1 DEF R!Tokens


LEMMA ReadFacts ==
  ASSUME R!TypeOK, R!StartInv
  PROVE  /\ notify_queues_ \in [R!Queue -> Nat]
         /\ \A q \in R!Queue : notify_queues_[q] \in 0 .. NumThreads \div 2
         /\ rpc \in [R!Tid -> {"out", "barrier", "take", "read", "notify"}]
         /\ local_block_offset \in [R!Tid -> 0 .. Reads]
         /\ \A t \in R!Tid :
              /\ t \in Nat /\ local_block_offset[t] \in Nat /\ local_block_offset[t] <= Reads
              /\ rpc[t] \in {"barrier", "take", "read"} => local_block_offset[t] < Reads
              /\ rpc[t] = "notify" => local_block_offset[t] > 0
              /\ rpc[t] = "barrier" => local_block_offset[t] = 0
              /\ rpc[t] = "take" => local_block_offset[t] % Factor = 0
              /\ R!Begun => R!Away(t) /\ rpc[t] # "barrier"
         /\ waiting \subseteq {t \in R!Tid : rpc[t] = "barrier"}
<1>1. \A n \in 0 .. NumThreads \div 2 : n \in Nat
  BY Halves
<1>2. \A t \in R!Tid : t \in Nat
  BY SyncNumbers DEF R!Tid
<1>3. \A n \in 0 .. Reads : n \in Nat /\ n <= Reads
  BY SyncNumbers
<1> QED
  BY <1>1, <1>2, <1>3 DEF R!TypeOK, R!StartInv

\* A step of a thread that is past the barrier, as all are then.
LEMMA ReadAway ==
  ASSUME R!IInv, NEW t \in R!Tid, R!Away(t), R!Away(t)',
         NEW to \in {"out", "take", "read", "notify"}, NEW n \in 0 .. Reads,
         rpc' = [rpc EXCEPT ![t] = to], local_block_offset' = [local_block_offset EXCEPT ![t] = n],
         to \in {"take", "read"} => n < Reads, to = "notify" => n > 0, to = "take" => n % Factor = 0,
         UNCHANGED waiting, notify_queues_' \in [R!Queue -> Nat], R!Tokens' \in Nat,
         R!Tokens' + R!Cardinality(R!Holders') = R!Tokens + R!Cardinality(R!Holders)
  PROVE  R!IInv'
<1>0. R!TypeOK /\ R!StartInv /\ R!TokensConserved
  BY DEF R!IInv
<1>1. R!Begun /\ R!Begun'
  BY DEF R!Begun
<1>2. \A u \in R!Tid : R!Away(u) /\ rpc[u] # "barrier"
  BY <1>0, <1>1, ReadFacts
<1>3. /\ rpc' \in [R!Tid -> {"out", "barrier", "take", "read", "notify"}]
      /\ local_block_offset' \in [R!Tid -> 0 .. Reads]
      /\ \A u \in R!Tid : rpc'[u] = IF u = t THEN to ELSE rpc[u]
      /\ \A u \in R!Tid : local_block_offset'[u] = IF u = t THEN n ELSE local_block_offset[u]
  BY <1>0, ReadFacts
<1>4. \A u \in R!Tid : R!Away(u)' /\ rpc'[u] # "barrier"
  <2> SUFFICES ASSUME NEW u \in R!Tid PROVE R!Away(u)' /\ rpc'[u] # "barrier"
    OBVIOUS
  <2>1. CASE u = t
    BY <1>3, <2>1
  <2>2. CASE u # t
    BY <1>2, <1>3, <2>2 DEF R!Away
  <2> QED
    BY <2>1, <2>2
<1>5. waiting' = {}
  BY <1>0, <1>2, ReadFacts
<1>6. R!StartInv'
  BY <1>0, <1>1, <1>3, <1>4, <1>5, ReadFacts DEF R!StartInv
<1>7. R!Tokens' + R!Cardinality(R!Holders') = NumThreads \div 2
  BY <1>0, <1>1 DEF R!TokensConserved
<1>8. \A q \in R!Queue : notify_queues_'[q] \in 0 .. NumThreads \div 2
  <2>1. R!Cardinality(R!Holders') \in Nat
    <3>1. IsFiniteSet(R!Holders')
      BY TidCount, FS_Subset DEF R!Holders
    <3> QED
      BY <3>1, FS_CardinalityType, SameCounting
  <2>2. R!Tokens' <= NumThreads \div 2
    BY <1>7, <2>1, Halves
  <2>3. /\ notify_queues_'[0] \in Nat /\ notify_queues_'[1] \in Nat
        /\ notify_queues_'[2] \in Nat /\ notify_queues_'[3] \in Nat
    BY DEF R!Queue
  <2>4. \A q \in R!Queue : q \in {0, 1, 2, 3}
    BY DEF R!Queue
  <2> QED
    BY <2>2, <2>3, <2>4, Halves DEF R!Tokens
<1>9. R!TypeOK'
  <2>1. notify_queues_' \in [R!Queue -> 0 .. NumThreads \div 2]
    BY <1>8
  <2> QED
    BY <1>3, <1>5, <2>1 DEF R!TypeOK
<1> QED
  BY <1>6, <1>7, <1>9 DEF R!IInv, R!TokensConserved

LEMMA ReadQueues ==
  ASSUME NEW t \in Nat, NEW n \in Nat
  PROVE  R!OwnQueue(t, n) \in R!Queue /\ R!NotifiedQueue(t, n) \in R!Queue
<1>1. n % 2 \in {0, 1} /\ (n + 1) % 2 \in {0, 1}
  BY Halves
<1> QED
  BY <1>1 DEF R!OwnQueue, R!NotifiedQueue, R!Queue

\* The first Read of a thread: it comes to the barrier.
LEMMA ReadFirst ==
  ASSUME R!IInv, NEW t \in R!Tid, R!Call(t), local_block_offset[t] = 0
  PROVE  R!IInv'
<1>0. R!TypeOK /\ R!StartInv /\ R!TokensConserved
  BY DEF R!IInv
<1>1. /\ rpc[t] = "out" /\ local_block_offset[t] < Reads /\ rpc' = [rpc EXCEPT ![t] = "barrier"]
      /\ UNCHANGED << waiting, local_block_offset >>
      /\ t # 0 => notify_queues_' = notify_queues_
      /\ t = 0 => notify_queues_' = [[q \in R!Queue |-> 0] EXCEPT ![0] = NumThreads \div 2]
  BY DEF R!Call, R!Goto
<1>2. ~ R!Away(t)
  BY <1>0, <1>1, ReadFacts DEF R!Away
<1>3. ~ R!Begun
  BY <1>0, <1>2, ReadFacts
<1>4. /\ rpc' \in [R!Tid -> {"out", "barrier", "take", "read", "notify"}]
      /\ \A u \in R!Tid : rpc'[u] = IF u = t THEN "barrier" ELSE rpc[u]
  BY <1>0, <1>1, ReadFacts
<1>5. ~ R!Begun'
  BY <1>1, <1>2, <1>3, <1>4 DEF R!Begun, R!Away
<1>6. t = 0 => notify_queues_' \in [R!Queue -> 0 .. NumThreads \div 2] /\ R!Tokens' = NumThreads \div 2
  <2> SUFFICES ASSUME t = 0
               PROVE  notify_queues_' \in [R!Queue -> 0 .. NumThreads \div 2] /\ R!Tokens' = NumThreads \div 2
    OBVIOUS
  <2>1. NumThreads \div 2 \in 0 .. NumThreads \div 2 /\ 0 \in 0 .. NumThreads \div 2 /\ NumThreads \div 2 \in Nat
    BY Halves
  <2>2. \A q \in R!Queue : notify_queues_'[q] = IF q = 0 THEN NumThreads \div 2 ELSE 0
    BY <1>1
  <2>3. notify_queues_' \in [R!Queue -> 0 .. NumThreads \div 2]
    BY <1>1, <2>1 DEF R!Queue
  <2> QED
    BY <2>1, <2>2, <2>3 DEF R!Queue, R!Tokens
<1>7. t # 0 => (rpc'[0] = "barrier" => R!Tokens' = NumThreads \div 2)
  BY <1>0, <1>1, <1>3, <1>4, TidCount DEF R!StartInv, R!Tokens
<1>8. R!TypeOK'
  BY <1>0, <1>1, <1>4, <1>6 DEF R!TypeOK
<1>9. R!StartInv'
  <2>1. \A u \in R!Tid :
          /\ rpc'[u] \in {"barrier", "take", "read"} => local_block_offset'[u] < Reads
          /\ rpc'[u] = "notify" => local_block_offset'[u] > 0
          /\ rpc'[u] = "barrier" => local_block_offset'[u] = 0
          /\ rpc'[u] = "take" => local_block_offset'[u] % Factor = 0
    BY <1>0, <1>1, <1>4, ReadFacts
  <2>2. waiting' \subseteq {u \in R!Tid : rpc'[u] = "barrier"}
    BY <1>0, <1>1, <1>4, ReadFacts
  <2>3. rpc'[0] = "barrier" => R!Tokens' = NumThreads \div 2
    BY <1>6, <1>7
  <2> QED
    BY <1>5, <2>1, <2>2, <2>3 DEF R!StartInv
<1> QED
  BY <1>5, <1>8, <1>9 DEF R!IInv, R!TokensConserved

LEMMA ReadBarrier ==
  ASSUME R!IInv, NEW t \in R!Tid, R!BarrierWait(t)
  PROVE  R!IInv'
<1> DEFINE here == waiting \cup {t}
<1>0. R!TypeOK /\ R!StartInv /\ R!TokensConserved
  BY DEF R!IInv
<1>1. /\ rpc[t] = "barrier" /\ t \notin waiting /\ UNCHANGED << notify_queues_, local_block_offset >>
      /\ \/ /\ R!Cardinality(here) = NumThreads /\ waiting' = {}
            /\ rpc' = [u \in R!Tid |-> IF u \in here THEN "take" ELSE rpc[u]]
         \/ waiting' = here /\ UNCHANGED rpc
  BY DEF R!BarrierWait
<1>2. ~ R!Begun
  BY <1>0, <1>1, ReadFacts
<1>3. CASE waiting' = here /\ UNCHANGED rpc
  <2>1. ~ R!Begun' /\ R!Tokens' = R!Tokens
    BY <1>1, <1>2, <1>3 DEF R!Begun, R!Away, R!Tokens
  <2>2. R!TypeOK'
    BY <1>0, <1>1, <1>3 DEF R!TypeOK
  <2>3. R!StartInv'
    BY <1>0, <1>1, <1>2, <1>3, <2>1, ReadFacts DEF R!StartInv
  <2> QED
    BY <2>1, <2>2, <2>3 DEF R!IInv, R!TokensConserved
<1>4. CASE /\ R!Cardinality(here) = NumThreads /\ waiting' = {}
           /\ rpc' = [u \in R!Tid |-> IF u \in here THEN "take" ELSE rpc[u]]
  <2>1. here = R!Tid
    <3>1. here \subseteq R!Tid
      BY <1>0, ReadFacts
    <3> QED
      BY <1>4, <3>1, TidCount
  <2>2. \A u \in R!Tid : rpc[u] = "barrier" /\ local_block_offset[u] = 0 /\ local_block_offset[u] < Reads
    BY <1>0, <1>1, <2>1, ReadFacts
  <2>3. /\ \A u \in R!Tid : rpc'[u] = "take" /\ local_block_offset'[u] = 0 /\ 0 < Reads
        /\ rpc' \in [R!Tid -> {"out", "barrier", "take", "read", "notify"}]
    BY <1>1, <1>4, <2>1, <2>2
  <2>4. R!Begun' /\ \A u \in R!Tid : R!Away(u)' /\ ~ R!Holding(u)'
    BY <2>3, TidCount DEF R!Begun, R!Away, R!Holding
  <2>5. R!Tokens' = NumThreads \div 2
    BY <1>0, <1>1, <1>2, <2>2, TidCount DEF R!StartInv, R!Tokens
  <2>6. R!Cardinality(R!Holders') = 0
    <3>1. R!Holders' = {}
      BY <2>4 DEF R!Holders
    <3> QED
      BY <3>1, FS_EmptySet, SameCounting
  <2>7. R!TypeOK'
    BY <1>0, <1>1, <1>4, <2>3 DEF R!TypeOK
  <2>8. 0 % Factor = 0
    <3>1. 0 = Factor * 0 + 0 /\ 0 \in 0 .. Factor - 1
      BY SyncNumbers
    <3> QED
      BY <3>1, QuotientIs, SyncNumbers
  <2>9. R!StartInv'
    BY <1>4, <2>3, <2>4, <2>8 DEF R!StartInv
  <2>10. R!TokensConserved'
    BY <2>5, <2>6, Halves DEF R!TokensConserved
  <2> QED
    BY <2>7, <2>9, <2>10 DEF R!IInv
<1> QED
  BY <1>1, <1>3, <1>4


LEMMA ReadStep ==
  ASSUME R!IInv, [R!Next]_(R!vars)
  PROVE  R!IInv'
<1>0. R!TypeOK /\ R!StartInv /\ R!TokensConserved
  BY DEF R!IInv
<1>1. CASE UNCHANGED R!vars
  <2>1. UNCHANGED << notify_queues_, waiting, local_block_offset, rpc >>
    BY <1>1 DEF R!vars
  <2>2. R!Holders' = R!Holders /\ R!Tokens' = R!Tokens /\ R!Begun' = R!Begun
        /\ \A t : R!Away(t)' = R!Away(t)
    BY <2>1 DEF R!Holders, R!Holding, R!Tokens, R!Begun, R!Away
  <2> QED
    BY <1>0, <2>1, <2>2 DEF R!IInv, R!TypeOK, R!StartInv, R!TokensConserved
<1>2. ASSUME NEW t \in R!Tid,
             \/ R!Call(t) /\ local_block_offset[t] # 0
             \/ R!Take(t) \/ R!ReadValue(t) \/ R!NotifyRandomReader(t)
      PROVE  R!IInv'
  <2> DEFINE x == local_block_offset[t]
  <2>0. /\ notify_queues_ \in [R!Queue -> Nat] /\ x \in Nat /\ x <= Reads /\ t \in Nat
        /\ rpc \in [R!Tid -> {"out", "barrier", "take", "read", "notify"}]
        /\ local_block_offset \in [R!Tid -> 0 .. Reads]
        /\ local_block_offset = [local_block_offset EXCEPT ![t] = x]
        /\ rpc[t] \in {"barrier", "take", "read"} => x < Reads
        /\ rpc[t] = "notify" => x > 0
        /\ rpc[t] = "take" => x % Factor = 0
        /\ x \in 0 .. Reads /\ Reads \in Nat /\ Factor \in Nat \ {0}
    BY <1>0, ReadFacts, SyncNumbers
  <2>1. R!Away(t)
    BY <1>2, <2>0 DEF R!Call, R!Take, R!ReadValue, R!NotifyRandomReader, R!Away
  \* Who holds a token changes for t only.
  <2>2. ASSUME \A u \in R!Tid \ {t} : rpc'[u] = rpc[u] /\ local_block_offset'[u] = local_block_offset[u]
        PROVE  \A u \in R!Tid \ {t} : R!Holding(u)' <=> R!Holding(u)
    BY <2>2 DEF R!Holding
  <2>3. CASE R!Call(t) /\ local_block_offset[t] # 0
    <3> DEFINE to == IF x % Factor = 0 THEN "take" ELSE "read"
    <3>1. /\ rpc[t] = "out" /\ x < Reads /\ x # 0
          /\ rpc' = [rpc EXCEPT ![t] = to] /\ UNCHANGED << waiting, local_block_offset, notify_queues_ >>
      BY <2>3 DEF R!Call, R!Goto
    <3>2. rpc'[t] = to /\ \A u \in R!Tid \ {t} : rpc'[u] = rpc[u]
      BY <2>0, <3>1
    <3>3. \A u \in R!Tid \ {t} : R!Holding(u)' <=> R!Holding(u)
      BY <2>2, <3>1, <3>2
    <3>4. R!Holding(t)' <=> R!Holding(t)
      BY <3>1, <3>2 DEF R!Holding
    <3>5. R!Cardinality(R!Holders') = R!Cardinality(R!Holders)
      BY <3>3, <3>4, HolderChange
    <3>6. R!Tokens' = R!Tokens /\ R!Tokens \in Nat
      BY <2>0, <3>1 DEF R!Tokens, R!Queue
    <3>7. R!Away(t)'
      BY <3>2 DEF R!Away
    <3> QED
      BY <2>0, <2>1, <3>1, <3>5, <3>6, <3>7, ReadAway
  <2>4. CASE R!Take(t)
    <3> DEFINE q == R!OwnQueue(t, R!get_notify_big_round(x))
    <3>1. /\ rpc[t] = "take" /\ notify_queues_[q] > 0
          /\ notify_queues_' = [notify_queues_ EXCEPT ![q] = notify_queues_[q] - 1]
          /\ rpc' = [rpc EXCEPT ![t] = "read"] /\ UNCHANGED << waiting, local_block_offset >>
      BY <2>4 DEF R!Take, R!Goto
    <3>2. q \in R!Queue
      <4>1. R!get_notify_big_round(x) \in Nat
        BY <2>0, Quotient DEF R!get_notify_big_round
      <4> QED
        BY <2>0, <4>1, ReadQueues
    <3> HIDE DEF q
    <3>3. /\ notify_queues_' \in [R!Queue -> Nat] /\ R!Tokens \in Nat /\ R!Tokens' \in Nat
          /\ R!Tokens' = R!Tokens + (-1)
      <4>1. notify_queues_[q] \in Nat /\ notify_queues_[q] + (-1) = notify_queues_[q] - 1
            /\ notify_queues_[q] + (-1) >= 0 /\ -1 \in Int
        BY <2>0, <3>1, <3>2
      <4>2. notify_queues_' = [notify_queues_ EXCEPT ![q] = notify_queues_[q] + (-1)]
        BY <3>1, <4>1
      <4> QED
        BY <2>0, <3>2, <4>1, <4>2, TokenChange
    <3>4. rpc'[t] = "read" /\ \A u \in R!Tid \ {t} : rpc'[u] = rpc[u]
      BY <2>0, <3>1
    <3>5. \A u \in R!Tid \ {t} : R!Holding(u)' <=> R!Holding(u)
      BY <2>2, <3>1, <3>4
    <3>6. R!Holding(t)' /\ ~ R!Holding(t)
      BY <3>1, <3>4 DEF R!Holding
    <3>7. /\ R!Cardinality(R!Holders') = R!Cardinality(R!Holders) + 1
          /\ R!Cardinality(R!Holders) \in Nat
      BY <3>5, <3>6, HolderChange
    <3>8. R!Tokens' + R!Cardinality(R!Holders') = R!Tokens + R!Cardinality(R!Holders)
      BY <3>3, <3>7
    <3>9. R!Away(t)'
      BY <3>4 DEF R!Away
    <3> QED
      BY <2>0, <2>1, <3>1, <3>3, <3>8, <3>9, ReadAway
  <2>5. CASE R!ReadValue(t)
    <3>1. /\ rpc[t] = "read" /\ rpc' = [rpc EXCEPT ![t] = "notify"]
          /\ local_block_offset' = [local_block_offset EXCEPT ![t] = x + 1]
          /\ UNCHANGED << waiting, notify_queues_ >>
      BY <2>5 DEF R!ReadValue, R!Goto
    <3>2. x + 1 \in 0 .. Reads /\ x + 1 > 0
      BY <2>0, <3>1
    <3>3. rpc'[t] = "notify" /\ \A u \in R!Tid \ {t} : rpc'[u] = rpc[u] /\ local_block_offset'[u] = local_block_offset[u]
      BY <2>0, <3>1
    <3>4. \A u \in R!Tid \ {t} : R!Holding(u)' <=> R!Holding(u)
      BY <2>2, <3>3
    <3>5. R!Holding(t)' /\ R!Holding(t)
      BY <3>1, <3>3 DEF R!Holding
    <3>6. R!Cardinality(R!Holders') = R!Cardinality(R!Holders)
      BY <3>4, <3>5, HolderChange
    <3>7. R!Tokens' = R!Tokens /\ R!Tokens \in Nat
      BY <2>0, <3>1 DEF R!Tokens, R!Queue
    <3>8. R!Away(t)'
      BY <3>3 DEF R!Away
    <3> QED
      BY <2>0, <2>1, <3>1, <3>2, <3>6, <3>7, <3>8, ReadAway
  <2>6. CASE R!NotifyRandomReader(t)
    <3> DEFINE q == R!NotifiedQueue(t, R!get_notify_big_round(x - 1))
               last == (x - 1) % Factor = Factor - 1
    <3>1. /\ rpc[t] = "notify" /\ rpc' = [rpc EXCEPT ![t] = "out"]
          /\ notify_queues_' = IF last THEN [notify_queues_ EXCEPT ![q] = notify_queues_[q] + 1]
                               ELSE notify_queues_
          /\ UNCHANGED << waiting, local_block_offset >>
      BY <2>6 DEF R!NotifyRandomReader, R!Goto
    <3>2. x - 1 \in Nat /\ (x - 1) + 1 = x
      BY <2>0, <3>1
    <3>3. q \in R!Queue
      <4>1. R!get_notify_big_round(x - 1) \in Nat
        BY <2>0, <3>2, Quotient DEF R!get_notify_big_round
      <4> QED
        BY <2>0, <4>1, ReadQueues
    <3> HIDE DEF q
    <3>4. last <=> x % Factor = 0
      <4>1. (x - 1) % Factor = Factor - 1 <=> ((x - 1) + 1) % Factor = 0
        BY <2>0, <3>2, NextMultiple
      <4> QED
        BY <3>2, <4>1
    <3> HIDE DEF last
    <3>5. rpc'[t] = "out" /\ \A u \in R!Tid \ {t} : rpc'[u] = rpc[u]
      BY <2>0, <3>1
    <3>6. \A u \in R!Tid \ {t} : R!Holding(u)' <=> R!Holding(u)
      BY <2>2, <3>1, <3>5
    <3>7. R!Holding(t) /\ (R!Holding(t)' <=> ~ last)
      BY <3>1, <3>4, <3>5 DEF R!Holding
    <3>8. R!Away(t)'
      BY <2>0, <3>1 DEF R!Away
    <3>9. CASE last
      <4>1. notify_queues_[q] + 1 >= 0 /\ 1 \in Int
        BY <2>0, <3>3
      <4>2. /\ notify_queues_' \in [R!Queue -> Nat] /\ R!Tokens \in Nat /\ R!Tokens' \in Nat
            /\ R!Tokens' = R!Tokens + 1
        BY <2>0, <3>1, <3>3, <3>9, <4>1, TokenChange
      <4>3. /\ R!Cardinality(R!Holders') = R!Cardinality(R!Holders) - 1
            /\ R!Cardinality(R!Holders) \in Nat
        BY <3>6, <3>7, <3>9, HolderChange
      <4>4. R!Tokens' + R!Cardinality(R!Holders') = R!Tokens + R!Cardinality(R!Holders)
        BY <4>2, <4>3
      <4> QED
        BY <2>0, <2>1, <3>1, <3>8, <4>2, <4>4, ReadAway
    <3>10. CASE ~ last
      <4>1. R!Cardinality(R!Holders') = R!Cardinality(R!Holders)
        BY <3>6, <3>7, <3>10, HolderChange
      <4>2. notify_queues_' = notify_queues_
        BY <3>1, <3>10
      <4>3. R!Tokens' = R!Tokens /\ R!Tokens \in Nat
        BY <2>0, <4>2 DEF R!Tokens, R!Queue
      <4> QED
        BY <2>0, <2>1, <3>1, <3>8, <4>1, <4>2, <4>3, ReadAway
    <3> QED
      BY <3>9, <3>10
  <2> QED
    BY <1>2, <2>3, <2>4, <2>5, <2>6
<1>3. ASSUME NEW t \in R!Tid, R!Call(t), local_block_offset[t] = 0 PROVE R!IInv'
  BY <1>3, ReadFirst
<1>4. ASSUME NEW t \in R!Tid, R!BarrierWait(t) PROVE R!IInv'
  BY <1>4, ReadBarrier
<1>5. CASE R!Finished
  BY <1>1, <1>5 DEF R!Finished
<1>6. CASE \E t \in R!Tid : R!Call(t) \/ R!Step(t)
  <2>1. PICK t \in R!Tid : R!Call(t) \/ R!Step(t)
    BY <1>6
  <2>2. \/ R!Call(t) /\ local_block_offset[t] # 0
        \/ R!Call(t) /\ local_block_offset[t] = 0
        \/ R!BarrierWait(t) \/ R!Take(t) \/ R!ReadValue(t) \/ R!NotifyRandomReader(t)
    BY <2>1 DEF R!Step
  <2> QED
    BY <1>2, <1>3, <1>4, <2>2
<1> QED
  BY <1>1, <1>5, <1>6 DEF R!Next

LEMMA ReadInit ==
  ASSUME R!Init
  PROVE  R!IInv
<1>1. /\ \A t \in R!Tid : rpc[t] = "out" /\ local_block_offset[t] = 0
      /\ waiting = {} /\ 0 \in R!Tid
  BY TidCount DEF R!Init
<1>2. ~ R!Begun
  BY <1>1 DEF R!Begun, R!Away
<1>3. R!TypeOK
  <2>1. 0 \in 0 .. NumThreads \div 2 /\ 0 \in 0 .. Reads
    BY Halves, SyncNumbers
  <2> QED
    BY <2>1 DEF R!Init, R!TypeOK
<1>4. R!StartInv
  BY <1>1, <1>2 DEF R!StartInv
<1> QED
  BY <1>2, <1>3, <1>4 DEF R!IInv, R!TokensConserved

LEMMA SyncIsRead == SyncSpec => R!Init /\ [][R!Next]_(R!vars)
<1>1. SyncInit => R!Init
  BY DEF SyncInit
<1>2. [SyncNext]_all => [R!Next]_(R!vars)
  <2>1. [SyncNext]_all => [R!Next]_readVars
    BY DEF SyncNext, MayStop, all
  <2> QED
    BY <2>1 DEF readVars, R!vars
<1> QED
  BY <1>1, <1>2, PTL DEF SyncSpec

(***************************************************************************)
(* The tokens by which the readers of the two groups let each other go on  *)
(* are neither lost nor made: once all threads have met at the barrier,    *)
(* half as many reads as threads are in flight or allowed, for any number  *)
(* of threads and any factor (Read, NotifyRandomReader).                   *)
(***************************************************************************)
THEOREM TokensComeOutEven == SyncSpec => []TokensConserved
<1>1. R!Init => R!IInv
  BY ReadInit
<1>2. R!IInv /\ [R!Next]_(R!vars) => R!IInv'
  BY ReadStep
<1> QED
  BY <1>1, <1>2, SyncIsRead, PTL DEF TokensConserved


-----------------------------------------------------------------------------
(* ReadBucket.                                                              *)

LEMMA BucketNumbers ==
  ASSUME value_num \in 0 .. MaxValues
  PROVE  /\ Agg \in Nat /\ Agg > 0 /\ value_num \in Nat /\ MaxValues \in Nat
         /\ value_num \div Agg \in Nat /\ B!remain_value_num \in 0 .. Agg - 1
         /\ value_num = Agg * (value_num \div Agg) + B!remain_value_num
         /\ B!total_block_num \in Nat
         /\ \A b \in 0 .. B!total_block_num - 1 :
              /\ b \in Nat /\ B!SizeOf(b) \in 1 .. Agg
              /\ \/ b < value_num \div Agg /\ B!SizeOf(b) = Agg
                 \/ b = value_num \div Agg /\ B!SizeOf(b) = B!remain_value_num
         /\ \A b \in Nat : b < value_num \div Agg => b \in 0 .. B!total_block_num - 1
         /\ B!remain_value_num > 0 => value_num \div Agg \in 0 .. B!total_block_num - 1
<1>1. Agg \in Nat /\ Agg > 0 /\ value_num \in Nat /\ MaxValues \in Nat
  BY SyncNumbers
<1> DEFINE q == value_num \div Agg
           r == value_num % Agg
<1>2. q \in Nat /\ r \in 0 .. Agg - 1 /\ value_num = Agg * q + r
  BY <1>1, Quotient
<1>3. B!total_block_num = IF r = 0 THEN q ELSE q + 1
  BY DEF B!total_block_num, B!remain_value_num
<1>4. \A b : B!SizeOf(b) = IF b = B!total_block_num - 1 /\ r # 0 THEN r ELSE Agg
  BY DEF B!SizeOf, B!remain_value_num
<1> HIDE DEF q, r
<1>5. B!total_block_num \in Nat
  BY <1>2, <1>3
<1>6. ASSUME NEW b \in 0 .. B!total_block_num - 1
      PROVE  /\ b \in Nat /\ B!SizeOf(b) \in 1 .. Agg
             /\ \/ b < q /\ B!SizeOf(b) = Agg
                \/ b = q /\ B!SizeOf(b) = r
  BY <1>1, <1>2, <1>3, <1>4
<1>7. /\ \A b \in Nat : b < q => b \in 0 .. B!total_block_num - 1
      /\ r > 0 => q \in 0 .. B!total_block_num - 1
  BY <1>2, <1>3
<1> QED
  BY <1>1, <1>2, <1>5, <1>6, <1>7 DEF q, r, B!remain_value_num

\* The blocks of a bucket are not empty, lie one after the other, and fill it.
LEMMA BucketBlocks ==
  ASSUME value_num \in 0 .. MaxValues
  PROVE  /\ \A b \in 0 .. B!total_block_num - 1 :
              /\ b * Agg \in Nat /\ B!SizeOf(b) \in 1 .. Agg
              /\ B!ValuesOf(B!Block(b)) = b * Agg .. b * Agg + B!SizeOf(b) - 1
              /\ b * Agg \in B!ValuesOf(B!Block(b))
              /\ B!ValuesOf(B!Block(b)) \subseteq 0 .. value_num - 1
              /\ B!Block(b) \in B!Task /\ B!Block(b) # B!Finished
         /\ \A b, d \in 0 .. B!total_block_num - 1 :
              b # d => B!ValuesOf(B!Block(b)) \cap B!ValuesOf(B!Block(d)) = {} /\ B!Block(b) # B!Block(d)
         /\ \A v \in 0 .. value_num - 1 : \E b \in 0 .. B!total_block_num - 1 : v \in B!ValuesOf(B!Block(b))
<1> DEFINE q == value_num \div Agg
           r == B!remain_value_num
           N == B!total_block_num
<1>1. /\ Agg \in Nat /\ Agg > 0 /\ value_num \in Nat /\ q \in Nat /\ r \in 0 .. Agg - 1
      /\ value_num = Agg * q + r /\ N \in Nat /\ MaxValues \in Nat /\ value_num <= MaxValues
      /\ \A b \in 0 .. N - 1 :
           /\ b \in Nat /\ B!SizeOf(b) \in 1 .. Agg
           /\ (b < q /\ B!SizeOf(b) = Agg) \/ (b = q /\ B!SizeOf(b) = r)
      /\ \A b \in Nat : b < q => b \in 0 .. N - 1
      /\ r > 0 => q \in 0 .. N - 1
  BY BucketNumbers
<1> HIDE DEF q, r, N
<1>2. ASSUME NEW b \in Nat, NEW d \in Nat, b < d
      PROVE  b * Agg \in Nat /\ d * Agg \in Nat /\ b * Agg + Agg <= d * Agg
  <2>1. (d - b - 1) \in Nat /\ (d - b - 1) * Agg >= 0
    BY <1>1, <1>2
  <2>2. (d - b - 1) * Agg = d * Agg - b * Agg - Agg
    BY <1>1
  <2> QED
    BY <1>1, <2>1, <2>2
<1>3. ASSUME NEW b \in 0 .. N - 1
      PROVE  /\ b * Agg \in Nat /\ B!SizeOf(b) \in 1 .. Agg
             /\ B!ValuesOf(B!Block(b)) = b * Agg .. b * Agg + B!SizeOf(b) - 1
             /\ b * Agg + B!SizeOf(b) <= value_num
  <2>1. b \in Nat /\ B!SizeOf(b) \in 1 .. Agg /\ b * Agg \in Nat /\ q * Agg \in Nat /\ Agg * q = q * Agg
    BY <1>1, <1>3
  <2>2. CASE b < q /\ B!SizeOf(b) = Agg
    BY <1>1, <1>2, <2>1, <2>2 DEF B!ValuesOf, B!Block
  <2>3. CASE b = q /\ B!SizeOf(b) = r
    BY <1>1, <2>1, <2>3 DEF B!ValuesOf, B!Block
  <2> QED
    BY <1>1, <1>3, <2>2, <2>3
<1>4. ASSUME NEW b \in 0 .. N - 1
      PROVE  /\ b * Agg \in B!ValuesOf(B!Block(b))
             /\ B!ValuesOf(B!Block(b)) \subseteq 0 .. value_num - 1
             /\ B!Block(b) \in B!Task /\ B!Block(b) # B!Finished
  <2>1. /\ b * Agg \in Nat /\ B!SizeOf(b) \in 1 .. Agg /\ B!SizeOf(b) \in Nat /\ B!SizeOf(b) >= 1
        /\ b * Agg + B!SizeOf(b) <= value_num
        /\ B!ValuesOf(B!Block(b)) = b * Agg .. b * Agg + B!SizeOf(b) - 1
    BY <1>1, <1>3, <1>4
  <2> DEFINE lo == b * Agg
             size == B!SizeOf(b)
  <2>2. lo \in Nat /\ size \in Nat /\ size >= 1 /\ lo + size <= value_num
    BY <2>1
  <2>3. B!Block(b) = [first |-> lo, size |-> size] /\ B!ValuesOf(B!Block(b)) = lo .. lo + size - 1
    BY <2>1 DEF B!Block
  <2> HIDE DEF lo, size
  <2>4. lo \in lo .. lo + size - 1 /\ lo .. lo + size - 1 \subseteq 0 .. value_num - 1 /\ lo \in 0 .. MaxValues
    BY <1>1, <2>2
  <2>5. size \in 1 .. Agg
    BY <2>1 DEF size
  <2>6. B!Block(b) # B!Finished
    BY <2>2, <2>3 DEF B!Finished
  <2>7. B!Block(b) \in B!Task
    BY <2>3, <2>4, <2>5 DEF B!Task
  <2> QED
    BY <2>3, <2>4, <2>6, <2>7 DEF lo
<1>5. ASSUME NEW b \in 0 .. N - 1, NEW d \in 0 .. N - 1, b < d
      PROVE  B!ValuesOf(B!Block(b)) \cap B!ValuesOf(B!Block(d)) = {}
  <2>1. b * Agg + Agg <= d * Agg /\ b * Agg \in Nat /\ d * Agg \in Nat
    BY <1>1, <1>2, <1>5
  <2>2. B!SizeOf(b) \in Nat /\ B!SizeOf(b) <= Agg /\ B!SizeOf(d) \in Nat
    BY <1>1, <1>3, <1>5
  <2>3. /\ B!ValuesOf(B!Block(b)) = b * Agg .. b * Agg + B!SizeOf(b) - 1
        /\ B!ValuesOf(B!Block(d)) = d * Agg .. d * Agg + B!SizeOf(d) - 1
    BY <1>3, <1>5
  <2> DEFINE lo == b * Agg
             hi == d * Agg
  <2>4. /\ lo \in Nat /\ hi \in Nat /\ lo + Agg <= hi
        /\ B!ValuesOf(B!Block(b)) = lo .. lo + B!SizeOf(b) - 1
        /\ B!ValuesOf(B!Block(d)) = hi .. hi + B!SizeOf(d) - 1
    BY <2>1, <2>3
  <2> HIDE DEF lo, hi
  <2> QED
    BY <1>1, <2>2, <2>4
<1>6. ASSUME NEW b \in 0 .. N - 1, NEW d \in 0 .. N - 1, b # d
      PROVE  B!ValuesOf(B!Block(b)) \cap B!ValuesOf(B!Block(d)) = {} /\ B!Block(b) # B!Block(d)
  <2>1. b < d \/ d < b
    BY <1>1, <1>6
  <2>2. B!ValuesOf(B!Block(b)) \cap B!ValuesOf(B!Block(d)) = {}
    BY <1>5, <1>6, <2>1
  <2> QED
    BY <1>4, <1>6, <2>2
<1>7. ASSUME NEW v \in 0 .. value_num - 1
      PROVE  \E b \in 0 .. N - 1 : v \in B!ValuesOf(B!Block(b))
  <2> DEFINE b == v \div Agg
             m == v % Agg
  <2>1. v \in Nat /\ v < value_num /\ b \in Nat /\ m \in 0 .. Agg - 1 /\ v = Agg * b + m
    BY <1>1, <1>7, Quotient
  <2> HIDE DEF b, m
  <2>2. b * Agg \in Nat /\ q * Agg \in Nat /\ v = b * Agg + m /\ value_num = q * Agg + r
    BY <1>1, <2>1
  <2>3. b <= q
    <3> SUFFICES ASSUME q < b PROVE FALSE
      BY <1>1, <2>1
    <3>1. q * Agg + Agg <= b * Agg
      BY <1>1, <1>2, <2>1
    <3> QED
      BY <1>1, <2>1, <2>2, <3>1
  <2>4. CASE b < q
    <3>1. b \in 0 .. N - 1 /\ B!SizeOf(b) = Agg
      BY <1>1, <2>1, <2>4
    <3>2. v \in b * Agg .. b * Agg + Agg - 1
      BY <1>1, <2>1, <2>2
    <3> QED
      BY <1>3, <3>1, <3>2
  <2>5. CASE b = q
    <3>1. m < r /\ r > 0
      BY <1>1, <2>1, <2>2, <2>5
    <3>2. b \in 0 .. N - 1 /\ B!SizeOf(b) = r
      BY <1>1, <2>1, <2>5, <3>1
    <3>3. v \in b * Agg .. b * Agg + r - 1
      BY <1>1, <2>1, <2>2, <3>1
    <3> QED
      BY <1>3, <3>2, <3>3
  <2> QED
    BY <1>1, <2>1, <2>3, <2>4, <2>5
<1> QED
  BY <1>3, <1>4, <1>6, <1>7 DEF N


LEMMA BucketWorkers ==
  /\ IsFiniteSet(B!Worker) /\ 0 \in B!Worker /\ Depth - 1 \in B!Worker
  /\ \A w \in B!Worker : w \in Nat /\ w <= Depth - 1 /\ (w + 1) % Depth \in B!Worker
  /\ \A w \in B!Worker : w # Depth - 1 => w + 1 \in B!Worker
<1>1. Depth \in Nat \ {0}
  BY SyncNumbers
<1>2. \A w \in B!Worker : w \in Nat /\ w <= Depth - 1 /\ w + 1 \in Nat
  BY <1>1 DEF B!Worker
<1>3. \A w \in B!Worker : (w + 1) % Depth \in 0 .. Depth - 1
  BY <1>1, <1>2, Quotient
<1>4. \A w \in B!Worker : w # Depth - 1 => w + 1 \in B!Worker
  BY <1>1 DEF B!Worker
<1>5. IsFiniteSet(0 .. Depth - 1)
  BY <1>1, FS_Interval
<1> QED
  BY <1>1, <1>2, <1>3, <1>4, <1>5 DEF B!Worker

LEMMA BucketFacts ==
  ASSUME B!IInv
  PROVE  /\ B!TypeOK /\ B!CoordinatorInv /\ B!FillInv /\ \A w \in B!Worker : B!WorkerInv(w)
         /\ value_num \in 0 .. MaxValues /\ B!total_block_num \in Nat
         /\ submitted_block_num \in Nat /\ submitted_block_num <= B!total_block_num
         /\ completed_block_num \in Nat /\ completed_block_num <= submitted_block_num
         /\ \A b \in 0 .. submitted_block_num - 1 : b \in 0 .. B!total_block_num - 1
         /\ io_id \in B!Worker
         /\ ioCpc \in {"idle", "peek", "submit", "enqueue", "stopping", "stopped"}
         /\ status \in [B!Worker -> {"IDLE", "SUBMITTED", "COMPLETED"}]
         /\ ioTasks \in [B!Worker -> Seq(B!Task \cup {B!Finished})]
         /\ ioWpc \in [B!Worker -> {"dequeue", "read", "complete", "exited"}]
         /\ wtask \in [B!Worker -> B!Task \cup {B!Finished}]
<1>1. B!TypeOK /\ B!CoordinatorInv /\ B!FillInv /\ \A w \in B!Worker : B!WorkerInv(w)
  BY DEF B!IInv
<1>2. value_num \in 0 .. MaxValues
  BY <1>1 DEF B!TypeOK
<1>3. B!total_block_num \in Nat
  BY <1>2, BucketNumbers
<1>4. /\ submitted_block_num \in Nat /\ submitted_block_num <= B!total_block_num
      /\ completed_block_num \in Nat /\ completed_block_num <= submitted_block_num
      /\ \A b \in 0 .. submitted_block_num - 1 : b \in 0 .. B!total_block_num - 1
  <2>1. submitted_block_num \in 0 .. B!total_block_num
    BY <1>1 DEF B!TypeOK
  <2>2. submitted_block_num \in Nat
    BY <1>3, <2>1
  <2>3. completed_block_num \in 0 .. submitted_block_num
    BY <1>1 DEF B!TypeOK
  <2> QED
    BY <1>3, <2>1, <2>2, <2>3
<1> QED
  BY <1>1, <1>2, <1>3, <1>4 DEF B!TypeOK

\* How many workers are busy.
LEMMA BusyCount ==
  /\ IsFiniteSet(B!Busy) /\ IsFiniteSet(B!Busy')
  /\ B!Cardinality(B!Busy) \in Nat /\ B!Cardinality(B!Busy') \in Nat
  /\ B!Cardinality(B!Busy) = 0 => B!Busy = {}
  /\ B!Cardinality(B!Busy') = 0 => B!Busy' = {}
  /\ \A w : w \notin B!Busy /\ B!Busy' = B!Busy \cup {w} => B!Cardinality(B!Busy') = B!Cardinality(B!Busy) + 1
  /\ \A w : w \notin B!Busy' /\ B!Busy = B!Busy' \cup {w} => B!Cardinality(B!Busy') = B!Cardinality(B!Busy) - 1
<1>1. IsFiniteSet(B!Busy) /\ IsFiniteSet(B!Busy')
  BY BucketWorkers, FS_Subset DEF B!Busy
<1>2. Cardinality(B!Busy) \in Nat /\ Cardinality(B!Busy') \in Nat
  BY <1>1, FS_CardinalityType
<1>3. /\ Cardinality(B!Busy) = 0 => B!Busy = {}
      /\ Cardinality(B!Busy') = 0 => B!Busy' = {}
  BY <1>1, FS_EmptySet
<1>4. ASSUME NEW w, w \notin B!Busy, B!Busy' = B!Busy \cup {w}
      PROVE  Cardinality(B!Busy') = Cardinality(B!Busy) + 1
  BY <1>1, <1>4, CountOne
<1>5. ASSUME NEW w, w \notin B!Busy', B!Busy = B!Busy' \cup {w}
      PROVE  Cardinality(B!Busy') = Cardinality(B!Busy) - 1
  <2>1. Cardinality(B!Busy) = Cardinality(B!Busy') + 1
    BY <1>1, <1>5, CountOne
  <2> QED
    BY <1>2, <2>1
<1>6. B!Cardinality(B!Busy) = Cardinality(B!Busy) /\ B!Cardinality(B!Busy') = Cardinality(B!Busy')
  BY SameCounting
<1> QED
  BY <1>1, <1>2, <1>3, <1>4, <1>5, <1>6

\* Nothing in the buffer changes when no worker takes or leaves a block.
LEMMA FillSame ==
  ASSUME B!FillInv, UNCHANGED << value_num, submitted_block_num, filled >>,
         \A w \in B!Worker, b \in 0 .. submitted_block_num - 1 : B!Holds(w, b)' <=> B!Holds(w, b)
  PROVE  B!FillInv'
<1> DEFINE D == 0 .. submitted_block_num - 1
<1>1. \A b \in D : B!InFlight(b)' <=> B!InFlight(b)
  BY DEF B!InFlight
<1>2. \A b : B!ValuesOf(B!Block(b))' = B!ValuesOf(B!Block(b))
  BY DEF B!ValuesOf, B!Block, B!SizeOf, B!total_block_num, B!remain_value_num
<1>3. {x \in D : ~ B!InFlight(x)'} = {x \in D : ~ B!InFlight(x)}
  BY <1>1
<1>4. filled' = UNION {B!ValuesOf(B!Block(b))' : b \in {x \in D : ~ B!InFlight(x)'}}
  BY <1>2, <1>3 DEF B!FillInv
<1>5. \A v, w \in B!Worker, b \in D : B!Holds(v, b)' /\ B!Holds(w, b)' => v = w
  BY DEF B!FillInv
<1> QED
  BY <1>4, <1>5 DEF B!FillInv, B!ValuesOf

\* A sequence of one task.
LEMMA OneTask ==
  /\ \A x : /\ << x >> # << >> /\ Head(<< x >>) = x /\ Tail(<< x >>) = << >> /\ Append(<< >>, x) = << x >>
            /\ Len(<< x >>) = 1 /\ << x >>[1] = x
  /\ \A x, y : << x >> = << y >> => x = y
  /\ Len(<< >>) = 0
OBVIOUS

\* When nobody has a block.
LEMMA RestHolds ==
  ASSUME value_num \in 0 .. MaxValues, NEW w \in B!Worker,
         ioWpc[w] # "read", ioTasks[w] = << >> \/ ioTasks[w] = << B!Finished >>
  PROVE  \A b \in 0 .. B!total_block_num - 1 : ~ B!Holds(w, b)
BY BucketBlocks, OneTask, ZenonT(30) DEF B!Holds


\* A step of the coordinator that leaves the buffer and the workers alone.
LEMMA BucketKept ==
  ASSUME B!IInv, UNCHANGED << value_num, submitted_block_num, filled, ioTasks, ioWpc, wtask >>,
         ~ B!Stopping, ~ B!Stopping',
         \A w \in B!Worker : B!Submitted(w)' <=> B!Submitted(w)
  PROVE  B!FillInv' /\ \A w \in B!Worker : B!WorkerInv(w)'
<1>1. \A b : B!Block(b)' = B!Block(b)
  BY DEF B!Block, B!SizeOf, B!total_block_num, B!remain_value_num
<1>2. \A w \in B!Worker, b \in 0 .. submitted_block_num - 1 : B!Holds(w, b)' <=> B!Holds(w, b)
  BY <1>1 DEF B!Holds
<1>3. B!FillInv'
  BY <1>2, BucketFacts, FillSame
<1>4. ASSUME NEW w \in B!Worker PROVE B!WorkerInv(w)'
  <2>1. B!WorkerInv(w) /\ (B!Submitted(w)' <=> B!Submitted(w))
    BY <1>4, BucketFacts
  <2> QED
    BY <1>1, <2>1 DEF B!WorkerInv, B!Resting
<1> QED
  BY <1>3, <1>4

LEMMA BucketPeek ==
  ASSUME B!IInv, B!Peek
  PROVE  B!IInv'
<1> DEFINE w == io_id
           seen == IF status[w] = "COMPLETED" THEN 1 ELSE 0
           total == B!total_block_num
<1>1. /\ ioCpc = "peek" /\ completed_block_num' = completed_block_num + seen
      /\ status' = IF seen = 1 THEN [status EXCEPT ![w] = "IDLE"] ELSE status
      /\ UNCHANGED << calls, value_num, submitted_block_num, filled, ioTasks, ioWpc, wtask >>
  BY DEF B!Peek, B!workers
<1>2. \/ /\ submitted_block_num < total /\ status'[w] = "IDLE" /\ ioCpc' = "submit" /\ UNCHANGED io_id
      \/ /\ io_id' = (io_id + 1) % Depth
         /\ ioCpc' = IF io_id = Depth - 1 /\ completed_block_num' = total THEN "idle" ELSE "peek"
  BY DEF B!Peek, B!NextWorker
<1>3. /\ submitted_block_num \in Nat /\ submitted_block_num <= total /\ total \in Nat
      /\ completed_block_num \in Nat /\ w \in B!Worker
      /\ status \in [B!Worker -> {"IDLE", "SUBMITTED", "COMPLETED"}]
      /\ completed_block_num + B!Cardinality(B!Busy) = submitted_block_num
  BY BucketFacts DEF B!CoordinatorInv
<1>4. /\ total' = total /\ io_id' \in B!Worker /\ ioCpc' \in {"submit", "peek", "idle"}
  BY <1>1, <1>2, <1>3, BucketWorkers DEF B!total_block_num, B!remain_value_num
<1>5. /\ \A u \in B!Worker : ~ B!Queueing(u) /\ ~ B!Queueing(u)'
      /\ ~ B!Stopping /\ ~ B!Stopping'
  BY <1>1, <1>4 DEF B!Queueing, B!Stopping
<1>6. \A u \in B!Worker : status'[u] = IF u = w /\ status[w] = "COMPLETED" THEN "IDLE" ELSE status[u]
  BY <1>1, <1>3
<1>7. \A u \in B!Worker : B!Submitted(u)' <=> B!Submitted(u)
  <2> SUFFICES ASSUME NEW u \in B!Worker PROVE status'[u] = "SUBMITTED" <=> status[u] = "SUBMITTED"
    BY <1>5 DEF B!Submitted
  <2> QED
    BY <1>6
<1>8. completed_block_num' + B!Cardinality(B!Busy') = submitted_block_num'
  <2>1. CASE status[w] = "COMPLETED"
    <3>1. w \notin B!Busy' /\ B!Busy = B!Busy' \cup {w}
      BY <1>3, <1>5, <1>6, <2>1 DEF B!Busy
    <3>2. B!Cardinality(B!Busy') = B!Cardinality(B!Busy) - 1 /\ B!Cardinality(B!Busy) \in Nat
      BY <3>1, BusyCount
    <3> QED
      BY <1>1, <1>3, <2>1, <3>2
  <2>2. CASE status[w] # "COMPLETED"
    <3>1. B!Busy' = B!Busy
      BY <1>5, <1>6, <2>2 DEF B!Busy
    <3> QED
      BY <1>1, <1>3, <2>2, <3>1
  <2> QED
    BY <2>1, <2>2
<1>9. completed_block_num' \in Nat /\ completed_block_num' <= submitted_block_num'
  <2>1. B!Cardinality(B!Busy') \in Nat /\ completed_block_num' \in Nat
    BY <1>1, <1>3, BusyCount
  <2> QED
    BY <1>1, <1>3, <1>8, <2>1
<1>10. B!TypeOK'
  <2>1. status' \in [B!Worker -> {"IDLE", "SUBMITTED", "COMPLETED"}]
    BY <1>1, <1>3
  <2>2. completed_block_num' \in 0 .. submitted_block_num'
    BY <1>1, <1>3, <1>9
  <2> QED
    BY <1>1, <1>4, <2>1, <2>2, BucketFacts DEF B!TypeOK
<1>11. ioCpc' = "idle" => completed_block_num' = total' /\ \A u \in B!Worker : status'[u] = "IDLE"
  <2> SUFFICES ASSUME ioCpc' = "idle"
               PROVE  completed_block_num' = total' /\ \A u \in B!Worker : status'[u] = "IDLE"
    OBVIOUS
  <2>1. completed_block_num' = total
    BY <1>2
  <2>2. B!Cardinality(B!Busy') = 0
    BY <1>1, <1>3, <1>8, <1>9, <2>1, BusyCount
  <2>3. B!Busy' = {}
    BY <2>2, BusyCount
  <2> QED
    BY <1>4, <1>5, <2>1, <2>3 DEF B!Busy
<1>12. B!CoordinatorInv'
  <2>1. ioCpc' = "submit" => status'[io_id'] = "IDLE" /\ submitted_block_num' < total'
    BY <1>1, <1>2, <1>4
  <2> QED
    BY <1>4, <1>8, <1>11, <2>1 DEF B!CoordinatorInv
<1>13. B!FillInv' /\ \A u \in B!Worker : B!WorkerInv(u)'
  BY <1>1, <1>5, <1>7, BucketKept
<1> QED
  BY <1>10, <1>12, <1>13 DEF B!IInv

LEMMA BucketSubmit ==
  ASSUME B!IInv, B!Submit
  PROVE  B!IInv'
<1> DEFINE w == io_id
<1>1. /\ ioCpc = "submit" /\ ioCpc' = "enqueue" /\ status' = [status EXCEPT ![w] = "SUBMITTED"]
      /\ UNCHANGED << calls, value_num, completed_block_num, submitted_block_num, filled, io_id,
                      ioTasks, ioWpc, wtask >>
  BY DEF B!Submit, B!workers, B!counts
<1>2. /\ w \in B!Worker /\ status \in [B!Worker -> {"IDLE", "SUBMITTED", "COMPLETED"}]
      /\ status[w] = "IDLE" /\ submitted_block_num < B!total_block_num
      /\ completed_block_num + B!Cardinality(B!Busy) = submitted_block_num
  BY <1>1, BucketFacts DEF B!CoordinatorInv
<1>3. B!total_block_num' = B!total_block_num
  BY <1>1 DEF B!total_block_num, B!remain_value_num
<1>4. /\ \A u \in B!Worker : ~ B!Queueing(u) /\ (B!Queueing(u)' <=> u = w)
      /\ ~ B!Stopping /\ ~ B!Stopping'
  BY <1>1 DEF B!Queueing, B!Stopping
<1>5. \A u \in B!Worker : status'[u] = IF u = w THEN "SUBMITTED" ELSE status[u]
  BY <1>1, <1>2
<1>6. \A u \in B!Worker : B!Submitted(u)' <=> B!Submitted(u)
  BY <1>2, <1>4, <1>5 DEF B!Submitted
<1>7. B!Busy' = B!Busy
  BY <1>2, <1>4, <1>5 DEF B!Busy
<1>8. B!TypeOK'
  <2>1. status' \in [B!Worker -> {"IDLE", "SUBMITTED", "COMPLETED"}]
    BY <1>1, <1>2
  <2> QED
    BY <1>1, <1>3, <2>1, BucketFacts DEF B!TypeOK
<1>9. B!CoordinatorInv'
  BY <1>1, <1>2, <1>3, <1>5, <1>7 DEF B!CoordinatorInv
<1>10. B!FillInv' /\ \A u \in B!Worker : B!WorkerInv(u)'
  BY <1>1, <1>4, <1>6, BucketKept
<1> QED
  BY <1>8, <1>9, <1>10 DEF B!IInv

LEMMA BucketCall ==
  ASSUME B!IInv, B!Call
  PROVE  B!IInv'
<1>1. /\ ioCpc = "idle" /\ calls < MaxCalls /\ calls' = calls + 1 /\ value_num' \in 0 .. MaxValues
      /\ filled' = {} /\ completed_block_num' = 0 /\ submitted_block_num' = 0 /\ io_id' = 0
      /\ ioCpc' = IF value_num' = 0 THEN "idle" ELSE "peek"
      /\ UNCHANGED << status, ioTasks, ioWpc, wtask >>
  BY DEF B!Call, B!workers
<1>2. \A w \in B!Worker : status[w] = "IDLE"
  BY <1>1, BucketFacts DEF B!CoordinatorInv
<1>3. ~ B!Stopping /\ ~ B!Stopping'
      /\ \A w \in B!Worker : ~ B!Submitted(w) /\ ~ B!Submitted(w)'
  BY <1>1, <1>2 DEF B!Stopping, B!Submitted
<1>4. \A w \in B!Worker : B!Resting(w)
  BY <1>3, BucketFacts DEF B!WorkerInv
<1>5. \A w \in B!Worker : B!WorkerInv(w)'
  BY <1>1, <1>3, <1>4 DEF B!WorkerInv, B!Resting
<1>6. B!total_block_num' \in Nat /\ (value_num' = 0 => B!total_block_num' = 0)
  <2>1. Agg \in Nat \ {0} /\ value_num' \in Nat
    BY <1>1, SyncNumbers
  <2>2. value_num' \div Agg \in Nat
    BY <2>1, Quotient
  <2>3. ASSUME value_num' = 0 PROVE value_num' \div Agg = 0 /\ value_num' % Agg = 0
    <3>1. 0 = Agg * 0 + 0 /\ 0 \in 0 .. Agg - 1
      BY <2>1
    <3> QED
      BY <2>1, <2>3, <3>1, QuotientIs
  <2> QED
    BY <2>2, <2>3 DEF B!total_block_num, B!remain_value_num
<1>7. B!Cardinality(B!Busy') = 0
  <2>1. B!Busy' = {}
    BY <1>1, <1>2 DEF B!Busy
  <2> QED
    BY <2>1, FS_EmptySet, SameCounting
<1>8. B!TypeOK'
  <2>1. calls' \in 0 .. MaxCalls
    <3>1. calls \in 0 .. MaxCalls
      BY BucketFacts DEF B!TypeOK
    <3> QED
      BY <1>1, <3>1, SyncNumbers
  <2>2. submitted_block_num' \in 0 .. B!total_block_num' /\ completed_block_num' \in 0 .. submitted_block_num'
    BY <1>1, <1>6
  <2> QED
    BY <1>1, <2>1, <2>2, BucketFacts, BucketWorkers DEF B!TypeOK
<1>9. B!CoordinatorInv'
  BY <1>1, <1>2, <1>6, <1>7 DEF B!CoordinatorInv
<1>10. B!FillInv'
  <2>1. 0 .. submitted_block_num' - 1 = {}
    BY <1>1
  <2> QED
    BY <1>1, <2>1 DEF B!FillInv
<1> QED
  BY <1>5, <1>8, <1>9, <1>10 DEF B!IInv

LEMMA BucketStop ==
  ASSUME B!IInv, B!Stop \/ B!JoinWorker
  PROVE  B!IInv'
<1>1. /\ UNCHANGED << calls, value_num, completed_block_num, submitted_block_num, filled, status, ioWpc, wtask >>
      /\ ioCpc \in {"idle", "stopping"} /\ ioCpc' \in {"stopping", "stopped"}
      /\ \/ ioCpc = "idle" /\ io_id' = 0 /\ ioTasks' = [ioTasks EXCEPT ![0] = Append(ioTasks[0], B!Finished)]
         \/ ioCpc = "stopping" /\ UNCHANGED << io_id, ioTasks >>
         \/ /\ ioCpc = "stopping" /\ io_id # Depth - 1 /\ io_id' = io_id + 1
            /\ ioTasks' = [ioTasks EXCEPT ![io_id + 1] = Append(ioTasks[io_id + 1], B!Finished)]
  BY DEF B!Stop, B!JoinWorker, B!workers, B!counts
<1>2. /\ \A w \in B!Worker : status[w] = "IDLE"
      /\ completed_block_num = B!total_block_num
      /\ completed_block_num + B!Cardinality(B!Busy) = submitted_block_num
      /\ ioTasks \in [B!Worker -> Seq(B!Task \cup {B!Finished})] /\ io_id \in B!Worker
      /\ value_num \in 0 .. MaxValues
  BY <1>1, BucketFacts DEF B!CoordinatorInv
<1>3. /\ B!total_block_num' = B!total_block_num /\ B!Stopping'
      /\ \A w \in B!Worker : ~ B!Submitted(w) /\ ~ B!Submitted(w)'
  BY <1>1, <1>2 DEF B!total_block_num, B!remain_value_num, B!Stopping, B!Submitted
<1>4. ASSUME NEW w \in B!Worker
      PROVE  /\ ioWpc[w] \in {"dequeue", "exited"}
             /\ ioCpc = "idle" => ioTasks[w] = << >>
             /\ ioCpc = "stopping" => ioTasks[w] = << >> \/ (ioTasks[w] = << B!Finished >> /\ w <= io_id)
  BY <1>1, <1>3, <1>4, BucketFacts DEF B!WorkerInv, B!Resting, B!Stopping
<1>5. io_id' \in B!Worker /\ \A w \in B!Worker : ioTasks'[w] = << >> \/ (ioTasks'[w] = << B!Finished >> /\ w <= io_id')
  <2>1. CASE ioCpc = "idle" /\ io_id' = 0 /\ ioTasks' = [ioTasks EXCEPT ![0] = Append(ioTasks[0], B!Finished)]
    <3>1. \A w \in B!Worker : ioTasks'[w] = IF w = 0 THEN << B!Finished >> ELSE << >>
      BY <1>2, <1>4, <2>1, OneTask, BucketWorkers
    <3>2. io_id' = 0 /\ io_id' \in B!Worker /\ 0 <= io_id'
      BY <2>1, BucketWorkers
    <3>3. ASSUME NEW w \in B!Worker
          PROVE  ioTasks'[w] = << >> \/ (ioTasks'[w] = << B!Finished >> /\ w <= io_id')
      <4>1. CASE w = 0
        BY <3>1, <3>2, <3>3, <4>1
      <4>2. CASE w # 0
        BY <3>1, <3>3, <4>2
      <4> QED
        BY <4>1, <4>2
    <3> QED
      BY <3>2, <3>3
  <2>2. CASE ioCpc = "stopping" /\ UNCHANGED << io_id, ioTasks >>
    BY <1>2, <1>4, <2>2
  <2>3. CASE /\ ioCpc = "stopping" /\ io_id # Depth - 1 /\ io_id' = io_id + 1
             /\ ioTasks' = [ioTasks EXCEPT ![io_id + 1] = Append(ioTasks[io_id + 1], B!Finished)]
    <3>1. io_id + 1 \in B!Worker /\ io_id \in Nat /\ \A w \in B!Worker : w \in Nat
      BY <1>2, <2>3, BucketWorkers
    <3>2. ioTasks[io_id + 1] = << >>
      <4>1. ~ (io_id + 1 <= io_id)
        BY <3>1
      <4> QED
        BY <1>4, <2>3, <3>1, <4>1
    <3>3. \A w \in B!Worker : ioTasks'[w] = IF w = io_id + 1 THEN << B!Finished >> ELSE ioTasks[w]
      BY <1>2, <2>3, <3>1, <3>2, OneTask
    <3>4. \A w \in B!Worker : w <= io_id => w <= io_id'
      BY <2>3, <3>1
    <3> QED
      BY <1>4, <2>3, <3>1, <3>3, <3>4
  <2> QED
    BY <1>1, <2>1, <2>2, <2>3
<1>6. \A w \in B!Worker : B!WorkerInv(w)'
  BY <1>1, <1>3, <1>4, <1>5 DEF B!WorkerInv
<1>7. B!TypeOK'
  <2>1. ioTasks' \in [B!Worker -> Seq(B!Task \cup {B!Finished})]
    <3>1. \A w \in B!Worker : ioTasks'[w] \in Seq(B!Task \cup {B!Finished})
      <4> DEFINE Job == B!Task \cup {B!Finished}
                 e == B!Finished
      <4>1. << >> \in Seq(Job) /\ << e >> \in Seq(Job)
        <5>1. e \in Job
          OBVIOUS
        <5> HIDE DEF Job, e
        <5> QED
          BY <5>1
      <4> QED
        BY <1>5, <4>1
    <3>2. DOMAIN ioTasks' = B!Worker /\ ioTasks' = [w \in B!Worker |-> ioTasks'[w]]
      BY <1>1, <1>2
    <3> QED
      BY <3>1, <3>2
  <2> QED
    BY <1>1, <1>3, <1>5, <2>1, BucketFacts DEF B!TypeOK
<1>8. B!CoordinatorInv'
  <2>1. B!Busy' = B!Busy
    BY <1>1, <1>2 DEF B!Busy
  <2> QED
    BY <1>1, <1>2, <1>3, <2>1 DEF B!CoordinatorInv
<1>9. B!FillInv'
  <2>1. \A w \in B!Worker, b \in 0 .. submitted_block_num - 1 : ~ B!Holds(w, b)
    <3> SUFFICES ASSUME NEW w \in B!Worker, NEW b \in 0 .. submitted_block_num - 1 PROVE ~ B!Holds(w, b)
      OBVIOUS
    <3>1. ioWpc[w] # "read" /\ (ioTasks[w] = << >> \/ ioTasks[w] = << B!Finished >>)
      BY <1>1, <1>4
    <3> QED
      BY <1>2, <3>1, RestHolds, BucketFacts
  <2>2. \A w \in B!Worker, b \in 0 .. submitted_block_num - 1 : ~ B!Holds(w, b)'
    <3> SUFFICES ASSUME NEW w \in B!Worker, NEW b \in 0 .. submitted_block_num - 1 PROVE ~ B!Holds(w, b)'
      OBVIOUS
    <3>1. b \in 0 .. B!total_block_num - 1 /\ B!Block(b)' = B!Block(b)
      BY <1>1, BucketFacts DEF B!Block, B!SizeOf, B!total_block_num, B!remain_value_num
    <3>2. B!Block(b) # B!Finished
      BY <1>2, <3>1, BucketBlocks
    <3> QED
      BY <1>1, <1>4, <1>5, <3>1, <3>2, OneTask DEF B!Holds
  <2> QED
    BY <1>1, <2>1, <2>2, BucketFacts, FillSame
<1> QED
  BY <1>6, <1>7, <1>8, <1>9 DEF B!IInv

\* A worker that has a block was given it, and is marked.
LEMMA HeldIs ==
  ASSUME B!IInv, NEW w \in B!Worker, NEW b \in 0 .. B!total_block_num - 1, B!Holds(w, b)
  PROVE  /\ b \in 0 .. submitted_block_num - 1 /\ B!Submitted(w) /\ ~ B!Stopping
         /\ \/ ioWpc[w] = "dequeue" /\ ioTasks[w] = << B!Block(b) >>
            \/ ioWpc[w] = "read" /\ ioTasks[w] = << >> /\ wtask[w] = B!Block(b)
<1>1. /\ value_num \in 0 .. MaxValues /\ B!WorkerInv(w)
      /\ \A d \in 0 .. submitted_block_num - 1 : d \in 0 .. B!total_block_num - 1
  BY BucketFacts
<1>2. /\ \A d \in 0 .. B!total_block_num - 1 : B!Block(b) = B!Block(d) => d = b
      /\ B!Block(b) # B!Finished
  BY <1>1, BucketBlocks
<1>3. CASE B!Submitted(w) /\ ioWpc[w] = "dequeue"
           /\ \E d \in 0 .. submitted_block_num - 1 : ioTasks[w] = << B!Block(d) >>
  <2>1. PICK d \in 0 .. submitted_block_num - 1 : ioTasks[w] = << B!Block(d) >>
    BY <1>3
  <2>2. B!Block(b) = B!Block(d)
    BY <1>3, <2>1, OneTask DEF B!Holds
  <2>3. d = b
    BY <1>1, <1>2, <2>2
  <2>4. status[w] # "IDLE" /\ ~ B!Stopping
    BY <1>3, BucketFacts DEF B!Submitted, B!CoordinatorInv, B!Stopping
  <2> QED
    BY <1>3, <2>1, <2>3, <2>4
<1>4. CASE B!Submitted(w) /\ ioWpc[w] = "read" /\ ioTasks[w] = << >>
           /\ \E d \in 0 .. submitted_block_num - 1 : wtask[w] = B!Block(d)
  <2>1. PICK d \in 0 .. submitted_block_num - 1 : wtask[w] = B!Block(d)
    BY <1>4
  <2>2. B!Block(b) = B!Block(d)
    BY <1>4, <2>1, OneTask DEF B!Holds
  <2>3. d = b
    BY <1>1, <1>2, <2>2
  <2>4. ~ B!Stopping
    BY <1>4, BucketFacts DEF B!Submitted, B!CoordinatorInv, B!Stopping
  <2> QED
    BY <1>4, <2>1, <2>3, <2>4
<1>5. ~ (ioWpc[w] # "read" /\ (ioTasks[w] = << >> \/ ioTasks[w] = << B!Finished >>))
  BY <1>1, RestHolds
<1> QED
  BY <1>1, <1>3, <1>4, <1>5 DEF B!WorkerInv, B!Resting

LEMMA BucketEnqueue ==
  ASSUME B!IInv, B!Enqueue
  PROVE  B!IInv'
<1> DEFINE total == B!total_block_num
<1>0. PICK u, sub : u = io_id /\ sub = submitted_block_num
  OBVIOUS
<1>1. /\ ioCpc = "enqueue" /\ submitted_block_num' = sub + 1
      /\ ioTasks' = [ioTasks EXCEPT ![u] = Append(ioTasks[u], B!Block(sub))]
      /\ io_id' = (io_id + 1) % Depth
      /\ ioCpc' = IF io_id = Depth - 1 /\ completed_block_num = total THEN "idle" ELSE "peek"
      /\ UNCHANGED << calls, value_num, completed_block_num, filled, status, ioWpc, wtask >>
  BY <1>0 DEF B!Enqueue, B!NextWorker, B!workers, B!Block
<1>2. /\ u \in B!Worker /\ status[u] = "SUBMITTED" /\ sub \in Nat /\ total \in Nat /\ sub < total
      /\ completed_block_num \in Nat /\ completed_block_num <= sub
      /\ completed_block_num + B!Cardinality(B!Busy) = sub
      /\ ioTasks \in [B!Worker -> Seq(B!Task \cup {B!Finished})] /\ value_num \in 0 .. MaxValues
      /\ status \in [B!Worker -> {"IDLE", "SUBMITTED", "COMPLETED"}]
  BY <1>0, <1>1, BucketFacts DEF B!CoordinatorInv
<1>3. /\ sub \in 0 .. total - 1 /\ ioCpc' = "peek" /\ io_id' \in B!Worker
      /\ \A b \in 0 .. sub - 1 : b \in 0 .. total - 1 /\ b # sub /\ b \in 0 .. submitted_block_num' - 1
      /\ \A b \in 0 .. submitted_block_num' - 1 : b = sub \/ b \in 0 .. sub - 1
  BY <1>0, <1>1, <1>2, BucketWorkers
<1>4. /\ \A w \in B!Worker : (B!Queueing(w) <=> w = u) /\ ~ B!Queueing(w)'
      /\ ~ B!Stopping /\ ~ B!Stopping'
  BY <1>0, <1>1, <1>3 DEF B!Queueing, B!Stopping
<1>5. /\ total' = total
      /\ \A b : B!Block(b)' = B!Block(b) /\ B!ValuesOf(B!Block(b))' = B!ValuesOf(B!Block(b))
  BY <1>1 DEF B!ValuesOf, B!Block, B!SizeOf, B!total_block_num, B!remain_value_num
<1>6. ioTasks[u] = << >> /\ ioWpc[u] = "dequeue"
  <2>1. B!WorkerInv(u) /\ ~ B!Submitted(u)
    BY <1>2, <1>4, BucketFacts DEF B!Submitted
  <2> QED
    BY <1>4, <2>1 DEF B!WorkerInv, B!Resting
<1>7. \A w \in B!Worker : ioTasks'[w] = IF w = u THEN << B!Block(sub) >> ELSE ioTasks[w]
  BY <1>1, <1>2, <1>6, OneTask
<1>8. B!Submitted(u)' /\ \A w \in B!Worker : w # u => (B!Submitted(w)' <=> B!Submitted(w))
  BY <1>1, <1>2, <1>4 DEF B!Submitted
<1>9. \A b \in 0 .. sub - 1 : B!Block(b) # B!Block(sub)
  BY <1>2, <1>3, BucketBlocks
<1>10. /\ \A b \in 0 .. sub - 1 : ~ B!Holds(u, b) /\ ~ B!Holds(u, b)'
       /\ B!Holds(u, sub)'
  <2>1. \A b \in 0 .. total - 1 : ~ B!Holds(u, b)
    BY <1>0, <1>2, <1>6, RestHolds
  <2>2. \A b : B!Holds(u, b)' <=> B!Block(b) = B!Block(sub)
    BY <1>1, <1>2, <1>5, <1>6, <1>7, OneTask DEF B!Holds
  <2> QED
    BY <1>3, <1>9, <2>1, <2>2
<1>11. ASSUME NEW w \in B!Worker, w # u
       PROVE  /\ \A b \in 0 .. sub - 1 : B!Holds(w, b)' <=> B!Holds(w, b)
              /\ ~ B!Holds(w, sub)'
  <2>1. \A b : B!Holds(w, b)' <=> B!Holds(w, b)
    BY <1>1, <1>5, <1>7, <1>11 DEF B!Holds
  <2>2. ~ B!Holds(w, sub)
    <3>1. sub \notin 0 .. sub - 1
      BY <1>2
    <3> QED
      BY <1>0, <1>3, <3>1, HeldIs
  <2> QED
    BY <2>1, <2>2
<1>12. B!FillInv'
  <2>1. {x \in 0 .. submitted_block_num' - 1 : ~ B!InFlight(x)'} = {x \in 0 .. sub - 1 : ~ B!InFlight(x)}
    <3>1. B!InFlight(sub)'
      BY <1>2, <1>10 DEF B!InFlight
    <3>2. \A b \in 0 .. sub - 1 : B!InFlight(b)' <=> B!InFlight(b)
      BY <1>10, <1>11 DEF B!InFlight
    <3> QED
      BY <1>3, <3>1, <3>2
  <2>2. filled = UNION {B!ValuesOf(B!Block(b)) : b \in {x \in 0 .. sub - 1 : ~ B!InFlight(x)}}
    BY <1>0, BucketFacts DEF B!FillInv
  <2>3. filled' = UNION {B!ValuesOf(B!Block(b))' : b \in {x \in 0 .. submitted_block_num' - 1 : ~ B!InFlight(x)'}}
    BY <1>1, <1>5, <2>1, <2>2
  <2>4. ASSUME NEW v \in B!Worker, NEW w \in B!Worker, NEW b \in 0 .. submitted_block_num' - 1,
               B!Holds(v, b)', B!Holds(w, b)'
        PROVE  v = w
    <3>1. CASE b = sub
      BY <1>11, <2>4, <3>1
    <3>2. CASE b \in 0 .. sub - 1
      <4>1. v # u /\ w # u
        BY <1>10, <2>4, <3>2
      <4>2. B!Holds(v, b) /\ B!Holds(w, b)
        BY <1>11, <2>4, <3>2, <4>1
      <4> QED
        BY <1>0, <3>2, <4>2, BucketFacts DEF B!FillInv
    <3> QED
      BY <1>3, <3>1, <3>2
  <2> QED
    BY <2>3, <2>4 DEF B!FillInv, B!ValuesOf
<1>13. ASSUME NEW w \in B!Worker
       PROVE  B!WorkerInv(w)'
  <2>1. CASE w = u
    <3>1. sub \in 0 .. submitted_block_num' - 1
      BY <1>1, <1>2
    <3>2. ioTasks'[u] = << B!Block(sub)' >>
      BY <1>2, <1>5, <1>7
    <3> QED
      BY <1>1, <1>6, <1>8, <2>1, <3>1, <3>2 DEF B!WorkerInv
  <2>2. CASE w # u
    <3>1. B!WorkerInv(w) /\ (B!Submitted(w)' <=> B!Submitted(w)) /\ ioTasks'[w] = ioTasks[w]
      BY <1>7, <1>8, <1>13, <2>2, BucketFacts
    <3> QED
      BY <1>0, <1>1, <1>2, <1>3, <1>4, <1>5, <3>1 DEF B!WorkerInv, B!Resting
  <2> QED
    BY <2>1, <2>2
<1>14. B!CoordinatorInv'
  <2>1. u \notin B!Busy /\ B!Busy' = B!Busy \cup {u}
    BY <1>0, <1>1, <1>2, <1>4 DEF B!Busy
  <2>2. B!Cardinality(B!Busy') = B!Cardinality(B!Busy) + 1 /\ B!Cardinality(B!Busy) \in Nat
    BY <2>1, BusyCount
  <2>3. completed_block_num' + B!Cardinality(B!Busy') = submitted_block_num'
    <3>1. completed_block_num' = completed_block_num /\ submitted_block_num' = sub + 1
      BY <1>1
    <3>2. /\ completed_block_num \in Nat /\ sub \in Nat
          /\ completed_block_num + B!Cardinality(B!Busy) = sub
      BY <1>2
    <3> QED
      BY <2>2, <3>1, <3>2
  <2> QED
    BY <1>3, <2>3 DEF B!CoordinatorInv
<1>15. B!TypeOK'
  <2>1. ioTasks' \in [B!Worker -> Seq(B!Task \cup {B!Finished})]
    <3> DEFINE Job == B!Task \cup {B!Finished}
               e == B!Block(sub)
    <3>1. e \in Job
      BY <1>2, <1>3, BucketBlocks
    <3>2. ioTasks \in [B!Worker -> Seq(Job)] /\ ioTasks' = [ioTasks EXCEPT ![u] = Append(ioTasks[u], e)]
      BY <1>1, <1>2
    <3> HIDE DEF Job, e
    <3>3. ioTasks' \in [B!Worker -> Seq(Job)]
      BY <1>2, <3>1, <3>2
    <3> QED
      BY <3>3 DEF Job
  <2>2. submitted_block_num' \in 0 .. total' /\ completed_block_num' \in 0 .. submitted_block_num'
    BY <1>1, <1>2, <1>5
  <2> QED
    BY <1>1, <1>3, <2>1, <2>2, BucketFacts DEF B!TypeOK
<1> QED
  BY <1>12, <1>13, <1>14, <1>15 DEF B!IInv

\* A step of a worker leaves the coordinator's books and the other workers alone.
LEMMA OtherWorkers ==
  ASSUME B!IInv, NEW w \in B!Worker,
         UNCHANGED << calls, value_num, completed_block_num, submitted_block_num, io_id, ioCpc >>,
         \A v \in B!Worker : v # w =>
           UNCHANGED << status[v], ioTasks[v], ioWpc[v], wtask[v] >>
  PROVE  /\ B!total_block_num' = B!total_block_num
         /\ \A b : B!Block(b)' = B!Block(b) /\ B!ValuesOf(B!Block(b))' = B!ValuesOf(B!Block(b))
         /\ \A v \in B!Worker : v # w => B!WorkerInv(v)' /\ \A b : B!Holds(v, b)' <=> B!Holds(v, b)
<1>1. /\ B!total_block_num' = B!total_block_num
      /\ \A b : B!Block(b)' = B!Block(b) /\ B!ValuesOf(B!Block(b))' = B!ValuesOf(B!Block(b))
  BY DEF B!ValuesOf, B!Block, B!SizeOf, B!total_block_num, B!remain_value_num
<1>2. ASSUME NEW v \in B!Worker, v # w
      PROVE  B!WorkerInv(v)'
  <2>1. /\ B!WorkerInv(v) /\ UNCHANGED << status[v], ioTasks[v], ioWpc[v], wtask[v] >>
    BY <1>2, BucketFacts
  <2>2. (B!Submitted(v)' <=> B!Submitted(v)) /\ (B!Stopping' <=> B!Stopping)
        /\ (B!Resting(v)' <=> B!Resting(v))
    BY <2>1 DEF B!Submitted, B!Queueing, B!Stopping, B!Resting
  <2> QED
    BY <1>1, <2>1, <2>2 DEF B!WorkerInv
<1>3. ASSUME NEW v \in B!Worker, v # w
      PROVE  \A b : B!Holds(v, b)' <=> B!Holds(v, b)
  <2>1. UNCHANGED << ioTasks[v], ioWpc[v], wtask[v] >>
    BY <1>3
  <2> QED
    BY <1>1, <2>1 DEF B!Holds
<1> QED
  BY <1>1, <1>2, <1>3

LEMMA BucketDequeue ==
  ASSUME B!IInv, NEW w \in B!Worker, B!Dequeue(w)
  PROVE  B!IInv'
<1> DEFINE e == Head(ioTasks[w])
           Job == B!Task \cup {B!Finished}
<1>1. /\ ioWpc[w] = "dequeue" /\ ioTasks[w] # << >>
      /\ wtask' = [wtask EXCEPT ![w] = e]
      /\ ioTasks' = [ioTasks EXCEPT ![w] = Tail(ioTasks[w])]
      /\ ioWpc' = [ioWpc EXCEPT ![w] = IF e = B!Finished THEN "exited" ELSE "read"]
      /\ UNCHANGED << calls, value_num, completed_block_num, submitted_block_num, filled, io_id, ioCpc, status >>
  BY DEF B!Dequeue, B!counts
<1>2. /\ ioTasks \in [B!Worker -> Seq(Job)] /\ wtask \in [B!Worker -> Job]
      /\ ioWpc \in [B!Worker -> {"dequeue", "read", "complete", "exited"}]
      /\ value_num \in 0 .. MaxValues /\ B!WorkerInv(w)
      /\ \A b \in 0 .. submitted_block_num - 1 : b \in 0 .. B!total_block_num - 1
  BY BucketFacts
<1> HIDE DEF e, Job
<1>3. \A v \in B!Worker : v # w => UNCHANGED << status[v], ioTasks[v], ioWpc[v], wtask[v] >>
  BY <1>1, <1>2
<1>4. /\ B!total_block_num' = B!total_block_num
      /\ \A b : B!Block(b)' = B!Block(b) /\ B!ValuesOf(B!Block(b))' = B!ValuesOf(B!Block(b))
      /\ \A v \in B!Worker : v # w => B!WorkerInv(v)' /\ \A b : B!Holds(v, b)' <=> B!Holds(v, b)
  BY <1>1, <1>3, OtherWorkers
<1>5. /\ ioTasks'[w] = Tail(ioTasks[w]) /\ wtask'[w] = e
      /\ ioWpc'[w] = IF e = B!Finished THEN "exited" ELSE "read"
  BY <1>1, <1>2
<1>6. (B!Submitted(w)' <=> B!Submitted(w)) /\ (B!Stopping' <=> B!Stopping) /\ B!Busy' = B!Busy
  BY <1>1 DEF B!Submitted, B!Queueing, B!Stopping, B!Busy
<1>7. B!WorkerInv(w)' /\ \A b \in 0 .. submitted_block_num - 1 : B!Holds(w, b)' <=> B!Holds(w, b)
  <2>1. CASE B!Submitted(w) /\ \E b \in 0 .. submitted_block_num - 1 : ioTasks[w] = << B!Block(b) >>
    <3>1. PICK b \in 0 .. submitted_block_num - 1 : ioTasks[w] = << B!Block(b) >>
      BY <2>1
    <3>2. e = B!Block(b) /\ e # B!Finished /\ Tail(ioTasks[w]) = << >>
      BY <1>2, <3>1, BucketBlocks, OneTask DEF e
    <3>3. ioWpc'[w] = "read" /\ ioTasks'[w] = << >> /\ wtask'[w] = B!Block(b)' /\ b \in 0 .. submitted_block_num' - 1
      BY <1>1, <1>4, <1>5, <3>1, <3>2
    <3>4. B!WorkerInv(w)'
      BY <1>6, <2>1, <3>3 DEF B!WorkerInv
    <3>5. \A d : B!Holds(w, d)' <=> B!Block(b) = B!Block(d)
      BY <1>4, <3>3, OneTask DEF B!Holds
    <3>6. \A d : B!Holds(w, d) <=> B!Block(b) = B!Block(d)
      BY <1>1, <3>1, OneTask DEF B!Holds
    <3> QED
      BY <3>4, <3>5, <3>6
  <2>2. CASE B!Stopping /\ ioTasks[w] = << B!Finished >>
    <3>1. e = B!Finished /\ Tail(ioTasks[w]) = << >>
      BY <2>2, OneTask DEF e
    <3>2. ioWpc'[w] = "exited" /\ ioTasks'[w] = << >>
      BY <1>5, <3>1
    <3>3. B!WorkerInv(w)'
      BY <1>6, <2>2, <3>2 DEF B!WorkerInv
    <3>4. \A b : ~ B!Holds(w, b)'
      BY <3>2, OneTask DEF B!Holds
    <3>5. \A b \in 0 .. submitted_block_num - 1 : ~ B!Holds(w, b)
      BY <1>1, <1>2, <2>2, RestHolds
    <3> QED
      BY <3>3, <3>4, <3>5
  <2> QED
    BY <1>1, <1>2, <2>1, <2>2 DEF B!WorkerInv, B!Resting
<1>8. B!FillInv'
  <2>1. \A v \in B!Worker, b \in 0 .. submitted_block_num - 1 : B!Holds(v, b)' <=> B!Holds(v, b)
    BY <1>4, <1>7
  <2> QED
    BY <1>1, <2>1, BucketFacts, FillSame
<1>9. B!CoordinatorInv'
  BY <1>1, <1>4, <1>6, BucketFacts DEF B!CoordinatorInv
<1>10. B!TypeOK'
  <2>1. e \in Job /\ Tail(ioTasks[w]) \in Seq(Job)
    <3>1. ioTasks[w] \in Seq(Job)
      BY <1>2
    <3> QED
      BY <1>1, <3>1 DEF e
  <2>2. ioTasks' \in [B!Worker -> Seq(Job)] /\ wtask' \in [B!Worker -> Job]
    BY <1>1, <1>2, <2>1
  <2>3. ioWpc' \in [B!Worker -> {"dequeue", "read", "complete", "exited"}]
    BY <1>1, <1>2
  <2> QED
    BY <1>1, <1>4, <2>2, <2>3, BucketFacts DEF B!TypeOK, Job
<1> QED
  BY <1>4, <1>7, <1>8, <1>9, <1>10 DEF B!IInv

LEMMA BucketComplete ==
  ASSUME B!IInv, NEW w \in B!Worker, B!Complete(w)
  PROVE  B!IInv'
<1>1. /\ ioWpc[w] = "complete" /\ status' = [status EXCEPT ![w] = "COMPLETED"]
      /\ ioWpc' = [ioWpc EXCEPT ![w] = "dequeue"]
      /\ UNCHANGED << calls, value_num, completed_block_num, submitted_block_num, filled, io_id, ioCpc,
                      ioTasks, wtask >>
  BY DEF B!Complete, B!counts
<1>2. /\ status \in [B!Worker -> {"IDLE", "SUBMITTED", "COMPLETED"}]
      /\ ioWpc \in [B!Worker -> {"dequeue", "read", "complete", "exited"}]
      /\ value_num \in 0 .. MaxValues /\ B!WorkerInv(w) /\ B!CoordinatorInv
      /\ \A b \in 0 .. submitted_block_num - 1 : b \in 0 .. B!total_block_num - 1
  BY BucketFacts
<1>3. \A v \in B!Worker : v # w => UNCHANGED << status[v], ioTasks[v], ioWpc[v], wtask[v] >>
  BY <1>1, <1>2
<1>4. /\ B!total_block_num' = B!total_block_num
      /\ \A b : B!Block(b)' = B!Block(b) /\ B!ValuesOf(B!Block(b))' = B!ValuesOf(B!Block(b))
      /\ \A v \in B!Worker : v # w => B!WorkerInv(v)' /\ \A b : B!Holds(v, b)' <=> B!Holds(v, b)
  BY <1>1, <1>3, OtherWorkers
<1>5. B!Submitted(w) /\ ioTasks[w] = << >>
  BY <1>1, <1>2 DEF B!WorkerInv, B!Resting
<1>6. /\ status[w] = "SUBMITTED" /\ ~ B!Queueing(w) /\ ~ B!Stopping
      /\ ioCpc \notin {"idle", "stopping", "stopped"}
  BY <1>2, <1>5 DEF B!Submitted, B!CoordinatorInv, B!Stopping
<1>7. /\ status'[w] = "COMPLETED" /\ ioWpc'[w] = "dequeue" /\ ioTasks'[w] = << >>
      /\ ~ B!Stopping' /\ \A v \in B!Worker : B!Queueing(v)' <=> B!Queueing(v)
  BY <1>1, <1>2, <1>5, <1>6 DEF B!Stopping, B!Queueing
<1>8. B!WorkerInv(w)'
  BY <1>7 DEF B!WorkerInv, B!Submitted, B!Resting
<1>9. B!FillInv'
  <2>1. \A b : ~ B!Holds(w, b)'
    BY <1>7, OneTask DEF B!Holds
  <2>2. \A b \in 0 .. submitted_block_num - 1 : ~ B!Holds(w, b)
    BY <1>1, <1>2, <1>5, RestHolds
  <2>3. \A v \in B!Worker, b \in 0 .. submitted_block_num - 1 : B!Holds(v, b)' <=> B!Holds(v, b)
    BY <1>4, <2>1, <2>2
  <2> QED
    BY <1>1, <2>3, BucketFacts, FillSame
<1>10. B!CoordinatorInv'
  <2>1. B!Busy' = B!Busy
    <3>1. \A v \in B!Worker : status'[v] # "IDLE" <=> status[v] # "IDLE"
      BY <1>3, <1>6, <1>7
    <3> QED
      BY <1>7, <3>1 DEF B!Busy
  <2>2. \A v \in B!Worker : v # w => status'[v] = status[v]
    BY <1>3
  <2>3. io_id \in B!Worker /\ (ioCpc = "submit" => io_id # w) /\ (ioCpc = "enqueue" => io_id # w)
    BY <1>2, <1>6, BucketFacts DEF B!CoordinatorInv, B!Queueing
  <2> QED
    BY <1>1, <1>2, <1>4, <1>6, <2>1, <2>2, <2>3 DEF B!CoordinatorInv
<1>11. B!TypeOK'
  <2>1. /\ status' \in [B!Worker -> {"IDLE", "SUBMITTED", "COMPLETED"}]
        /\ ioWpc' \in [B!Worker -> {"dequeue", "read", "complete", "exited"}]
    BY <1>1, <1>2
  <2> QED
    BY <1>1, <1>4, <2>1, BucketFacts DEF B!TypeOK
<1> QED
  BY <1>4, <1>8, <1>9, <1>10, <1>11 DEF B!IInv

LEMMA BucketRead ==
  ASSUME B!IInv, NEW w \in B!Worker, B!ReadBlock(w)
  PROVE  B!IInv'
<1>1. /\ ioWpc[w] = "read" /\ filled' = filled \cup B!ValuesOf(wtask[w])
      /\ ioWpc' = [ioWpc EXCEPT ![w] = "complete"]
      /\ UNCHANGED << calls, value_num, completed_block_num, submitted_block_num, io_id, ioCpc, status,
                      ioTasks, wtask >>
  BY DEF B!ReadBlock, B!counts
<1>2. /\ ioWpc \in [B!Worker -> {"dequeue", "read", "complete", "exited"}]
      /\ value_num \in 0 .. MaxValues /\ B!WorkerInv(w) /\ B!FillInv
      /\ \A b \in 0 .. submitted_block_num - 1 : b \in 0 .. B!total_block_num - 1
  BY BucketFacts
<1>3. \A v \in B!Worker : v # w => UNCHANGED << status[v], ioTasks[v], ioWpc[v], wtask[v] >>
  BY <1>1, <1>2
<1>4. /\ B!total_block_num' = B!total_block_num
      /\ \A b : B!Block(b)' = B!Block(b) /\ B!ValuesOf(B!Block(b))' = B!ValuesOf(B!Block(b))
      /\ \A v \in B!Worker : v # w => B!WorkerInv(v)' /\ \A b : B!Holds(v, b)' <=> B!Holds(v, b)
  BY <1>1, <1>3, OtherWorkers
<1>5. /\ B!Submitted(w) /\ ioTasks[w] = << >>
      /\ \E b \in 0 .. submitted_block_num - 1 : wtask[w] = B!Block(b)
  BY <1>1, <1>2 DEF B!WorkerInv, B!Resting
<1>6. PICK b \in 0 .. submitted_block_num - 1 : wtask[w] = B!Block(b)
  BY <1>5
<1>7. /\ ioWpc'[w] = "complete" /\ ioTasks'[w] = << >> /\ B!Submitted(w)'
      /\ B!Busy' = B!Busy
  BY <1>1, <1>2, <1>5 DEF B!Submitted, B!Queueing, B!Busy
<1>8. B!WorkerInv(w)'
  BY <1>7 DEF B!WorkerInv
<1>9. /\ B!Holds(w, b) /\ \A d : ~ B!Holds(w, d)'
      /\ \A d \in 0 .. submitted_block_num - 1 : B!Holds(w, d) => d = b
  <2>1. B!Holds(w, b) /\ \A d : ~ B!Holds(w, d)'
    BY <1>1, <1>6, <1>7, OneTask DEF B!Holds
  <2>2. \A d \in 0 .. submitted_block_num - 1 : B!Holds(w, d) => B!Block(d) = B!Block(b)
    BY <1>5, <1>6, OneTask DEF B!Holds
  <2> QED
    BY <1>2, <2>1, <2>2, BucketBlocks
<1>10. B!FillInv'
  <2> DEFINE D == 0 .. submitted_block_num - 1
  <2>1. \A v \in B!Worker, d \in D : B!Holds(v, d) /\ d = b => v = w
    BY <1>2, <1>9 DEF B!FillInv
  <2>2. B!InFlight(b) /\ ~ B!InFlight(b)'
    BY <1>4, <1>9, <2>1 DEF B!InFlight
  <2>3. \A d \in D : d # b => (B!InFlight(d)' <=> B!InFlight(d))
    BY <1>4, <1>9 DEF B!InFlight
  <2>4. {x \in D : ~ B!InFlight(x)'} = {x \in D : ~ B!InFlight(x)} \cup {b}
    BY <1>6, <2>2, <2>3
  <2>5. filled = UNION {B!ValuesOf(B!Block(x)) : x \in {y \in D : ~ B!InFlight(y)}}
    BY <1>2 DEF B!FillInv
  <2>6. filled' = UNION {B!ValuesOf(B!Block(x)) : x \in {y \in D : ~ B!InFlight(y)'}}
    BY <1>1, <1>6, <2>4, <2>5
  <2>7. filled' = UNION {B!ValuesOf(B!Block(x))' : x \in {y \in D : ~ B!InFlight(y)'}}
    BY <1>4, <2>6
  <2>8. \A u, v \in B!Worker, d \in D : B!Holds(u, d)' /\ B!Holds(v, d)' => u = v
    BY <1>2, <1>4, <1>9 DEF B!FillInv
  <2> QED
    BY <1>1, <2>7, <2>8 DEF B!FillInv, B!ValuesOf
<1>11. B!CoordinatorInv'
  BY <1>1, <1>4, <1>7, BucketFacts DEF B!CoordinatorInv
<1>12. B!TypeOK'
  <2>1. ioWpc' \in [B!Worker -> {"dequeue", "read", "complete", "exited"}]
    BY <1>1, <1>2
  <2>2. B!ValuesOf(B!Block(b)) \subseteq 0 .. value_num - 1
    BY <1>2, <1>6, BucketBlocks
  <2>3. 0 .. value_num - 1 \subseteq 0 .. MaxValues - 1
    BY <1>2, BucketNumbers
  <2>4. filled' \subseteq 0 .. MaxValues - 1
    BY <1>1, <1>6, <2>2, <2>3, BucketFacts DEF B!TypeOK
  <2> QED
    BY <1>1, <1>4, <2>1, <2>4, BucketFacts DEF B!TypeOK
<1> QED
  BY <1>4, <1>8, <1>10, <1>11, <1>12 DEF B!IInv

LEMMA BucketStart ==
  ASSUME B!Init
  PROVE  B!IInv
<1>1. /\ calls = 0 /\ value_num = 0 /\ filled = {} /\ completed_block_num = 0 /\ submitted_block_num = 0
      /\ io_id = 0 /\ ioCpc = "idle" /\ status = [w \in B!Worker |-> "IDLE"]
      /\ ioTasks = [w \in B!Worker |-> << >>] /\ ioWpc = [w \in B!Worker |-> "dequeue"]
      /\ wtask = [w \in B!Worker |-> B!Finished]
  BY DEF B!Init
<1>2. B!total_block_num = 0
  <2>1. Agg \in Nat \ {0} /\ value_num \in Nat
    BY <1>1, SyncNumbers
  <2>2. 0 = Agg * 0 + 0 /\ 0 \in 0 .. Agg - 1
    BY <2>1
  <2>3. value_num \div Agg = 0 /\ value_num % Agg = 0
    BY <1>1, <2>1, <2>2, QuotientIs
  <2> QED
    BY <2>3 DEF B!total_block_num, B!remain_value_num
<1>3. B!TypeOK
  <2>1. ioTasks \in [B!Worker -> Seq(B!Task \cup {B!Finished})]
    BY <1>1
  <2>2. calls \in 0 .. MaxCalls /\ value_num \in 0 .. MaxValues
    BY <1>1, SyncNumbers
  <2> QED
    BY <1>1, <1>2, <2>1, <2>2, BucketWorkers DEF B!TypeOK
<1>4. B!CoordinatorInv
  <2>1. B!Busy = {}
    BY <1>1 DEF B!Busy
  <2>2. B!Cardinality(B!Busy) = 0
    BY <2>1, FS_EmptySet, SameCounting
  <2> QED
    BY <1>1, <1>2, <2>2 DEF B!CoordinatorInv
<1>5. \A w \in B!Worker : B!WorkerInv(w)
  BY <1>1 DEF B!WorkerInv, B!Submitted, B!Stopping, B!Resting
<1>6. B!FillInv
  <2>1. 0 .. submitted_block_num - 1 = {}
    BY <1>1
  <2> QED
    BY <1>1, <2>1 DEF B!FillInv
<1> QED
  BY <1>3, <1>4, <1>5, <1>6 DEF B!IInv

LEMMA BucketStep ==
  ASSUME B!IInv, [B!Next]_(B!vars)
  PROVE  B!IInv'
<1>1. ASSUME NEW w \in B!Worker, B!WorkerStep(w)
      PROVE  B!IInv'
  BY <1>1, BucketDequeue, BucketRead, BucketComplete DEF B!WorkerStep
<1>2. CASE UNCHANGED B!vars
  <2>1. UNCHANGED << calls, value_num, filled, completed_block_num, submitted_block_num, io_id, ioCpc,
                     status, ioTasks, ioWpc, wtask >>
    BY <1>2 DEF B!vars, B!counts, B!workers
  <2>2. B!TypeOK'
    BY <2>1, BucketFacts DEF B!TypeOK, B!total_block_num, B!remain_value_num
  <2>3. B!CoordinatorInv'
    <3>1. B!Busy' = B!Busy
      BY <2>1 DEF B!Busy, B!Queueing
    <3> QED
      BY <2>1, <3>1, BucketFacts DEF B!CoordinatorInv, B!total_block_num, B!remain_value_num
  <2>4. \A b : B!Block(b)' = B!Block(b)
    BY <2>1 DEF B!Block, B!SizeOf, B!total_block_num, B!remain_value_num
  <2>5. \A w \in B!Worker, b \in 0 .. submitted_block_num - 1 : B!Holds(w, b)' <=> B!Holds(w, b)
    BY <2>1, <2>4 DEF B!Holds
  <2>6. B!FillInv'
    BY <2>1, <2>5, BucketFacts, FillSame
  <2>7. ASSUME NEW w \in B!Worker PROVE B!WorkerInv(w)'
    <3>1. B!WorkerInv(w) /\ (B!Submitted(w)' <=> B!Submitted(w)) /\ (B!Stopping' <=> B!Stopping)
      BY <2>1, BucketFacts DEF B!Submitted, B!Stopping, B!Queueing
    <3> QED
      BY <2>1, <2>4, <3>1 DEF B!WorkerInv, B!Resting
  <2> QED
    BY <2>2, <2>3, <2>6, <2>7 DEF B!IInv
<1> QED
  BY <1>1, <1>2, BucketCall, BucketPeek, BucketSubmit, BucketEnqueue, BucketStop DEF B!Next, B!Stopped

LEMMA BucketReturned ==
  ASSUME B!IInv
  PROVE  B!BucketComplete
<1> SUFFICES ASSUME ioCpc = "idle"
             PROVE  /\ filled = 0 .. value_num - 1
                    /\ \A w \in B!Worker : ioTasks[w] = << >> /\ ioWpc[w] = "dequeue"
  BY DEF B!BucketComplete
<1>1. /\ value_num \in 0 .. MaxValues /\ submitted_block_num = B!total_block_num
      /\ \A w \in B!Worker : status[w] = "IDLE"
  BY BucketFacts DEF B!CoordinatorInv
<1>2. ASSUME NEW w \in B!Worker PROVE ioTasks[w] = << >> /\ ioWpc[w] = "dequeue"
  BY <1>1, BucketFacts DEF B!WorkerInv, B!Submitted, B!Stopping, B!Resting
<1>3. \A b \in 0 .. B!total_block_num - 1 : ~ B!InFlight(b)
  BY <1>1, <1>2, RestHolds DEF B!InFlight
<1>4. {x \in 0 .. submitted_block_num - 1 : ~ B!InFlight(x)} = 0 .. B!total_block_num - 1
  BY <1>1, <1>3
<1>5. filled = UNION {B!ValuesOf(B!Block(b)) : b \in 0 .. B!total_block_num - 1}
  BY <1>4, BucketFacts DEF B!FillInv
<1>6. filled = 0 .. value_num - 1
  <2>1. \A v \in filled : v \in 0 .. value_num - 1
    BY <1>1, <1>5, BucketBlocks
  <2>2. ASSUME NEW v \in 0 .. value_num - 1 PROVE v \in filled
    <3>1. PICK b \in 0 .. B!total_block_num - 1 : v \in B!ValuesOf(B!Block(b))
      BY <1>1, BucketBlocks
    <3> QED
      BY <1>5, <3>1
  <2> QED
    BY <2>1, <2>2
<1> QED
  BY <1>2, <1>6

LEMMA BucketDisjoint ==
  ASSUME B!IInv
  PROVE  B!BlocksDisjoint
<1>1. /\ value_num \in 0 .. MaxValues
      /\ \A b \in 0 .. submitted_block_num - 1 : b \in 0 .. B!total_block_num - 1
  BY BucketFacts
<1>2. B!ValuesOf(B!Finished) = {}
  BY DEF B!ValuesOf, B!Finished
<1>3. ASSUME NEW a \in B!InFlightTasks
      PROVE  \/ a = B!Finished
             \/ \E b \in 0 .. submitted_block_num - 1 : a = B!Block(b) /\ B!InFlight(b)
  <2>1. \/ \E w \in B!Worker : \E i \in 1 .. Len(ioTasks[w]) : a = ioTasks[w][i]
        \/ \E w \in B!Worker : ioWpc[w] = "read" /\ a = wtask[w]
    <3>1. \/ a \in UNION {{ioTasks[w][i] : i \in 1 .. Len(ioTasks[w])} : w \in B!Worker}
          \/ a \in {wtask[w] : w \in {w \in B!Worker : ioWpc[w] = "read"}}
      BY <1>3 DEF B!InFlightTasks
    <3>2. ASSUME a \in UNION {{ioTasks[w][i] : i \in 1 .. Len(ioTasks[w])} : w \in B!Worker}
          PROVE  \E w \in B!Worker : \E i \in 1 .. Len(ioTasks[w]) : a = ioTasks[w][i]
      BY <3>2
    <3>3. ASSUME a \in {wtask[w] : w \in {w \in B!Worker : ioWpc[w] = "read"}}
          PROVE  \E w \in B!Worker : ioWpc[w] = "read" /\ a = wtask[w]
      BY <3>3
    <3> QED
      BY <3>1, <3>2, <3>3
  <2>2. ASSUME NEW w \in B!Worker, NEW i \in 1 .. Len(ioTasks[w]), a = ioTasks[w][i]
        PROVE  \/ a = B!Finished
               \/ \E b \in 0 .. submitted_block_num - 1 : a = B!Block(b) /\ B!InFlight(b)
    <3>1. ioTasks[w] # << >>
      BY <2>2, OneTask
    <3>2. B!WorkerInv(w)
      BY BucketFacts
    <3>3. \/ \E b \in 0 .. submitted_block_num - 1 : ioTasks[w] = << B!Block(b) >>
          \/ ioTasks[w] = << B!Finished >>
      BY <3>1, <3>2 DEF B!WorkerInv, B!Resting
    <3>4. CASE ioTasks[w] = << B!Finished >>
      <4>1. i = 1
        BY <2>2, <3>4, OneTask
      <4> QED
        BY <2>2, <3>4, <4>1, OneTask
    <3>5. ASSUME NEW b \in 0 .. submitted_block_num - 1, ioTasks[w] = << B!Block(b) >>
          PROVE  a = B!Block(b) /\ B!InFlight(b)
      <4>1. i = 1
        BY <2>2, <3>5, OneTask
      <4>2. a = B!Block(b)
        BY <2>2, <3>5, <4>1, OneTask
      <4> QED
        BY <3>5, <4>2 DEF B!InFlight, B!Holds
    <3> QED
      BY <3>3, <3>4, <3>5
  <2>3. ASSUME NEW w \in B!Worker, ioWpc[w] = "read", a = wtask[w]
        PROVE  \E b \in 0 .. submitted_block_num - 1 : a = B!Block(b) /\ B!InFlight(b)
    <3>1. \E b \in 0 .. submitted_block_num - 1 : wtask[w] = B!Block(b)
      BY <2>3, BucketFacts DEF B!WorkerInv, B!Resting
    <3> QED
      BY <2>3, <3>1 DEF B!InFlight, B!Holds
  <2> QED
    BY <2>1, <2>2, <2>3
<1>4. ASSUME NEW a \in B!InFlightTasks
      PROVE  B!ValuesOf(a) \subseteq 0 .. value_num - 1 /\ B!ValuesOf(a) \cap filled = {}
  <2>1. CASE a = B!Finished
    BY <1>2, <2>1
  <2>2. ASSUME NEW b \in 0 .. submitted_block_num - 1, a = B!Block(b), B!InFlight(b)
        PROVE  B!ValuesOf(a) \subseteq 0 .. value_num - 1 /\ B!ValuesOf(a) \cap filled = {}
    <3>1. \A x \in 0 .. submitted_block_num - 1 :
            x # b => B!ValuesOf(B!Block(b)) \cap B!ValuesOf(B!Block(x)) = {}
      BY <1>1, BucketBlocks
    <3>2. ASSUME NEW v \in filled PROVE v \notin B!ValuesOf(B!Block(b))
      <4>1. PICK x \in 0 .. submitted_block_num - 1 : ~ B!InFlight(x) /\ v \in B!ValuesOf(B!Block(x))
        BY <3>2, BucketFacts DEF B!FillInv
      <4>2. x # b
        BY <2>2, <4>1
      <4> QED
        BY <3>1, <4>1, <4>2
    <3>3. B!ValuesOf(B!Block(b)) \subseteq 0 .. value_num - 1
      BY <1>1, BucketBlocks
    <3> QED
      BY <2>2, <3>2, <3>3
  <2> QED
    BY <1>3, <1>4, <2>1, <2>2
<1>5. ASSUME NEW a \in B!InFlightTasks, NEW d \in B!InFlightTasks, a # d
      PROVE  B!ValuesOf(a) \cap B!ValuesOf(d) = {}
  <2>1. CASE a = B!Finished \/ d = B!Finished
    BY <1>2, <2>1
  <2>2. CASE a # B!Finished /\ d # B!Finished
    <3>1. PICK b \in 0 .. submitted_block_num - 1 : a = B!Block(b)
      BY <1>3, <1>5, <2>2
    <3>2. PICK e \in 0 .. submitted_block_num - 1 : d = B!Block(e)
      BY <1>3, <1>5, <2>2
    <3>3. b # e /\ b \in 0 .. B!total_block_num - 1 /\ e \in 0 .. B!total_block_num - 1
      BY <1>1, <1>5, <3>1, <3>2
    <3> QED
      BY <1>1, <3>1, <3>2, <3>3, BucketBlocks
  <2> QED
    BY <2>1, <2>2
<1> QED
  BY <1>4, <1>5 DEF B!BlocksDisjoint

LEMMA SyncIsBucket == SyncSpec => B!Init /\ [][B!Next]_(B!vars)
<1>1. SyncInit => B!Init
  BY DEF SyncInit
<1>2. [SyncNext]_all => [B!Next]_(B!vars)
  <2>1. [SyncNext]_all => [B!Next]_bucketVars
    BY DEF SyncNext, MayStop, all
  <2> QED
    BY <2>1 DEF bucketVars, B!vars, B!counts, B!workers
<1> QED
  BY <1>1, <1>2, PTL DEF SyncSpec

(***************************************************************************)
(* When ReadBucketToBuffer returns, the buffer holds each value of the     *)
(* bucket and no IO worker is still going to write into it; and no two     *)
(* blocks in flight overlap, for any queue depth, block size and number of *)
(* values.                                                                 *)
(***************************************************************************)
THEOREM BucketIsReadOnce == SyncSpec => []BucketExact
<1>1. B!Init => B!IInv
  BY BucketStart
<1>2. B!IInv /\ [B!Next]_(B!vars) => B!IInv'
  BY BucketStep
<1>3. B!IInv => B!BucketComplete /\ B!BlocksDisjoint
  BY BucketReturned, BucketDisjoint
<1> QED
  BY <1>1, <1>2, <1>3, SyncIsBucket, PTL DEF BucketExact
=============================================================================
