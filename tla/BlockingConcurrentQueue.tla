---------------------- MODULE BlockingConcurrentQueue ----------------------
(***************************************************************************)
(* BlockingConcurrentQueue: a ConcurrentQueue and a LightweightSemaphore,  *)
(* which counts permits and waiters in one number and puts threads to      *)
(* sleep on a kernel semaphore.  Of the inner queue only the number of its *)
(* items matters: try_dequeue may miss an item that is there (it is called *)
(* again until it does not) and never invents one.                         *)
(***************************************************************************)
EXTENDS Integers, FiniteSets

CONSTANTS Producer, Consumer,
          MaxBulk,   \* bound: items of one call
          MaxItems   \* bound: items enqueued

BlockingConcurrentQueueAssumption ==
    /\ IsFiniteSet(Producer) /\ IsFiniteSet(Consumer)
    /\ MaxBulk \in Nat /\ MaxItems \in Nat

VARIABLES m_count, m_sema, items,  \* of the queue that is used
          other,                   \* the same of another queue
          enqueued,
          ppc, arg,                \* producers: items to signal or threads to wake
          cpc, mode, want, held    \* consumers: call, items wanted, permits not used
sema == <<m_count, m_sema>>
producers == <<enqueued, ppc, arg>>
consumers == <<cpc, mode, want, held>>
vars == <<sema, items, other, producers, consumers>>

Fewer(a, b) == IF a < b THEN a ELSE b
Modes == {"try", "wait", "timed"}

TypeOK == /\ m_count \in Int /\ m_sema \in Nat /\ items \in Nat
          /\ other \in [m_count : Int, m_sema : Nat, items : Nat]
          /\ enqueued \in Nat
          /\ ppc \in [Producer -> {"idle", "signal", "post"}]
          /\ arg \in [Producer -> 0 .. MaxBulk]
          /\ cpc \in [Consumer -> {"idle", "acquire", "sub", "sleep", "adjust", "drain", "more", "take"}]
          /\ mode \in [Consumer -> Modes]
          /\ want \in [Consumer -> 0 .. MaxBulk]
          /\ held \in [Consumer -> 0 .. MaxBulk]

Init == /\ m_count = 0 /\ m_sema = 0 /\ items = 0
        /\ other = [m_count |-> 0, m_sema |-> 0, items |-> 0]
        /\ enqueued = 0
        /\ ppc = [p \in Producer |-> "idle"]
        /\ arg = [p \in Producer |-> 0]
        /\ cpc = [c \in Consumer |-> "idle"]
        /\ mode = [c \in Consumer |-> "try"]
        /\ want = [c \in Consumer |-> 0]
        /\ held = [c \in Consumer |-> 0]

(***************************************************************************)
(* enqueue, enqueue_bulk, try_enqueue, try_enqueue_bulk; when the inner    *)
(* queue refuses the items nothing changes                                 *)
(***************************************************************************)
Enqueue(p) == \E n \in 1 .. MaxBulk :
    /\ ppc[p] = "idle"
    /\ enqueued + n <= MaxItems
    /\ enqueued' = enqueued + n
    /\ items' = items + n
    /\ ppc' = [ppc EXCEPT ![p] = "signal"]
    /\ arg' = [arg EXCEPT ![p] = n]
    /\ UNCHANGED <<sema, other, consumers>>

\* Wrong on purpose: whoever waits is woken, however many items there are.
SignalAll(p) ==
    LET toRelease == -m_count
    IN  /\ ppc[p] = "signal"
        /\ m_count' = m_count + arg[p]
        /\ arg' = [arg EXCEPT ![p] = IF toRelease > 0 THEN toRelease ELSE 0]
        /\ ppc' = [ppc EXCEPT ![p] = IF toRelease > 0 THEN "post" ELSE "idle"]
        /\ UNCHANGED <<m_sema, items, other, enqueued, consumers>>

\* Wrong on purpose: one call wakes one thread.
SignalOne(p) ==
    LET toRelease == Fewer(-m_count, 1)
    IN  /\ ppc[p] = "signal"
        /\ m_count' = m_count + arg[p]
        /\ arg' = [arg EXCEPT ![p] = IF toRelease > 0 THEN toRelease ELSE 0]
        /\ ppc' = [ppc EXCEPT ![p] = IF toRelease > 0 THEN "post" ELSE "idle"]
        /\ UNCHANGED <<m_sema, items, other, enqueued, consumers>>

Signal(p) ==
    LET toRelease == Fewer(-m_count, arg[p])
    IN  /\ ppc[p] = "signal"
        /\ m_count' = m_count + arg[p]
        /\ arg' = [arg EXCEPT ![p] = IF toRelease > 0 THEN toRelease ELSE 0]
        /\ ppc' = [ppc EXCEPT ![p] = IF toRelease > 0 THEN "post" ELSE "idle"]
        /\ UNCHANGED <<m_sema, items, other, enqueued, consumers>>

Post(p) ==
    /\ ppc[p] = "post"
    /\ m_sema' = m_sema + 1
    /\ arg' = [arg EXCEPT ![p] = @ - 1]
    /\ ppc' = [ppc EXCEPT ![p] = IF arg[p] = 1 THEN "idle" ELSE "post"]
    /\ UNCHANGED <<m_count, items, other, enqueued, consumers>>

(***************************************************************************)
(* try_dequeue, wait_dequeue, wait_dequeue_timed and their bulk forms      *)
(***************************************************************************)
Goto(c, to) == cpc' = [cpc EXCEPT ![c] = to]
Get(c, n) == held' = [held EXCEPT ![c] = @ + n]
Return(c) == Goto(c, "idle") /\ want' = [want EXCEPT ![c] = 0] /\ mode' = [mode EXCEPT ![c] = "try"]
Quiet == UNCHANGED <<items, other, producers>>

Call(c) == \E m \in Modes, max \in 1 .. MaxBulk :
    /\ cpc[c] = "idle"
    /\ Goto(c, "acquire")
    /\ mode' = [mode EXCEPT ![c] = m]
    /\ want' = [want EXCEPT ![c] = max]
    /\ UNCHANGED <<sema, held>> /\ Quiet

\* tryWait, tryWaitMany, and an iteration of the spinning that succeeds.
TryWait(c) ==
    LET n == Fewer(m_count, want[c])
    IN  /\ cpc[c] = "acquire" /\ m_count > 0
        /\ m_count' = m_count - n
        /\ Get(c, n)
        /\ Goto(c, "take")
        /\ UNCHANGED <<m_sema, mode, want>> /\ Quiet

TryFails(c) ==
    /\ cpc[c] = "acquire" /\ mode[c] = "try" /\ m_count <= 0
    /\ Return(c)
    /\ UNCHANGED <<sema, held>> /\ Quiet

\* The spinning ends, be it because others were always faster.
StopSpinning(c) ==
    /\ cpc[c] = "acquire" /\ mode[c] # "try"
    /\ Goto(c, "sub")
    /\ UNCHANGED <<sema, mode, want, held>> /\ Quiet

Granted(c) == Get(c, 1) /\ Goto(c, IF want[c] > 1 THEN "more" ELSE "take")

Sub(c) ==
    /\ cpc[c] = "sub"
    /\ m_count' = m_count - 1
    /\ IF m_count > 0 THEN Granted(c) ELSE Goto(c, "sleep") /\ UNCHANGED held
    /\ UNCHANGED <<m_sema, mode, want>> /\ Quiet

Wake(c) ==
    /\ cpc[c] = "sleep" /\ m_sema > 0
    /\ m_sema' = m_sema - 1
    /\ Granted(c)
    /\ UNCHANGED <<m_count, mode, want>> /\ Quiet

TimeOut(c) ==
    /\ cpc[c] = "sleep" /\ mode[c] = "timed" /\ m_sema = 0
    /\ Goto(c, "adjust")
    /\ UNCHANGED <<sema, mode, want, held>> /\ Quiet

\* Wrong on purpose: the count is put right whoever was signalled meanwhile.
AdjustBlindly(c) ==
    /\ cpc[c] = "adjust"
    /\ m_count' = m_count + 1
    /\ Return(c)
    /\ UNCHANGED <<m_sema, held>> /\ Quiet

\* The thread is not one of the waiters any more ...
Adjust(c) ==
    /\ cpc[c] = "adjust" /\ m_count < 0
    /\ m_count' = m_count + 1
    /\ Return(c)
    /\ UNCHANGED <<m_sema, held>> /\ Quiet

\* ... unless enough signals for all waiters were given: one is its own.
SeeSignalled(c) ==
    /\ cpc[c] = "adjust" /\ m_count >= 0
    /\ Goto(c, "drain")
    /\ UNCHANGED <<sema, mode, want, held>> /\ Quiet

Drain(c) ==
    /\ cpc[c] = "drain"
    /\ IF m_sema > 0 THEN m_sema' = m_sema - 1 /\ Granted(c)
       ELSE Goto(c, "adjust") /\ UNCHANGED <<m_sema, held>>
    /\ UNCHANGED <<m_count, mode, want>> /\ Quiet

\* The bulk forms take what else there is, without waiting.
More(c) ==
    LET n == IF m_count > 0 THEN Fewer(m_count, want[c] - 1) ELSE 0
    IN  /\ cpc[c] = "more"
        /\ m_count' = m_count - n
        /\ Get(c, n)
        /\ Goto(c, "take")
        /\ UNCHANGED <<m_sema, mode, want>> /\ Quiet

\* A call of the inner queue's try_dequeue(_bulk) that does not miss.
Take(c) == \E n \in 1 .. Fewer(held[c], items) :
    /\ cpc[c] = "take"
    /\ items' = items - n
    /\ held' = [held EXCEPT ![c] = @ - n]
    /\ IF n = held[c] THEN Return(c) ELSE UNCHANGED <<cpc, mode, want>>
    /\ UNCHANGED <<sema, other, producers>>

(***************************************************************************)
(* swap, which must not race with other calls                              *)
(***************************************************************************)
Idle == (\A p \in Producer : ppc[p] = "idle") /\ (\A c \in Consumer : cpc[c] = "idle")

Swap ==
    /\ Idle
    /\ m_count' = other.m_count /\ m_sema' = other.m_sema /\ items' = other.items
    /\ other' = [m_count |-> m_count, m_sema |-> m_sema, items |-> items]
    /\ UNCHANGED <<producers, consumers>>

Produce(p) == Signal(p) \/ Post(p)
Consume(c) == \/ TryWait(c) \/ TryFails(c) \/ StopSpinning(c) \/ Sub(c) \/ Wake(c) \/ TimeOut(c)
              \/ Adjust(c) \/ SeeSignalled(c) \/ Drain(c) \/ More(c) \/ Take(c)
Next == \/ \E p \in Producer : Enqueue(p) \/ Produce(p)
        \/ \E c \in Consumer : Call(c) \/ Consume(c)
        \/ Swap
Spec == Init /\ [][Next]_vars
\* A call that was begun goes on.
FairSpec == /\ Spec
            /\ \A p \in Producer : WF_vars(Produce(p))
            /\ \A c \in Consumer : WF_vars(Consume(c))
-----------------------------------------------------------------------------
\* Of numbers up to MaxBulk, as the number of units there are.
Units(f) == {u \in (DOMAIN f) \X (1 .. MaxBulk) : u[2] <= f[u[1]]}
Sum(f) == Cardinality(Units(f))
Waiting == {c \in Consumer : cpc[c] \in {"sleep", "adjust", "drain"}}
Signalling == [p \in Producer |-> IF ppc[p] = "signal" THEN arg[p] ELSE 0]
Posting == [p \in Producer |-> IF ppc[p] = "post" THEN arg[p] ELSE 0]
waiters == Cardinality(Waiting)
toSignal == Sum(Signalling)
toPost == Sum(Posting)

(* The kernel semaphore has, or is about to get, one wake-up for each waiter *)
(* beyond those that a negative m_count still counts: a timed wait that gives *)
(* up leaves neither a wake-up too many nor a waiter without one.            *)
WakeupsExact == m_sema + toPost = waiters + Fewer(m_count, 0)

(* Whoever has a permit finds an item, so that the loops around the inner    *)
(* try_dequeue end: there is an item for each permit given out, each permit  *)
(* to be had and each signal to come; in the other queue as well.            *)
PermitHasItem == /\ items = toSignal + Sum(held) + m_count + waiters
                 /\ other.items = other.m_count /\ other.m_sema = 0

\* Where a thread is in its call says what it has to signal, or holds.
CallInv == /\ \A p \in Producer : ppc[p] # "idle" => arg[p] > 0
           /\ \A c \in Consumer :
                /\ cpc[c] # "idle" => want[c] > 0
                /\ held[c] <= IF cpc[c] = "take" THEN want[c] ELSE IF cpc[c] = "more" THEN 1 ELSE 0
                /\ cpc[c] = "more" => want[c] > 1

IInv == TypeOK /\ CallInv /\ WakeupsExact /\ PermitHasItem

Promise == INSTANCE CountingSemaphore WITH
    Waiter <- Consumer, Signaller <- Producer, MaxSignal <- MaxBulk,
    asked <- Signalling,
    permits <- m_sema + toPost + (IF m_count > 0 THEN m_count ELSE 0) + other.m_count

(* The two counters together are a counting semaphore, the permits of both   *)
(* queues taken together: a signal gives as many permits as items were       *)
(* enqueued, whoever sleeps, gives up or adjusts the count meanwhile, and    *)
(* each of them is acquired once.                                            *)
ImplementsSemaphore == Promise!Spec

(* A call that tries, that waits with a timeout, or that has got a permit    *)
(* returns.                                                                  *)
CallReturns == \A c \in Consumer :
    (mode[c] = "timed" \/ cpc[c] \in {"more", "take"}) ~> cpc[c] = "idle"

(* A thread does not sleep for ever over an item that nobody has claimed.    *)
NoSleepOverItem == \A c \in Consumer :
    []<>(cpc[c] # "sleep") \/ <>[](items = Sum(held))
=============================================================================
