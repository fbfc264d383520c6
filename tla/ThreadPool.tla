----------------------------- MODULE ThreadPool -----------------------------
(***************************************************************************)
(* thread_pool.h: workers that wait for tasks on one condition variable,   *)
(* callers that enqueue them, and a destructor that lets the workers empty *)
(* the queue before they end.  A step between two points of a thread is a  *)
(* critical section of queue_mutex, or what happens outside it.            *)
(***************************************************************************)
EXTENDS Integers, Sequences, FiniteSets

CONSTANTS Worker, Caller,
          MaxTasks   \* bound: tasks of each caller

\* A pool that is made with no thread has nobody to run its tasks.
ThreadPoolAssumption == MaxTasks \in Nat /\ Worker # {}

VARIABLES tasks,     \* <<caller, number>>, the next one first
          stop,
          waiters,   \* workers asleep in condition
          wpc,       \* workers: "test" or wait, "run", "returned"
          task,      \* what each worker runs
          cpc,       \* callers: "out", "notify"
          enqueued,  \* tasks of each caller that were taken into the queue
          ran,       \* how often each task was run
          dpc        \* the destructor: "before", "notify", "join", "after"
vars == <<tasks, stop, waiters, wpc, task, cpc, enqueued, ran, dpc>>

Task == Caller \X (1 .. MaxTasks)
NoTask == <<>>

Init == /\ tasks = <<>> /\ stop = FALSE /\ waiters = {}
        /\ wpc = [w \in Worker |-> "test"]
        /\ task = [w \in Worker |-> NoTask]
        /\ cpc = [c \in Caller |-> "out"]
        /\ enqueued = [c \in Caller |-> 0]
        /\ ran = [t \in Task |-> 0]
        /\ dpc = "before"

\* Wrong on purpose: a stopped worker leaves the tasks that are queued.
TestStopFirst(w) ==
    /\ wpc[w] = "test" /\ w \notin waiters
    /\ IF stop THEN wpc' = [wpc EXCEPT ![w] = "returned"] /\ UNCHANGED <<tasks, waiters, task>>
       ELSE IF tasks = <<>> THEN waiters' = waiters \cup {w} /\ UNCHANGED <<tasks, wpc, task>>
       ELSE /\ wpc' = [wpc EXCEPT ![w] = "run"]
            /\ task' = [task EXCEPT ![w] = Head(tasks)]
            /\ tasks' = Tail(tasks)
            /\ UNCHANGED waiters
    /\ UNCHANGED <<stop, cpc, enqueued, ran, dpc>>

\* A worker tests the predicate of wait: it sleeps, ends, or takes a task.
Test(w) ==
    /\ wpc[w] = "test" /\ w \notin waiters
    /\ IF tasks # <<>>
       THEN /\ wpc' = [wpc EXCEPT ![w] = "run"]
            /\ task' = [task EXCEPT ![w] = Head(tasks)]
            /\ tasks' = Tail(tasks)
            /\ UNCHANGED waiters
       ELSE IF stop THEN wpc' = [wpc EXCEPT ![w] = "returned"] /\ UNCHANGED <<tasks, waiters, task>>
       ELSE waiters' = waiters \cup {w} /\ UNCHANGED <<tasks, wpc, task>>
    /\ UNCHANGED <<stop, cpc, enqueued, ran, dpc>>

\* Outside the lock.
Run(w) ==
    /\ wpc[w] = "run"
    /\ ran' = [ran EXCEPT ![task[w]] = @ + 1]
    /\ task' = [task EXCEPT ![w] = NoTask]
    /\ wpc' = [wpc EXCEPT ![w] = "test"]
    /\ UNCHANGED <<tasks, stop, waiters, cpc, enqueued, dpc>>

SpuriousWake(w) ==
    /\ w \in waiters
    /\ waiters' = waiters \ {w}
    /\ UNCHANGED <<tasks, stop, wpc, task, cpc, enqueued, ran, dpc>>

\* enqueue; on a stopped pool it throws, and changes nothing.
Enqueue(c) ==
    /\ cpc[c] = "out" /\ enqueued[c] < MaxTasks /\ ~stop
    /\ enqueued' = [enqueued EXCEPT ![c] = @ + 1]
    /\ tasks' = Append(tasks, <<c, enqueued[c] + 1>>)
    /\ cpc' = [cpc EXCEPT ![c] = "notify"]
    /\ UNCHANGED <<stop, waiters, wpc, task, ran, dpc>>

\* notify_one, outside the lock.
Notify(c) ==
    /\ cpc[c] = "notify"
    /\ cpc' = [cpc EXCEPT ![c] = "out"]
    /\ IF waiters = {} THEN UNCHANGED waiters ELSE \E w \in waiters : waiters' = waiters \ {w}
    /\ UNCHANGED <<tasks, stop, wpc, task, enqueued, ran, dpc>>

\* ~ThreadPool: stop, notify_all outside the lock, join.
Stop ==
    /\ dpc = "before"
    /\ stop' = TRUE
    /\ dpc' = "notify"
    /\ UNCHANGED <<tasks, waiters, wpc, task, cpc, enqueued, ran>>

\* Wrong on purpose: one worker learns of it.
NotifyStopOne ==
    /\ dpc = "notify"
    /\ IF waiters = {} THEN UNCHANGED waiters ELSE \E w \in waiters : waiters' = waiters \ {w}
    /\ dpc' = "join"
    /\ UNCHANGED <<tasks, stop, wpc, task, cpc, enqueued, ran>>

NotifyStop ==
    /\ dpc = "notify"
    /\ waiters' = {}
    /\ dpc' = "join"
    /\ UNCHANGED <<tasks, stop, wpc, task, cpc, enqueued, ran>>

Join ==
    /\ dpc = "join" /\ \A w \in Worker : wpc[w] = "returned"
    /\ dpc' = "after"
    /\ UNCHANGED <<tasks, stop, waiters, wpc, task, cpc, enqueued, ran>>

Next == \/ \E w \in Worker : Test(w) \/ Run(w) \/ SpuriousWake(w)
        \/ \E c \in Caller : Enqueue(c) \/ Notify(c)
        \/ Stop \/ NotifyStop \/ Join
Spec == Init /\ [][Next]_vars
\* Threads run; nobody has to enqueue, nor to destroy the pool.
FairSpec == /\ Spec
            /\ \A w \in Worker : WF_vars(Test(w)) /\ WF_vars(Run(w))
            /\ \A c \in Caller : WF_vars(Notify(c))
            /\ WF_vars(NotifyStop) /\ WF_vars(Join)
-----------------------------------------------------------------------------
Accepted == {t \in Task : t[2] <= enqueued[t[1]]}

TypeOK == /\ tasks \in Seq(Task) /\ stop \in BOOLEAN
          /\ waiters \subseteq {w \in Worker : wpc[w] = "test"}
          /\ wpc \in [Worker -> {"test", "run", "returned"}]
          /\ task \in [Worker -> Task \cup {NoTask}]
          /\ cpc \in [Caller -> {"out", "notify"}]
          /\ enqueued \in [Caller -> 0 .. MaxTasks]
          /\ ran \in [Task -> 0 .. 1]
          /\ dpc \in {"before", "notify", "join", "after"}

Queued(t) == \E i \in 1 .. Len(tasks) : tasks[i] = t
Running(t) == \E w \in Worker : task[w] = t

\* An accepted task is in one place: the queue, one worker's hands, or behind it.
Place(t) ==
    /\ (Queued(t) \/ Running(t) \/ ran[t] = 1) <=> t \in Accepted
    /\ Queued(t) => ~Running(t) /\ ran[t] = 0
    /\ Running(t) => ran[t] = 0
QueuedOnce == \A i, j \in 1 .. Len(tasks) : i # j => tasks[i] # tasks[j]
RunByOne == \A v, w \in Worker : v # w /\ task[v] # NoTask => task[v] # task[w]
InOnePlace == (\A t \in Task : Place(t)) /\ QueuedOnce /\ RunByOne

\* A worker ends only when the pool is stopped and the queue empty, for good.
EndInv ==
    /\ \A w \in Worker : /\ wpc[w] = "run" <=> task[w] # NoTask
                         /\ wpc[w] = "returned" => stop /\ tasks = <<>>
    /\ stop <=> dpc # "before"
    /\ dpc = "after" => \A w \in Worker : wpc[w] = "returned"

IInv == TypeOK /\ InOnePlace /\ EndInv

(* No task is run twice, and when the destructor has returned each task that *)
(* was taken into the queue has been run: no future is left without answer.  *)
TasksRun == /\ \A t \in Task : ran[t] <= IF t \in Accepted THEN 1 ELSE 0
            /\ dpc = "after" => \A t \in Accepted : ran[t] = 1

(* A task that is queued is run, though a notification may come while no     *)
(* worker sleeps; and a destructor that has begun returns.                   *)
AllEnd == /\ \A t \in Task : t \in Accepted ~> ran[t] = 1
          /\ stop ~> dpc = "after"
=============================================================================
