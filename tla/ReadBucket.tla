----------------------------- MODULE ReadBucket -----------------------------
(***************************************************************************)
(* ReadBucketToBuffer and its IO workers: the coordinator cuts a bucket into *)
(* blocks of Agg values, keeps one block in flight per worker, and polls a   *)
(* status word per worker to learn of completions.  It is called for one     *)
(* bucket after the other; the destructor then stops the workers.           *)
(***************************************************************************)
EXTENDS Integers, Sequences, FiniteSets

CONSTANTS
  Depth,       \* RANGE_QUEUE_DEPTH: IO workers
  Agg,         \* VAL_AGG_NUM: values per block
  MaxValues,   \* bound: values in a bucket
  MaxCalls     \* bound: buckets read

ReadBucketAssumption ==
  /\ Depth \in Nat \ {0}
  /\ Agg \in Nat \ {0}
  /\ MaxValues \in Nat
  /\ MaxCalls \in Nat

Worker == 0 .. Depth - 1

VARIABLES
  calls,      \* buckets begun
  value_num,  \* of the current bucket
  filled,     \* values of it that are in the buffer
  completed_block_num, submitted_block_num,
  io_id,      \* loop index of the coordinator
  cpc,        \* coordinator: "idle", "peek", "submit", "enqueue", "stopping", "stopped"
  status,     \* range_worker_status_tls_
  tasks,      \* range_worker_task_tls_: a FIFO per worker
  wpc, wtask  \* worker: "dequeue", "read", "complete", "exited", and its UserIOCB

counts == << calls, value_num, completed_block_num, submitted_block_num >>
workers == << wpc, wtask >>
vars == << counts, filled, io_id, cpc, status, tasks, workers >>

\* A task is the range of values to read; FD_FINISHED ends the worker.
Task == [first : 0 .. MaxValues, size : 1 .. Agg]
Finished == [first |-> 0, size |-> 0]

Init ==
  /\ calls = 0
  /\ value_num = 0
  /\ filled = {}
  /\ completed_block_num = 0
  /\ submitted_block_num = 0
  /\ io_id = 0
  /\ cpc = "idle"
  /\ status = [w \in Worker |-> "IDLE"]
  /\ tasks = [w \in Worker |-> << >>]
  /\ wpc = [w \in Worker |-> "dequeue"]
  /\ wtask = [w \in Worker |-> Finished]

remain_value_num == value_num % Agg

total_block_num ==
  IF remain_value_num = 0 THEN value_num \div Agg ELSE value_num \div Agg + 1

\* Only the last block may be shorter.
SizeOf(block) ==
  IF block = total_block_num - 1 /\ remain_value_num # 0 THEN remain_value_num ELSE Agg

Call ==
  /\ cpc = "idle"
  /\ calls < MaxCalls
  /\ calls' = calls + 1
  /\ value_num' \in 0 .. MaxValues
  /\ filled' = {}
  /\ completed_block_num' = 0
  /\ submitted_block_num' = 0
  /\ io_id' = 0
  /\ cpc' = IF value_num' = 0 THEN "idle" ELSE "peek"
  /\ UNCHANGED << status, tasks, workers >>

\* Wrong on purpose: stops when everything is submitted.
NextWorkerEarly(completed) ==
  /\ io_id' = (io_id + 1) % Depth
  /\ cpc' = IF io_id = Depth - 1 /\ submitted_block_num = total_block_num
            THEN "idle" ELSE "peek"

\* After the last worker the while condition is tested again.
NextWorker(completed) ==
  /\ io_id' = (io_id + 1) % Depth
  /\ cpc' = IF io_id = Depth - 1 /\ completed = total_block_num THEN "idle" ELSE "peek"

\* Takes the completion of one worker, then decides whether to submit to it.
Peek ==
  LET w == io_id
      seen == IF status[w] = "COMPLETED" THEN 1 ELSE 0
  IN
  /\ cpc = "peek"
  /\ completed_block_num' = completed_block_num + seen
  /\ status' = IF seen = 1 THEN [status EXCEPT ![w] = "IDLE"] ELSE status
  /\ IF submitted_block_num < total_block_num /\ status'[w] = "IDLE"
     THEN cpc' = "submit" /\ UNCHANGED io_id
     ELSE NextWorker(completed_block_num')
  /\ UNCHANGED << calls, value_num, submitted_block_num, filled, tasks, workers >>

\* Wrong on purpose: the worker is not marked.
SubmitUnmarked ==
  /\ cpc = "submit"
  /\ cpc' = "enqueue"
  /\ UNCHANGED << counts, filled, io_id, status, tasks, workers >>

\* The status is set before the worker can see the task.
Submit ==
  /\ cpc = "submit"
  /\ status' = [status EXCEPT ![io_id] = "SUBMITTED"]
  /\ cpc' = "enqueue"
  /\ UNCHANGED << counts, filled, io_id, tasks, workers >>

Enqueue ==
  LET w == io_id IN
  /\ cpc = "enqueue"
  /\ tasks' = [tasks EXCEPT ![w] =
       Append(@, [first |-> submitted_block_num * Agg, size |-> SizeOf(submitted_block_num)])]
  /\ submitted_block_num' = submitted_block_num + 1
  /\ NextWorker(completed_block_num)
  /\ UNCHANGED << calls, value_num, completed_block_num, filled, status, workers >>

\* The destructor, after the coordinator thread was joined: one end per worker,
\* each joined before the next is told.
Stop ==
  /\ cpc = "idle"
  /\ cpc' = "stopping"
  /\ io_id' = 0
  /\ tasks' = [tasks EXCEPT ![0] = Append(@, Finished)]
  /\ UNCHANGED << counts, filled, status, workers >>

JoinWorker ==
  /\ cpc = "stopping"
  /\ wpc[io_id] = "exited"
  /\ IF io_id = Depth - 1
     THEN cpc' = "stopped" /\ UNCHANGED << io_id, tasks >>
     ELSE /\ io_id' = io_id + 1
          /\ tasks' = [tasks EXCEPT ![io_id + 1] = Append(@, Finished)]
          /\ UNCHANGED cpc
  /\ UNCHANGED << counts, filled, status, workers >>

-----------------------------------------------------------------------------
(* An IO worker.                                                            *)

Dequeue(w) ==
  /\ wpc[w] = "dequeue"
  /\ tasks[w] # << >>
  /\ wtask' = [wtask EXCEPT ![w] = Head(tasks[w])]
  /\ tasks' = [tasks EXCEPT ![w] = Tail(@)]
  /\ wpc' = [wpc EXCEPT ![w] = IF Head(tasks[w]) = Finished THEN "exited" ELSE "read"]
  /\ UNCHANGED << counts, filled, io_id, cpc, status >>

ValuesOf(task) == task.first .. task.first + task.size - 1

\* The pread, which ends when the values are in the buffer.
ReadBlock(w) ==
  /\ wpc[w] = "read"
  /\ filled' = filled \cup ValuesOf(wtask[w])
  /\ wpc' = [wpc EXCEPT ![w] = "complete"]
  /\ UNCHANGED << counts, io_id, cpc, status, tasks, wtask >>

Complete(w) ==
  /\ wpc[w] = "complete"
  /\ status' = [status EXCEPT ![w] = "COMPLETED"]
  /\ wpc' = [wpc EXCEPT ![w] = "dequeue"]
  /\ UNCHANGED << counts, filled, io_id, cpc, tasks, wtask >>

WorkerStep(w) == Dequeue(w) \/ ReadBlock(w) \/ Complete(w)

Stopped == cpc = "stopped" /\ UNCHANGED vars

Next ==
  \/ Call \/ Peek \/ Submit \/ Enqueue \/ Stop \/ JoinWorker
  \/ \E w \in Worker : WorkerStep(w)
  \/ Stopped

Spec == Init /\ [][Next]_vars

\* The threads are scheduled and preads return; nobody has to call or to stop.
Fairness ==
  /\ WF_vars(Peek \/ Submit \/ Enqueue \/ JoinWorker)
  /\ \A w \in Worker : WF_vars(WorkerStep(w))

FairSpec == Spec /\ Fairness

-----------------------------------------------------------------------------
TypeOK ==
  /\ calls \in 0 .. MaxCalls
  /\ value_num \in 0 .. MaxValues
  /\ filled \subseteq 0 .. MaxValues - 1
  /\ completed_block_num \in 0 .. submitted_block_num
  /\ submitted_block_num \in 0 .. total_block_num
  /\ io_id \in Worker
  /\ cpc \in {"idle", "peek", "submit", "enqueue", "stopping", "stopped"}
  /\ status \in [Worker -> {"IDLE", "SUBMITTED", "COMPLETED"}]
  /\ tasks \in [Worker -> Seq(Task \cup {Finished})]
  /\ wpc \in [Worker -> {"dequeue", "read", "complete", "exited"}]
  /\ wtask \in [Worker -> Task \cup {Finished}]

\* When ReadBucketToBuffer returns, the buffer holds every value of the bucket and
\* no worker is still going to write into it, which by then may be another's.
BucketComplete ==
  cpc = "idle" =>
    /\ filled = 0 .. value_num - 1
    /\ \A w \in Worker : tasks[w] = << >> /\ wpc[w] = "dequeue"

\* The blocks in flight and the values already there never overlap: no block is
\* submitted twice, skipped, or reaches past the end of the bucket.
InFlightTasks ==
  (UNION {{tasks[w][i] : i \in 1 .. Len(tasks[w])} : w \in Worker})
    \cup {wtask[w] : w \in {w \in Worker : wpc[w] = "read"}}

BlocksDisjoint ==
  /\ \A a \in InFlightTasks :
       ValuesOf(a) \subseteq 0 .. value_num - 1 /\ ValuesOf(a) \cap filled = {}
  /\ \A a, b \in InFlightTasks : a # b => ValuesOf(a) \cap ValuesOf(b) = {}

Block(b) == [first |-> b * Agg, size |-> SizeOf(b)]

\* Between the queueing of block b to worker w and the end of the pread.
Holds(w, b) == tasks[w] = << Block(b) >> \/ (wpc[w] = "read" /\ wtask[w] = Block(b))
InFlight(b) == \E w \in Worker : Holds(w, b)

Stopping == cpc \in {"stopping", "stopped"}
Queueing(w) == cpc = "enqueue" /\ io_id = w
Busy == {w \in Worker : status[w] # "IDLE" /\ ~Queueing(w)}
Submitted(w) == status[w] = "SUBMITTED" /\ ~Queueing(w)
Resting(w) == wpc[w] = "dequeue" /\ tasks[w] = << >>

\* The status word tells the coordinator where the worker's block is.
WorkerInv(w) ==
  \/ ~Submitted(w) /\ ~Stopping /\ Resting(w)
  \/ /\ Submitted(w) /\ wpc[w] = "dequeue"
     /\ \E b \in 0 .. submitted_block_num - 1 : tasks[w] = << Block(b) >>
  \/ /\ Submitted(w) /\ wpc[w] = "read" /\ tasks[w] = << >>
     /\ \E b \in 0 .. submitted_block_num - 1 : wtask[w] = Block(b)
  \/ Submitted(w) /\ wpc[w] = "complete" /\ tasks[w] = << >>
  \/ /\ Stopping /\ wpc[w] \in {"dequeue", "exited"}
     /\ tasks[w] = << >> \/ (tasks[w] = << Finished >> /\ w <= io_id)

CoordinatorInv ==
  /\ cpc = "submit" => status[io_id] = "IDLE"
  /\ cpc = "enqueue" => status[io_id] = "SUBMITTED"
  /\ cpc \in {"submit", "enqueue"} => submitted_block_num < total_block_num
  /\ cpc \in {"idle", "stopping", "stopped"} =>
       completed_block_num = total_block_num /\ \A w \in Worker : status[w] = "IDLE"
  /\ completed_block_num + Cardinality(Busy) = submitted_block_num

\* The buffer has the blocks that were submitted and are not in flight.
FillInv ==
  /\ filled = UNION {ValuesOf(Block(b)) : b \in {x \in 0 .. submitted_block_num - 1 : ~InFlight(x)}}
  /\ \A v, w \in Worker, b \in 0 .. submitted_block_num - 1 : Holds(v, b) /\ Holds(w, b) => v = w

IInv == TypeOK /\ CoordinatorInv /\ (\A w \in Worker : WorkerInv(w)) /\ FillInv

\* The coordinator's polling ends: no completion is overwritten or missed.
CallReturns == cpc \in {"peek", "submit", "enqueue"} ~> cpc = "idle"

\* The destructor gets every worker to exit.
StopReturns == cpc = "stopping" ~> cpc = "stopped"
=============================================================================
