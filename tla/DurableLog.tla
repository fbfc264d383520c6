----------------------------- MODULE DurableLog -----------------------------
(***************************************************************************)
(* What the engine promises its clients across kill -9: every bucket holds  *)
(* an append-only log of key-value pairs; a Write appends its own pair,     *)
(* once, at some instant between its call and its return; a kill forgets    *)
(* the calls in progress and nothing else.                                  *)
(***************************************************************************)
EXTENDS Sequences

CONSTANTS Thread, Bucket, Key, Value, BucketOf(_)

VARIABLES
  log,   \* what a recovery started now would find, per bucket
  req    \* the Write each thread has in progress

dvars == << log, req >>

Idle == [status |-> "idle"]

Pending(k, v) == [status |-> "pending", key |-> k, value |-> v]

Published == [status |-> "published"]

DInit ==
  /\ log = [b \in Bucket |-> << >>]
  /\ req = [t \in Thread |-> Idle]

DCall(t) ==
  /\ req[t] = Idle
  /\ \E k \in Key, v \in Value : req' = [req EXCEPT ![t] = Pending(k, v)]
  /\ UNCHANGED log

DAppend(t) ==
  \E k \in Key, v \in Value :
    /\ req[t] = Pending(k, v)
    /\ log' = [log EXCEPT ![BucketOf(k)] = Append(@, << k, v >>)]
    /\ req' = [req EXCEPT ![t] = Published]

DReturn(t) ==
  /\ req[t] = Published
  /\ req' = [req EXCEPT ![t] = Idle]
  /\ UNCHANGED log

DKill ==
  /\ req' = [t \in Thread |-> Idle]
  /\ UNCHANGED log

DNext ==
  \/ \E t \in Thread : DCall(t) \/ DAppend(t) \/ DReturn(t)
  \/ DKill

DSpec == DInit /\ [][DNext]_dvars
=============================================================================
