------------------------------ MODULE SubQueue ------------------------------
(***************************************************************************)
(* What one producer's sub-queue promises: a FIFO queue from which each    *)
(* consumer takes some of the first items and is given just these.         *)
(***************************************************************************)
EXTENDS Sequences, Integers

CONSTANTS Item, Consumer
VARIABLES queue,  \* items that are published and not claimed
          hand    \* items that each consumer claimed and was not yet given
vars == <<queue, hand>>

Init == queue = <<>> /\ hand = [c \in Consumer |-> <<>>]

Publish(s) == queue' = queue \o s /\ UNCHANGED hand

Claim(c, n) == /\ hand[c] = <<>>
               /\ hand' = [hand EXCEPT ![c] = SubSeq(queue, 1, n)]
               /\ queue' = SubSeq(queue, n + 1, Len(queue))

Deliver(c) == hand[c] # <<>> /\ hand' = [hand EXCEPT ![c] = <<>>] /\ UNCHANGED queue

Next == \/ LET n == Len(queue') - Len(queue)
           IN  n > 0 /\ Publish(SubSeq(queue', Len(queue) + 1, Len(queue')))
        \/ \E c \in Consumer : (\E n \in 1 .. Len(queue) : Claim(c, n)) \/ Deliver(c)
Spec == Init /\ [][Next]_vars
=============================================================================
