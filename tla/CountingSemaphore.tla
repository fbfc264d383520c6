------------------------- MODULE CountingSemaphore -------------------------
(***************************************************************************)
(* What a counting semaphore promises: a signal gives as many permits as   *)
(* it was called with, at one moment of the call, and each of them is      *)
(* acquired once.                                                          *)
(***************************************************************************)
EXTENDS Integers

CONSTANTS Waiter, Signaller,
          MaxSignal  \* most permits of one signal
VARIABLES permits,  \* signalled and not yet acquired
          held,     \* acquired and not yet used
          asked     \* of each signal that was called: the permits it has to give
vars == <<permits, held, asked>>

Init == /\ permits = 0
        /\ held = [w \in Waiter |-> 0]
        /\ asked = [s \in Signaller |-> 0]

Call(s) == /\ asked[s] = 0
           /\ \E n \in 1 .. MaxSignal : asked' = [asked EXCEPT ![s] = n]
           /\ UNCHANGED <<permits, held>>

Signal(s) == /\ asked[s] > 0
             /\ permits' = permits + asked[s]
             /\ asked' = [asked EXCEPT ![s] = 0]
             /\ UNCHANGED held

Acquire(w) == /\ permits' \in 0 .. permits - 1
              /\ held' = [held EXCEPT ![w] = @ + permits - permits']
              /\ UNCHANGED asked

Use(w) == /\ \E k \in 1 .. held[w] : held' = [held EXCEPT ![w] = @ - k]
          /\ UNCHANGED <<permits, asked>>

Next == \/ \E s \in Signaller : Call(s) \/ Signal(s)
        \/ \E w \in Waiter : Acquire(w) \/ Use(w)
Spec == Init /\ [][Next]_vars
=============================================================================
