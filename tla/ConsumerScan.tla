---------------------------- MODULE ConsumerScan ----------------------------
(***************************************************************************)
(* How a consumer of a ConcurrentQueue chooses the sub-queue to take from: *)
(* by length (try_dequeue), in list order, or where its ConsumerToken      *)
(* stands.  A sub-queue is a number of items, of which a look may miss     *)
(* some: a tail that is not up to date, or what another consumer has       *)
(* reserved and may give back, make it appear shorter, even empty.         *)
(* Producers are added to the list and enqueue, other consumers take items *)
(* and make everybody rotate, at any time.                                 *)
(***************************************************************************)
EXTENDS Integers

CONSTANTS MaxProducers,  \* bound: producers in the list
          MaxItems,      \* bound: items in a sub-queue
          MaxBulk,       \* bound: items asked for at once
          Quota,         \* EXPLICIT_CONSUMER_CONSUMPTION_QUOTA_BEFORE_ROTATE
          Wrap           \* 2^32: offsets and counters are uint32_t

ScanAssumption == MaxProducers \in Nat /\ MaxItems \in Nat /\ MaxBulk \in Nat
                  /\ Quota \in Nat /\ Wrap \in Nat \ {0}

null == 0
Producer == 1 .. MaxProducers

VARIABLES producerListTail, producerCount, items, globalExplicitConsumerOffset,
          token,      \* the consumer's ConsumerToken
          pc, local   \* the consumer in a dequeue
list == <<producerListTail, producerCount>>
tokens == <<token, globalExplicitConsumerOffset>>
vars == <<list, items, tokens, pc, local>>

\* Producers are numbered as they are linked: next of one is the one before it.
next_prod(p) == p - 1
Fewer(a, b) == IF a < b THEN a ELSE b

NoCall == [ptr |-> null, last |-> null, best |-> null, bestSize |-> 0, nonEmptyCount |-> 0,
           prodCount |-> 0, left |-> 0, bulk |-> FALSE, owed |-> {}]

Init == /\ producerListTail = null
        /\ producerCount = 0
        /\ items = [p \in Producer |-> 0]
        /\ globalExplicitConsumerOffset = 0
        /\ token \in [initialOffset : 0 .. 1, lastKnownGlobalOffset : {Wrap - 1},
                      itemsConsumedFromCurrent : {0}, currentProducer : {null},
                      desiredProducer : {null}]
        /\ pc = "out"
        /\ local = NoCall

(***************************************************************************)
(* Producers, and the other consumers                                      *)
(***************************************************************************)
\* add_producer: counted, then linked.
CountProducer == /\ producerCount < MaxProducers
                 /\ producerCount' = producerCount + 1
                 /\ UNCHANGED <<producerListTail, items, tokens, pc, local>>
LinkProducer == /\ producerListTail < producerCount
                /\ producerListTail' = producerListTail + 1
                /\ UNCHANGED <<producerCount, items, tokens, pc, local>>
Enqueue == \E p \in 1 .. producerListTail :
              /\ items[p] < MaxItems
              /\ items' = [items EXCEPT ![p] = @ + 1]
              /\ UNCHANGED <<list, tokens, pc, local>>
OtherDequeue == \E p \in 1 .. producerListTail :
              /\ items[p] > 0
              /\ items' = [items EXCEPT ![p] = @ - 1]
              /\ UNCHANGED <<list, tokens, pc, local>>
OtherRotate == /\ producerListTail # null
               /\ globalExplicitConsumerOffset' = (globalExplicitConsumerOffset + 1) % Wrap
               /\ UNCHANGED <<list, items, token, pc, local>>

(***************************************************************************)
(* The calls.  owed are the sub-queues that have to appear empty to the    *)
(* consumer before it may come back with less than it was asked for.       *)
(***************************************************************************)
Begin(start, max, bulk) ==
    /\ pc = "out"
    /\ pc' = start
    /\ local' = [NoCall EXCEPT !.left = max, !.bulk = bulk, !.owed = 1 .. producerListTail]
    /\ UNCHANGED <<list, items, tokens>>

try_dequeue == Begin("weigh", 1, FALSE)
try_dequeue_bulk == \E max \in 1 .. MaxBulk : Begin("head", max, TRUE)
try_dequeue_token == \E max \in 1 .. MaxBulk, bulk \in BOOLEAN :
    /\ max > 1 => bulk
    /\ Begin(IF token.desiredProducer = null
                \/ token.lastKnownGlobalOffset # globalExplicitConsumerOffset
             THEN "rotate" ELSE "own", max, bulk)

\* dequeue(_bulk) of producer p takes n items, which may be fewer than there are;
\* and the call after that: p appeared empty if it did not give all that was asked.
Gives(p) == 0 .. Fewer(items[p], local.left)
Dequeue(p, n) == items' = [items EXCEPT ![p] = @ - n]
After(p, n) == [local EXCEPT !.left = @ - n,
                             !.owed = IF n < local.left THEN @ \ {p} ELSE @]

\* try_dequeue: the longest of the first three sub-queues that look non-empty.
Weigh ==
    /\ pc = "weigh"
    /\ local' = [local EXCEPT !.ptr = producerListTail]
    /\ pc' = IF producerListTail = null THEN "back" ELSE "size"
    /\ UNCHANGED <<list, items, tokens>>

\* size_approx loads the tail and the head one after the other.
Size == \E size \in 0 .. MaxItems :
    LET p == local.ptr
        longer == size > local.bestSize
        count == local.nonEmptyCount + Fewer(size, 1)
        more == count < 3 /\ next_prod(p) # null
    IN  /\ pc = "size"
        /\ local' = [local EXCEPT
                       !.ptr = IF more THEN next_prod(p) ELSE null,
                       !.nonEmptyCount = IF more THEN count ELSE 0,
                       !.best = IF longer THEN p ELSE @,
                       !.bestSize = IF ~more THEN 0 ELSE IF longer THEN size ELSE @,
                       !.owed = IF size = 0 THEN @ \ {p} ELSE @]
        /\ pc' = IF more THEN "size" ELSE IF count > 0 THEN "best" ELSE "back"
        /\ UNCHANGED <<list, items, tokens>>

Best ==
    /\ pc = "best"
    /\ \E n \in Gives(local.best) :
          /\ Dequeue(local.best, n)
          /\ local' = After(local.best, n)
          /\ pc' = IF n = local.left THEN "back" ELSE "head"
    /\ UNCHANGED <<list, tokens>>

\* All of the list, but for the one that was tried already.
Head ==
    /\ pc = "head"
    /\ local' = [local EXCEPT !.ptr = producerListTail]
    /\ pc' = IF producerListTail = null THEN "back" ELSE "each"
    /\ UNCHANGED <<list, items, tokens>>

Each ==
    LET p == local.ptr
    IN  /\ pc = "each"
        /\ \E n \in Gives(p) :
              LET l == IF p = local.best THEN local ELSE After(p, n)
              IN  /\ IF p = local.best THEN UNCHANGED items ELSE Dequeue(p, n)
                  /\ local' = [l EXCEPT !.ptr = next_prod(p)]
                  /\ pc' = IF l.left = 0 \/ next_prod(p) = null THEN "back" ELSE "each"
        /\ UNCHANGED <<list, tokens>>

(***************************************************************************)
(* update_current_producer_after_rotation                                  *)
(***************************************************************************)
Rotate ==
    /\ pc = "rotate"
    /\ local' = [local EXCEPT !.last = producerListTail]
    /\ pc' = IF token.desiredProducer = null /\ producerListTail = null THEN "back" ELSE "count"
    /\ UNCHANGED <<list, items, tokens>>

LoadCount ==
    /\ pc = "count"
    /\ local' = [local EXCEPT !.prodCount = producerCount]
    /\ pc' = "move"
    /\ UNCHANGED <<list, items, tokens>>

\* The producer after p, from the end of the list back to where it began; n of
\* them further, where the list began at last: its producers are 1 .. last.
Onward(p, last) == IF next_prod(p) = null THEN last ELSE next_prod(p)
Further(p, last, n) == ((p - 1 - n) % last) + 1

Move ==
    LET n == local.prodCount
        first == IF token.desiredProducer # null THEN token.desiredProducer
                 ELSE Further(local.last, local.last, n - 1 - (token.initialOffset % n))
        delta == ((globalExplicitConsumerOffset - token.lastKnownGlobalOffset) % Wrap) % n
        desired == Further(first, local.last, delta)
    IN  /\ pc = "move"
        /\ token' = [token EXCEPT !.lastKnownGlobalOffset = globalExplicitConsumerOffset,
                                  !.desiredProducer = desired, !.currentProducer = desired,
                                  !.itemsConsumedFromCurrent = 0]
        /\ local' = [local EXCEPT !.prodCount = 0, !.last = null]
        /\ pc' = "own"
        /\ UNCHANGED <<list, items, globalExplicitConsumerOffset>>

(***************************************************************************)
(* try_dequeue, try_dequeue_bulk with a token                              *)
(***************************************************************************)
\* The current producer.  When it gave all that was asked for, and with it the
\* quota, everybody is told to move on.
OwnDequeue ==
    LET p == token.currentProducer
    IN  /\ pc = "own"
        /\ \E n \in Gives(p) :
              LET full == n = local.left
                  consumed == (token.itemsConsumedFromCurrent + n) % Wrap
                  quota == consumed = Quota \/ (local.bulk /\ consumed > Quota)
              IN  /\ Dequeue(p, n)
                  /\ local' = After(p, n)
                  /\ token' = [token EXCEPT !.itemsConsumedFromCurrent = consumed]
                  /\ globalExplicitConsumerOffset' =
                        IF full /\ quota THEN (globalExplicitConsumerOffset + 1) % Wrap
                        ELSE globalExplicitConsumerOffset
                  /\ pc' = IF full THEN "back" ELSE "turn"
        /\ UNCHANGED list

\* Wrong on purpose: the round ends where the list does.
GoOnToEnd(l, p, last, current) ==
    /\ local' = [l EXCEPT !.ptr = next_prod(p), !.last = last]
    /\ pc' = IF l.left = 0 \/ next_prod(p) \in {null, current} THEN "back" ELSE "others"

\* The place after p on the round, until the current producer comes again.
GoOn(l, p, last, current) ==
    LET q == Onward(p, last)
    IN  /\ local' = [l EXCEPT !.ptr = q, !.last = last]
        /\ pc' = IF l.left = 0 \/ q = current THEN "back" ELSE "others"

Turn ==
    /\ pc = "turn"
    /\ GoOn(local, token.currentProducer, producerListTail, token.currentProducer)
    /\ UNCHANGED <<list, items, tokens>>

Others ==
    LET p == local.ptr
    IN  /\ pc = "others"
        /\ \E n \in Gives(p) :
              LET current == IF n = 0 THEN token.currentProducer ELSE p
              IN  /\ Dequeue(p, n)
                  /\ token' = IF n = 0 THEN token
                              ELSE [token EXCEPT !.currentProducer = p, !.itemsConsumedFromCurrent = n]
                  /\ GoOn(After(p, n), p, local.last, current)
        /\ UNCHANGED <<list, globalExplicitConsumerOffset>>

Back == /\ pc = "back"
        /\ pc' = "out" /\ local' = NoCall
        /\ UNCHANGED <<list, items, tokens>>

Environment == CountProducer \/ LinkProducer \/ Enqueue \/ OtherDequeue \/ OtherRotate
Call == try_dequeue \/ try_dequeue_bulk \/ try_dequeue_token
Step == \/ Weigh \/ Size \/ Best \/ Head \/ Each \/ Rotate \/ LoadCount \/ Move
        \/ OwnDequeue \/ Turn \/ Others \/ Back
Next == Environment \/ Call \/ Step
Spec == Init /\ [][Next]_vars
-----------------------------------------------------------------------------
(***************************************************************************)
(* The inductive invariant: what the consumer may still owe the sub-queues *)
(* at each place of a call.                                                *)
(***************************************************************************)
Listed == 1 .. producerListTail

ListInv == /\ producerCount \in 0 .. MaxProducers
           /\ producerListTail \in 0 .. producerCount
           /\ items \in [Producer -> Nat]
           /\ globalExplicitConsumerOffset \in Nat

Token == [initialOffset : Nat, lastKnownGlobalOffset : Nat, itemsConsumedFromCurrent : Nat,
          currentProducer : Listed \cup {null}, desiredProducer : Listed \cup {null}]
TokenInv == /\ token \in Token
            /\ token.desiredProducer # null => token.currentProducer # null

Calls == [ptr : Listed \cup {null}, last : Listed \cup {null}, best : Listed \cup {null},
          bestSize : Nat, nonEmptyCount : Nat, prodCount : 0 .. producerCount,
          left : Nat, bulk : BOOLEAN, owed : SUBSET Listed]

\* The sub-queues from p on, round to the one before current.
Ahead(p, last, current) == IF current < p THEN current + 1 .. p
                           ELSE 1 .. p \cup current + 1 .. last

Owes ==
    /\ pc = "weigh" => local.bestSize = 0 /\ local.nonEmptyCount = 0 /\ local.best = null
    /\ pc = "size" =>
          /\ local.ptr # null
          /\ IF local.nonEmptyCount = 0 THEN local.owed \subseteq 1 .. local.ptr /\ local.bestSize = 0
             ELSE local.best # null
    /\ pc = "best" => local.best # null
    /\ pc = "head" => local.best \notin local.owed
    /\ pc = "each" => local.ptr # null /\ local.owed \subseteq (1 .. local.ptr) \ {local.best}
    /\ pc \in {"count", "move"} => local.last # null /\ token.desiredProducer <= local.last
    /\ pc = "move" => local.prodCount > 0
    /\ pc \in {"own", "turn", "others"} => token.currentProducer # null
    /\ pc = "turn" => token.currentProducer \notin local.owed
    /\ pc = "others" =>
          /\ local.ptr # null /\ local.last # null
          /\ local.ptr <= local.last /\ token.currentProducer <= local.last
          /\ local.ptr # token.currentProducer
          /\ local.owed \subseteq Ahead(local.ptr, local.last, token.currentProducer)
    /\ pc = "back" => local.left = 0 \/ local.owed = {}

IInv == /\ ListInv
        /\ TokenInv
        /\ pc \in {"out", "weigh", "size", "best", "head", "each", "rotate", "count", "move",
                   "own", "turn", "others", "back"}
        /\ local \in Calls
        /\ pc \notin {"out", "back"} => local.left > 0
        /\ Owes
-----------------------------------------------------------------------------
(* A dequeue that comes back with less than it was asked for has asked every *)
(* sub-queue that was in the list when it began, and each appeared empty at  *)
(* the time it was checked (the comments of try_dequeue), whatever was       *)
(* added, consumed or rotated by others meanwhile; and no producer count it  *)
(* divides by is zero.                                                       *)
EveryoneAsked ==
    /\ pc = "back" /\ local.left > 0 => local.owed = {}
    /\ pc = "move" => local.prodCount > 0
=============================================================================
