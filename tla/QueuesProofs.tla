---------------------------- MODULE QueuesProofs ----------------------------
(***************************************************************************)
(* Proofs about the parts of ConcurrentQueue, for any numbers of threads,  *)
(* producers, blocks and items.  HashProofs has the proofs about the hash   *)
(* of producers, ImplicitProofs those about the blocks of an implicit       *)
(* sub-queue; what they say is carried over to MCQueues here.               *)
(***************************************************************************)
EXTENDS MCQueues, FiniteSetTheorems, TLAPS

LEMMA QueuesNumbers ==
  MaxProducers \in Nat /\ ScanItems \in Nat /\ ScanBulk \in Nat /\ Quota \in Nat
  /\ ScanWrap \in Nat /\ ScanWrap > 0
BY QueuesAssumption DEF C!ScanAssumption

\* What the parts count is counted here.
LEMMA SameCounting ==
  ASSUME NEW T
  PROVE  P!Cardinality(T) = Cardinality(T)
BY DEF Cardinality, P!Cardinality, IsFiniteSet, P!IsFiniteSet

LEMMA ModRange ==
  ASSUME NEW a \in Int, NEW w \in Nat, w > 0
  PROVE  a % w \in 0 .. w - 1 /\ a % w \in Nat
OBVIOUS

-----------------------------------------------------------------------------
(* ConsumerScan.                                                            *)

LEMMA ScanInit ==
  ASSUME C!Init
  PROVE  C!IInv
<1>1. items \in [C!Producer -> Nat] /\ globalExplicitConsumerOffset \in Nat
  BY DEF C!Init
<1>2. C!ListInv
  BY <1>1, QueuesNumbers DEF C!ListInv, C!Init, C!null
<1>3. C!TokenInv
  BY QueuesNumbers DEF C!TokenInv, C!Token, C!Init, C!null
<1>4. ul \in C!Calls
  BY QueuesNumbers DEF C!Calls, C!Init, C!null, C!NoCall, C!Listed
<1> QED
  BY <1>2, <1>3, <1>4 DEF C!IInv, C!Owes, C!Init

\* What the invariant says of a call, field by field.
LEMMA ScanFacts ==
  ASSUME C!IInv
  PROVE  /\ producerCount \in 0 .. MaxProducers /\ producerListTail \in 0 .. producerCount
         /\ items \in [C!Producer -> Nat] /\ C!Producer = 1 .. MaxProducers
         /\ globalExplicitConsumerOffset \in Nat
         /\ token.currentProducer \in 0 .. producerListTail
         /\ token.desiredProducer \in 0 .. producerListTail
         /\ token.lastKnownGlobalOffset \in Nat /\ token.initialOffset \in Nat
         /\ token.itemsConsumedFromCurrent \in Nat
         /\ token.desiredProducer # 0 => token.currentProducer # 0
         /\ ul.ptr \in 0 .. producerListTail /\ ul.last \in 0 .. producerListTail
         /\ ul.best \in 0 .. producerListTail
         /\ ul.bestSize \in Nat /\ ul.nonEmptyCount \in Nat /\ ul.left \in Nat
         /\ ul.prodCount \in 0 .. producerCount /\ ul.bulk \in BOOLEAN
         /\ ul.owed \subseteq 1 .. producerListTail
         /\ upc \notin {"out", "back"} => ul.left > 0
<1>1. /\ producerCount \in 0 .. MaxProducers /\ producerListTail \in 0 .. producerCount
      /\ items \in [C!Producer -> Nat] /\ C!Producer = 1 .. MaxProducers
      /\ globalExplicitConsumerOffset \in Nat
      /\ upc \notin {"out", "back"} => ul.left > 0
  BY DEF C!IInv, C!ListInv, C!Producer
<1>2. C!Listed = 1 .. producerListTail /\ C!null = 0
  BY DEF C!Listed, C!null
<1>3. \A p : p \in C!Listed \cup {C!null} => p \in 0 .. producerListTail
  BY <1>1, <1>2
<1>4. /\ token \in C!Token
      /\ token.desiredProducer # 0 => token.currentProducer # 0
  BY <1>2 DEF C!IInv, C!TokenInv
<1>5. /\ token.currentProducer \in C!Listed \cup {C!null}
      /\ token.desiredProducer \in C!Listed \cup {C!null}
      /\ token.lastKnownGlobalOffset \in Nat /\ token.initialOffset \in Nat
      /\ token.itemsConsumedFromCurrent \in Nat
  BY <1>4 DEF C!Token
<1>6. ul \in C!Calls
  BY DEF C!IInv
<1>7. /\ ul.ptr \in C!Listed \cup {C!null} /\ ul.last \in C!Listed \cup {C!null}
      /\ ul.best \in C!Listed \cup {C!null}
      /\ ul.bestSize \in Nat /\ ul.nonEmptyCount \in Nat /\ ul.left \in Nat
      /\ ul.prodCount \in 0 .. producerCount /\ ul.bulk \in BOOLEAN
      /\ ul.owed \subseteq C!Listed
  BY <1>6 DEF C!Calls
<1> QED
  BY <1>1, <1>2, <1>3, <1>4, <1>5, <1>7

LEMMA ScanNumbers ==
  ASSUME C!IInv
  PROVE  /\ producerListTail \in Nat /\ token.currentProducer \in 0 .. producerListTail
         /\ token.desiredProducer \in 0 .. producerListTail
         /\ items \in [C!Producer -> Nat] /\ globalExplicitConsumerOffset \in Nat
<1>1. /\ producerCount \in 0 .. MaxProducers /\ producerListTail \in 0 .. producerCount
      /\ token.currentProducer \in 0 .. producerListTail
      /\ token.desiredProducer \in 0 .. producerListTail
      /\ items \in [C!Producer -> Nat] /\ globalExplicitConsumerOffset \in Nat
  BY ScanFacts
<1> QED
  BY <1>1, QueuesNumbers

\* The list grows at its end, where every call that is under way may stay.
LEMMA ListGrows ==
  ASSUME C!IInv, producerCount' \in 0 .. MaxProducers, producerListTail' \in 0 .. producerCount',
         producerListTail <= producerListTail', producerCount <= producerCount',
         items' \in [C!Producer -> Nat], globalExplicitConsumerOffset' \in Nat,
         UNCHANGED <<token, upc, ul>>
  PROVE  C!IInv'
<1>1. C!ListInv'
  BY DEF C!ListInv, C!Producer
<1>2. \A p : p \in C!Listed \cup {C!null} => p \in C!Listed' \cup {C!null}
  BY ScanFacts DEF C!Listed, C!null
<1>3. C!TokenInv'
  BY <1>2 DEF C!IInv, C!TokenInv, C!Token, C!null
<1>4. ul' \in C!Calls'
  <2>1. \A n : n \in 0 .. producerCount => n \in 0 .. producerCount'
    BY ScanFacts
  <2>2. \A T : T \subseteq C!Listed => T \subseteq C!Listed'
    BY ScanFacts DEF C!Listed
  <2> QED
    BY <1>2, <2>1, <2>2 DEF C!IInv, C!Calls
<1>5. C!Owes'
  BY DEF C!IInv, C!Owes, C!Ahead, C!null
<1> QED
  BY <1>1, <1>3, <1>4, <1>5 DEF C!IInv

LEMMA ScanEnvironment ==
  ASSUME C!IInv, C!Environment
  PROVE  C!IInv'
<1>1. CASE C!CountProducer
  <2>1. /\ producerCount < MaxProducers /\ producerCount' = producerCount + 1
        /\ UNCHANGED <<producerListTail, items, C!tokens, upc, ul>>
    BY <1>1 DEF C!CountProducer
  <2>2. producerCount' \in 0 .. MaxProducers /\ producerListTail' \in 0 .. producerCount'
    <3>1. /\ producerCount \in 0 .. MaxProducers /\ producerListTail \in 0 .. producerCount
          /\ MaxProducers \in Nat
      BY ScanFacts, QueuesNumbers
    <3> QED
      BY <2>1, <3>1
  <2> QED
    BY <2>1, <2>2, ScanFacts, ListGrows DEF C!tokens
<1>2. CASE C!LinkProducer
  <2>1. /\ producerListTail < producerCount /\ producerListTail' = producerListTail + 1
        /\ UNCHANGED <<producerCount, items, C!tokens, upc, ul>>
    BY <1>2 DEF C!LinkProducer
  <2>2. /\ producerCount' \in 0 .. MaxProducers /\ producerListTail' \in 0 .. producerCount'
        /\ producerListTail <= producerListTail' /\ producerCount <= producerCount'
    <3>1. /\ producerCount \in 0 .. MaxProducers /\ producerListTail \in 0 .. producerCount
          /\ MaxProducers \in Nat
      BY ScanFacts, QueuesNumbers
    <3> QED
      BY <2>1, <3>1
  <2>3. items' \in [C!Producer -> Nat] /\ globalExplicitConsumerOffset' \in Nat
    BY <2>1, ScanFacts DEF C!tokens
  <2> QED
    BY <2>1, <2>2, <2>3, ListGrows DEF C!tokens
<1>3. CASE C!Enqueue
  <2>1. PICK p \in 1 .. producerListTail : items' = [items EXCEPT ![p] = @ + 1]
    BY <1>3 DEF C!Enqueue
  <2>2. items' \in [C!Producer -> Nat]
    <3>1. p \in C!Producer
      BY ScanFacts, QueuesNumbers
    <3>2. items[p] \in Nat
      BY <3>1, ScanFacts
    <3>3. items[p] + 1 \in Nat
      BY <3>2
    <3> QED
      BY <2>1, <3>1, <3>3, ScanFacts
  <2> QED
    BY <1>3, <2>2, ScanFacts, ListGrows DEF C!Enqueue, C!list, C!tokens
<1>4. CASE C!OtherDequeue
  <2>1. PICK p \in 1 .. producerListTail : items[p] > 0 /\ items' = [items EXCEPT ![p] = @ - 1]
    BY <1>4 DEF C!OtherDequeue
  <2>2. p \in C!Producer /\ items[p] - 1 \in Nat
    <3>1. p \in C!Producer
      BY ScanFacts, QueuesNumbers
    <3>2. items[p] \in Nat
      BY <3>1, ScanFacts
    <3> QED
      BY <2>1, <3>1, <3>2
  <2>3. items' \in [C!Producer -> Nat]
    BY <2>1, <2>2, ScanFacts
  <2> QED
    BY <1>4, <2>3, ScanFacts, ListGrows DEF C!OtherDequeue, C!list, C!tokens
<1>5. CASE C!OtherRotate
  <2>1. globalExplicitConsumerOffset' \in Nat
    <3>1. globalExplicitConsumerOffset' = (globalExplicitConsumerOffset + 1) % ScanWrap
      BY <1>5 DEF C!OtherRotate
    <3>2. globalExplicitConsumerOffset + 1 \in Int
      BY ScanFacts
    <3> QED
      BY <3>1, <3>2, QueuesNumbers, ModRange
  <2> QED
    BY <1>5, <2>1, ScanFacts, ListGrows DEF C!OtherRotate, C!list
<1> QED
  BY <1>1, <1>2, <1>3, <1>4, <1>5 DEF C!Environment

\* A step of the consumer leaves the list as it is.
LEMMA ScanStays ==
  ASSUME C!IInv, UNCHANGED C!list, items' \in [C!Producer -> Nat],
         globalExplicitConsumerOffset' \in Nat, token' \in C!Token,
         token'.desiredProducer # 0 => token'.currentProducer # 0,
         upc' \in {"out", "weigh", "size", "best", "head", "each", "rotate", "count", "move",
                   "own", "turn", "others", "back"},
         ul' \in C!Calls, upc' \notin {"out", "back"} => ul'.left > 0, C!Owes'
  PROVE  C!IInv'
BY DEF C!IInv, C!ListInv, C!TokenInv, C!Token, C!Calls, C!Listed, C!list, C!null, C!Producer

LEMMA PlaceOrNull ==
  ASSUME producerListTail \in Nat, NEW p \in 0 .. producerListTail
  PROVE  p \in C!Listed \cup {C!null}
BY DEF C!Listed, C!null

LEMMA Places ==
  ASSUME NEW last \in Nat, NEW p \in 1 .. last
  PROVE  /\ C!Onward(p, last) = IF p = 1 THEN last ELSE p - 1
         /\ C!Onward(p, last) \in 1 .. last
         /\ \A n \in Int : C!Further(p, last, n) \in 1 .. last
<1>1. C!Onward(p, last) = IF p = 1 THEN last ELSE p - 1
  BY DEF C!Onward, C!next_prod, C!null
<1>2. ASSUME NEW n \in Int PROVE C!Further(p, last, n) \in 1 .. last
  <2>1. (p - 1 - n) % last \in 0 .. last - 1
    BY ModRange
  <2> QED
    BY <2>1 DEF C!Further
<1> QED
  BY <1>1, <1>2

\* What dequeue of producer p, when it gives n items, leaves of the call.
LEMMA Taking ==
  ASSUME C!IInv, NEW p \in 1 .. producerListTail, ul.left > 0, NEW n \in C!Gives(p)
  PROVE  /\ C!Dequeue(p, n) => items' \in [C!Producer -> Nat]
         /\ n \in 0 .. ul.left /\ n \in Nat
         /\ C!After(p, n) \in C!Calls
         /\ C!After(p, n).left = ul.left - n
         /\ C!After(p, n).owed \subseteq ul.owed
         /\ C!After(p, n).left = 0 \/ p \notin C!After(p, n).owed
         /\ C!After(p, n).left = 0 <=> n = ul.left
         /\ C!After(p, n).ptr = ul.ptr /\ C!After(p, n).last = ul.last /\ C!After(p, n).best = ul.best
<1>1. /\ p \in C!Producer /\ items[p] \in Nat /\ ul.left \in Nat
      /\ items \in [C!Producer -> Nat]
  <2>1. p \in C!Producer
    BY ScanFacts, QueuesNumbers
  <2> QED
    BY <2>1, ScanFacts
<1>2. n \in 0 .. IF items[p] < ul.left THEN items[p] ELSE ul.left
  BY DEF C!Gives, C!Fewer
<1>3. n \in 0 .. ul.left /\ n \in Nat /\ items[p] - n \in Nat /\ ul.left - n \in Nat
      /\ (n = ul.left <=> ~ n < ul.left)
  BY <1>1, <1>2
<1>4. C!Dequeue(p, n) => items' \in [C!Producer -> Nat]
  BY <1>1, <1>3 DEF C!Dequeue
<1>5. ul \in C!Calls
  BY DEF C!IInv
<1>6. C!After(p, n) = [ul EXCEPT !.left = ul.left - n,
                                 !.owed = IF n < ul.left THEN ul.owed \ {p} ELSE ul.owed]
  BY <1>5 DEF C!After, C!Calls
<1>7. /\ C!After(p, n) \in C!Calls
      /\ C!After(p, n).left = ul.left - n
      /\ C!After(p, n).owed = IF n < ul.left THEN ul.owed \ {p} ELSE ul.owed
      /\ C!After(p, n).ptr = ul.ptr /\ C!After(p, n).last = ul.last /\ C!After(p, n).best = ul.best
  BY <1>3, <1>5, <1>6 DEF C!Calls
<1> QED
  BY <1>1, <1>3, <1>4, <1>7

LEMMA ScanCall ==
  ASSUME C!IInv, C!Call
  PROVE  C!IInv'
<1>1. PICK from \in {"weigh", "head", "own", "rotate"}, max \in 1 .. ScanBulk \cup {1},
           bulk \in BOOLEAN :
         /\ C!Begin(from, max, bulk)
         /\ from = "own" => token.desiredProducer # 0
  BY DEF C!Call, C!try_dequeue, C!try_dequeue_bulk, C!try_dequeue_token, C!null
<1>2. /\ upc' = from
      /\ ul' = [C!NoCall EXCEPT !.left = max, !.bulk = bulk, !.owed = 1 .. producerListTail]
      /\ UNCHANGED <<C!list, items, C!tokens>>
  BY <1>1 DEF C!Begin
<1>3. max \in Nat /\ max > 0
  BY QueuesNumbers
<1>4. ul' = [ptr |-> 0, last |-> 0, best |-> 0, bestSize |-> 0, nonEmptyCount |-> 0,
             prodCount |-> 0, left |-> max, bulk |-> bulk, owed |-> 1 .. producerListTail]
  BY <1>2 DEF C!NoCall, C!null
<1>5. ul' \in C!Calls
  BY <1>3, <1>4, ScanFacts DEF C!Calls, C!Listed, C!null
<1>6. C!Owes'
  <2>1. /\ ul'.best = 0 /\ ul'.bestSize = 0 /\ ul'.nonEmptyCount = 0
        /\ ul'.owed = 1 .. producerListTail
    BY <1>4
  <2>2. from = "own" => token'.currentProducer # 0
    BY <1>1, <1>2, ScanFacts DEF C!tokens
  <2> QED
    BY <1>1, <1>2, <2>1, <2>2 DEF C!Owes, C!null
<1> QED
  BY <1>2, <1>3, <1>4, <1>5, <1>6, ScanFacts, ScanStays DEF C!tokens, C!IInv, C!TokenInv

LEMMA ScanWeigh ==
  ASSUME C!IInv, C!Weigh \/ C!Head
  PROVE  C!IInv'
<1>1. /\ upc \in {"weigh", "head"} /\ UNCHANGED <<C!list, items, C!tokens>>
      /\ ul' = [ul EXCEPT !.ptr = producerListTail]
      /\ upc' = IF producerListTail = 0 THEN "back" ELSE IF upc = "weigh" THEN "size" ELSE "each"
  BY DEF C!Weigh, C!Head, C!null
<1>2. ul \in C!Calls /\ C!Owes
  BY DEF C!IInv
<1>3. producerListTail \in C!Listed \cup {C!null}
  BY ScanFacts DEF C!Listed, C!null
<1>4. ul' \in C!Calls /\ ul'.ptr = producerListTail /\ ul'.owed = ul.owed /\ ul'.left = ul.left
      /\ ul'.best = ul.best /\ ul'.nonEmptyCount = ul.nonEmptyCount /\ ul'.bestSize = ul.bestSize
  BY <1>1, <1>2, <1>3 DEF C!Calls
<1>5. C!Owes'
  <2>1. /\ upc = "weigh" => ul.bestSize = 0 /\ ul.nonEmptyCount = 0 /\ ul.best = 0
        /\ upc = "head" => ul.best \notin ul.owed
    BY <1>2 DEF C!Owes, C!null
  <2>2. ul.owed \subseteq 1 .. producerListTail /\ producerListTail \in Nat
    BY ScanFacts, ScanNumbers
  <2>3. upc' \in {"back", "size", "each"} /\ (upc' = "back" <=> producerListTail = 0)
    BY <1>1
  <2>4. CASE upc' = "back"
    BY <1>4, <2>2, <2>3, <2>4 DEF C!Owes
  <2>5. CASE upc' = "size"
    BY <1>1, <1>4, <2>1, <2>2, <2>3, <2>5 DEF C!Owes, C!null
  <2>6. CASE upc' = "each"
    BY <1>1, <1>4, <2>1, <2>2, <2>3, <2>6 DEF C!Owes, C!null
  <2> QED
    BY <2>3, <2>4, <2>5, <2>6
<1> QED
  BY <1>1, <1>4, <1>5, ScanFacts, ScanStays DEF C!tokens, C!IInv, C!TokenInv

\* Size, when size_approx says size.
ScanLook(size) ==
    LET p == ul.ptr
        longer == size > ul.bestSize
        count == ul.nonEmptyCount + C!Fewer(size, 1)
        more == count < 3 /\ C!next_prod(p) # C!null
    IN  /\ upc = "size"
        /\ ul' = [ul EXCEPT
                       !.ptr = IF more THEN C!next_prod(p) ELSE C!null,
                       !.nonEmptyCount = IF more THEN count ELSE 0,
                       !.best = IF longer THEN p ELSE @,
                       !.bestSize = IF ~more THEN 0 ELSE IF longer THEN size ELSE @,
                       !.owed = IF size = 0 THEN @ \ {p} ELSE @]
        /\ upc' = IF more THEN "size" ELSE IF count > 0 THEN "best" ELSE "back"
        /\ UNCHANGED <<C!list, items, C!tokens>>

LEMMA ScanSize ==
  ASSUME C!IInv, C!Size
  PROVE  C!IInv'
<1>0. PICK size \in 0 .. ScanItems : ScanLook(size)
  BY DEF C!Size, ScanLook
<1> DEFINE p == ul.ptr
           longer == size > ul.bestSize
           count == ul.nonEmptyCount + C!Fewer(size, 1)
           more == count < 3 /\ p # 1
<1>1. /\ upc = "size" /\ ul \in C!Calls
      /\ p \in 1 .. producerListTail /\ p \in C!Producer /\ size \in Nat
      /\ ul.owed \subseteq 1 .. producerListTail
      /\ ul.nonEmptyCount \in Nat /\ ul.bestSize \in Nat /\ ul.left > 0
      /\ ul.best \in 0 .. producerListTail
      /\ IF ul.nonEmptyCount = 0 THEN ul.owed \subseteq 1 .. p /\ ul.bestSize = 0 ELSE ul.best # 0
  <2>1. upc = "size" /\ ul \in C!Calls /\ C!Owes
    BY <1>0 DEF ScanLook, C!IInv
  <2>2. p # 0 /\ IF ul.nonEmptyCount = 0 THEN ul.owed \subseteq 1 .. p /\ ul.bestSize = 0 ELSE ul.best # 0
    BY <2>1 DEF C!Owes, C!null
  <2>3. p \in 1 .. producerListTail /\ p \in C!Producer
    <3>1. p \in 0 .. producerListTail /\ producerListTail \in 0 .. producerCount
          /\ producerCount \in 0 .. MaxProducers /\ C!Producer = 1 .. MaxProducers
      BY ScanFacts
    <3> QED
      BY <2>2, <3>1, QueuesNumbers
  <2>4. size \in Nat
    BY QueuesNumbers
  <2>5. ul.left > 0
    BY <2>1 DEF C!IInv
  <2>6. /\ ul.owed \subseteq 1 .. producerListTail
        /\ ul.nonEmptyCount \in Nat /\ ul.bestSize \in Nat
        /\ ul.best \in 0 .. producerListTail
    BY ScanFacts
  <2> QED
    BY <2>1, <2>2, <2>3, <2>4, <2>5, <2>6
<1>2. /\ C!next_prod(p) = p - 1 /\ (C!next_prod(p) # C!null <=> p # 1)
      /\ count \in Nat /\ (count = 0 <=> ul.nonEmptyCount = 0 /\ size = 0)
  BY <1>1 DEF C!next_prod, C!null, C!Fewer
<1>3. /\ UNCHANGED <<C!list, items, C!tokens>>
      /\ upc' = IF more THEN "size" ELSE IF count > 0 THEN "best" ELSE "back"
      /\ ul' = [ul EXCEPT !.ptr = IF more THEN p - 1 ELSE 0,
                          !.nonEmptyCount = IF more THEN count ELSE 0,
                          !.best = IF longer THEN p ELSE ul.best,
                          !.bestSize = IF ~ more THEN 0 ELSE IF longer THEN size ELSE ul.bestSize,
                          !.owed = IF size = 0 THEN ul.owed \ {p} ELSE ul.owed]
  <2>1. ul \in C!Calls
    BY <1>1
  <2> QED
    BY <1>0, <1>1, <1>2, <2>1 DEF ScanLook, C!null, C!Calls
<1>4. /\ ul'.ptr = IF more THEN p - 1 ELSE 0
      /\ ul'.nonEmptyCount = IF more THEN count ELSE 0
      /\ ul'.best = IF longer THEN p ELSE ul.best
      /\ ul'.bestSize = IF ~ more THEN 0 ELSE IF longer THEN size ELSE ul.bestSize
      /\ ul'.owed = IF size = 0 THEN ul.owed \ {p} ELSE ul.owed
      /\ ul'.left = ul.left
  BY <1>1, <1>3 DEF C!Calls
<1>5. ul' \in C!Calls
  <2>1. (IF more THEN p - 1 ELSE 0) \in C!Listed \cup {C!null}
    <3>1. C!Listed = 1 .. producerListTail /\ C!null = 0 /\ producerListTail \in Nat
      BY ScanFacts DEF C!Listed, C!null
    <3>2. CASE more
      BY <1>1, <3>1, <3>2
    <3>3. CASE ~ more
      BY <3>1, <3>3
    <3> QED
      BY <3>2, <3>3
  <2>2. (IF longer THEN p ELSE ul.best) \in C!Listed \cup {C!null}
    BY <1>1, ScanFacts DEF C!Listed, C!null
  <2>3. /\ (IF more THEN count ELSE 0) \in Nat
        /\ (IF ~ more THEN 0 ELSE IF longer THEN size ELSE ul.bestSize) \in Nat
    BY <1>1, <1>2
  <2>4. (IF size = 0 THEN ul.owed \ {p} ELSE ul.owed) \in SUBSET C!Listed
    BY <1>1 DEF C!Listed
  <2> HIDE DEF p, longer, count, more
  <2> DEFINE ptr == IF more THEN p - 1 ELSE 0
             n == IF more THEN count ELSE 0
             best == IF longer THEN p ELSE ul.best
             longest == IF ~ more THEN 0 ELSE IF longer THEN size ELSE ul.bestSize
             owed == IF size = 0 THEN ul.owed \ {p} ELSE ul.owed
  <2>5. /\ ul \in C!Calls
        /\ ul' = [ul EXCEPT !.ptr = ptr, !.nonEmptyCount = n, !.best = best, !.bestSize = longest,
                            !.owed = owed]
        /\ ptr \in C!Listed \cup {C!null} /\ best \in C!Listed \cup {C!null}
        /\ n \in Nat /\ longest \in Nat /\ owed \in SUBSET C!Listed
    BY <1>1, <1>3, <2>1, <2>2, <2>3, <2>4
  <2> HIDE DEF ptr, n, best, longest, owed
  <2> QED
    BY <2>5 DEF C!Calls
<1>6. C!Owes'
  <2>1. CASE more
    <3>1. upc' = "size" /\ ul'.ptr = p - 1 /\ ul'.nonEmptyCount = count /\ p - 1 # 0
      BY <1>1, <1>3, <1>4, <2>1
    <3>2. count = 0 => ul'.owed \subseteq 1 .. p - 1 /\ ul'.bestSize = 0
      BY <1>1, <1>2, <1>4, <2>1
    <3>3. count # 0 => ul'.best # 0
      BY <1>1, <1>2, <1>4, <2>1
    <3> QED
      BY <3>1, <3>2, <3>3 DEF C!Owes, C!null
  <2>2. CASE ~ more /\ count > 0
    <3>1. upc' = "best" /\ ul'.best # 0
      BY <1>1, <1>2, <1>3, <1>4, <2>2
    <3> QED
      BY <3>1 DEF C!Owes, C!null
  <2>3. CASE ~ more /\ count = 0
    <3>1. upc' = "back" /\ p = 1 /\ ul'.owed = ul.owed \ {p} /\ ul.owed \subseteq 1 .. p
      BY <1>1, <1>2, <1>3, <1>4, <2>3
    <3>2. ul'.owed = {}
      BY <3>1
    <3> QED
      BY <3>1, <3>2 DEF C!Owes
  <2> QED
    BY <1>2, <2>1, <2>2, <2>3
<1> QED
  BY <1>1, <1>3, <1>4, <1>5, <1>6, ScanFacts, ScanStays DEF C!tokens, C!IInv, C!TokenInv

LEMMA ScanBest ==
  ASSUME C!IInv, C!Best
  PROVE  C!IInv'
<1> DEFINE p == ul.best
<1>0. PICK n \in C!Gives(p) :
        /\ upc = "best" /\ C!Dequeue(p, n) /\ ul' = C!After(p, n)
        /\ upc' = IF n = ul.left THEN "back" ELSE "head"
        /\ UNCHANGED <<C!list, C!tokens>>
  BY DEF C!Best
<1>1. p \in 1 .. producerListTail /\ ul.left > 0
  BY <1>0, ScanFacts DEF C!IInv, C!Owes, C!null
<1>2. /\ items' \in [C!Producer -> Nat] /\ ul' \in C!Calls
      /\ ul'.left \in Nat /\ ul'.best = p /\ (ul'.left = 0 <=> upc' = "back")
      /\ ul'.left = 0 \/ p \notin ul'.owed
  BY <1>0, <1>1, Taking DEF C!Calls
<1>3. C!Owes'
  BY <1>0, <1>2 DEF C!Owes
<1>4. /\ UNCHANGED C!list /\ globalExplicitConsumerOffset' \in Nat /\ token' \in C!Token
      /\ token'.desiredProducer # 0 => token'.currentProducer # 0
  BY <1>0, ScanNumbers DEF C!tokens, C!IInv, C!TokenInv, C!null
<1>5. upc' \in {"back", "head"} /\ (upc' # "back" => ul'.left > 0)
  BY <1>0, <1>2
<1> QED
  BY <1>2, <1>3, <1>4, <1>5, ScanStays

LEMMA ScanEach ==
  ASSUME C!IInv, C!Each
  PROVE  C!IInv'
<1> DEFINE p == ul.ptr
<1>0. PICK n \in C!Gives(p) :
        /\ IF p = ul.best THEN UNCHANGED items ELSE C!Dequeue(p, n)
        /\ LET l == IF p = ul.best THEN ul ELSE C!After(p, n)
           IN  /\ ul' = [l EXCEPT !.ptr = C!next_prod(p)]
               /\ upc' = IF l.left = 0 \/ C!next_prod(p) = C!null THEN "back" ELSE "each"
        /\ UNCHANGED <<C!list, C!tokens>>
  BY DEF C!Each
<1> DEFINE l == IF p = ul.best THEN ul ELSE C!After(p, n)
<1>1. /\ upc = "each" /\ p \in 1 .. producerListTail /\ ul.left > 0 /\ ul \in C!Calls
      /\ ul.owed \subseteq (1 .. p) \ {ul.best}
  <2>1. upc = "each" /\ p # 0 /\ ul \in C!Calls /\ ul.owed \subseteq (1 .. p) \ {ul.best}
    BY DEF C!Each, C!IInv, C!Owes, C!null
  <2>2. p \in 0 .. producerListTail /\ ul.left > 0
    BY <2>1, ScanFacts
  <2> QED
    BY <2>1, <2>2, ScanNumbers
<1>2. /\ IF p = ul.best THEN UNCHANGED items ELSE C!Dequeue(p, n)
      /\ ul' = [l EXCEPT !.ptr = p - 1]
      /\ upc' = IF l.left = 0 \/ p - 1 = 0 THEN "back" ELSE "each"
      /\ UNCHANGED <<C!list, C!tokens>>
  BY <1>0 DEF C!next_prod, C!null
<1>3. /\ items' \in [C!Producer -> Nat] /\ l \in C!Calls
      /\ l.left \in Nat /\ l.best = ul.best /\ l.owed \subseteq ul.owed
      /\ l.left = 0 \/ p \notin l.owed
  <2>1. CASE p = ul.best
    BY <1>1, <1>2, <2>1, ScanFacts
  <2>2. CASE p # ul.best
    <3>1. l = C!After(p, n) /\ C!Dequeue(p, n)
      BY <1>2, <2>2
    <3> HIDE DEF l
    <3> QED
      BY <1>1, <3>1, Taking DEF C!Calls
  <2> QED
    BY <2>1, <2>2
<1> HIDE DEF l
<1>4. p - 1 \in C!Listed \cup {C!null}
  <2>1. producerListTail \in Nat
    BY ScanFacts, QueuesNumbers
  <2> HIDE DEF p
  <2>2. p - 1 \in 0 .. producerListTail
    BY <1>1, <2>1
  <2> QED
    BY <2>1, <2>2, PlaceOrNull
<1>5. /\ ul' \in C!Calls /\ ul'.ptr = p - 1 /\ ul'.left = l.left /\ ul'.owed = l.owed
      /\ ul'.best = l.best
  BY <1>2, <1>3, <1>4 DEF C!Calls
<1>6. ul'.left = 0 \/ ul'.owed \subseteq (1 .. p - 1) \ {ul'.best}
  BY <1>1, <1>3, <1>5
<1>7. C!Owes'
  <2>1. CASE upc' = "back"
    <3>1. ul'.left = 0 \/ p - 1 = 0
      BY <1>2, <1>5, <2>1
    <3>2. ul'.left = 0 \/ ul'.owed = {}
      BY <1>6, <3>1
    <3> QED
      BY <2>1, <3>2 DEF C!Owes
  <2>2. CASE upc' = "each"
    <3>1. ul'.left # 0 /\ p - 1 # 0
      BY <1>2, <1>5, <2>2
    <3> QED
      BY <1>5, <1>6, <2>2, <3>1 DEF C!Owes, C!null
  <2> QED
    BY <1>2, <2>1, <2>2
<1> QED
  <2>1. C!TokenInv /\ token' = token /\ globalExplicitConsumerOffset' = globalExplicitConsumerOffset
        /\ UNCHANGED C!list
    BY <1>2 DEF C!IInv, C!tokens
  <2>2. upc' \in {"each", "back"} /\ (upc' # "back" => ul'.left > 0)
    BY <1>2, <1>3, <1>5
  <2> QED
    BY <1>3, <1>5, <1>7, <2>1, <2>2, ScanFacts, ScanStays DEF C!TokenInv

LEMMA ScanRotate ==
  ASSUME C!IInv, C!Rotate \/ C!LoadCount
  PROVE  C!IInv'
<1>1. ul \in C!Calls /\ C!Owes /\ ul.left > 0 /\ UNCHANGED <<C!list, items, C!tokens>>
  BY ScanFacts DEF C!IInv, C!Rotate, C!LoadCount
<1>2. CASE C!Rotate
  <2>1. /\ ul' = [ul EXCEPT !.last = producerListTail]
        /\ upc' = IF token.desiredProducer = 0 /\ producerListTail = 0 THEN "back" ELSE "count"
    BY <1>2 DEF C!Rotate, C!null
  <2>2. producerListTail \in C!Listed \cup {C!null}
    BY ScanFacts DEF C!Listed, C!null
  <2>3. ul' \in C!Calls /\ ul'.last = producerListTail /\ ul'.owed = ul.owed /\ ul'.left = ul.left
    BY <1>1, <2>1, <2>2 DEF C!Calls
  <2>4. upc' = "count" => producerListTail # 0 /\ token'.desiredProducer <= producerListTail
    <3>1. token.desiredProducer \in 0 .. producerListTail /\ producerListTail \in Nat
      BY ScanNumbers
    <3>2. token' = token
      BY <1>1 DEF C!tokens
    <3> QED
      BY <2>1, <3>1, <3>2
  <2>5. upc' = "back" => ul.owed = {}
    BY <2>1, ScanFacts
  <2>6. C!Owes'
    BY <2>1, <2>3, <2>4, <2>5 DEF C!Owes, C!null
  <2> QED
    BY <1>1, <2>1, <2>3, <2>6, ScanFacts, ScanStays DEF C!tokens, C!IInv, C!TokenInv
<1>3. CASE C!LoadCount
  <2>1. upc = "count" /\ ul' = [ul EXCEPT !.prodCount = producerCount] /\ upc' = "move"
    BY <1>3 DEF C!LoadCount
  <2>2. /\ ul.last # 0 /\ producerCount \in 0 .. producerCount /\ producerCount > 0
        /\ token'.desiredProducer <= ul.last
    <3>1. ul.last # 0 /\ token.desiredProducer <= ul.last /\ token' = token
      BY <1>1, <2>1 DEF C!Owes, C!null, C!tokens
    <3>2. /\ producerCount \in Nat /\ producerListTail \in 0 .. producerCount
          /\ ul.last \in 0 .. producerListTail
      BY ScanFacts, QueuesNumbers
    <3>3. producerCount > 0 /\ producerCount \in 0 .. producerCount
      BY <3>1, <3>2
    <3> QED
      BY <3>1, <3>3
  <2>3. ul' \in C!Calls /\ ul'.last = ul.last /\ ul'.prodCount = producerCount /\ ul'.left = ul.left
    BY <1>1, <2>1, <2>2 DEF C!Calls
  <2>4. C!Owes'
    BY <2>1, <2>2, <2>3 DEF C!Owes, C!null
  <2> QED
    BY <1>1, <2>1, <2>3, <2>4, ScanFacts, ScanStays DEF C!tokens, C!IInv, C!TokenInv
<1> QED
  BY <1>2, <1>3

LEMMA ScanMove ==
  ASSUME C!IInv, C!Move
  PROVE  C!IInv'
<1> DEFINE n == ul.prodCount
           first == IF token.desiredProducer # 0 THEN token.desiredProducer
                    ELSE C!Further(ul.last, ul.last, n - 1 - (token.initialOffset % n))
           delta == ((globalExplicitConsumerOffset - token.lastKnownGlobalOffset) % ScanWrap) % n
           desired == C!Further(first, ul.last, delta)
<1>1. /\ upc = "move" /\ upc' = "own" /\ ul \in C!Calls /\ ul.left > 0
      /\ UNCHANGED <<C!list, items, globalExplicitConsumerOffset>>
      /\ token' = [token EXCEPT !.lastKnownGlobalOffset = globalExplicitConsumerOffset,
                                !.desiredProducer = desired, !.currentProducer = desired,
                                !.itemsConsumedFromCurrent = 0]
      /\ ul' = [ul EXCEPT !.prodCount = 0, !.last = 0]
  BY ScanFacts DEF C!IInv, C!Move, C!null
<1>2. /\ ul.last \in 1 .. producerListTail /\ n \in Nat /\ n > 0
      /\ token.desiredProducer \in 0 .. producerListTail
      /\ producerListTail \in Nat
  <2>1. ul.last # 0 /\ ul.prodCount > 0
    BY <1>1 DEF C!IInv, C!Owes, C!null
  <2> QED
    BY <2>1, ScanFacts, QueuesNumbers
<1>3. token.desiredProducer <= ul.last
  BY <1>1 DEF C!IInv, C!Owes
<1>4. first \in 1 .. ul.last
  <2>1. token.initialOffset % n \in Nat
    BY <1>2, ScanFacts, ModRange
  <2>2. n - 1 - (token.initialOffset % n) \in Int
    BY <1>2, <2>1
  <2>3. C!Further(ul.last, ul.last, n - 1 - (token.initialOffset % n)) \in 1 .. ul.last
    <3>1. ul.last \in Nat /\ ul.last \in 1 .. ul.last
      BY <1>2
    <3> QED
      BY <2>2, <3>1, Places
  <2> QED
    BY <1>2, <1>3, <2>3
<1>5. desired \in 1 .. ul.last
  <2>1. globalExplicitConsumerOffset - token.lastKnownGlobalOffset \in Int
    BY ScanFacts
  <2>2. (globalExplicitConsumerOffset - token.lastKnownGlobalOffset) % ScanWrap \in Int
    BY <2>1, QueuesNumbers, ModRange
  <2>3. delta \in Int
    BY <1>2, <2>2, ModRange
  <2>4. ul.last \in Nat
    BY <1>2
  <2> QED
    BY <1>4, <2>3, <2>4, Places
<1> HIDE DEF first, delta, desired
<1>6. desired \in C!Listed \cup {C!null} /\ desired # 0
  BY <1>2, <1>5 DEF C!Listed, C!null
<1>7. /\ token' \in C!Token
      /\ token'.currentProducer = desired /\ token'.desiredProducer = desired
  <2>1. token \in C!Token
    BY DEF C!IInv, C!TokenInv
  <2> QED
    BY <1>1, <1>6, <2>1, ScanFacts DEF C!Token
<1>8. ul' \in C!Calls /\ ul'.left = ul.left
  <2>1. 0 \in C!Listed \cup {C!null} /\ 0 \in 0 .. producerCount
    BY ScanFacts, QueuesNumbers DEF C!null
  <2> QED
    BY <1>1, <2>1 DEF C!Calls
<1>9. C!Owes'
  BY <1>1, <1>6, <1>7 DEF C!Owes, C!null
<1> QED
  BY <1>1, <1>6, <1>7, <1>8, <1>9, ScanFacts, ScanStays

LEMMA ScanOwn ==
  ASSUME C!IInv, C!OwnDequeue
  PROVE  C!IInv'
<1> DEFINE p == token.currentProducer
<1>0. PICK n \in C!Gives(p) :
        LET consumed == (token.itemsConsumedFromCurrent + n) % ScanWrap
        IN  /\ C!Dequeue(p, n) /\ ul' = C!After(p, n) /\ UNCHANGED C!list
            /\ upc' = IF n = ul.left THEN "back" ELSE "turn"
            /\ token' = [token EXCEPT !.itemsConsumedFromCurrent = consumed]
            /\ \/ globalExplicitConsumerOffset' = (globalExplicitConsumerOffset + 1) % ScanWrap
               \/ globalExplicitConsumerOffset' = globalExplicitConsumerOffset
  BY DEF C!OwnDequeue
<1> DEFINE consumed == (token.itemsConsumedFromCurrent + n) % ScanWrap
<1>1. /\ upc = "own" /\ ul.left > 0 /\ p \in 1 .. producerListTail
      /\ C!Dequeue(p, n) /\ ul' = C!After(p, n) /\ UNCHANGED C!list
      /\ upc' = IF n = ul.left THEN "back" ELSE "turn"
      /\ token' = [token EXCEPT !.itemsConsumedFromCurrent = consumed]
      /\ \/ globalExplicitConsumerOffset' = (globalExplicitConsumerOffset + 1) % ScanWrap
         \/ globalExplicitConsumerOffset' = globalExplicitConsumerOffset
  <2>1. upc = "own" /\ p # 0
    BY DEF C!OwnDequeue, C!IInv, C!Owes, C!null
  <2>2. p \in 1 .. producerListTail /\ ul.left > 0
    BY <2>1, ScanFacts
  <2> QED
    BY <1>0, <2>1, <2>2
<1>2. /\ items' \in [C!Producer -> Nat] /\ ul' \in C!Calls
      /\ ul'.left \in Nat /\ (ul'.left = 0 <=> upc' = "back")
      /\ ul'.left = 0 \/ p \notin ul'.owed
      /\ n \in Nat
  BY <1>1, Taking DEF C!Calls
<1>3. consumed \in Nat
  <2>1. token.itemsConsumedFromCurrent + n \in Int
    <3>1. token.itemsConsumedFromCurrent \in Nat
      BY ScanFacts
    <3> QED
      BY <1>2, <3>1
  <2> QED
    BY <2>1, QueuesNumbers, ModRange
<1> HIDE DEF consumed
<1>4. /\ token' \in C!Token /\ token'.currentProducer = p
      /\ token'.desiredProducer = token.desiredProducer
  <2>1. token \in C!Token
    BY DEF C!IInv, C!TokenInv
  <2> QED
    BY <1>1, <1>3, <2>1 DEF C!Token
<1>5. globalExplicitConsumerOffset' \in Nat
  <2>1. globalExplicitConsumerOffset \in Nat /\ globalExplicitConsumerOffset + 1 \in Int
    BY ScanFacts
  <2> QED
    BY <1>1, <2>1, QueuesNumbers, ModRange
<1>6. C!Owes'
  BY <1>1, <1>2, <1>4 DEF C!Owes, C!null
<1>7. token'.desiredProducer # 0 => token'.currentProducer # 0
  BY <1>1, <1>4
<1>8. upc' \in {"turn", "back"} /\ (upc' # "back" => ul'.left > 0)
  BY <1>1, <1>2
<1>9. UNCHANGED C!list /\ items' \in [C!Producer -> Nat] /\ ul' \in C!Calls
  BY <1>1, <1>2
<1> QED
  BY <1>4, <1>5, <1>6, <1>7, <1>8, <1>9, ScanStays

\* The step from producer p to the next place of the round.
LEMMA GoingOn ==
  ASSUME C!IInv, NEW l \in C!Calls, NEW last \in 1 .. producerListTail, NEW p \in 1 .. last,
         NEW current \in 1 .. last, C!GoOn(l, p, last, current),
         UNCHANGED C!list, items' \in [C!Producer -> Nat],
         globalExplicitConsumerOffset' = globalExplicitConsumerOffset,
         token' \in C!Token, token'.currentProducer = current,
         l.left = 0 \/ (p \notin l.owed /\ l.owed \subseteq C!Ahead(p, last, current))
                    \/ (p = current /\ p \notin l.owed /\ l.owed \subseteq 1 .. last)
  PROVE  C!IInv'
<1> DEFINE q == C!Onward(p, last)
<1>1. /\ ul' = [l EXCEPT !.ptr = q, !.last = last]
      /\ upc' = IF l.left = 0 \/ q = current THEN "back" ELSE "others"
  BY DEF C!GoOn
<1>2. last \in Nat /\ producerListTail \in Nat
  BY ScanFacts, QueuesNumbers
<1>3. q \in 1 .. last /\ q = IF p = 1 THEN last ELSE p - 1
  BY <1>2, Places
<1> HIDE DEF q
<1>4. q \in C!Listed \cup {C!null} /\ last \in C!Listed \cup {C!null}
  BY <1>2, <1>3 DEF C!Listed
<1>5. /\ ul' \in C!Calls /\ ul'.ptr = q /\ ul'.last = last /\ ul'.left = l.left
      /\ ul'.owed = l.owed /\ l.left \in Nat
  BY <1>1, <1>4 DEF C!Calls
<1>6. l.left = 0 \/ (IF q = current THEN l.owed = {} ELSE l.owed \subseteq C!Ahead(q, last, current))
  BY <1>2, <1>3 DEF C!Ahead
<1>7. C!Owes'
  <2>1. CASE upc' = "back"
    BY <1>1, <1>5, <1>6, <2>1 DEF C!Owes
  <2>2. CASE upc' = "others"
    <3>1. q # current /\ l.owed \subseteq C!Ahead(q, last, current) /\ q # 0 /\ last # 0 /\ q <= last
          /\ current <= last /\ current # 0
      BY <1>1, <1>2, <1>3, <1>6, <2>2
    <3> QED
      BY <1>5, <2>2, <3>1 DEF C!Owes, C!null, C!Ahead
  <2> QED
    BY <1>1, <2>1, <2>2
<1>8. token'.currentProducer # 0
  BY <1>2
<1>9. upc' \in {"others", "back"} /\ (upc' # "back" => ul'.left > 0) /\ ul' \in C!Calls
  BY <1>1, <1>5
<1>10. globalExplicitConsumerOffset' \in Nat
  BY ScanFacts
<1> QED
  BY <1>7, <1>8, <1>9, <1>10, ScanStays

LEMMA ScanTurn ==
  ASSUME C!IInv, C!Turn
  PROVE  C!IInv'
<1>1. /\ upc = "turn" /\ UNCHANGED <<C!list, items, C!tokens>>
      /\ C!GoOn(ul, token.currentProducer, producerListTail, token.currentProducer)
  BY DEF C!Turn
<1>2. token.currentProducer # 0 /\ token.currentProducer \notin ul.owed /\ ul \in C!Calls
      /\ token \in C!Token
  BY <1>1 DEF C!IInv, C!Owes, C!null, C!TokenInv
<1>3. /\ producerListTail \in 1 .. producerListTail /\ token.currentProducer \in 1 .. producerListTail
      /\ ul.owed \subseteq 1 .. producerListTail
  <2>1. ul.owed \subseteq 1 .. producerListTail
    BY ScanFacts
  <2>2. producerListTail \in 1 .. producerListTail /\ token.currentProducer \in 1 .. producerListTail
    BY <1>2, ScanNumbers
  <2> QED
    BY <2>1, <2>2
<1>4. /\ token' = token /\ globalExplicitConsumerOffset' = globalExplicitConsumerOffset
      /\ items' \in [C!Producer -> Nat]
  BY <1>1, ScanFacts DEF C!tokens
<1> QED
  BY <1>1, <1>2, <1>3, <1>4, GoingOn

LEMMA ScanOthers ==
  ASSUME C!IInv, C!Others
  PROVE  C!IInv'
<1> DEFINE p == ul.ptr
<1>0. PICK n \in C!Gives(p) :
        LET current == IF n = 0 THEN token.currentProducer ELSE p
        IN  /\ upc = "others" /\ C!Dequeue(p, n)
            /\ token' = IF n = 0 THEN token
                        ELSE [token EXCEPT !.currentProducer = p, !.itemsConsumedFromCurrent = n]
            /\ C!GoOn(C!After(p, n), p, ul.last, current)
            /\ UNCHANGED <<C!list, globalExplicitConsumerOffset>>
  BY DEF C!Others
<1> DEFINE current == IF n = 0 THEN token.currentProducer ELSE p
<1>1. /\ upc = "others" /\ C!Dequeue(p, n)
      /\ token' = IF n = 0 THEN token
                  ELSE [token EXCEPT !.currentProducer = p, !.itemsConsumedFromCurrent = n]
      /\ C!GoOn(C!After(p, n), p, ul.last, current)
      /\ UNCHANGED <<C!list, globalExplicitConsumerOffset>>
  BY <1>0
<1>2. /\ p # 0 /\ ul.last # 0 /\ p <= ul.last /\ token.currentProducer <= ul.last
      /\ p # token.currentProducer /\ token.currentProducer # 0
      /\ ul.owed \subseteq C!Ahead(p, ul.last, token.currentProducer)
      /\ token \in C!Token
  BY <1>1 DEF C!IInv, C!Owes, C!null, C!TokenInv
<1>3. /\ ul.last \in 1 .. producerListTail /\ p \in 1 .. ul.last /\ p \in 1 .. producerListTail
      /\ token.currentProducer \in 1 .. ul.last /\ current \in 1 .. ul.last
      /\ ul.left > 0 /\ ul.last \in Nat
  <2>1. /\ ul.last \in 0 .. producerListTail /\ p \in 0 .. producerListTail
        /\ token.currentProducer \in 0 .. producerListTail /\ producerListTail \in Nat
        /\ ul.left > 0
    BY <1>1, ScanFacts, QueuesNumbers
  <2> QED
    BY <1>2, <2>1
<1>4. /\ items' \in [C!Producer -> Nat]
      /\ C!After(p, n) \in C!Calls
      /\ C!After(p, n).owed \subseteq ul.owed
      /\ C!After(p, n).left = 0 \/ p \notin C!After(p, n).owed
      /\ n \in Nat
  <2>1. n \in 0 .. ul.left /\ ul.left \in Nat
    BY <1>3, Taking, ScanFacts
  <2> QED
    BY <1>1, <1>3, <2>1, Taking
<1>5. token' \in C!Token /\ token'.currentProducer = current
  <2>1. p \in C!Listed \cup {C!null}
    BY <1>3 DEF C!Listed
  <2> QED
    BY <1>1, <1>2, <1>4, <2>1 DEF C!Token
<1>6. ul.owed \subseteq 1 .. ul.last
  BY <1>2, <1>3 DEF C!Ahead
<1>7. \/ C!After(p, n).left = 0
      \/ p \notin C!After(p, n).owed /\ C!After(p, n).owed \subseteq C!Ahead(p, ul.last, current)
      \/ p = current /\ p \notin C!After(p, n).owed /\ C!After(p, n).owed \subseteq 1 .. ul.last
  BY <1>2, <1>4, <1>6
<1> HIDE DEF p, current
<1> QED
  BY <1>1, <1>3, <1>4, <1>5, <1>7, GoingOn

LEMMA ScanBack ==
  ASSUME C!IInv, C!Back
  PROVE  C!IInv'
<1>1. upc' = "out" /\ ul' = C!NoCall /\ UNCHANGED <<C!list, items, C!tokens>>
  BY DEF C!Back
<1>2. ul' \in C!Calls
  BY <1>1, ScanFacts, QueuesNumbers DEF C!Calls, C!NoCall, C!null
<1>3. C!Owes'
  BY <1>1 DEF C!Owes
<1> QED
  BY <1>1, <1>2, <1>3, ScanFacts, ScanStays DEF C!tokens, C!IInv, C!TokenInv

LEMMA ScanStep ==
  ASSUME C!IInv, C!Next
  PROVE  C!IInv'
BY ScanEnvironment, ScanCall, ScanWeigh, ScanSize, ScanBest, ScanEach, ScanRotate, ScanMove, ScanOwn,
   ScanTurn, ScanOthers, ScanBack DEF C!Next, C!Step

LEMMA ScanAsks ==
  ASSUME C!IInv
  PROVE  C!EveryoneAsked
<1>1. upc = "back" => ul.left = 0 \/ ul.owed = {}
  BY DEF C!IInv, C!Owes
<1>2. upc = "move" => ul.prodCount > 0
  BY DEF C!IInv, C!Owes
<1> QED
  BY <1>1, <1>2 DEF C!EveryoneAsked

-----------------------------------------------------------------------------
(* ProducerList.                                                            *)

\* The nodes of a linked list: what is reached from its head, z being no node.
Reached(D, nx, head, z) ==
  {p \in D : \A S \in SUBSET D :
               (\A q \in S : nx[q] \in S \cup {z}) /\ {head} \ {z} \subseteq S => p \in S}

LEMMA ReachedFacts ==
  ASSUME NEW D, NEW z, NEW nx \in [D -> D \cup {z}], NEW head \in D \cup {z}
  PROVE  /\ Reached(D, nx, head, z) \subseteq D
         /\ head # z => head \in Reached(D, nx, head, z)
         /\ \A p \in Reached(D, nx, head, z) : nx[p] # z => nx[p] \in Reached(D, nx, head, z)
         /\ \A S \in SUBSET D :
              (\A q \in S : nx[q] \in S \cup {z}) /\ {head} \ {z} \subseteq S
                => Reached(D, nx, head, z) \subseteq S
<1> DEFINE L == Reached(D, nx, head, z)
<1>1. ASSUME NEW p \in L, nx[p] # z PROVE nx[p] \in L
  <2>1. p \in D /\ nx[p] \in D
    BY <1>1 DEF Reached
  <2>2. ASSUME NEW S \in SUBSET D, \A q \in S : nx[q] \in S \cup {z}, {head} \ {z} \subseteq S
        PROVE  nx[p] \in S
    <3>1. p \in S
      BY <2>2 DEF Reached
    <3> QED
      BY <1>1, <2>2, <3>1
  <2> QED
    BY <2>1, <2>2 DEF Reached
<1> QED
  BY <1>1 DEF Reached

\* As long as what is reached keeps its successors, the same is reached.
LEMMA ReachedKept ==
  ASSUME NEW D, NEW z, NEW nx \in [D -> D \cup {z}], NEW ny \in [D -> D \cup {z}],
         NEW head \in D \cup {z}, \A p \in Reached(D, nx, head, z) : ny[p] = nx[p]
  PROVE  Reached(D, ny, head, z) = Reached(D, nx, head, z)
<1> DEFINE X == Reached(D, nx, head, z)
           Y == Reached(D, ny, head, z)
<1>1. /\ X \subseteq D /\ (head # z => head \in X)
      /\ \A p \in X : nx[p] # z => nx[p] \in X
      /\ \A S \in SUBSET D :
           (\A q \in S : nx[q] \in S \cup {z}) /\ {head} \ {z} \subseteq S => X \subseteq S
  BY ReachedFacts
<1>2. /\ Y \subseteq D /\ (head # z => head \in Y)
      /\ \A p \in Y : ny[p] # z => ny[p] \in Y
      /\ \A S \in SUBSET D :
           (\A q \in S : ny[q] \in S \cup {z}) /\ {head} \ {z} \subseteq S => Y \subseteq S
  BY ReachedFacts
<1>3. \A p \in X : ny[p] = nx[p]
  OBVIOUS
<1> HIDE DEF X, Y
<1>4. Y \subseteq X
  BY <1>1, <1>2, <1>3
<1>5. X \subseteq Y
  <2>1. X \cap Y \in SUBSET D /\ {head} \ {z} \subseteq X \cap Y
    BY <1>1, <1>2
  <2>2. \A q \in X \cap Y : nx[q] \in (X \cap Y) \cup {z}
    BY <1>1, <1>2, <1>3
  <2>3. X \subseteq X \cap Y
    BY <1>1, <2>1, <2>2
  <2> QED
    BY <2>3
<1> QED
  BY <1>4, <1>5 DEF X, Y

\* A new head in front of the list adds itself.
LEMMA ReachedPushed ==
  ASSUME NEW D, NEW z, NEW nx \in [D -> D \cup {z}], NEW head \in D, NEW old \in D \cup {z},
         nx[head] = old, z \notin D
  PROVE  Reached(D, nx, head, z) = Reached(D, nx, old, z) \cup {head}
<1> DEFINE X == Reached(D, nx, old, z)
           Y == Reached(D, nx, head, z)
<1>0. head \in D \cup {z}
  OBVIOUS
<1>1. /\ X \subseteq D /\ (old # z => old \in X)
      /\ \A p \in X : nx[p] # z => nx[p] \in X
      /\ \A S \in SUBSET D :
           (\A q \in S : nx[q] \in S \cup {z}) /\ {old} \ {z} \subseteq S => X \subseteq S
  <2>1. X \subseteq D /\ (old # z => old \in X) /\ \A p \in X : nx[p] # z => nx[p] \in X
    BY ReachedFacts
  <2>2. \A S \in SUBSET D :
           (\A q \in S : nx[q] \in S \cup {z}) /\ {old} \ {z} \subseteq S => X \subseteq S
    BY ReachedFacts
  <2> QED
    BY <2>1, <2>2
<1>2. /\ Y \subseteq D /\ (head # z => head \in Y)
      /\ \A p \in Y : nx[p] # z => nx[p] \in Y
      /\ \A S \in SUBSET D :
           (\A q \in S : nx[q] \in S \cup {z}) /\ {head} \ {z} \subseteq S => Y \subseteq S
  BY <1>0, ReachedFacts
<1> HIDE DEF X, Y
<1>3. X \subseteq Y
  BY <1>1, <1>2
<1>4. Y \subseteq X \cup {head}
  <2>1. X \cup {head} \in SUBSET D /\ {head} \ {z} \subseteq X \cup {head}
    BY <1>1
  <2>2. \A q \in X \cup {head} : nx[q] \in (X \cup {head}) \cup {z}
    BY <1>1
  <2> QED
    BY <1>2, <2>1, <2>2
<1>5. head \in Y
  BY <1>2
<1> QED
  BY <1>3, <1>4, <1>5 DEF X, Y

LEMMA ListedIs ==
  /\ P!Listed = Reached(P!Producer, nextProducer, producerListTail, 0)
  /\ P!Listed' = Reached(P!Producer, nextProducer', producerListTail', 0)
  /\ 0 \notin P!Producer
BY DEF P!Listed, P!Closed, P!null, Reached, P!Producer

LEMMA ListedFacts ==
  ASSUME P!TypeOK
  PROVE  /\ P!Listed \subseteq P!Producer
         /\ producerListTail # 0 => producerListTail \in P!Listed
         /\ \A p \in P!Listed : nextProducer[p] # 0 => nextProducer[p] \in P!Listed
<1>1. /\ producerListTail \in P!Producer \cup {0}
      /\ nextProducer \in [P!Producer -> P!Producer \cup {0}]
  BY DEF P!TypeOK, P!null
<1> QED
  BY <1>1, ListedIs, ReachedFacts

LEMMA ListInit ==
  ASSUME P!Init
  PROVE  P!IInv
<1> USE DEF P!null
<1>0. P!Producer = 1 .. MaxProducers /\ MaxProducers \in Nat
  BY QueuesNumbers DEF P!Producer
<1>1. P!TypeOK
  BY <1>0 DEF P!Init, P!TypeOK, P!NoLocals
<1>2. P!Listed = {}
  <2>1. /\ producerListTail = 0 /\ producerListTail \in P!Producer \cup {0}
        /\ nextProducer \in [P!Producer -> P!Producer \cup {0}]
    BY <1>1 DEF P!Init, P!TypeOK
  <2>2. {} \in SUBSET P!Producer /\ {producerListTail} \ {0} \subseteq {}
        /\ \A q \in {} : nextProducer[q] \in {} \cup {0}
    BY <2>1
  <2>3. Reached(P!Producer, nextProducer, producerListTail, 0) \subseteq {}
    BY <2>1, <2>2, ReachedFacts
  <2> QED
    BY <2>3, ListedIs
<1>3. P!Counted = {}
  BY DEF P!Counted, P!Init
<1>4. \A u \in QBlock : P!UserInv(u)
  BY DEF P!UserInv, P!New, P!Init
<1>5. \A u, v \in QBlock : P!Alone(u, v)
  BY <1>0 DEF P!Alone, P!Owns, P!New, P!Init
<1>6. producerCount = P!Cardinality(P!Counted)
  BY <1>3, FS_EmptySet, SameCounting DEF P!Init
<1> QED
  BY <1>1, <1>2, <1>4, <1>5, <1>6 DEF P!IInv, P!Init

LEMMA ListedKept ==
  ASSUME P!TypeOK, P!TypeOK', producerListTail' = producerListTail,
         \A p \in P!Listed : nextProducer'[p] = nextProducer[p]
  PROVE  P!Listed' = P!Listed
<1>1. /\ producerListTail \in P!Producer \cup {0}
      /\ nextProducer \in [P!Producer -> P!Producer \cup {0}]
      /\ nextProducer' \in [P!Producer -> P!Producer \cup {0}]
  BY DEF P!TypeOK, P!null, P!Producer
<1> QED
  BY <1>1, ListedIs, ReachedKept

\* What the invariant says, clause by clause.
LEMMA ListFacts ==
  ASSUME P!IInv
  PROVE  /\ made \in 0 .. MaxProducers /\ made \in Nat /\ MaxProducers \in Nat
         /\ producerListTail \in P!Producer \cup {0}
         /\ nextProducer \in [P!Producer -> P!Producer \cup {0}]
         /\ isExplicit \in [P!Producer -> BOOLEAN]
         /\ inactive \in [P!Producer -> BOOLEAN]
         /\ tokenOf \in [P!Producer -> QBlock \cup {P!NoUser}]
         /\ token \in [QBlock -> P!Producer \cup {0}]
         /\ implicit \in [QBlock -> P!Producer \cup {0}]
         /\ upc \in [QBlock -> {"out", "scan", "claim", "create", "count", "link", "own", "retire"}]
         /\ ul \in [QBlock -> [explicit : BOOLEAN, ptr : P!Producer \cup {0}]]
         /\ P!Listed \subseteq 1 .. made
         /\ \A p \in P!Producer : inactive[p] => p \in P!Listed
         /\ \A u \in QBlock : P!UserInv(u)
         /\ \A u, v \in QBlock : u # v => P!Alone(u, v)
         /\ producerCount = P!Cardinality(P!Counted)
         /\ P!Producer = 1 .. MaxProducers /\ 0 \notin P!Producer
BY QueuesNumbers DEF P!IInv, P!TypeOK, P!null, P!Producer

\* What a user finds is read, walked along, given up or started on.
LEMMA ListLook ==
  ASSUME P!IInv, NEW u \in QBlock, upc[u] \in {"out", "scan", "claim", "create"},
         NEW to \in {"out", "scan", "claim", "create"},
         NEW l \in [explicit : BOOLEAN, ptr : P!Producer \cup {0}],
         upc' = [upc EXCEPT ![u] = to], ul' = [ul EXCEPT ![u] = l],
         UNCHANGED <<producerListTail, nextProducer, producerCount, made, isExplicit, inactive,
                     tokenOf, token, implicit>>,
         to \in {"scan", "claim"} => l.ptr \in P!Listed,
         to = "claim" => isExplicit[l.ptr] = l.explicit
  PROVE  P!IInv'
<1>1. P!TypeOK'
  BY ListFacts DEF P!TypeOK, P!null, P!Producer
<1>2. P!Listed' = P!Listed
  BY <1>1, ListedKept DEF P!IInv
<1>3. /\ upc'[u] = to /\ ul'[u] = l
      /\ \A v \in QBlock : v # u => upc'[v] = upc[v] /\ ul'[v] = ul[v]
  BY ListFacts
<1>4. \A v \in QBlock : P!UserInv(v)'
  <2>1. P!UserInv(u)'
    <3>1. P!UserInv(u)
      BY ListFacts
    <3> QED
      BY <1>2, <1>3, <3>1 DEF P!UserInv, P!New
  <2>2. ASSUME NEW v \in QBlock, v # u PROVE P!UserInv(v)'
    <3>1. P!UserInv(v)
      BY ListFacts
    <3> QED
      BY <1>2, <1>3, <2>2, <3>1 DEF P!UserInv, P!New
  <2> QED
    BY <2>1, <2>2
<1>5. \A v \in QBlock : \A p \in P!Producer : P!Owns(v, p)' => P!Owns(v, p)
  BY <1>3 DEF P!Owns
<1>6. \A v \in QBlock : P!New(v)' => v # u /\ P!New(v)
  BY <1>3 DEF P!New
<1>7. \A v, w \in QBlock : v # w => P!Alone(v, w)'
  BY <1>3, <1>5, <1>6, ListFacts DEF P!Alone, P!Producer
<1>8. P!Counted' = P!Counted
  BY <1>3 DEF P!Counted
<1>9. P!Producer' = P!Producer
  BY DEF P!Producer
<1> QED
  BY <1>1, <1>2, <1>4, <1>7, <1>8, <1>9, SameCounting DEF P!IInv

LEMMA ListWalk ==
  ASSUME P!IInv, NEW u \in QBlock, P!Call(u) \/ P!Recycle(u)
  PROVE  P!IInv'
<1>1. CASE P!Call(u)
  <2>1. PICK explicit \in BOOLEAN :
          /\ upc[u] = "out"
          /\ ul' = [ul EXCEPT ![u] = [explicit |-> explicit, ptr |-> producerListTail]]
          /\ upc' = [upc EXCEPT ![u] = IF producerListTail = 0 THEN "create" ELSE "scan"]
          /\ UNCHANGED <<P!listing, inactive, tokenOf, token, implicit>>
    BY <1>1 DEF P!Call, P!At, P!Set, P!Goto, P!null
  <2> DEFINE to == IF producerListTail = 0 THEN "create" ELSE "scan"
             l == [explicit |-> explicit, ptr |-> producerListTail]
  <2>2. l \in [explicit : BOOLEAN, ptr : P!Producer \cup {0}] /\ to \in {"create", "scan"}
        /\ (to = "scan" => l.ptr \in P!Listed)
    BY ListFacts, ListedFacts DEF P!IInv
  <2> QED
    BY <2>1, <2>2, ListLook DEF P!listing
<1>2. CASE P!Recycle(u)
  <2> DEFINE p == ul[u].ptr
  <2>1. /\ upc[u] = "scan" /\ p \in P!Listed /\ p \in P!Producer /\ ul[u].explicit \in BOOLEAN
        /\ ul[u] \in [explicit : BOOLEAN, ptr : P!Producer \cup {0}]
        /\ UNCHANGED <<P!listing, inactive, tokenOf, token, implicit>>
    <3>1. upc[u] = "scan" /\ P!UserInv(u)
      BY <1>2, ListFacts DEF P!Recycle, P!At
    <3> QED
      BY <1>2, <3>1, ListFacts, ListedFacts DEF P!UserInv, P!Recycle, P!IInv
  <2>2. CASE P!Suits(u, p)
    <3>1. upc' = [upc EXCEPT ![u] = "claim"] /\ ul' = ul
      BY <1>2, <2>2 DEF P!Recycle, P!Goto
    <3>2. ul' = [ul EXCEPT ![u] = ul[u]]
      BY <3>1, ListFacts
    <3> QED
      BY <2>1, <2>2, <3>1, <3>2, ListLook DEF P!listing, P!Suits
  <2>3. CASE ~ P!Suits(u, p)
    <3> DEFINE to == IF nextProducer[p] = 0 THEN "create" ELSE "scan"
               l == [ul[u] EXCEPT !.ptr = nextProducer[p]]
    <3>1. upc' = [upc EXCEPT ![u] = to] /\ ul' = [ul EXCEPT ![u] = l]
      BY <1>2, <2>3 DEF P!Recycle, P!Goto, P!Set, P!null
    <3>2. l \in [explicit : BOOLEAN, ptr : P!Producer \cup {0}] /\ to \in {"create", "scan"}
          /\ (to = "scan" => l.ptr \in P!Listed)
      BY <2>1, ListFacts, ListedFacts DEF P!IInv
    <3> HIDE DEF to, l
    <3> QED
      BY <2>1, <3>1, <3>2, ListLook DEF P!listing
  <2> QED
    BY <2>2, <2>3
<1> QED
  BY <1>1, <1>2

\* The clauses of the invariant after a step that leaves what is listed, and what
\* has been counted, as it is.
LEMMA ListStays ==
  ASSUME P!IInv, P!TypeOK', P!Listed' = P!Listed, made' \in Nat, made' >= made,
         P!Counted' = P!Counted, producerCount' = producerCount,
         \A p \in P!Producer : inactive'[p] => p \in P!Listed,
         \A u \in QBlock : P!UserInv(u)',
         \A u, v \in QBlock : u # v => P!Alone(u, v)'
  PROVE  P!IInv'
<1>1. P!Listed \subseteq 1 .. made'
  BY ListFacts
<1>2. P!Producer' = P!Producer
  BY DEF P!Producer
<1> QED
  BY <1>1, <1>2, SameCounting, ListFacts DEF P!IInv

LEMMA ListClaim ==
  ASSUME P!IInv, NEW u \in QBlock, P!Claim(u)
  PROVE  P!IInv'
<1> DEFINE p == ul[u].ptr
<1>1. /\ upc[u] = "claim" /\ p \in P!Listed /\ p \in P!Producer /\ isExplicit[p] = ul[u].explicit
      /\ ul[u] \in [explicit : BOOLEAN, ptr : P!Producer \cup {0}]
      /\ UNCHANGED <<P!listing, tokenOf, token, implicit>>
  <2>1. upc[u] = "claim" /\ P!UserInv(u)
    BY ListFacts DEF P!Claim, P!At
  <2> QED
    BY <2>1, ListFacts, ListedFacts DEF P!UserInv, P!Claim, P!IInv
<1>2. CASE ~ inactive[p]
  <2> DEFINE to == IF nextProducer[p] = 0 THEN "create" ELSE "scan"
             l == [ul[u] EXCEPT !.ptr = nextProducer[p]]
  <2>1. upc' = [upc EXCEPT ![u] = to] /\ ul' = [ul EXCEPT ![u] = l] /\ UNCHANGED inactive
    BY <1>2 DEF P!Claim, P!Goto, P!Set, P!null
  <2>2. l \in [explicit : BOOLEAN, ptr : P!Producer \cup {0}] /\ to \in {"create", "scan"}
        /\ (to = "scan" => l.ptr \in P!Listed)
    BY <1>1, ListFacts, ListedFacts DEF P!IInv
  <2> HIDE DEF to, l
  <2> QED
    BY <1>1, <2>1, <2>2, ListLook DEF P!listing
<1>3. CASE inactive[p]
  <2>1. /\ inactive' = [inactive EXCEPT ![p] = FALSE] /\ upc' = [upc EXCEPT ![u] = "own"] /\ ul' = ul
        /\ UNCHANGED <<producerListTail, nextProducer, producerCount, made, isExplicit, tokenOf,
                       token, implicit>>
    BY <1>1, <1>3 DEF P!Claim, P!Goto, P!listing
  <2>2. /\ upc'[u] = "own" /\ \A v \in QBlock : v # u => upc'[v] = upc[v]
        /\ ~ inactive'[p] /\ \A q \in P!Producer : q # p => inactive'[q] = inactive[q]
    BY <1>1, <2>1, ListFacts
  <2>3. P!TypeOK'
    BY <2>1, ListFacts DEF P!TypeOK, P!null, P!Producer
  <2>4. P!Listed' = P!Listed
    BY <2>1, <2>3, ListedKept DEF P!IInv
  <2>5. \A v \in QBlock : ~ P!Owns(v, p)
    <3>1. ASSUME NEW v \in QBlock PROVE ~ P!Owns(v, p)
      <4>1. P!UserInv(v) /\ p # 0
        BY <1>1, ListFacts
      <4> QED
        BY <1>3, <4>1 DEF P!UserInv, P!Owns, P!null
    <3> QED
      BY <3>1
  <2>6. ASSUME NEW v \in QBlock PROVE P!UserInv(v)'
    <3>1. P!UserInv(v)
      BY ListFacts
    <3>2. \A q \in P!Listed : ~ inactive[q] => ~ inactive'[q]
      BY <2>2, ListFacts, ListedFacts DEF P!IInv
    <3>3. CASE v = u
      BY <1>1, <2>1, <2>2, <2>4, <3>1, <3>2, <3>3 DEF P!UserInv, P!New
    <3>4. CASE v # u
      BY <2>1, <2>2, <2>4, <3>1, <3>2, <3>4 DEF P!UserInv, P!New
    <3> QED
      BY <3>3, <3>4
  <2>7. \A v \in QBlock, q \in P!Producer : P!Owns(v, q)' => P!Owns(v, q) \/ (v = u /\ q = p)
    BY <2>1, <2>2 DEF P!Owns
  <2>8. \A v \in QBlock : P!New(v)' <=> P!New(v)
    BY <1>1, <2>2 DEF P!New
  <2>9. \A v, w \in QBlock : v # w => P!Alone(v, w)'
    BY <2>1, <2>5, <2>7, <2>8, ListFacts DEF P!Alone, P!Producer
  <2>10. P!Counted' = P!Counted
    BY <1>1, <2>1, <2>2 DEF P!Counted
  <2>11. \A q \in P!Producer : inactive'[q] => q \in P!Listed
    BY <2>2, ListFacts
  <2> QED
    BY <2>1, <2>3, <2>4, <2>6, <2>9, <2>10, <2>11, ListFacts, ListStays
<1> QED
  BY <1>2, <1>3

LEMMA ListCreate ==
  ASSUME P!IInv, NEW u \in QBlock, P!Create(u)
  PROVE  P!IInv'
<1>1. /\ upc[u] = "create"
      /\ UNCHANGED <<producerListTail, nextProducer, producerCount, inactive, tokenOf, token, implicit>>
      /\ ul[u] \in [explicit : BOOLEAN, ptr : P!Producer \cup {0}]
  BY ListFacts DEF P!Create, P!At
<1>2. CASE /\ upc' = [upc EXCEPT ![u] = "out"] /\ ul' = [ul EXCEPT ![u] = P!NoLocals]
           /\ UNCHANGED <<made, isExplicit>>
  <2>1. P!NoLocals \in [explicit : BOOLEAN, ptr : P!Producer \cup {0}]
    BY DEF P!NoLocals, P!null
  <2> QED
    BY <1>1, <1>2, <2>1, ListLook
<1>3. CASE /\ made < MaxProducers /\ made' = made + 1
           /\ isExplicit' = [isExplicit EXCEPT ![made + 1] = ul[u].explicit]
           /\ ul' = [ul EXCEPT ![u] = [ul[u] EXCEPT !.ptr = made + 1]]
           /\ upc' = [upc EXCEPT ![u] = "count"]
  <2>1. made + 1 \in P!Producer /\ made' \in 0 .. MaxProducers /\ made \in Nat
        /\ made + 1 \notin 1 .. made /\ made' \in Nat /\ made' >= made
        /\ \A p \in P!Listed : p # made + 1 /\ p \in 1 .. made
    BY <1>3, ListFacts
  <2>2. /\ upc'[u] = "count" /\ ul'[u].ptr = made + 1 /\ ul'[u].explicit = ul[u].explicit
        /\ \A v \in QBlock : v # u => upc'[v] = upc[v] /\ ul'[v] = ul[v]
        /\ isExplicit'[made + 1] = ul[u].explicit
        /\ \A p \in P!Producer : p # made + 1 => isExplicit'[p] = isExplicit[p]
    BY <1>1, <1>3, <2>1, ListFacts
  <2>3. P!TypeOK'
    <3>1. isExplicit' \in [P!Producer -> BOOLEAN]
      BY <1>1, <1>3, ListFacts
    <3>2. ul' \in [QBlock -> [explicit : BOOLEAN, ptr : P!Producer \cup {0}]]
      BY <1>1, <1>3, <2>1, ListFacts
    <3>3. upc' \in [QBlock -> {"out", "scan", "claim", "create", "count", "link", "own", "retire"}]
      BY <1>3, ListFacts
    <3> QED
      BY <1>1, <2>1, <3>1, <3>2, <3>3, ListFacts DEF P!TypeOK, P!null, P!Producer
  <2>4. P!Listed' = P!Listed
    BY <1>1, <2>3, ListedKept DEF P!IInv
  <2>5. ASSUME NEW v \in QBlock PROVE P!UserInv(v)'
    <3>1. P!UserInv(v) /\ 0 \notin P!Producer
      BY ListFacts
    <3>2. /\ token[v] # 0 => token[v] \in P!Listed
          /\ implicit[v] # 0 => implicit[v] \in P!Listed
      BY <3>1 DEF P!UserInv, P!null
    <3>3. \A p \in P!Listed : isExplicit'[p] = isExplicit[p] /\ p \in P!Producer
      BY <2>1, <2>2, ListFacts
    <3>4. CASE v = u
      <4>1. made + 1 \in (1 .. made') \ P!Listed
        BY <1>3, <2>1
      <4>2. token[u] # 0 => isExplicit'[token[u]] = isExplicit[token[u]]
        BY <3>2, <3>3, <3>4
      <4>3. implicit[u] # 0 => isExplicit'[implicit[u]] = isExplicit[implicit[u]]
        BY <3>2, <3>3, <3>4
      <4> QED
        BY <1>1, <2>2, <2>4, <3>1, <3>4, <4>1, <4>2, <4>3 DEF P!UserInv, P!New, P!null
    <3>5. CASE v # u
      <4>1. upc'[v] = upc[v] /\ ul'[v] = ul[v] /\ token'[v] = token[v] /\ implicit'[v] = implicit[v]
        BY <1>1, <2>2, <3>5
      <4>2. P!New(v) \/ upc[v] \in {"claim", "own"} => isExplicit'[ul[v].ptr] = isExplicit[ul[v].ptr]
        <5>1. P!New(v) \/ upc[v] \in {"claim", "own"} => ul[v].ptr \in 1 .. made
          BY <2>1, <3>1 DEF P!UserInv
        <5>2. \A p \in 1 .. made : p \in P!Producer /\ p # made + 1
          BY <2>1, ListFacts
        <5> QED
          BY <2>2, <5>1, <5>2
      <4>3. \A p \in (1 .. made) \ P!Listed : p \in (1 .. made') \ P!Listed
        BY <1>3, <2>1
      <4> QED
        BY <1>1, <2>4, <3>1, <3>2, <3>3, <4>1, <4>2, <4>3 DEF P!UserInv, P!New, P!null
    <3> QED
      BY <3>4, <3>5
  <2>6. \A v \in QBlock : \A p \in P!Producer : P!Owns(v, p)' => P!Owns(v, p)
    BY <1>1, <2>2 DEF P!Owns
  <2>7. \A v \in QBlock : P!New(v)' => v = u \/ (v # u /\ P!New(v) /\ ul[v].ptr # made + 1)
    <3>1. ASSUME NEW v \in QBlock, v # u, P!New(v) PROVE ul[v].ptr # made + 1
      <4>1. P!UserInv(v)
        BY ListFacts
      <4> QED
        BY <2>1, <3>1, <4>1 DEF P!UserInv
    <3> QED
      BY <2>2, <3>1 DEF P!New
  <2>8. ASSUME NEW v \in QBlock, NEW w \in QBlock, v # w PROVE P!Alone(v, w)'
    <3>1. P!Alone(v, w) /\ P!Producer' = P!Producer
      BY <2>8, ListFacts DEF P!Producer
    <3>2. ~ (P!New(v)' /\ P!New(w)' /\ ul'[v].ptr = ul'[w].ptr)
      BY <2>2, <2>7, <2>8, <3>1 DEF P!Alone
    <3> QED
      BY <2>6, <3>1, <3>2 DEF P!Alone
  <2>9. P!Counted' = P!Counted
    <3>1. \A p : p \in 1 .. made' <=> p \in 1 .. made \/ p = made + 1
      BY <1>3, <2>1
    <3>2. \A p \in 1 .. made : (\A v \in QBlock : upc'[v] = "count" => ul'[v].ptr # p)
                               <=> (\A v \in QBlock : upc[v] = "count" => ul[v].ptr # p)
      BY <1>1, <2>1, <2>2
    <3>3. ~ \A v \in QBlock : upc'[v] = "count" => ul'[v].ptr # made + 1
      BY <2>2
    <3> QED
      BY <3>1, <3>2, <3>3 DEF P!Counted
  <2> QED
    BY <1>1, <2>1, <2>3, <2>4, <2>5, <2>8, <2>9, ListFacts, ListStays
<1> QED
  BY <1>2, <1>3 DEF P!Create, P!Goto, P!Set

LEMMA ListCount ==
  ASSUME P!IInv, NEW u \in QBlock, P!Count(u)
  PROVE  P!IInv'
<1> DEFINE p == ul[u].ptr
<1>1. /\ upc[u] = "count" /\ p \in (1 .. made) \ P!Listed /\ p \in P!Producer
      /\ producerCount' = producerCount + 1
      /\ nextProducer' = [nextProducer EXCEPT ![p] = producerListTail]
      /\ upc' = [upc EXCEPT ![u] = "link"] /\ ul' = ul
      /\ UNCHANGED <<producerListTail, made, isExplicit, inactive, tokenOf, token, implicit>>
  <2>1. upc[u] = "count" /\ P!UserInv(u)
    BY ListFacts DEF P!Count, P!At
  <2>2. p \in (1 .. made) \ P!Listed
    BY <2>1 DEF P!UserInv, P!New
  <2>3. p \in P!Producer
    BY <2>2, ListFacts
  <2> QED
    BY <2>1, <2>2, <2>3 DEF P!Count, P!Goto
<1>2. /\ upc'[u] = "link" /\ \A v \in QBlock : v # u => upc'[v] = upc[v]
      /\ \A q \in P!Producer : q # p => nextProducer'[q] = nextProducer[q]
  BY <1>1, ListFacts
<1>3. P!TypeOK'
  BY <1>1, ListFacts DEF P!TypeOK, P!null, P!Producer
<1>4. P!Listed' = P!Listed
  <2>1. \A q \in P!Listed : q # p /\ q \in P!Producer
    BY <1>1, ListFacts
  <2> QED
    BY <1>1, <1>2, <1>3, <2>1, ListedKept DEF P!IInv
<1>5. ASSUME NEW v \in QBlock PROVE P!UserInv(v)'
  <2>1. P!UserInv(v)
    BY ListFacts
  <2>2. CASE v = u
    BY <1>1, <1>2, <1>4, <2>1, <2>2 DEF P!UserInv, P!New
  <2>3. CASE v # u
    BY <1>1, <1>2, <1>4, <2>1, <2>3 DEF P!UserInv, P!New
  <2> QED
    BY <2>2, <2>3
<1>6. ASSUME NEW v \in QBlock, NEW w \in QBlock, v # w PROVE P!Alone(v, w)'
  <2>1. P!Alone(v, w) /\ P!Producer' = P!Producer
    BY <1>6, ListFacts DEF P!Producer
  <2>2. \A x \in QBlock : (P!New(x)' <=> P!New(x)) /\ \A q : P!Owns(x, q)' => P!Owns(x, q)
    BY <1>1, <1>2 DEF P!New, P!Owns
  <2> QED
    BY <1>1, <2>1, <2>2 DEF P!Alone
<1>7. P!Counted' = P!Counted \cup {p} /\ p \notin P!Counted
  <2>1. ASSUME NEW v \in QBlock, v # u, upc[v] = "count" PROVE ul[v].ptr # p
    <3>1. P!Alone(v, u)
      BY <2>1, ListFacts
    <3> QED
      BY <1>1, <2>1, <3>1 DEF P!Alone, P!New
  <2>2. \A v \in QBlock : upc'[v] = "count" => ul'[v].ptr # p
    BY <1>1, <1>2, <2>1
  <2>3. \A q : q # p => ((\A v \in QBlock : upc'[v] = "count" => ul'[v].ptr # q)
                         <=> (\A v \in QBlock : upc[v] = "count" => ul[v].ptr # q))
    BY <1>1, <1>2
  <2> QED
    BY <1>1, <2>2, <2>3 DEF P!Counted
<1>8. producerCount' = P!Cardinality(P!Counted')
  <2>1. IsFiniteSet(1 .. made)
    BY ListFacts, FS_Interval
  <2>2. IsFiniteSet(P!Counted)
    BY <2>1, FS_Subset DEF P!Counted
  <2>3. Cardinality(P!Counted \cup {p}) = Cardinality(P!Counted) + 1
    BY <1>7, <2>2, FS_AddElement
  <2> QED
    BY <1>1, <1>7, <2>3, ListFacts, SameCounting
<1>9. /\ P!Listed' \subseteq 1 .. made' /\ P!Producer' = P!Producer
      /\ \A q \in P!Producer : inactive'[q] => q \in P!Listed
  BY <1>1, <1>4, ListFacts DEF P!Producer
<1>10. P!Cardinality(P!Counted)' = P!Cardinality(P!Counted')
  BY SameCounting
<1> QED
  BY <1>3, <1>4, <1>5, <1>6, <1>8, <1>9, <1>10 DEF P!IInv

LEMMA ListLink ==
  ASSUME P!IInv, NEW u \in QBlock, P!Link(u)
  PROVE  P!IInv'
<1> DEFINE p == ul[u].ptr
<1>1. /\ upc[u] = "link" /\ p \in (1 .. made) \ P!Listed /\ p \in P!Producer
      /\ isExplicit[p] = ul[u].explicit /\ ul' = ul
      /\ UNCHANGED <<made, isExplicit, producerCount, inactive, tokenOf, token, implicit>>
  <2>1. upc[u] = "link" /\ P!UserInv(u)
    BY ListFacts DEF P!Link, P!At
  <2>2. p \in (1 .. made) \ P!Listed /\ isExplicit[p] = ul[u].explicit
    BY <2>1 DEF P!UserInv, P!New
  <2>3. p \in P!Producer
    BY <2>2, ListFacts
  <2> QED
    BY <2>1, <2>2, <2>3 DEF P!Link
<1>2. ~ inactive[p]
  BY <1>1, ListFacts
<1>3. CASE /\ producerListTail # nextProducer[p] /\ UNCHANGED <<producerListTail, upc>>
           /\ nextProducer' = [nextProducer EXCEPT ![p] = producerListTail]
  <2>1. P!TypeOK'
    BY <1>1, <1>3, ListFacts DEF P!TypeOK, P!null, P!Producer
  <2>2. P!Listed' = P!Listed
    <3>1. \A q \in P!Listed : nextProducer'[q] = nextProducer[q]
      BY <1>1, <1>3, ListFacts
    <3> QED
      BY <1>3, <2>1, <3>1, ListedKept DEF P!IInv
  <2>3. ASSUME NEW v \in QBlock PROVE P!UserInv(v)'
    <3>1. P!UserInv(v)
      BY ListFacts
    <3> QED
      BY <1>1, <1>3, <2>2, <3>1 DEF P!UserInv, P!New
  <2>4. \A v, w \in QBlock : v # w => P!Alone(v, w)'
    BY <1>1, <1>3, ListFacts DEF P!Alone, P!New, P!Owns, P!Producer
  <2>5. P!Counted' = P!Counted
    BY <1>1, <1>3 DEF P!Counted
  <2> QED
    BY <1>1, <2>1, <2>2, <2>3, <2>4, <2>5, ListFacts, ListStays
<1>4. CASE /\ producerListTail = nextProducer[p] /\ producerListTail' = p /\ UNCHANGED nextProducer
           /\ upc' = [upc EXCEPT ![u] = "own"]
  <2>1. /\ upc'[u] = "own" /\ \A v \in QBlock : v # u => upc'[v] = upc[v]
    BY <1>4, ListFacts
  <2>2. P!TypeOK'
    BY <1>1, <1>4, ListFacts DEF P!TypeOK, P!null, P!Producer
  <2>3. P!Listed' = P!Listed \cup {p}
    <3>1. nextProducer[p] = producerListTail /\ p \in P!Producer
      BY <1>1, <1>4
    <3>2. /\ producerListTail \in P!Producer \cup {0} /\ 0 \notin P!Producer
          /\ nextProducer \in [P!Producer -> P!Producer \cup {0}]
      BY ListFacts
    <3>3. Reached(P!Producer, nextProducer, p, 0)
            = Reached(P!Producer, nextProducer, producerListTail, 0) \cup {p}
      BY <3>1, <3>2, ReachedPushed
    <3> QED
      BY <1>4, <3>3, ListedIs
  <2>4. \A v \in QBlock : ~ P!Owns(v, p)
    <3>1. ASSUME NEW v \in QBlock PROVE ~ P!Owns(v, p)
      <4>1. P!UserInv(v) /\ p # 0
        BY <1>1, ListFacts
      <4> QED
        BY <1>1, <4>1 DEF P!UserInv, P!Owns, P!null
    <3> QED
      BY <3>1
  <2>5. ASSUME NEW v \in QBlock PROVE P!UserInv(v)'
    <3>1. P!UserInv(v)
      BY ListFacts
    <3>2. CASE v = u
      BY <1>1, <1>2, <2>1, <2>3, <3>1, <3>2 DEF P!UserInv, P!New
    <3>3. CASE v # u
      <4>1. P!New(v) => ul[v].ptr # p
        <5>1. P!Alone(v, u)
          BY <3>3, ListFacts
        <5> QED
          BY <1>1, <5>1 DEF P!Alone, P!New
      <4> QED
        BY <1>1, <2>1, <2>3, <3>1, <3>3, <4>1 DEF P!UserInv, P!New
    <3> QED
      BY <3>2, <3>3
  <2>6. \A v \in QBlock, q \in P!Producer : P!Owns(v, q)' => P!Owns(v, q) \/ (v = u /\ q = p)
    BY <1>1, <2>1 DEF P!Owns
  <2>7. \A v \in QBlock : P!New(v)' => P!New(v)
    BY <2>1 DEF P!New
  <2>8. \A v, w \in QBlock : v # w => P!Alone(v, w)'
    BY <1>1, <2>4, <2>6, <2>7, ListFacts DEF P!Alone, P!Producer
  <2>9. P!Counted' = P!Counted
    BY <1>1, <2>1 DEF P!Counted
  <2>10. /\ P!Listed' \subseteq 1 .. made' /\ P!Producer' = P!Producer
         /\ \A q \in P!Producer : inactive'[q] => q \in P!Listed'
    BY <1>1, <2>3, ListFacts DEF P!Producer
  <2>11. producerCount' = P!Cardinality(P!Counted)'
    BY <1>1, <2>9, ListFacts, SameCounting
  <2> QED
    BY <2>2, <2>5, <2>8, <2>10, <2>11 DEF P!IInv
<1> QED
  BY <1>3, <1>4 DEF P!Link, P!Goto

LEMMA ListOwn ==
  ASSUME P!IInv, NEW u \in QBlock, P!Own(u)
  PROVE  P!IInv'
<1> DEFINE p == ul[u].ptr
<1>1. /\ upc[u] = "own" /\ p \in P!Listed /\ p \in P!Producer /\ p # 0 /\ ~ inactive[p]
      /\ isExplicit[p] = ul[u].explicit
      /\ upc' = [upc EXCEPT ![u] = "out"] /\ ul' = [ul EXCEPT ![u] = P!NoLocals]
      /\ UNCHANGED <<producerListTail, nextProducer, producerCount, made, isExplicit, inactive>>
      /\ IF ul[u].explicit
         THEN /\ token' = [token EXCEPT ![u] = p] /\ tokenOf' = [tokenOf EXCEPT ![p] = u]
              /\ UNCHANGED implicit
         ELSE implicit' = [implicit EXCEPT ![u] = p] /\ UNCHANGED <<token, tokenOf>>
  <2>1. upc[u] = "own" /\ P!UserInv(u)
    BY ListFacts DEF P!Own, P!At
  <2>2. /\ p \in P!Listed /\ p \in P!Producer /\ p # 0 /\ ~ inactive[p]
        /\ isExplicit[p] = ul[u].explicit
    BY <2>1, ListFacts, ListedFacts DEF P!UserInv, P!IInv
  <2> QED
    BY <2>1, <2>2 DEF P!Own, P!Goto, P!Set, P!listing
<1>2. /\ upc'[u] = "out" /\ ul'[u] = P!NoLocals
      /\ \A v \in QBlock : v # u => /\ upc'[v] = upc[v] /\ ul'[v] = ul[v]
                                    /\ token'[v] = token[v] /\ implicit'[v] = implicit[v]
      /\ \A q \in P!Producer : q # p => tokenOf'[q] = tokenOf[q]
      /\ IF ul[u].explicit THEN token'[u] = p /\ tokenOf'[p] = u /\ implicit'[u] = implicit[u]
         ELSE implicit'[u] = p /\ token'[u] = token[u] /\ tokenOf' = tokenOf
  BY <1>1, ListFacts
<1>3. P!TypeOK'
  <2>1. P!NoLocals \in [explicit : BOOLEAN, ptr : P!Producer \cup {0}]
    BY DEF P!NoLocals, P!null
  <2>2. /\ upc' \in [QBlock -> {"out", "scan", "claim", "create", "count", "link", "own", "retire"}]
        /\ ul' \in [QBlock -> [explicit : BOOLEAN, ptr : P!Producer \cup {0}]]
    BY <1>1, <2>1, ListFacts
  <2>3. /\ token' \in [QBlock -> P!Producer \cup {0}]
        /\ implicit' \in [QBlock -> P!Producer \cup {0}]
        /\ tokenOf' \in [P!Producer -> QBlock \cup {P!NoUser}]
    <3>0. /\ tokenOf \in [P!Producer -> QBlock \cup {P!NoUser}]
          /\ token \in [QBlock -> P!Producer \cup {0}] /\ implicit \in [QBlock -> P!Producer \cup {0}]
          /\ p \in P!Producer
      BY <1>1, ListFacts
    <3>1. CASE ul[u].explicit
      <4>1. /\ token' = [token EXCEPT ![u] = p] /\ tokenOf' = [tokenOf EXCEPT ![p] = u]
            /\ implicit' = implicit
        BY <1>1, <3>1
      <4> QED
        BY <3>0, <4>1
    <3>2. CASE ~ ul[u].explicit
      <4>1. implicit' = [implicit EXCEPT ![u] = p] /\ token' = token /\ tokenOf' = tokenOf
        BY <1>1, <3>2
      <4> QED
        BY <3>0, <4>1
    <3> QED
      BY <3>1, <3>2
  <2> QED
    BY <1>1, <2>2, <2>3, ListFacts DEF P!TypeOK, P!null, P!Producer, P!NoUser
<1>4. P!Listed' = P!Listed
  BY <1>1, <1>3, ListedKept DEF P!IInv
<1>5. \A v \in QBlock : v # u => ~ P!Owns(v, p)
  <2>1. ASSUME NEW v \in QBlock, v # u PROVE ~ P!Owns(v, p)
    <3>1. P!Alone(v, u) /\ P!Owns(u, p)
      BY <1>1, <2>1, ListFacts DEF P!Owns
    <3> QED
      BY <1>1, <3>1 DEF P!Alone
  <2> QED
    BY <2>1
<1>6. ASSUME NEW v \in QBlock PROVE P!UserInv(v)'
  <2>1. P!UserInv(v)
    BY ListFacts
  <2>2. CASE v = u
    <3>1. P!UserInv(u)
      BY ListFacts
    <3> QED
      BY <1>1, <1>2, <1>4, <2>2, <3>1 DEF P!UserInv, P!New, P!null
  <2>3. CASE v # u
    <3>1. token[v] # p /\ token[v] \in P!Producer \cup {0}
      BY <1>5, <2>3, ListFacts DEF P!Owns
    <3>2. token[v] # 0 => tokenOf'[token[v]] = tokenOf[token[v]]
      BY <1>2, <3>1
    <3> QED
      BY <1>1, <1>2, <1>4, <2>1, <2>3, <3>2 DEF P!UserInv, P!New, P!null
  <2> QED
    BY <2>2, <2>3
<1>7. \A v \in QBlock, q \in P!Producer : P!Owns(v, q)' => P!Owns(v, q)
  BY <1>1, <1>2 DEF P!Owns
<1>8. \A v \in QBlock : P!New(v)' => P!New(v) /\ v # u
  BY <1>1, <1>2 DEF P!New
<1>9. \A v, w \in QBlock : v # w => P!Alone(v, w)'
  BY <1>2, <1>7, <1>8, ListFacts DEF P!Alone, P!Producer
<1>10. P!Counted' = P!Counted
  BY <1>1, <1>2 DEF P!Counted
<1> QED
  BY <1>1, <1>3, <1>4, <1>6, <1>9, <1>10, ListFacts, ListStays

LEMMA ListGiveUp ==
  ASSUME P!IInv, NEW u \in QBlock, P!Disown(u) \/ P!Retire(u)
  PROVE  P!IInv'
<1> DEFINE p == token[u]
<1>1. /\ p # 0 /\ p \in P!Producer /\ p \in P!Listed /\ upc[u] \in {"out", "retire"}
      /\ \A v \in QBlock : v # u => ~ P!Owns(v, p)
      /\ implicit[u] # p
      /\ UNCHANGED <<producerListTail, nextProducer, producerCount, made, isExplicit, implicit, ul>>
  <2>1. p # 0 /\ upc[u] \in {"out", "retire"} /\ P!UserInv(u)
    BY ListFacts DEF P!Disown, P!Retire, P!At, P!UserInv, P!null
  <2>2. p \in P!Producer /\ p \in P!Listed /\ isExplicit[p]
    BY <2>1, ListFacts DEF P!UserInv, P!null
  <2>3. implicit[u] # p
    BY <2>1, <2>2 DEF P!UserInv, P!null
  <2>4. ASSUME NEW v \in QBlock, v # u PROVE ~ P!Owns(v, p)
    <3>1. P!Alone(v, u) /\ P!Owns(u, p)
      BY <2>4, ListFacts DEF P!Owns
    <3> QED
      BY <2>2, <3>1 DEF P!Alone
  <2> QED
    BY <2>1, <2>2, <2>3, <2>4 DEF P!Disown, P!Retire, P!listing
<1>2. ASSUME P!TypeOK',
             \A v \in QBlock : v # u => upc'[v] = upc[v] /\ token'[v] = token[v],
             upc[u] # "own", upc'[u] \in {"out", "retire"}, token'[u] \in {0, token[u]},
             P!UserInv(u)',
             \A q \in P!Producer : q # p => inactive'[q] = inactive[q] /\ tokenOf'[q] = tokenOf[q]
      PROVE  P!IInv'
  <2>1. P!Listed' = P!Listed
    BY <1>1, <1>2, ListedKept DEF P!IInv
  <2>2. ASSUME NEW v \in QBlock PROVE P!UserInv(v)'
    <3>1. CASE v # u
      <4>1. P!UserInv(v) /\ token[v] # p /\ implicit[v] # p /\ ~ (upc[v] = "own" /\ ul[v].ptr = p)
        BY <1>1, <3>1, ListFacts DEF P!Owns
      <4>2. /\ token[v] \in P!Producer \cup {0} /\ implicit[v] \in P!Producer \cup {0}
            /\ upc[v] = "own" => ul[v].ptr \in P!Producer
        BY <4>1, ListFacts DEF P!UserInv
      <4>3. /\ token[v] # 0 => inactive'[token[v]] = inactive[token[v]]
                               /\ tokenOf'[token[v]] = tokenOf[token[v]]
            /\ implicit[v] # 0 => inactive'[implicit[v]] = inactive[implicit[v]]
            /\ upc[v] = "own" => inactive'[ul[v].ptr] = inactive[ul[v].ptr]
        BY <1>2, <4>1, <4>2
      <4> QED
        BY <1>1, <1>2, <2>1, <3>1, <4>1, <4>3 DEF P!UserInv, P!New, P!null
    <3> QED
      BY <1>2, <3>1
  <2>3. \A v \in QBlock, q \in P!Producer : P!Owns(v, q)' => P!Owns(v, q)
    BY <1>1, <1>2, ListFacts DEF P!Owns
  <2>4. \A v \in QBlock : P!New(v)' => P!New(v)
    BY <1>1, <1>2 DEF P!New
  <2>5. \A v, w \in QBlock : v # w => P!Alone(v, w)'
    BY <1>1, <2>3, <2>4, ListFacts DEF P!Alone, P!Producer
  <2>6. P!Counted' = P!Counted
    BY <1>1, <1>2 DEF P!Counted
  <2>7. \A q \in P!Producer : inactive'[q] => q \in P!Listed
    BY <1>1, <1>2, ListFacts
  <2> QED
    BY <1>1, <1>2, <2>1, <2>2, <2>5, <2>6, <2>7, ListFacts, ListStays
<1>3. CASE P!Disown(u)
  <2>1. /\ upc[u] = "out" /\ upc' = [upc EXCEPT ![u] = "retire"]
        /\ tokenOf' = [tokenOf EXCEPT ![p] = P!NoUser] /\ UNCHANGED <<inactive, token>>
    BY <1>3 DEF P!Disown, P!At, P!Goto
  <2>2. P!TypeOK'
    <3>1. /\ upc' \in [QBlock -> {"out", "scan", "claim", "create", "count", "link", "own", "retire"}]
          /\ tokenOf' \in [P!Producer -> QBlock \cup {P!NoUser}]
      BY <2>1, ListFacts
    <3> QED
      BY <1>1, <2>1, <3>1, ListFacts DEF P!TypeOK, P!null, P!Producer, P!NoUser
  <2>3. P!Listed' = P!Listed
    BY <1>1, <2>2, ListedKept DEF P!IInv
  <2>4. upc'[u] = "retire" /\ P!UserInv(u)
    BY <2>1, ListFacts
  <2>5. P!UserInv(u)'
    BY <1>1, <2>1, <2>3, <2>4 DEF P!UserInv, P!New, P!null
  <2> QED
    BY <1>2, <2>1, <2>2, <2>4, <2>5, ListFacts
<1>4. CASE P!Retire(u)
  <2>1. /\ upc[u] = "retire" /\ upc' = [upc EXCEPT ![u] = "out"]
        /\ inactive' = [inactive EXCEPT ![p] = TRUE] /\ token' = [token EXCEPT ![u] = 0]
        /\ UNCHANGED tokenOf
    BY <1>4 DEF P!Retire, P!At, P!Goto, P!null
  <2>2. P!TypeOK'
    <3>1. /\ upc' \in [QBlock -> {"out", "scan", "claim", "create", "count", "link", "own", "retire"}]
          /\ inactive' \in [P!Producer -> BOOLEAN] /\ token' \in [QBlock -> P!Producer \cup {0}]
      BY <2>1, ListFacts
    <3> QED
      BY <1>1, <2>1, <3>1, ListFacts DEF P!TypeOK, P!null, P!Producer, P!NoUser
  <2>3. P!Listed' = P!Listed
    BY <1>1, <2>2, ListedKept DEF P!IInv
  <2>4. upc'[u] = "out" /\ token'[u] = 0 /\ P!UserInv(u)
        /\ (implicit[u] # 0 => inactive'[implicit[u]] = inactive[implicit[u]])
    BY <1>1, <2>1, ListFacts
  <2>5. P!UserInv(u)'
    BY <1>1, <2>1, <2>3, <2>4 DEF P!UserInv, P!New, P!null
  <2> QED
    BY <1>2, <2>1, <2>2, <2>4, <2>5, ListFacts
<1> QED
  BY <1>3, <1>4

LEMMA ListSwap ==
  ASSUME P!IInv, NEW u \in QBlock, NEW v \in QBlock, P!SwapTokens(u, v)
  PROVE  P!IInv'
<1>1. /\ upc[u] = "out" /\ upc[v] = "out" /\ u # v
      /\ token' = [token EXCEPT ![u] = token[v], ![v] = token[u]]
      /\ tokenOf' = [p \in P!Producer |-> IF p = token[u] THEN v
                                          ELSE IF p = token[v] THEN u ELSE tokenOf[p]]
      /\ UNCHANGED <<producerListTail, nextProducer, producerCount, made, isExplicit, inactive,
                     implicit, upc, ul>>
  BY DEF P!SwapTokens, P!At, P!listing
<1>2. /\ token'[u] = token[v] /\ token'[v] = token[u]
      /\ \A w \in QBlock : w # u /\ w # v => token'[w] = token[w]
  BY <1>1, ListFacts
<1>3. P!TypeOK'
  <2>1. /\ token' \in [QBlock -> P!Producer \cup {0}]
        /\ tokenOf' \in [P!Producer -> QBlock \cup {P!NoUser}]
    BY <1>1, ListFacts
  <2> QED
    BY <1>1, <2>1, ListFacts DEF P!TypeOK, P!null, P!Producer, P!NoUser
<1>4. P!Listed' = P!Listed
  BY <1>1, <1>3, ListedKept DEF P!IInv
\* No two users hold the same token.
<1>5. ASSUME NEW w \in QBlock, NEW x \in QBlock, w # x, token[w] # 0 PROVE token[w] # token[x]
  <2>1. P!Alone(w, x) /\ token[w] \in P!Producer
    BY <1>5, ListFacts
  <2> QED
    BY <2>1 DEF P!Alone, P!Owns
<1>6. ASSUME NEW w \in QBlock PROVE P!UserInv(w)'
  <2>1. P!UserInv(w) /\ token[w] \in P!Producer \cup {0} /\ token[u] \in P!Producer \cup {0}
        /\ token[v] \in P!Producer \cup {0}
    BY ListFacts
  <2>2. PICK x \in QBlock : token'[w] = token[x] /\ IF w \in {u, v} THEN x \in {u, v} \ {w} ELSE x = w
    BY <1>1, <1>2
  <2>3. token[x] # 0 /\ upc[w] # "retire" => tokenOf'[token[x]] = w
    <3>1. token[x] # 0 => token[x] \in P!Producer
      BY ListFacts
    <3>2. CASE w = u
      BY <1>1, <1>5, <2>2, <3>1, <3>2
    <3>3. CASE w = v
      BY <1>1, <2>2, <3>1, <3>3
    <3>4. CASE w \notin {u, v}
      <4>1. token[w] # 0 => token[w] # token[u] /\ token[w] # token[v]
        BY <1>5, <3>4
      <4>2. token[w] # 0 => tokenOf'[token[w]] = tokenOf[token[w]]
        BY <1>1, <2>2, <3>1, <3>4, <4>1
      <4> QED
        BY <2>1, <2>2, <3>4, <4>2 DEF P!UserInv, P!null
    <3> QED
      BY <3>2, <3>3, <3>4
  <2>4. token[x] # 0 => token[x] \in P!Listed /\ isExplicit[token[x]] /\ ~ inactive[token[x]]
    <3>1. P!UserInv(x)
      BY ListFacts
    <3> QED
      BY <3>1 DEF P!UserInv, P!null
  <2>5. upc[w] = "retire" => token[x] # 0
    BY <1>1, <2>1, <2>2 DEF P!UserInv, P!null
  <2>6. UNCHANGED <<made, isExplicit, inactive, implicit, upc, ul>>
    BY <1>1
  <2>7. P!UserInv(w) /\ token'[w] = token[x]
    BY <2>1, <2>2
  <2> QED
    BY <1>4, <2>3, <2>4, <2>5, <2>6, <2>7 DEF P!UserInv, P!New, P!null
<1>7. ASSUME NEW w \in QBlock, NEW x \in QBlock, w # x PROVE P!Alone(w, x)'
  <2>1. PICK y \in QBlock : token'[w] = token[y] /\ IF w \in {u, v} THEN y \in {u, v} \ {w} ELSE y = w
    BY <1>1, <1>2
  <2>2. PICK z \in QBlock : token'[x] = token[z] /\ IF x \in {u, v} THEN z \in {u, v} \ {x} ELSE z = x
    BY <1>1, <1>2
  <2>3. y # z
    BY <1>1, <1>7, <2>1, <2>2
  <2>4. ASSUME NEW p \in P!Producer PROVE ~ (P!Owns(w, p)' /\ P!Owns(x, p)')
    <3>1. p # 0
      BY ListFacts
    <3>2. ~ (token[y] = p /\ token[z] = p)
      BY <1>5, <2>3, <3>1
    <3>3. \A r \in QBlock : token[r] = p => isExplicit[p]
      <4>1. ASSUME NEW r \in QBlock, token[r] = p PROVE isExplicit[p]
        <5>1. P!UserInv(r)
          BY ListFacts
        <5> QED
          BY <3>1, <4>1, <5>1 DEF P!UserInv, P!null
      <4> QED
        BY <4>1
    <3>4. \A r \in QBlock : implicit[r] = p => ~ isExplicit[p]
      <4>1. ASSUME NEW r \in QBlock, implicit[r] = p PROVE ~ isExplicit[p]
        <5>1. P!UserInv(r)
          BY ListFacts
        <5> QED
          BY <3>1, <4>1, <5>1 DEF P!UserInv, P!null
      <4> QED
        BY <4>1
    <3>5. \A q, r \in QBlock : token[q] = p /\ upc[r] = "own" /\ ul[r].ptr = p => q = r
      BY ListFacts DEF P!Alone, P!Owns
    <3>6. \A q, r \in QBlock : q # r => ~ (P!Owns(q, p) /\ P!Owns(r, p))
      BY ListFacts DEF P!Alone
    <3>7. upc[w] = "own" => y = w
      BY <1>1, <2>1
    <3>8. upc[x] = "own" => z = x
      BY <1>1, <2>2
    <3> QED
      BY <1>1, <1>7, <2>1, <2>2, <2>3, <3>2, <3>3, <3>4, <3>5, <3>6, <3>7, <3>8 DEF P!Owns
  <2>5. P!Alone(w, x)
    BY <1>7, ListFacts
  <2> QED
    BY <1>1, <2>4, <2>5 DEF P!Alone, P!New, P!Producer
<1>8. P!Counted' = P!Counted
  BY <1>1 DEF P!Counted
<1> QED
  BY <1>1, <1>3, <1>4, <1>6, <1>7, <1>8, ListFacts, ListStays

LEMMA ListStep ==
  ASSUME P!IInv, P!Next
  PROVE  P!IInv'
<1>1. ASSUME NEW u \in QBlock, P!Call(u) \/ P!Step(u) \/ P!Disown(u)
      PROVE  P!IInv'
  BY <1>1, ListWalk, ListClaim, ListCreate, ListCount, ListLink, ListOwn, ListGiveUp DEF P!Step
<1>2. ASSUME NEW u \in QBlock, NEW v \in QBlock, P!SwapTokens(u, v)
      PROVE  P!IInv'
  BY <1>2, ListSwap
<1> QED
  BY <1>1, <1>2 DEF P!Next

LEMMA ListSame ==
  ASSUME P!IInv, UNCHANGED P!vars
  PROVE  P!IInv'
<1>1. UNCHANGED <<producerListTail, nextProducer, producerCount, made, isExplicit, inactive,
                  tokenOf, token, implicit, upc, ul>>
  BY DEF P!vars, P!listing, P!users
<1>2. P!TypeOK'
  BY <1>1, ListFacts DEF P!TypeOK, P!null, P!Producer
<1>3. P!Listed' = P!Listed
  BY <1>1, <1>2, ListedKept DEF P!IInv
<1>4. \A u \in QBlock : P!UserInv(u)'
  BY <1>1, <1>3, ListFacts DEF P!UserInv, P!New
<1>5. \A u, v \in QBlock : u # v => P!Alone(u, v)'
  BY <1>1, ListFacts DEF P!Alone, P!New, P!Owns, P!Producer
<1>6. P!Counted' = P!Counted
  BY <1>1 DEF P!Counted
<1> QED
  BY <1>1, <1>2, <1>3, <1>4, <1>5, <1>6, ListFacts, ListStays

LEMMA AtMostOne ==
  ASSUME NEW T, \A x, y \in T : x = y
  PROVE  Cardinality(T) <= 1
<1>1. CASE T = {}
  BY <1>1, FS_EmptySet
<1>2. CASE T # {}
  <2>1. PICK x \in T : T = {x}
    BY <1>2
  <2>2. Cardinality({x}) = 1
    BY FS_Singleton
  <2> QED
    BY <2>1, <2>2
<1> QED
  BY <1>1, <1>2

LEMMA ListIsExact ==
  ASSUME P!IInv
  PROVE  P!OneEnqueuer /\ P!AllListed
<1>1. P!OneEnqueuer
  <2> SUFFICES ASSUME NEW p \in P!Producer
               PROVE  /\ P!Cardinality({u \in QBlock : P!Owns(u, p)}) <= 1
                      /\ \A u \in P!Users(p) : isExplicit[p] /\ ~ inactive[p] /\ tokenOf[p] = u
                      /\ \A u \in QBlock : implicit[u] = p => ~ isExplicit[p] /\ ~ inactive[p]
    BY DEF P!OneEnqueuer
  <2>1. P!Cardinality({u \in QBlock : P!Owns(u, p)}) <= 1
    <3>1. \A u, v \in QBlock : P!Owns(u, p) /\ P!Owns(v, p) => u = v
      BY ListFacts DEF P!Alone
    <3> QED
      BY <3>1, AtMostOne, SameCounting
  <2>2. p # 0 /\ \A u \in QBlock : P!UserInv(u)
    BY ListFacts
  <2> QED
    BY <2>1, <2>2 DEF P!Users, P!UserInv, P!null
<1>2. \A u \in QBlock : {token[u], implicit[u]} \ {0} \subseteq P!Listed
  BY ListFacts DEF P!UserInv, P!null
<1>3. P!Cardinality(P!Listed) <= producerCount
  <2>1. P!Listed \subseteq P!Counted
    <3>1. ASSUME NEW p \in P!Listed, NEW u \in QBlock, upc[u] = "count" PROVE ul[u].ptr # p
      <4>1. P!UserInv(u)
        BY ListFacts
      <4> QED
        BY <3>1, <4>1 DEF P!UserInv, P!New
    <3> QED
      BY <3>1, ListFacts DEF P!Counted
  <2>2. IsFiniteSet(P!Counted)
    <3>1. IsFiniteSet(1 .. made)
      BY ListFacts, FS_Interval
    <3> QED
      BY <3>1, FS_Subset DEF P!Counted
  <2>3. Cardinality(P!Listed) <= Cardinality(P!Counted)
    BY <2>1, <2>2, FS_Subset
  <2> QED
    BY <2>3, ListFacts, SameCounting
<1>4. producerCount \in Int /\ P!Cardinality(P!Listed) \in Int
  <2>1. IsFiniteSet(1 .. made)
    BY ListFacts, FS_Interval
  <2>2. IsFiniteSet(P!Counted) /\ IsFiniteSet(P!Listed)
    BY <2>1, FS_Subset, ListFacts DEF P!Counted
  <2>3. Cardinality(P!Counted) \in Nat /\ Cardinality(P!Listed) \in Nat
    BY <2>2, FS_CardinalityType
  <2> QED
    BY <2>3, ListFacts, SameCounting
<1>5. {p \in P!Producer : inactive[p]} \subseteq P!Listed
  BY ListFacts
<1> QED
  BY <1>1, <1>2, <1>3, <1>4, <1>5 DEF P!AllListed, P!null

(***************************************************************************)
(* A producer is used by one user at a time, an active one is never handed *)
(* out again, and every producer that was ever owned stays in the list,    *)
(* whose length the count never falls short of: for any number of users    *)
(* and of producers.                                                       *)
(***************************************************************************)
THEOREM ProducersStayListed == Spec => []ListExact
<1> DEFINE I0 == kind = "list" => P!IInv
<1>1. Init => I0
  BY ListInit DEF Init
<1>2. I0 /\ [Next]_vars => I0'
  <2> SUFFICES ASSUME kind' = "list", I0, [Next]_vars PROVE P!IInv'
    OBVIOUS
  <2>1. kind = "list" /\ P!IInv /\ (P!Next \/ UNCHANGED P!vars)
    BY DEF Next, vars, sharedVars, listVars, P!vars, P!listing, P!users
  <2> QED
    BY <2>1, ListStep, ListSame
<1>3. I0 => ListExact
  BY ListIsExact DEF ListExact
<1> QED
  BY <1>1, <1>2, <1>3, PTL DEF Spec

(***************************************************************************)
(* A dequeue that comes back short has asked every sub-queue that was in   *)
(* the list when it began, and each appeared empty at the time it was      *)
(* checked (the comments of try_dequeue); it divides by no zero.  For any  *)
(* number of producers, any items, quota and width of the counters.        *)
(***************************************************************************)
THEOREM EverySubQueueAsked == Spec => []EveryoneAsked
<1> DEFINE I0 == kind = "scan" => C!IInv
<1>1. Init => I0
  BY ScanInit DEF Init
<1>2. I0 /\ [Next]_vars => I0'
  <2> SUFFICES ASSUME kind' = "scan", I0, [Next]_vars PROVE C!IInv'
    OBVIOUS
  <2>1. \/ kind = "scan" /\ C!IInv /\ C!Next
        \/ /\ kind = "scan" /\ C!IInv
           /\ UNCHANGED <<producerListTail, producerCount, items, globalExplicitConsumerOffset,
                          token, upc, ul>>
    BY DEF Next, vars, sharedVars, scanVars
  <2>2. CASE C!IInv /\ C!Next
    BY <2>2, ScanStep
  <2>3. CASE C!IInv /\ UNCHANGED <<producerListTail, producerCount, items,
                                   globalExplicitConsumerOffset, token, upc, ul>>
    <3>1. /\ producerCount \in 0 .. MaxProducers /\ producerListTail \in 0 .. producerCount
          /\ items \in [C!Producer -> Nat] /\ globalExplicitConsumerOffset \in Nat
      BY <2>3, ScanFacts, Zenon
    <3>2. producerListTail <= producerListTail /\ producerCount <= producerCount
      BY <3>1, QueuesNumbers
    <3> QED
      BY <2>3, <3>1, <3>2, ListGrows
  <2> QED
    BY <2>1, <2>2, <2>3
<1>3. I0 => EveryoneAsked
  BY ScanAsks DEF EveryoneAsked
<1> QED
  BY <1>1, <1>2, <1>3, PTL DEF Spec

-----------------------------------------------------------------------------
(* FreeList.                                                                *)

FreePlaces == {"idle", "pool", "create", "head", "refs", "ref", "next", "pop", "taken",
               "unref", "seen", "link", "ready", "push", "defer"}
FreeLocal == [head : F!Block \cup {-1}, refs : Nat, next : F!Block \cup {-1},
              node : F!Block \cup {-1}, seen : F!Block \cup {-1}, after : {"idle", "loop"}]

LEMMA FreeNumbers ==
  /\ IsFiniteSet(QBlock) /\ Cardinality(QBlock) \in Nat
  /\ PoolSize \in Nat /\ MaxBlocks \in Nat /\ PoolSize <= MaxBlocks
  /\ F!SHOULD_BE_ON_FREELIST = 2 * Cardinality(QBlock) + 2
  /\ F!Block = 0 .. MaxBlocks - 1 /\ -1 \notin F!Block /\ F!null = -1
<1>1. IsFiniteSet(QBlock) /\ PoolSize \in Nat /\ MaxBlocks \in Nat /\ PoolSize <= MaxBlocks
  BY QueuesAssumption DEF F!FreeListAssumption, F!IsFiniteSet, IsFiniteSet
<1>2. F!SHOULD_BE_ON_FREELIST = 2 * Cardinality(QBlock) + 2
  BY DEF F!SHOULD_BE_ON_FREELIST, Cardinality, F!Cardinality, IsFiniteSet, F!IsFiniteSet
<1>3. Cardinality(QBlock) \in Nat
  BY <1>1, FS_CardinalityType
<1> QED
  BY <1>1, <1>2, <1>3 DEF F!Block, F!null

\* How many threads there are in a set, and in one with a thread more or less.
LEMMA FewThreads ==
  ASSUME NEW T \in SUBSET QBlock
  PROVE  /\ F!Cardinality(T) \in Nat /\ F!SHOULD_BE_ON_FREELIST \in Nat
         /\ F!Cardinality(T) + F!Cardinality(T) + 2 <= F!SHOULD_BE_ON_FREELIST
         /\ F!Cardinality(T) = 0 <=> T = {}
         /\ \A t \in QBlock \ T : F!Cardinality(T \cup {t}) = F!Cardinality(T) + 1
         /\ \A t \in T : F!Cardinality(T \ {t}) = F!Cardinality(T) - 1
<1>1. \A U : F!Cardinality(U) = Cardinality(U)
  BY DEF Cardinality, F!Cardinality, IsFiniteSet, F!IsFiniteSet
<1>2. IsFiniteSet(T) /\ Cardinality(T) <= Cardinality(QBlock)
  BY FreeNumbers, FS_Subset
<1>3. Cardinality(T) \in Nat /\ (Cardinality(T) = 0 <=> T = {})
  BY <1>2, FS_CardinalityType, FS_EmptySet
<1>4. \A t \in QBlock \ T : Cardinality(T \cup {t}) = Cardinality(T) + 1
  BY <1>2, FS_AddElement
<1>5. \A t \in T : Cardinality(T \ {t}) = Cardinality(T) - 1
  BY <1>2, FS_RemoveElement
<1>6. /\ F!SHOULD_BE_ON_FREELIST \in Nat
      /\ Cardinality(T) + Cardinality(T) + 2 <= F!SHOULD_BE_ON_FREELIST
  BY <1>2, <1>3, FreeNumbers
<1> QED
  BY <1>1, <1>3, <1>4, <1>5, <1>6

LEMMA ModZero ==
  ASSUME NEW w \in Nat, w > 0
  PROVE  0 % w = 0 /\ w % w = 0
OBVIOUS

-----------------------------------------------------------------------------
(* A block goes from one place to another.                                  *)

FewEnough(n) == n \in Nat /\ n + n + 2 <= F!SHOULD_BE_ON_FREELIST

\* There is a reference to take unless the block is fresh or being added.
LEMMA PlacedRef ==
  ASSUME NEW r \in Int, NEW n \in Nat, FewEnough(n), F!SHOULD_BE_ON_FREELIST \in Nat,
         NEW fresh \in BOOLEAN, NEW on \in BOOLEAN, NEW us, NEW bs, NEW ads,
         F!Placed(r, n, fresh, on, us, bs, ads),
         r % F!SHOULD_BE_ON_FREELIST # 0
  PROVE  F!Placed(r + 1, n + 1, fresh, on, us, bs, ads)
<1>1. r # 0 /\ r # F!SHOULD_BE_ON_FREELIST
  BY ModZero DEF FewEnough
<1> QED
  BY <1>1 DEF F!Placed

\* The last referrer of a block that is to be added adds it.
LEMMA PlacedUnref ==
  ASSUME NEW r \in Int, NEW n \in Nat, FewEnough(n), F!SHOULD_BE_ON_FREELIST \in Nat,
         NEW fresh \in BOOLEAN, NEW on \in BOOLEAN, NEW us, NEW bs, NEW ads,
         F!Placed(r, n, fresh, on, us, bs, ads),
         n > 0, NEW t \in QBlock
  PROVE  /\ r - 1 \in 0 .. 2 * F!SHOULD_BE_ON_FREELIST
         /\ IF r = F!SHOULD_BE_ON_FREELIST + 1
            THEN F!Placed(r - 1, n - 1, fresh, on, us, bs, ads \cup {t})
            ELSE F!Placed(r - 1, n - 1, fresh, on, us, bs, ads)
<1>2. r - 1 \in 0 .. 2 * F!SHOULD_BE_ON_FREELIST
  BY DEF F!Placed, FewEnough
<1>3. CASE r = F!SHOULD_BE_ON_FREELIST + 1
  <2>1. ~ fresh /\ ~ on /\ us = {} /\ bs = {} /\ ads = {} /\ n = 1
    BY <1>3 DEF F!Placed, FewEnough
  <2>2. ads \cup {t} = {t}
    BY <2>1
  <2> QED
    BY <1>2, <1>3, <2>1, <2>2 DEF F!Placed
<1>4. CASE r # F!SHOULD_BE_ON_FREELIST + 1
  BY <1>2, <1>4 DEF F!Placed
<1> QED
  BY <1>2, <1>3, <1>4

LEMMA PlacedAdd ==
  ASSUME NEW r \in Int, NEW n \in Nat, FewEnough(n), F!SHOULD_BE_ON_FREELIST \in Nat,
         NEW fresh \in BOOLEAN, NEW on \in BOOLEAN, NEW us, NEW bs, NEW ads,
         F!Placed(r, n, fresh, on, us, bs, ads),
         NEW t \in QBlock, t \in us
  PROVE  /\ r + F!SHOULD_BE_ON_FREELIST \in 0 .. 2 * F!SHOULD_BE_ON_FREELIST
         /\ IF r = 0
            THEN F!Placed(r + F!SHOULD_BE_ON_FREELIST, n, fresh, on, us \ {t}, bs, ads \cup {t})
            ELSE F!Placed(r + F!SHOULD_BE_ON_FREELIST, n, fresh, on, us \ {t}, bs, ads)
<1>1. ~ fresh /\ ~ on /\ us = {t} /\ bs = {} /\ ads = {} /\ r = n
  BY DEF F!Placed
<1>2. us \ {t} = {} /\ ads \cup {t} = {t}
  BY <1>1
<1>3. r + F!SHOULD_BE_ON_FREELIST \in 0 .. 2 * F!SHOULD_BE_ON_FREELIST
  BY <1>1 DEF FewEnough
<1> QED
  BY <1>1, <1>2, <1>3 DEF F!Placed

LEMMA PlacedReady ==
  ASSUME NEW r \in Int, NEW n \in Nat, FewEnough(n), F!SHOULD_BE_ON_FREELIST \in Nat,
         NEW fresh \in BOOLEAN, NEW on \in BOOLEAN, NEW us, NEW bs, NEW ads,
         F!Placed(r, n, fresh, on, us, bs, ads),
         NEW t \in QBlock, t \in ads
  PROVE  F!Placed(1, n, fresh, on, us, bs \cup {t}, ads \ {t})
<1>1. ~ fresh /\ ~ on /\ us = {} /\ bs = {} /\ ads = {t} /\ n = 0
  BY DEF F!Placed
<1>2. bs \cup {t} = {t} /\ ads \ {t} = {}
  BY <1>1
<1> QED
  BY <1>1, <1>2 DEF F!Placed

LEMMA PlacedPop ==
  ASSUME NEW r \in Int, NEW n \in Nat, FewEnough(n), F!SHOULD_BE_ON_FREELIST \in Nat,
         NEW fresh \in BOOLEAN, NEW us, NEW bs, NEW ads,
         F!Placed(r, n, fresh, TRUE, us, bs, ads),
         NEW t \in QBlock
  PROVE  F!Placed(r, n, fresh, FALSE, us, bs \cup {t}, ads)
<1>1. ~ fresh /\ us = {} /\ bs = {} /\ ads = {} /\ r = n + 1
  BY DEF F!Placed
<1>2. bs \cup {t} = {t}
  BY <1>1
<1> QED
  BY <1>1, <1>2 DEF F!Placed

LEMMA PlacedGive ==
  ASSUME NEW r \in Int, NEW n \in Nat, FewEnough(n), F!SHOULD_BE_ON_FREELIST \in Nat,
         NEW on \in BOOLEAN, NEW us, NEW bs, NEW ads,
         F!Placed(r, n, TRUE, on, us, bs, ads),
         NEW t \in QBlock
  PROVE  F!Placed(r, n, FALSE, on, us \cup {t}, bs, ads)
<1>1. ~ on /\ us = {} /\ bs = {} /\ ads = {} /\ r = n
  BY DEF F!Placed
<1>2. us \cup {t} = {t}
  BY <1>1
<1> QED
  BY <1>1, <1>2 DEF F!Placed


-----------------------------------------------------------------------------
(* What a step of one thread does to the places of the blocks.              *)

LEMMA FreeFacts ==
  ASSUME F!IInv
  PROVE  /\ freeListHead \in F!Block \cup {-1}
         /\ freeListRefs \in [F!Block -> 0 .. 2 * F!SHOULD_BE_ON_FREELIST]
         /\ freeListNext \in [F!Block -> F!Block \cup {-1}]
         /\ initialBlockPoolIndex \in Nat
         /\ blocksMade \in PoolSize .. MaxBlocks
         /\ held \in [QBlock -> SUBSET F!Block]
         /\ fpc \in [QBlock -> FreePlaces]
         /\ fl \in [QBlock -> FreeLocal]
         /\ \A t \in QBlock : F!Sound(fpc[t], fl[t])
         /\ \A b \in F!Block : F!BlockInv(b)
         /\ F!ListInv
BY DEF F!IInv, F!TypeOK, F!null, FreePlaces, FreeLocal

LEMMA FreeCount ==
  ASSUME NEW b \in F!Block
  PROVE  /\ F!Referrers(b) \in SUBSET QBlock
         /\ FewEnough(F!Cardinality(F!Referrers(b)))
         /\ F!SHOULD_BE_ON_FREELIST \in Nat
<1>1. F!Referrers(b) \in SUBSET QBlock
  BY DEF F!Referrers
<1> QED
  BY <1>1, FewThreads DEF FewEnough

Put(T, t, yes) == IF yes THEN T \cup {t} ELSE T \ {t}

LEMMA FreeSets ==
  ASSUME F!IInv, NEW t \in QBlock, NEW to, NEW l, NEW h,
         fpc' = [fpc EXCEPT ![t] = to], fl' = [fl EXCEPT ![t] = l],
         held' = [held EXCEPT ![t] = h], NEW b \in F!Block
  PROVE  /\ F!Users(b)' = Put(F!Users(b), t, b \in h)
         /\ F!Referrers(b)' = Put(F!Referrers(b), t, F!Refers(to, l, b))
         /\ F!Bearers(b)' = Put(F!Bearers(b), t, F!Bears(to, l, b))
         /\ F!Adders(b)' = Put(F!Adders(b), t, F!Adds(to, l, b))
<1>1. /\ fpc'[t] = to /\ fl'[t] = l /\ held'[t] = h
      /\ \A u \in QBlock : u # t => fpc'[u] = fpc[u] /\ fl'[u] = fl[u] /\ held'[u] = held[u]
  BY FreeFacts
<1>2. F!Users(b)' = Put(F!Users(b), t, b \in h)
  BY <1>1 DEF F!Users, Put
<1>3. F!Referrers(b)' = Put(F!Referrers(b), t, F!Refers(to, l, b))
  <2>1. F!Refers(fpc'[t], fl'[t], b) <=> F!Refers(to, l, b)
    BY <1>1
  <2>2. \A u \in QBlock : u # t => (F!Refers(fpc'[u], fl'[u], b) <=> F!Refers(fpc[u], fl[u], b))
    BY <1>1
  <2> QED
    BY <2>1, <2>2 DEF F!Referrers, Put
<1>4. F!Bearers(b)' = Put(F!Bearers(b), t, F!Bears(to, l, b))
  <2>1. F!Bears(fpc'[t], fl'[t], b) <=> F!Bears(to, l, b)
    BY <1>1
  <2>2. \A u \in QBlock : u # t => (F!Bears(fpc'[u], fl'[u], b) <=> F!Bears(fpc[u], fl[u], b))
    BY <1>1
  <2> QED
    BY <2>1, <2>2 DEF F!Bearers, Put
<1>5. F!Adders(b)' = Put(F!Adders(b), t, F!Adds(to, l, b))
  <2>1. F!Adds(fpc'[t], fl'[t], b) <=> F!Adds(to, l, b)
    BY <1>1
  <2>2. \A u \in QBlock : u # t => (F!Adds(fpc'[u], fl'[u], b) <=> F!Adds(fpc[u], fl[u], b))
    BY <1>1
  <2> QED
    BY <2>1, <2>2 DEF F!Adders, Put
<1> QED
  BY <1>2, <1>3, <1>4, <1>5

\* Any step of thread t, which leaves it at place to with locals l and blocks h.
LEMMA FreeMove ==
  ASSUME F!IInv, NEW t \in QBlock, NEW to \in FreePlaces, NEW l \in FreeLocal,
         NEW h \in SUBSET F!Block,
         fpc' = [fpc EXCEPT ![t] = to], fl' = [fl EXCEPT ![t] = l],
         held' = [held EXCEPT ![t] = h],
         freeListHead' \in F!Block \cup {-1},
         freeListRefs' \in [F!Block -> 0 .. 2 * F!SHOULD_BE_ON_FREELIST],
         freeListNext' \in [F!Block -> F!Block \cup {-1}],
         initialBlockPoolIndex' \in Nat, blocksMade' \in PoolSize .. MaxBlocks,
         \A b \in F!Block :
            F!Placed(freeListRefs'[b], F!Cardinality(Put(F!Referrers(b), t, F!Refers(to, l, b))),
                     F!Fresh(b)', b \in F!OnList', Put(F!Users(b), t, b \in h),
                     Put(F!Bearers(b), t, F!Bears(to, l, b)), Put(F!Adders(b), t, F!Adds(to, l, b))),
         \A u \in QBlock \ {t} :
            /\ fpc[u] = "pop" => fl[u].next = freeListNext'[fl[u].head]
            /\ fpc[u] \in {"ready", "push"} => fl[u].seen = freeListNext'[fl[u].node],
         F!Sound(to, l)', F!ListInv'
  PROVE  F!IInv'
<1>1. /\ fpc'[t] = to /\ fl'[t] = l
      /\ \A u \in QBlock : u # t => fpc'[u] = fpc[u] /\ fl'[u] = fl[u]
  BY FreeFacts
<1>2. F!TypeOK'
  <2>1. fpc' \in [QBlock -> FreePlaces] /\ fl' \in [QBlock -> FreeLocal]
        /\ held' \in [QBlock -> SUBSET F!Block]
    BY FreeFacts
  <2> QED
    BY <2>1 DEF F!TypeOK, F!null, FreePlaces, FreeLocal
<1>3. ASSUME NEW b \in F!Block PROVE F!BlockInv(b)'
  <2>1. F!BlockInv(b)' <=>
          F!Placed(freeListRefs'[b], F!Cardinality(F!Referrers(b)'), F!Fresh(b)', b \in F!OnList',
                   F!Users(b)', F!Bearers(b)', F!Adders(b)')
    BY DEF F!BlockInv
  <2>2. /\ F!Users(b)' = Put(F!Users(b), t, b \in h)
        /\ F!Referrers(b)' = Put(F!Referrers(b), t, F!Refers(to, l, b))
        /\ F!Bearers(b)' = Put(F!Bearers(b), t, F!Bears(to, l, b))
        /\ F!Adders(b)' = Put(F!Adders(b), t, F!Adds(to, l, b))
    BY FreeSets
  <2> QED
    BY <2>1, <2>2
<1>4. ASSUME NEW u \in QBlock PROVE F!Sound(fpc[u], fl[u])'
  <2>1. CASE u = t
    BY <1>1, <2>1 DEF F!Sound
  <2>2. CASE u # t
    <3>1. F!Sound(fpc[u], fl[u])
      BY FreeFacts
    <3> QED
      BY <1>1, <2>2, <3>1 DEF F!Sound
  <2> QED
    BY <2>1, <2>2
<1> QED
  BY <1>2, <1>3, <1>4 DEF F!IInv


\* Whether thread t is where it was, as far as block b can tell.
SameFor(b, t, to, l, h) == /\ b \in h <=> b \in held[t]
                           /\ F!Refers(to, l, b) <=> F!Refers(fpc[t], fl[t], b)
                           /\ F!Bears(to, l, b) <=> F!Bears(fpc[t], fl[t], b)
                           /\ F!Adds(to, l, b) <=> F!Adds(fpc[t], fl[t], b)

LEMMA PutSame ==
  ASSUME NEW b, NEW t \in QBlock, NEW to, NEW l, NEW h, SameFor(b, t, to, l, h)
  PROVE  /\ Put(F!Users(b), t, b \in h) = F!Users(b)
         /\ Put(F!Referrers(b), t, F!Refers(to, l, b)) = F!Referrers(b)
         /\ Put(F!Bearers(b), t, F!Bears(to, l, b)) = F!Bearers(b)
         /\ Put(F!Adders(b), t, F!Adds(to, l, b)) = F!Adders(b)
BY DEF SameFor, Put, F!Users, F!Referrers, F!Bearers, F!Adders

LEMMA OnListKept ==
  ASSUME UNCHANGED <<freeListHead, freeListNext>>
  PROVE  F!OnList' = F!OnList /\ (F!ListInv => F!ListInv')
<1>1. F!OnList' = F!OnList
  BY DEF F!OnList, F!Closed
<1> QED
  BY <1>1 DEF F!ListInv

\* A step that leaves the list as it is, and the blocks but those of touched.
LEMMA FreeQuiet ==
  ASSUME F!IInv, NEW t \in QBlock, NEW to \in FreePlaces, NEW l \in FreeLocal,
         NEW h \in SUBSET F!Block, NEW touched,
         fpc' = [fpc EXCEPT ![t] = to], fl' = [fl EXCEPT ![t] = l],
         held' = [held EXCEPT ![t] = h],
         UNCHANGED <<freeListHead, freeListNext>>,
         freeListRefs' \in [F!Block -> 0 .. 2 * F!SHOULD_BE_ON_FREELIST],
         initialBlockPoolIndex' \in Nat, blocksMade' \in PoolSize .. MaxBlocks,
         \A b \in F!Block \ touched : /\ freeListRefs'[b] = freeListRefs[b]
                                      /\ F!Fresh(b)' <=> F!Fresh(b)
                                      /\ SameFor(b, t, to, l, h),
         \A b \in F!Block \cap touched :
            F!Placed(freeListRefs'[b], F!Cardinality(Put(F!Referrers(b), t, F!Refers(to, l, b))),
                     F!Fresh(b)', b \in F!OnList, Put(F!Users(b), t, b \in h),
                     Put(F!Bearers(b), t, F!Bears(to, l, b)), Put(F!Adders(b), t, F!Adds(to, l, b))),
         F!Sound(to, l)
  PROVE  F!IInv'
<1>1. F!OnList' = F!OnList /\ F!ListInv'
  BY OnListKept, FreeFacts
<1>2. ASSUME NEW b \in F!Block
      PROVE  F!Placed(freeListRefs'[b],
                      F!Cardinality(Put(F!Referrers(b), t, F!Refers(to, l, b))),
                      F!Fresh(b)', b \in F!OnList', Put(F!Users(b), t, b \in h),
                      Put(F!Bearers(b), t, F!Bears(to, l, b)), Put(F!Adders(b), t, F!Adds(to, l, b)))
  <2>1. CASE b \in touched
    BY <1>1, <2>1
  <2>2. CASE b \notin touched
    <3>1. /\ freeListRefs'[b] = freeListRefs[b] /\ (F!Fresh(b)' <=> F!Fresh(b))
          /\ SameFor(b, t, to, l, h)
      BY <2>2
    <3>2. F!Placed(freeListRefs[b], F!Cardinality(F!Referrers(b)), F!Fresh(b), b \in F!OnList,
                   F!Users(b), F!Bearers(b), F!Adders(b))
      BY FreeFacts DEF F!BlockInv
    <3>3. F!Placed(freeListRefs[b], F!Cardinality(F!Referrers(b)), F!Fresh(b)', b \in F!OnList,
                   F!Users(b), F!Bearers(b), F!Adders(b))
      BY <3>1, <3>2 DEF F!Placed
    <3>4. /\ Put(F!Users(b), t, b \in h) = F!Users(b)
          /\ Put(F!Referrers(b), t, F!Refers(to, l, b)) = F!Referrers(b)
          /\ Put(F!Bearers(b), t, F!Bears(to, l, b)) = F!Bearers(b)
          /\ Put(F!Adders(b), t, F!Adds(to, l, b)) = F!Adders(b)
      BY <3>1, PutSame
    <3> QED
      BY <1>1, <3>1, <3>3, <3>4
  <2> QED
    BY <2>1, <2>2
<1>3. \A u \in QBlock \ {t} :
         /\ fpc[u] = "pop" => fl[u].next = freeListNext'[fl[u].head]
         /\ fpc[u] \in {"ready", "push"} => fl[u].seen = freeListNext'[fl[u].node]
  BY FreeFacts DEF F!Sound
<1>4. F!Sound(to, l)'
  BY DEF F!Sound
<1>5. freeListHead' \in F!Block \cup {-1} /\ freeListNext' \in [F!Block -> F!Block \cup {-1}]
  BY FreeFacts
<1> QED
  BY <1>1, <1>2, <1>3, <1>4, <1>5, FreeMove

\* A step that no block notices.
LEMMA FreeLook ==
  ASSUME F!IInv, NEW t \in QBlock, NEW to \in FreePlaces, NEW l \in FreeLocal,
         fpc' = [fpc EXCEPT ![t] = to], fl' = [fl EXCEPT ![t] = l], UNCHANGED held,
         UNCHANGED <<freeListHead, freeListNext, freeListRefs, blocksMade>>,
         initialBlockPoolIndex' \in Nat,
         initialBlockPoolIndex' # initialBlockPoolIndex
            => initialBlockPoolIndex' >= PoolSize /\ initialBlockPoolIndex >= PoolSize,
         \A b \in F!Block : SameFor(b, t, to, l, held[t]),
         F!Sound(to, l)
  PROVE  F!IInv'
<1>1. \A b \in F!Block : F!Fresh(b)' <=> F!Fresh(b)
  BY FreeFacts, FreeNumbers DEF F!Fresh
<1>2. held[t] \in SUBSET F!Block /\ held' = [held EXCEPT ![t] = held[t]]
  BY FreeFacts
<1>3. freeListRefs' \in [F!Block -> 0 .. 2 * F!SHOULD_BE_ON_FREELIST]
      /\ blocksMade' \in PoolSize .. MaxBlocks
  BY FreeFacts
<1> DEFINE h == held[t]
<1>4. h \in SUBSET F!Block /\ held' = [held EXCEPT ![t] = h]
      /\ \A b \in F!Block : SameFor(b, t, to, l, h)
  BY <1>2
<1> HIDE DEF h
<1>5. /\ \A b \in F!Block \ {} : /\ freeListRefs'[b] = freeListRefs[b]
                                 /\ F!Fresh(b)' <=> F!Fresh(b)
                                 /\ SameFor(b, t, to, l, h)
      /\ F!Block \cap {} = {}
  BY <1>1, <1>4
<1> QED
  BY <1>3, <1>4, <1>5, FreeQuiet


-----------------------------------------------------------------------------
(* One step of each kind.                                                   *)

LEMMA FreeThread ==
  ASSUME F!IInv, NEW t \in QBlock
  PROVE  /\ fpc = [fpc EXCEPT ![t] = fpc[t]] /\ fl = [fl EXCEPT ![t] = fl[t]]
         /\ held = [held EXCEPT ![t] = held[t]]
         /\ fpc[t] \in FreePlaces /\ fl[t] \in FreeLocal /\ held[t] \in SUBSET F!Block
         /\ F!Sound(fpc[t], fl[t])
         /\ fl[t].head \in F!Block \cup {-1} /\ fl[t].node \in F!Block \cup {-1}
         /\ fl[t].next \in F!Block \cup {-1} /\ fl[t].seen \in F!Block \cup {-1}
         /\ fl[t].refs \in Nat /\ fl[t].after \in {"idle", "loop"}
BY FreeFacts DEF FreeLocal

LEMMA NoLocalsLocal == F!NoLocals \in FreeLocal
BY DEF F!NoLocals, FreeLocal, F!null

LEMMA FreeRequisition ==
  ASSUME F!IInv, NEW t \in QBlock, F!Requisition(t)
  PROVE  F!IInv'
<1> DEFINE to == IF initialBlockPoolIndex >= PoolSize THEN "head" ELSE "pool"
<1>1. /\ fpc[t] = "idle" /\ fpc' = [fpc EXCEPT ![t] = to]
      /\ UNCHANGED <<initialBlockPoolIndex, blocksMade, freeListHead, freeListRefs, freeListNext, held, fl>>
  BY DEF F!Requisition, F!At, F!Goto, F!pool, F!list
<1>2. to \in FreePlaces /\ to \in {"head", "pool"}
  BY DEF FreePlaces
<1> HIDE DEF to
<1>3. F!Sound(to, fl[t])
  BY <1>2 DEF F!Sound
<1>4. \A b \in F!Block : SameFor(b, t, to, fl[t], held[t])
  BY <1>1, <1>2 DEF SameFor, F!Refers, F!Bears, F!Adds
<1>5. fl' = [fl EXCEPT ![t] = fl[t]] /\ fl[t] \in FreeLocal /\ initialBlockPoolIndex' \in Nat
  BY <1>1, FreeThread, FreeFacts
<1> QED
  BY <1>1, <1>2, <1>3, <1>4, <1>5, FreeLook

\* try_get goes on with this head.
LEMMA LoopIs ==
  ASSUME NEW t \in QBlock, NEW head \in F!Block \cup {-1}, F!Loop(t, head)
  PROVE  \E to \in {"create", "refs"} : \E l \in FreeLocal :
            /\ fpc' = [fpc EXCEPT ![t] = to] /\ fl' = [fl EXCEPT ![t] = l]
            /\ F!Sound(to, l)
<1>1. [F!NoLocals EXCEPT !.head = head] \in FreeLocal
  BY DEF F!NoLocals, FreeLocal, F!null
<1>2. F!Sound(IF head = -1 THEN "create" ELSE "refs", [F!NoLocals EXCEPT !.head = head])
  BY DEF F!Sound, F!NoLocals, F!null
<1> QED
  BY <1>1, <1>2 DEF F!Loop, F!Goto, F!Keep, F!null

LEMMA FreeLoadHead ==
  ASSUME F!IInv, NEW t \in QBlock, F!LoadHead(t)
  PROVE  F!IInv'
<1>1. /\ fpc[t] = "head" /\ F!Loop(t, freeListHead)
      /\ UNCHANGED <<initialBlockPoolIndex, blocksMade, freeListHead, freeListRefs, freeListNext, held>>
  BY DEF F!LoadHead, F!At, F!pool, F!list
<1>2. PICK to \in {"create", "refs"} : \E l \in FreeLocal :
         fpc' = [fpc EXCEPT ![t] = to] /\ fl' = [fl EXCEPT ![t] = l] /\ F!Sound(to, l)
  BY <1>1, FreeFacts, LoopIs
<1>3. PICK l \in FreeLocal :
         fpc' = [fpc EXCEPT ![t] = to] /\ fl' = [fl EXCEPT ![t] = l] /\ F!Sound(to, l)
  BY <1>2
<1>4. \A b \in F!Block : SameFor(b, t, to, l, held[t])
  BY <1>1, <1>2 DEF SameFor, F!Refers, F!Bears, F!Adds
<1>5. to \in FreePlaces /\ initialBlockPoolIndex' \in Nat
  BY <1>1, <1>2, FreeFacts DEF FreePlaces
<1> QED
  BY <1>1, <1>3, <1>4, <1>5, FreeLook

LEMMA FreeLoadRefs ==
  ASSUME F!IInv, NEW t \in QBlock, F!LoadRefs(t)
  PROVE  F!IInv'
<1> DEFINE refs == freeListRefs[fl[t].head]
           to == IF refs % F!SHOULD_BE_ON_FREELIST = 0 THEN "head" ELSE "ref"
           l == [fl[t] EXCEPT !.refs = refs]
<1>1. /\ fpc[t] = "refs" /\ fpc' = [fpc EXCEPT ![t] = to] /\ fl' = [fl EXCEPT ![t] = l]
      /\ UNCHANGED <<initialBlockPoolIndex, blocksMade, freeListHead, freeListRefs, freeListNext, held>>
  BY DEF F!LoadRefs, F!At, F!Goto, F!Keep, F!pool, F!list
<1>2. fl[t].head \in F!Block
  BY <1>1, FreeThread DEF F!Sound, F!null
<1>3. refs \in Nat
  BY <1>2, FreeFacts
<1>4. l \in FreeLocal /\ l.head = fl[t].head /\ l.refs = refs
  BY <1>3, FreeThread DEF FreeLocal
<1>5. to \in FreePlaces /\ to \in {"head", "ref"}
  BY DEF FreePlaces
<1>6. F!Sound(to, l)
  BY <1>2, <1>4, FreeNumbers DEF F!Sound
<1> HIDE DEF refs, to, l
<1>7. \A b \in F!Block : SameFor(b, t, to, l, held[t])
  BY <1>1, <1>5 DEF SameFor, F!Refers, F!Bears, F!Adds
<1>8. initialBlockPoolIndex' \in Nat
  BY <1>1, FreeFacts
<1> QED
  BY <1>1, <1>4, <1>5, <1>6, <1>7, <1>8, FreeLook

LEMMA FreeLoadNext ==
  ASSUME F!IInv, NEW t \in QBlock, F!LoadNext(t)
  PROVE  F!IInv'
<1> DEFINE l == [fl[t] EXCEPT !.next = freeListNext[fl[t].head]]
<1>1. /\ fpc[t] = "next" /\ fpc' = [fpc EXCEPT ![t] = "pop"] /\ fl' = [fl EXCEPT ![t] = l]
      /\ UNCHANGED <<initialBlockPoolIndex, blocksMade, freeListHead, freeListRefs, freeListNext, held>>
  BY DEF F!LoadNext, F!At, F!Goto, F!Keep, F!pool, F!list
<1>2. fl[t].head \in F!Block
  BY <1>1, FreeThread DEF F!Sound, F!null
<1>3. freeListNext[fl[t].head] \in F!Block \cup {-1}
  BY <1>2, FreeFacts
<1>4. /\ l \in FreeLocal /\ l.head = fl[t].head /\ l.node = fl[t].node
      /\ l.next = freeListNext[fl[t].head]
  BY <1>3, FreeThread DEF FreeLocal
<1>5. F!Sound("pop", l)
  BY <1>2, <1>4, FreeNumbers DEF F!Sound
<1> HIDE DEF l
<1>6. \A b \in F!Block : SameFor(b, t, "pop", l, held[t])
  BY <1>1, <1>4 DEF SameFor, F!Refers, F!Bears, F!Adds
<1>7. initialBlockPoolIndex' \in Nat /\ "pop" \in FreePlaces
  BY <1>1, FreeFacts DEF FreePlaces
<1> QED
  BY <1>1, <1>4, <1>5, <1>6, <1>7, FreeLook

LEMMA FreeLoadSeen ==
  ASSUME F!IInv, NEW t \in QBlock, F!LoadSeen(t)
  PROVE  F!IInv'
<1> DEFINE l == [fl[t] EXCEPT !.seen = freeListHead]
<1>1. /\ fpc[t] = "seen" /\ fpc' = [fpc EXCEPT ![t] = "link"] /\ fl' = [fl EXCEPT ![t] = l]
      /\ UNCHANGED <<initialBlockPoolIndex, blocksMade, freeListHead, freeListRefs, freeListNext, held>>
  BY DEF F!LoadSeen, F!At, F!Goto, F!Keep, F!pool, F!list
<1>2. fl[t].node # -1
  BY <1>1, FreeThread DEF F!Sound, F!null
<1>3. l \in FreeLocal /\ l.head = fl[t].head /\ l.node = fl[t].node
  BY FreeFacts, FreeThread DEF FreeLocal
<1>4. F!Sound("link", l)
  BY <1>2, <1>3 DEF F!Sound, F!null
<1> HIDE DEF l
<1>5. \A b \in F!Block : SameFor(b, t, "link", l, held[t])
  BY <1>1, <1>3 DEF SameFor, F!Refers, F!Bears, F!Adds
<1>6. initialBlockPoolIndex' \in Nat /\ "link" \in FreePlaces
  BY <1>1, FreeFacts DEF FreePlaces
<1> QED
  BY <1>1, <1>3, <1>4, <1>5, <1>6, FreeLook


\* What the invariant says of one block.
LEMMA FreePlaced ==
  ASSUME F!IInv, NEW b \in F!Block
  PROVE  /\ F!Placed(freeListRefs[b], F!Cardinality(F!Referrers(b)), F!Fresh(b), b \in F!OnList,
                     F!Users(b), F!Bearers(b), F!Adders(b))
         /\ freeListRefs[b] \in Int /\ F!Cardinality(F!Referrers(b)) \in Nat
         /\ FewEnough(F!Cardinality(F!Referrers(b))) /\ F!SHOULD_BE_ON_FREELIST \in Nat
         /\ F!Fresh(b) \in BOOLEAN /\ (b \in F!OnList) \in BOOLEAN
<1>1. F!BlockInv(b)
  BY FreeFacts
<1>2. freeListRefs[b] \in Int
  BY FreeFacts, FewThreads
<1>3. F!Referrers(b) \in SUBSET QBlock /\ FewEnough(F!Cardinality(F!Referrers(b)))
  BY FreeCount
<1>6. F!Fresh(b) \in BOOLEAN /\ (b \in F!OnList) \in BOOLEAN
  BY DEF F!Fresh
<1>7. F!SHOULD_BE_ON_FREELIST \in Nat /\ F!Cardinality(F!Referrers(b)) \in Nat
  BY <1>3, FewThreads
<1>8. F!Placed(freeListRefs[b], F!Cardinality(F!Referrers(b)), F!Fresh(b), b \in F!OnList,
               F!Users(b), F!Bearers(b), F!Adders(b))
  BY <1>1 DEF F!BlockInv
<1> QED
  BY <1>2, <1>3, <1>6, <1>7, <1>8

\* A referrer more, or less.
LEMMA FreeReferrers ==
  ASSUME NEW b \in F!Block, NEW t \in QBlock
  PROVE  /\ t \notin F!Referrers(b)
              => F!Cardinality(F!Referrers(b) \cup {t}) = F!Cardinality(F!Referrers(b)) + 1
         /\ t \in F!Referrers(b)
              => /\ F!Cardinality(F!Referrers(b) \ {t}) = F!Cardinality(F!Referrers(b)) - 1
                 /\ F!Cardinality(F!Referrers(b)) > 0
<1>1. F!Referrers(b) \in SUBSET QBlock /\ F!Cardinality(F!Referrers(b)) \in Nat
  BY FreeCount, FewThreads
<1>2. F!Cardinality(F!Referrers(b)) = 0 <=> F!Referrers(b) = {}
  BY <1>1, FewThreads
<1>3. /\ t \notin F!Referrers(b)
           => F!Cardinality(F!Referrers(b) \cup {t}) = F!Cardinality(F!Referrers(b)) + 1
      /\ t \in F!Referrers(b)
           => F!Cardinality(F!Referrers(b) \ {t}) = F!Cardinality(F!Referrers(b)) - 1
  BY <1>1, FewThreads
<1>4. t \in F!Referrers(b) => F!Cardinality(F!Referrers(b)) > 0
  BY <1>1, <1>2
<1> QED
  BY <1>3, <1>4

\* A step that leaves the list as it is, and the blocks but b.
LEMMA FreeTouch ==
  ASSUME F!IInv, NEW t \in QBlock, NEW to \in FreePlaces, NEW l \in FreeLocal,
         NEW h \in SUBSET F!Block, NEW b \in F!Block, NEW r \in 0 .. 2 * F!SHOULD_BE_ON_FREELIST,
         fpc' = [fpc EXCEPT ![t] = to], fl' = [fl EXCEPT ![t] = l],
         held' = [held EXCEPT ![t] = h], freeListRefs' = [freeListRefs EXCEPT ![b] = r],
         UNCHANGED <<freeListHead, freeListNext>>,
         initialBlockPoolIndex' \in Nat, blocksMade' \in PoolSize .. MaxBlocks,
         \A c \in F!Block \ {b} : (F!Fresh(c)' <=> F!Fresh(c)) /\ SameFor(c, t, to, l, h),
         F!Placed(r, F!Cardinality(Put(F!Referrers(b), t, F!Refers(to, l, b))), F!Fresh(b)',
                  b \in F!OnList, Put(F!Users(b), t, b \in h),
                  Put(F!Bearers(b), t, F!Bears(to, l, b)), Put(F!Adders(b), t, F!Adds(to, l, b))),
         F!Sound(to, l)
  PROVE  F!IInv'
<1>1. /\ freeListRefs' \in [F!Block -> 0 .. 2 * F!SHOULD_BE_ON_FREELIST]
      /\ freeListRefs'[b] = r /\ \A c \in F!Block \ {b} : freeListRefs'[c] = freeListRefs[c]
  BY FreeFacts
<1>2. \A c \in F!Block \cap {b} :
         F!Placed(freeListRefs'[c], F!Cardinality(Put(F!Referrers(c), t, F!Refers(to, l, c))),
                  F!Fresh(c)', c \in F!OnList, Put(F!Users(c), t, c \in h),
                  Put(F!Bearers(c), t, F!Bears(to, l, c)), Put(F!Adders(c), t, F!Adds(to, l, c)))
  BY <1>1
<1> QED
  BY <1>1, <1>2, FreeQuiet

LEMMA FreeRef ==
  ASSUME F!IInv, NEW t \in QBlock, F!Ref(t)
  PROVE  F!IInv'
<1>0. PICK b : b = fl[t].head
  OBVIOUS
<1>1. PICK l : l = [fl[t] EXCEPT !.refs = 0]
  OBVIOUS
<1>2. /\ fpc[t] = "ref" /\ fl' = [fl EXCEPT ![t] = l]
      /\ UNCHANGED <<initialBlockPoolIndex, blocksMade, freeListHead, freeListNext, held>>
      /\ IF freeListRefs[b] = fl[t].refs
         THEN /\ freeListRefs' = [freeListRefs EXCEPT ![b] = freeListRefs[b] + 1]
              /\ fpc' = [fpc EXCEPT ![t] = "next"]
         ELSE fpc' = [fpc EXCEPT ![t] = "head"] /\ UNCHANGED freeListRefs
  BY <1>0, <1>1 DEF F!Ref, F!At, F!Goto, F!Keep, F!pool, F!list
<1>3. b \in F!Block /\ fl[t].refs % F!SHOULD_BE_ON_FREELIST # 0
  BY <1>0, <1>2, FreeThread DEF F!Sound, F!null
<1>4. l \in FreeLocal /\ l.head = b /\ l.node = fl[t].node /\ fl[t].head = b
  BY <1>0, <1>1, FreeThread DEF FreeLocal
<1>5. F!Sound("next", l) /\ F!Sound("head", l) /\ "next" \in FreePlaces /\ "head" \in FreePlaces
  BY <1>3, <1>4, FreeNumbers DEF F!Sound, FreePlaces
<1>6. initialBlockPoolIndex' \in Nat /\ blocksMade' \in PoolSize .. MaxBlocks
  BY <1>2, FreeFacts
<1>7. CASE freeListRefs[b] = fl[t].refs
  <2>1. /\ held' = [held EXCEPT ![t] = held[t]] /\ held[t] \in SUBSET F!Block
        /\ fpc' = [fpc EXCEPT ![t] = "next"]
        /\ freeListRefs' = [freeListRefs EXCEPT ![b] = freeListRefs[b] + 1]
    BY <1>2, <1>7, FreeThread
  <2>2. t \notin F!Referrers(b) /\ freeListRefs[b] % F!SHOULD_BE_ON_FREELIST # 0
    BY <1>2, <1>3, <1>7 DEF F!Referrers, F!Refers
  <2>3. F!Placed(freeListRefs[b] + 1, F!Cardinality(F!Referrers(b)) + 1, F!Fresh(b),
                 b \in F!OnList, F!Users(b), F!Bearers(b), F!Adders(b))
    BY <1>3, <2>2, FreePlaced, PlacedRef
  <2>4. freeListRefs[b] + 1 \in 0 .. 2 * F!SHOULD_BE_ON_FREELIST
    BY <1>3, <2>3, FreePlaced DEF F!Placed, FewEnough
  <2>5. /\ Put(F!Users(b), t, b \in held[t]) = F!Users(b)
        /\ Put(F!Referrers(b), t, F!Refers("next", l, b)) = F!Referrers(b) \cup {t}
        /\ Put(F!Bearers(b), t, F!Bears("next", l, b)) = F!Bearers(b)
        /\ Put(F!Adders(b), t, F!Adds("next", l, b)) = F!Adders(b)
    BY <1>2, <1>4 DEF Put, F!Users, F!Refers, F!Bearers, F!Bears, F!Adders, F!Adds
  <2>6. F!Cardinality(F!Referrers(b) \cup {t}) = F!Cardinality(F!Referrers(b)) + 1
    BY <1>3, <2>2, FreeReferrers
  <2>7. \A c \in F!Block : F!Fresh(c)' <=> F!Fresh(c)
    BY <1>2 DEF F!Fresh
  <2>8. \A c \in F!Block \ {b} : SameFor(c, t, "next", l, held[t])
    BY <1>2, <1>4 DEF SameFor, F!Refers, F!Bears, F!Adds
  <2>9. F!Fresh(b)' = F!Fresh(b)
    BY <1>2 DEF F!Fresh
  <2>10. F!Placed(freeListRefs[b] + 1,
                  F!Cardinality(Put(F!Referrers(b), t, F!Refers("next", l, b))), F!Fresh(b)',
                  b \in F!OnList, Put(F!Users(b), t, b \in held[t]),
                  Put(F!Bearers(b), t, F!Bears("next", l, b)),
                  Put(F!Adders(b), t, F!Adds("next", l, b)))
    BY <2>3, <2>5, <2>6, <2>9
  <2> QED
    BY <1>2, <1>3, <1>4, <1>5, <1>6, <2>1, <2>4, <2>7, <2>8, <2>10, FreeTouch
<1>8. CASE freeListRefs[b] # fl[t].refs
  <2>1. \A c \in F!Block : SameFor(c, t, "head", l, held[t])
    BY <1>2, <1>4 DEF SameFor, F!Refers, F!Bears, F!Adds
  <2> QED
    BY <1>2, <1>4, <1>5, <1>6, <1>8, <2>1, FreeLook
<1> QED
  BY <1>7, <1>8


\* A place where thread t refers to no block.
Away == {"idle", "pool", "create", "head", "refs", "ref"}

LEMMA AwayRoles ==
  ASSUME NEW to \in Away, NEW l, NEW b
  PROVE  ~ F!Refers(to, l, b) /\ ~ F!Bears(to, l, b) /\ ~ F!Adds(to, l, b)
BY DEF Away, F!Refers, F!Bears, F!Adds

LEMMA FreeTaken ==
  ASSUME F!IInv, NEW t \in QBlock, F!Taken(t)
  PROVE  F!IInv'
<1>1. PICK b : b = fl[t].head
  OBVIOUS
<1>2. PICK h : h = held[t] \cup {b}
  OBVIOUS
<1>3. b \in F!Block /\ fpc[t] = "taken"
  BY <1>1, FreeThread DEF F!Taken, F!At, F!Sound, F!null
<1>4. /\ fpc' = [fpc EXCEPT ![t] = "idle"] /\ fl' = [fl EXCEPT ![t] = F!NoLocals]
      /\ held' = [held EXCEPT ![t] = h]
      /\ freeListRefs' = [freeListRefs EXCEPT ![b] = freeListRefs[b] - 2]
      /\ UNCHANGED <<initialBlockPoolIndex, blocksMade, freeListHead, freeListNext>>
  <2>1. {b} \ {F!null} = {b}
    BY <1>3, FreeNumbers
  <2> QED
    BY <1>1, <1>2, <2>1 DEF F!Taken, F!Return, F!Goto, F!Keep, F!pool
<1>5. h \in SUBSET F!Block /\ b \in h
  BY <1>2, <1>3, FreeThread
<1>6. F!Sound("idle", F!NoLocals) /\ "idle" \in FreePlaces /\ "idle" \in Away
  BY DEF F!Sound, FreePlaces, Away
<1>7. initialBlockPoolIndex' \in Nat /\ blocksMade' \in PoolSize .. MaxBlocks
  BY <1>4, FreeFacts
<1>8. \A c \in F!Block \ {b} : (F!Fresh(c)' <=> F!Fresh(c)) /\ SameFor(c, t, "idle", F!NoLocals, h)
  BY <1>1, <1>2, <1>3, <1>4, <1>6, AwayRoles DEF F!Fresh, SameFor, F!Refers, F!Bears, F!Adds
<1>9. t \in F!Referrers(b) /\ t \in F!Bearers(b)
  BY <1>1, <1>3 DEF F!Referrers, F!Refers, F!Bearers, F!Bears
<1>10. /\ Put(F!Users(b), t, b \in h) = F!Users(b) \cup {t}
       /\ Put(F!Referrers(b), t, F!Refers("idle", F!NoLocals, b)) = F!Referrers(b) \ {t}
       /\ Put(F!Bearers(b), t, F!Bears("idle", F!NoLocals, b)) = F!Bearers(b) \ {t}
       /\ Put(F!Adders(b), t, F!Adds("idle", F!NoLocals, b)) = F!Adders(b)
  BY <1>3, <1>5, <1>6, AwayRoles DEF Put, F!Adders, F!Adds
<1>11. /\ freeListRefs[b] - 2 \in 0 .. 2 * F!SHOULD_BE_ON_FREELIST
       /\ F!Placed(freeListRefs[b] - 2, F!Cardinality(F!Referrers(b)) - 1, F!Fresh(b),
                   b \in F!OnList, F!Users(b) \cup {t}, F!Bearers(b) \ {t}, F!Adders(b))
  <2>1. F!Cardinality(F!Referrers(b)) > 0 /\ t \in F!Bearers(b)
    BY <1>3, <1>9, FreeReferrers
  <2> QED
    <3>1. /\ F!Placed(freeListRefs[b], F!Cardinality(F!Referrers(b)), F!Fresh(b), b \in F!OnList,
                      F!Users(b), F!Bearers(b), F!Adders(b))
          /\ freeListRefs[b] \in Int /\ F!Cardinality(F!Referrers(b)) \in Nat
          /\ FewEnough(F!Cardinality(F!Referrers(b))) /\ F!SHOULD_BE_ON_FREELIST \in Nat
          /\ F!Fresh(b) \in BOOLEAN /\ (b \in F!OnList) \in BOOLEAN
      BY <1>3, FreePlaced
    <3>2. PICK r, n, fresh, on, us, bs, ads :
             /\ r = freeListRefs[b] /\ n = F!Cardinality(F!Referrers(b)) /\ fresh = F!Fresh(b)
             /\ on = (b \in F!OnList) /\ us = F!Users(b) /\ bs = F!Bearers(b) /\ ads = F!Adders(b)
      OBVIOUS
    <3>3. /\ F!Placed(r, n, fresh, on, us, bs, ads)
          /\ r \in Int /\ n \in Nat /\ n > 0 /\ FewEnough(n) /\ F!SHOULD_BE_ON_FREELIST \in Nat
          /\ t \in bs
      BY <2>1, <3>1, <3>2
    <3>4. ~ fresh /\ ~ on /\ us = {} /\ bs = {t} /\ ads = {} /\ r = n + 1
      BY <3>3 DEF F!Placed
    <3>5. us \cup {t} = {t} /\ bs \ {t} = {}
      BY <3>4
    <3>6. r - 2 \in 0 .. 2 * F!SHOULD_BE_ON_FREELIST /\ r - 2 = n - 1
      BY <3>3, <3>4 DEF FewEnough
    <3>7. F!Placed(r - 2, n - 1, fresh, on, us \cup {t}, bs \ {t}, ads)
      BY <3>3, <3>4, <3>5, <3>6 DEF F!Placed
    <3> QED
      BY <3>2, <3>6, <3>7
<1>12. F!Cardinality(F!Referrers(b) \ {t}) = F!Cardinality(F!Referrers(b)) - 1
  BY <1>3, <1>9, FreeReferrers
<1>13. F!Placed(freeListRefs[b] - 2,
                F!Cardinality(Put(F!Referrers(b), t, F!Refers("idle", F!NoLocals, b))), F!Fresh(b)',
                b \in F!OnList, Put(F!Users(b), t, b \in h),
                Put(F!Bearers(b), t, F!Bears("idle", F!NoLocals, b)),
                Put(F!Adders(b), t, F!Adds("idle", F!NoLocals, b)))
  <2>1. F!Fresh(b)' = F!Fresh(b)
    BY <1>4 DEF F!Fresh
  <2> QED
    BY <1>10, <1>11, <1>12, <2>1
<1> QED
  BY <1>3, <1>4, <1>5, <1>6, <1>7, <1>8, <1>11, <1>13, NoLocalsLocal, FreeTouch

LEMMA FreeUnref ==
  ASSUME F!IInv, NEW t \in QBlock, F!Unref(t)
  PROVE  F!IInv'
<1>1. PICK b : b = fl[t].node
  OBVIOUS
<1>2. b \in F!Block /\ fpc[t] = "unref"
  BY <1>1, FreeThread DEF F!Unref, F!At, F!Sound, F!null
<1>3. /\ freeListRefs' = [freeListRefs EXCEPT ![b] = freeListRefs[b] - 1]
      /\ IF freeListRefs[b] = F!SHOULD_BE_ON_FREELIST + 1
         THEN /\ fpc' = [fpc EXCEPT ![t] = "seen"]
              /\ fl' = [fl EXCEPT ![t] = [fl[t] EXCEPT !.after = "loop"]]
         ELSE F!Loop(t, fl[t].head)
      /\ UNCHANGED <<initialBlockPoolIndex, blocksMade, freeListHead, freeListNext, held>>
  BY <1>1 DEF F!Unref, F!Goto, F!Keep, F!pool
<1>4. t \in F!Referrers(b)
  BY <1>1, <1>2 DEF F!Referrers, F!Refers
<1>5. F!Cardinality(F!Referrers(b) \ {t}) = F!Cardinality(F!Referrers(b)) - 1
  BY <1>2, <1>4, FreeReferrers
<1>6. /\ freeListRefs[b] - 1 \in 0 .. 2 * F!SHOULD_BE_ON_FREELIST
      /\ IF freeListRefs[b] = F!SHOULD_BE_ON_FREELIST + 1
         THEN F!Placed(freeListRefs[b] - 1, F!Cardinality(F!Referrers(b)) - 1, F!Fresh(b),
                       b \in F!OnList, F!Users(b), F!Bearers(b), F!Adders(b) \cup {t})
         ELSE F!Placed(freeListRefs[b] - 1, F!Cardinality(F!Referrers(b)) - 1, F!Fresh(b),
                       b \in F!OnList, F!Users(b), F!Bearers(b), F!Adders(b))
  <2>1. F!Cardinality(F!Referrers(b)) > 0
    BY <1>2, <1>4, FreeReferrers
  <2> QED
    BY <1>2, <2>1, FreePlaced, PlacedUnref
<1>7. /\ initialBlockPoolIndex' \in Nat /\ blocksMade' \in PoolSize .. MaxBlocks
      /\ held' = [held EXCEPT ![t] = held[t]] /\ held[t] \in SUBSET F!Block
  BY <1>3, FreeFacts, FreeThread
<1>8. \A c \in F!Block : F!Fresh(c)' = F!Fresh(c)
  BY <1>3 DEF F!Fresh
<1>9. CASE freeListRefs[b] = F!SHOULD_BE_ON_FREELIST + 1
  <2>1. PICK l : l = [fl[t] EXCEPT !.after = "loop"]
    OBVIOUS
  <2>2. fpc' = [fpc EXCEPT ![t] = "seen"] /\ fl' = [fl EXCEPT ![t] = l]
    BY <1>3, <1>9, <2>1
  <2>3. l \in FreeLocal /\ l.node = b /\ fl[t].node = b
    BY <1>1, <2>1, FreeThread DEF FreeLocal
  <2>4. F!Sound("seen", l) /\ "seen" \in FreePlaces
    BY <1>2, <2>3, FreeNumbers DEF F!Sound, FreePlaces
  <2>5. \A c \in F!Block \ {b} : SameFor(c, t, "seen", l, held[t])
    BY <1>2, <2>3 DEF SameFor, F!Refers, F!Bears, F!Adds
  <2>6. /\ Put(F!Users(b), t, b \in held[t]) = F!Users(b)
        /\ Put(F!Referrers(b), t, F!Refers("seen", l, b)) = F!Referrers(b) \ {t}
        /\ Put(F!Bearers(b), t, F!Bears("seen", l, b)) = F!Bearers(b)
        /\ Put(F!Adders(b), t, F!Adds("seen", l, b)) = F!Adders(b) \cup {t}
    BY <1>2, <2>3 DEF Put, F!Users, F!Refers, F!Bearers, F!Bears, F!Adds
  <2>7. F!Placed(freeListRefs[b] - 1,
                 F!Cardinality(Put(F!Referrers(b), t, F!Refers("seen", l, b))), F!Fresh(b)',
                 b \in F!OnList, Put(F!Users(b), t, b \in held[t]),
                 Put(F!Bearers(b), t, F!Bears("seen", l, b)),
                 Put(F!Adders(b), t, F!Adds("seen", l, b)))
    BY <1>2, <1>5, <1>6, <1>8, <1>9, <2>6
  <2> QED
    BY <1>2, <1>3, <1>6, <1>7, <1>8, <2>2, <2>3, <2>4, <2>5, <2>7, FreeTouch
<1>10. CASE freeListRefs[b] # F!SHOULD_BE_ON_FREELIST + 1
  <2>1. PICK to \in {"create", "refs"} : \E l \in FreeLocal :
          fpc' = [fpc EXCEPT ![t] = to] /\ fl' = [fl EXCEPT ![t] = l] /\ F!Sound(to, l)
    BY <1>3, <1>10, FreeThread, LoopIs
  <2>2. PICK l \in FreeLocal :
          fpc' = [fpc EXCEPT ![t] = to] /\ fl' = [fl EXCEPT ![t] = l] /\ F!Sound(to, l)
    BY <2>1
  <2>3. to \in Away /\ to \in FreePlaces
    BY <2>1 DEF Away, FreePlaces
  <2>4. \A c \in F!Block \ {b} : SameFor(c, t, to, l, held[t])
    BY <1>1, <1>2, <2>3, AwayRoles DEF SameFor, F!Refers, F!Bears, F!Adds
  <2>5. /\ Put(F!Users(b), t, b \in held[t]) = F!Users(b)
        /\ Put(F!Referrers(b), t, F!Refers(to, l, b)) = F!Referrers(b) \ {t}
        /\ Put(F!Bearers(b), t, F!Bears(to, l, b)) = F!Bearers(b)
        /\ Put(F!Adders(b), t, F!Adds(to, l, b)) = F!Adders(b)
    BY <1>2, <2>3, AwayRoles DEF Put, F!Users, F!Bearers, F!Bears, F!Adders, F!Adds
  <2>6. F!Placed(freeListRefs[b] - 1,
                 F!Cardinality(Put(F!Referrers(b), t, F!Refers(to, l, b))), F!Fresh(b)',
                 b \in F!OnList, Put(F!Users(b), t, b \in held[t]),
                 Put(F!Bearers(b), t, F!Bears(to, l, b)), Put(F!Adders(b), t, F!Adds(to, l, b)))
    BY <1>2, <1>5, <1>6, <1>8, <1>10, <2>5
  <2> QED
    BY <1>2, <1>3, <1>6, <1>7, <1>8, <2>2, <2>3, <2>4, <2>6, FreeTouch
<1> QED
  BY <1>9, <1>10


LEMMA FreeTakeFromPool ==
  ASSUME F!IInv, NEW t \in QBlock, F!TakeFromPool(t)
  PROVE  F!IInv'
<1>1. PICK b : b = initialBlockPoolIndex
  OBVIOUS
<1>2. /\ fpc[t] = "pool" /\ initialBlockPoolIndex' = b + 1 /\ b \in Nat
      /\ UNCHANGED <<blocksMade, freeListHead, freeListRefs, freeListNext>>
      /\ IF b < PoolSize THEN F!Return(t, b)
         ELSE fpc' = [fpc EXCEPT ![t] = "head"] /\ UNCHANGED <<held, fl>>
  BY <1>1, FreeFacts DEF F!TakeFromPool, F!At, F!Goto, F!list
<1>3. CASE b < PoolSize
  <2>1. PICK h : h = held[t] \cup {b}
    OBVIOUS
  <2>2. b \in F!Block /\ F!Fresh(b) = TRUE /\ F!Fresh(b)' = FALSE
    BY <1>1, <1>2, <1>3, FreeNumbers, FreeFacts DEF F!Fresh
  <2>3. {b} \ {F!null} = {b}
    BY <2>2, FreeNumbers
  <2>4. /\ fpc' = [fpc EXCEPT ![t] = "idle"] /\ fl' = [fl EXCEPT ![t] = F!NoLocals]
        /\ held' = [held EXCEPT ![t] = h]
    BY <1>2, <1>3, <2>1, <2>3 DEF F!Return, F!Goto, F!Keep
  <2>5. freeListRefs' = [freeListRefs EXCEPT ![b] = freeListRefs[b]]
        /\ freeListRefs[b] \in 0 .. 2 * F!SHOULD_BE_ON_FREELIST
    BY <1>2, <2>2, FreeFacts
  <2>6. h \in SUBSET F!Block /\ b \in h
    BY <2>1, <2>2, FreeThread
  <2>7. F!Sound("idle", F!NoLocals) /\ "idle" \in FreePlaces /\ "idle" \in Away /\ fpc[t] \in Away
    BY <1>2 DEF F!Sound, FreePlaces, Away
  <2>8. initialBlockPoolIndex' \in Nat /\ blocksMade' \in PoolSize .. MaxBlocks
    BY <1>2, FreeFacts
  <2>9. \A c \in F!Block \ {b} : F!Fresh(c)' <=> F!Fresh(c)
    BY <1>1, <1>2, FreeNumbers DEF F!Fresh
  <2>10. \A c \in F!Block \ {b} : SameFor(c, t, "idle", F!NoLocals, h)
    BY <2>1, <2>7, AwayRoles DEF SameFor
  <2>11. /\ Put(F!Users(b), t, b \in h) = F!Users(b) \cup {t}
         /\ Put(F!Referrers(b), t, F!Refers("idle", F!NoLocals, b)) = F!Referrers(b)
         /\ Put(F!Bearers(b), t, F!Bears("idle", F!NoLocals, b)) = F!Bearers(b)
         /\ Put(F!Adders(b), t, F!Adds("idle", F!NoLocals, b)) = F!Adders(b)
    BY <2>6, <2>7, AwayRoles DEF Put, F!Referrers, F!Bearers, F!Adders
  <2>12. F!Placed(freeListRefs[b], F!Cardinality(F!Referrers(b)), FALSE, b \in F!OnList,
                  F!Users(b) \cup {t}, F!Bearers(b), F!Adders(b))
    BY <2>2, FreePlaced, PlacedGive
  <2>13. F!Placed(freeListRefs[b],
                  F!Cardinality(Put(F!Referrers(b), t, F!Refers("idle", F!NoLocals, b))), F!Fresh(b)',
                  b \in F!OnList, Put(F!Users(b), t, b \in h),
                  Put(F!Bearers(b), t, F!Bears("idle", F!NoLocals, b)),
                  Put(F!Adders(b), t, F!Adds("idle", F!NoLocals, b)))
    BY <2>2, <2>11, <2>12
  <2> QED
    BY <1>2, <2>2, <2>4, <2>5, <2>6, <2>7, <2>8, <2>9, <2>10, <2>13, NoLocalsLocal, FreeTouch
<1>4. CASE b >= PoolSize
  <2>1. /\ fpc' = [fpc EXCEPT ![t] = "head"] /\ UNCHANGED held
        /\ fl' = [fl EXCEPT ![t] = fl[t]] /\ fl[t] \in FreeLocal
    BY <1>2, <1>4, FreeThread, FreeNumbers
  <2>2. F!Sound("head", fl[t]) /\ "head" \in FreePlaces /\ "head" \in Away /\ fpc[t] \in Away
    BY <1>2 DEF F!Sound, FreePlaces, Away
  <2>3. \A c \in F!Block : SameFor(c, t, "head", fl[t], held[t])
    BY <2>2, AwayRoles DEF SameFor
  <2>4. /\ initialBlockPoolIndex' \in Nat
        /\ initialBlockPoolIndex' >= PoolSize /\ initialBlockPoolIndex >= PoolSize
    BY <1>1, <1>2, <1>4, FreeNumbers
  <2> QED
    BY <1>2, <2>1, <2>2, <2>3, <2>4, FreeLook
<1> QED
  BY <1>2, <1>3, <1>4, FreeNumbers

LEMMA FreeCreate ==
  ASSUME F!IInv, NEW t \in QBlock, F!Create(t)
  PROVE  F!IInv'
<1>1. PICK b : b = blocksMade
  OBVIOUS
<1>2. /\ fpc[t] = "create" /\ UNCHANGED <<initialBlockPoolIndex, freeListHead, freeListRefs, freeListNext>>
      /\ \/ b < MaxBlocks /\ F!Return(t, b) /\ blocksMade' = b + 1
         \/ F!Return(t, -1) /\ UNCHANGED blocksMade
      /\ b \in PoolSize .. MaxBlocks /\ b \in Nat
  BY <1>1, FreeFacts, FreeNumbers DEF F!Create, F!At, F!list, F!null
<1>3. /\ F!Sound("idle", F!NoLocals) /\ "idle" \in FreePlaces /\ "idle" \in Away /\ fpc[t] \in Away
      /\ initialBlockPoolIndex' \in Nat
  BY <1>2, FreeFacts DEF F!Sound, FreePlaces, Away
<1>4. CASE b < MaxBlocks /\ F!Return(t, b) /\ blocksMade' = b + 1
  <2>1. PICK h : h = held[t] \cup {b}
    OBVIOUS
  <2>2. b \in F!Block /\ F!Fresh(b) = TRUE /\ F!Fresh(b)' = FALSE
    BY <1>1, <1>2, <1>4, FreeNumbers, FreeFacts DEF F!Fresh
  <2>3. {b} \ {F!null} = {b}
    BY <2>2, FreeNumbers
  <2>4. /\ fpc' = [fpc EXCEPT ![t] = "idle"] /\ fl' = [fl EXCEPT ![t] = F!NoLocals]
        /\ held' = [held EXCEPT ![t] = h]
    BY <1>4, <2>1, <2>3 DEF F!Return, F!Goto, F!Keep
  <2>5. freeListRefs' = [freeListRefs EXCEPT ![b] = freeListRefs[b]]
        /\ freeListRefs[b] \in 0 .. 2 * F!SHOULD_BE_ON_FREELIST
    BY <1>2, <2>2, FreeFacts
  <2>6. h \in SUBSET F!Block /\ b \in h
    BY <2>1, <2>2, FreeThread
  <2>8. blocksMade' \in PoolSize .. MaxBlocks
    BY <1>2, <1>4, FreeNumbers
  <2>9. \A c \in F!Block \ {b} : F!Fresh(c)' <=> F!Fresh(c)
    BY <1>1, <1>2, <1>4, FreeNumbers DEF F!Fresh
  <2>10. \A c \in F!Block \ {b} : SameFor(c, t, "idle", F!NoLocals, h)
    BY <2>1, <1>3, AwayRoles DEF SameFor
  <2>11. /\ Put(F!Users(b), t, b \in h) = F!Users(b) \cup {t}
         /\ Put(F!Referrers(b), t, F!Refers("idle", F!NoLocals, b)) = F!Referrers(b)
         /\ Put(F!Bearers(b), t, F!Bears("idle", F!NoLocals, b)) = F!Bearers(b)
         /\ Put(F!Adders(b), t, F!Adds("idle", F!NoLocals, b)) = F!Adders(b)
    BY <1>3, <2>6, AwayRoles DEF Put, F!Referrers, F!Bearers, F!Adders
  <2>12. F!Placed(freeListRefs[b], F!Cardinality(F!Referrers(b)), FALSE, b \in F!OnList,
                  F!Users(b) \cup {t}, F!Bearers(b), F!Adders(b))
    BY <2>2, FreePlaced, PlacedGive
  <2>13. F!Placed(freeListRefs[b],
                  F!Cardinality(Put(F!Referrers(b), t, F!Refers("idle", F!NoLocals, b))), F!Fresh(b)',
                  b \in F!OnList, Put(F!Users(b), t, b \in h),
                  Put(F!Bearers(b), t, F!Bears("idle", F!NoLocals, b)),
                  Put(F!Adders(b), t, F!Adds("idle", F!NoLocals, b)))
    BY <2>2, <2>11, <2>12
  <2> QED
    BY <1>2, <1>3, <2>2, <2>4, <2>5, <2>6, <2>8, <2>9, <2>10, <2>13, NoLocalsLocal, FreeTouch
<1>5. CASE F!Return(t, -1) /\ UNCHANGED blocksMade
  <2>1. held[t] \cup ({-1} \ {F!null}) = held[t]
    BY FreeNumbers
  <2>2. /\ fpc' = [fpc EXCEPT ![t] = "idle"] /\ fl' = [fl EXCEPT ![t] = F!NoLocals]
        /\ UNCHANGED held
    BY <1>5, <2>1, FreeThread DEF F!Return, F!Goto, F!Keep
  <2>3. \A c \in F!Block : SameFor(c, t, "idle", F!NoLocals, held[t])
    BY <1>3, AwayRoles DEF SameFor
  <2> QED
    BY <1>2, <1>3, <1>5, <2>2, <2>3, NoLocalsLocal, FreeLook
<1> QED
  BY <1>2, <1>4, <1>5


LEMMA FreeAdd ==
  ASSUME F!IInv, NEW t \in QBlock, F!Add(t)
  PROVE  F!IInv'
<1>1. PICK b \in held[t] :
        /\ fpc[t] = "idle" /\ held' = [held EXCEPT ![t] = held[t] \ {b}]
        /\ freeListRefs' = [freeListRefs EXCEPT ![b] = freeListRefs[b] + F!SHOULD_BE_ON_FREELIST]
        /\ IF freeListRefs[b] = 0
           THEN /\ fpc' = [fpc EXCEPT ![t] = "seen"]
                /\ fl' = [fl EXCEPT ![t] = [F!NoLocals EXCEPT !.node = b]]
           ELSE UNCHANGED <<fpc, fl>>
        /\ UNCHANGED <<initialBlockPoolIndex, blocksMade, freeListHead, freeListNext>>
  BY DEF F!Add, F!At, F!Goto, F!Keep, F!pool
<1>2. PICK h : h = held[t] \ {b}
  OBVIOUS
<1>3. b \in F!Block /\ h \in SUBSET F!Block /\ b \notin h /\ t \in F!Users(b)
      /\ held' = [held EXCEPT ![t] = h]
  BY <1>1, <1>2, FreeThread DEF F!Users
<1>4. /\ freeListRefs[b] + F!SHOULD_BE_ON_FREELIST \in 0 .. 2 * F!SHOULD_BE_ON_FREELIST
      /\ IF freeListRefs[b] = 0
         THEN F!Placed(freeListRefs[b] + F!SHOULD_BE_ON_FREELIST, F!Cardinality(F!Referrers(b)),
                       F!Fresh(b), b \in F!OnList, F!Users(b) \ {t}, F!Bearers(b), F!Adders(b) \cup {t})
         ELSE F!Placed(freeListRefs[b] + F!SHOULD_BE_ON_FREELIST, F!Cardinality(F!Referrers(b)),
                       F!Fresh(b), b \in F!OnList, F!Users(b) \ {t}, F!Bearers(b), F!Adders(b))
  BY <1>3, FreePlaced, PlacedAdd
<1>5. initialBlockPoolIndex' \in Nat /\ blocksMade' \in PoolSize .. MaxBlocks
  BY <1>1, FreeFacts
<1>6. \A c \in F!Block : F!Fresh(c)' = F!Fresh(c)
  BY <1>1 DEF F!Fresh
<1>7. CASE freeListRefs[b] = 0
  <2>1. PICK l : l = [F!NoLocals EXCEPT !.node = b]
    OBVIOUS
  <2>2. l \in FreeLocal /\ l.node = b
    BY <1>3, <2>1 DEF F!NoLocals, FreeLocal, F!null
  <2>3. fpc' = [fpc EXCEPT ![t] = "seen"] /\ fl' = [fl EXCEPT ![t] = l]
    BY <1>1, <1>7, <2>1
  <2>4. F!Sound("seen", l) /\ "seen" \in FreePlaces
    BY <1>3, <2>2, FreeNumbers DEF F!Sound, FreePlaces
  <2>5. \A c \in F!Block \ {b} : SameFor(c, t, "seen", l, h)
    BY <1>1, <1>2, <2>2 DEF SameFor, F!Refers, F!Bears, F!Adds
  <2>6. /\ Put(F!Users(b), t, b \in h) = F!Users(b) \ {t}
        /\ Put(F!Referrers(b), t, F!Refers("seen", l, b)) = F!Referrers(b)
        /\ Put(F!Bearers(b), t, F!Bears("seen", l, b)) = F!Bearers(b)
        /\ Put(F!Adders(b), t, F!Adds("seen", l, b)) = F!Adders(b) \cup {t}
    BY <1>1, <1>3, <2>2 DEF Put, F!Referrers, F!Refers, F!Bearers, F!Bears, F!Adds
  <2>7. F!Placed(freeListRefs[b] + F!SHOULD_BE_ON_FREELIST,
                 F!Cardinality(Put(F!Referrers(b), t, F!Refers("seen", l, b))), F!Fresh(b)',
                 b \in F!OnList, Put(F!Users(b), t, b \in h),
                 Put(F!Bearers(b), t, F!Bears("seen", l, b)),
                 Put(F!Adders(b), t, F!Adds("seen", l, b)))
    BY <1>3, <1>4, <1>6, <1>7, <2>6
  <2> QED
    BY <1>1, <1>3, <1>4, <1>5, <1>6, <2>2, <2>3, <2>4, <2>5, <2>7, FreeTouch
<1>8. CASE freeListRefs[b] # 0
  <2>1. PICK l : l = fl[t]
    OBVIOUS
  <2>2. /\ l \in FreeLocal /\ fpc' = [fpc EXCEPT ![t] = "idle"] /\ fl' = [fl EXCEPT ![t] = l]
    BY <1>1, <1>8, <2>1, FreeThread
  <2>3. F!Sound("idle", l) /\ "idle" \in FreePlaces /\ "idle" \in Away
    BY DEF F!Sound, FreePlaces, Away
  <2>4. \A c \in F!Block \ {b} : SameFor(c, t, "idle", l, h)
    BY <1>1, <1>2, <2>3, AwayRoles DEF SameFor
  <2>5. /\ Put(F!Users(b), t, b \in h) = F!Users(b) \ {t}
        /\ Put(F!Referrers(b), t, F!Refers("idle", l, b)) = F!Referrers(b)
        /\ Put(F!Bearers(b), t, F!Bears("idle", l, b)) = F!Bearers(b)
        /\ Put(F!Adders(b), t, F!Adds("idle", l, b)) = F!Adders(b)
    BY <1>1, <1>3, <2>3, AwayRoles DEF Put, F!Referrers, F!Bearers, F!Adders
  <2>6. F!Placed(freeListRefs[b] + F!SHOULD_BE_ON_FREELIST,
                 F!Cardinality(Put(F!Referrers(b), t, F!Refers("idle", l, b))), F!Fresh(b)',
                 b \in F!OnList, Put(F!Users(b), t, b \in h),
                 Put(F!Bearers(b), t, F!Bears("idle", l, b)),
                 Put(F!Adders(b), t, F!Adds("idle", l, b)))
    BY <1>3, <1>4, <1>6, <1>8, <2>5
  <2> QED
    BY <1>1, <1>3, <1>4, <1>5, <1>6, <2>2, <2>3, <2>4, <2>6, FreeTouch
<1> QED
  BY <1>7, <1>8

LEMMA FreeReady ==
  ASSUME F!IInv, NEW t \in QBlock, F!Ready(t)
  PROVE  F!IInv'
<1>1. PICK b, l : b = fl[t].node /\ l = fl[t]
  OBVIOUS
<1>2. /\ fpc[t] = "ready" /\ freeListRefs' = [freeListRefs EXCEPT ![b] = 1]
      /\ fpc' = [fpc EXCEPT ![t] = "push"]
      /\ UNCHANGED <<initialBlockPoolIndex, blocksMade, freeListHead, freeListNext, held, fl>>
  BY <1>1 DEF F!Ready, F!At, F!Goto, F!pool
<1>3. b \in F!Block /\ l.node = b /\ l \in FreeLocal /\ F!Sound("push", l) /\ "push" \in FreePlaces
  BY <1>1, <1>2, FreeThread DEF F!Sound, F!null, FreePlaces
<1>4. /\ initialBlockPoolIndex' \in Nat /\ blocksMade' \in PoolSize .. MaxBlocks
      /\ held' = [held EXCEPT ![t] = held[t]] /\ held[t] \in SUBSET F!Block
      /\ fl' = [fl EXCEPT ![t] = l]
  BY <1>1, <1>2, FreeFacts, FreeThread
<1>5. \A c \in F!Block : F!Fresh(c)' = F!Fresh(c)
  BY <1>2 DEF F!Fresh
<1>6. \A c \in F!Block \ {b} : SameFor(c, t, "push", l, held[t])
  BY <1>1, <1>2, <1>3 DEF SameFor, F!Refers, F!Bears, F!Adds
<1>7. /\ Put(F!Users(b), t, b \in held[t]) = F!Users(b)
      /\ Put(F!Referrers(b), t, F!Refers("push", l, b)) = F!Referrers(b)
      /\ Put(F!Bearers(b), t, F!Bears("push", l, b)) = F!Bearers(b) \cup {t}
      /\ Put(F!Adders(b), t, F!Adds("push", l, b)) = F!Adders(b) \ {t}
  BY <1>1, <1>2, <1>3 DEF Put, F!Users, F!Referrers, F!Refers, F!Bears, F!Adds
<1>8. t \in F!Adders(b)
  BY <1>1, <1>2 DEF F!Adders, F!Adds
<1>9. F!Placed(1, F!Cardinality(F!Referrers(b)), F!Fresh(b), b \in F!OnList, F!Users(b),
               F!Bearers(b) \cup {t}, F!Adders(b) \ {t})
  <2>1. /\ F!Placed(freeListRefs[b], F!Cardinality(F!Referrers(b)), F!Fresh(b), b \in F!OnList,
                    F!Users(b), F!Bearers(b), F!Adders(b))
        /\ freeListRefs[b] \in Int /\ F!Cardinality(F!Referrers(b)) \in Nat
        /\ FewEnough(F!Cardinality(F!Referrers(b))) /\ F!SHOULD_BE_ON_FREELIST \in Nat
        /\ F!Fresh(b) \in BOOLEAN /\ (b \in F!OnList) \in BOOLEAN
    BY <1>3, FreePlaced
  <2> QED
    BY <1>8, <2>1, PlacedReady
<1>10. F!Placed(1, F!Cardinality(Put(F!Referrers(b), t, F!Refers("push", l, b))), F!Fresh(b)',
                b \in F!OnList, Put(F!Users(b), t, b \in held[t]),
                Put(F!Bearers(b), t, F!Bears("push", l, b)),
                Put(F!Adders(b), t, F!Adds("push", l, b)))
  BY <1>3, <1>5, <1>7, <1>9
<1>11. 1 \in 0 .. 2 * F!SHOULD_BE_ON_FREELIST
  BY FreeNumbers
<1> QED
  BY <1>2, <1>3, <1>4, <1>5, <1>6, <1>10, <1>11, FreeTouch

\* Back from add_knowing_refcount_is_zero.
LEMMA LeaveIs ==
  ASSUME F!IInv, NEW t \in QBlock, F!Leave(t)
  PROVE  \E to \in Away \cap FreePlaces : \E l \in FreeLocal :
            /\ fpc' = [fpc EXCEPT ![t] = to] /\ fl' = [fl EXCEPT ![t] = l]
            /\ F!Sound(to, l)
<1>1. CASE fl[t].after = "loop"
  <2>1. F!Loop(t, fl[t].head) /\ fl[t].head \in F!Block \cup {-1}
    BY <1>1, FreeThread DEF F!Leave
  <2>2. "create" \in Away \cap FreePlaces /\ "refs" \in Away \cap FreePlaces
    BY DEF Away, FreePlaces
  <2> QED
    BY <2>1, <2>2, LoopIs
<1>2. CASE fl[t].after # "loop"
  <2>1. fpc' = [fpc EXCEPT ![t] = "idle"] /\ fl' = [fl EXCEPT ![t] = F!NoLocals]
    BY <1>2 DEF F!Leave, F!Goto, F!Keep
  <2>2. "idle" \in Away \cap FreePlaces /\ F!Sound("idle", F!NoLocals)
    BY DEF Away, FreePlaces, F!Sound
  <2> QED
    BY <2>1, <2>2, NoLocalsLocal
<1> QED
  BY <1>1, <1>2

LEMMA FreeDefer ==
  ASSUME F!IInv, NEW t \in QBlock, F!Defer(t)
  PROVE  F!IInv'
<1>1. PICK b : b = fl[t].node
  OBVIOUS
<1>2. b \in F!Block /\ fpc[t] = "defer"
  BY <1>1, FreeThread DEF F!Defer, F!At, F!Sound, F!null
<1>3. /\ freeListRefs' = [freeListRefs EXCEPT ![b] = freeListRefs[b] + F!SHOULD_BE_ON_FREELIST - 1]
      /\ IF freeListRefs[b] = 1 THEN fpc' = [fpc EXCEPT ![t] = "link"] /\ UNCHANGED fl
         ELSE F!Leave(t)
      /\ UNCHANGED <<initialBlockPoolIndex, blocksMade, freeListHead, freeListNext, held>>
  BY <1>1 DEF F!Defer, F!Goto, F!pool
<1>4. t \in F!Bearers(b)
  BY <1>1, <1>2 DEF F!Bearers, F!Bears
<1>5. PICK r : r = freeListRefs[b] + F!SHOULD_BE_ON_FREELIST - 1
  OBVIOUS
<1>6. /\ r \in 0 .. 2 * F!SHOULD_BE_ON_FREELIST
      /\ IF freeListRefs[b] = 1
         THEN F!Placed(r, F!Cardinality(F!Referrers(b)), F!Fresh(b), b \in F!OnList, F!Users(b),
                       F!Bearers(b) \ {t}, F!Adders(b) \cup {t})
         ELSE F!Placed(r, F!Cardinality(F!Referrers(b)), F!Fresh(b), b \in F!OnList, F!Users(b),
                       F!Bearers(b) \ {t}, F!Adders(b))
  <2>1. /\ F!Placed(freeListRefs[b], F!Cardinality(F!Referrers(b)), F!Fresh(b), b \in F!OnList,
                    F!Users(b), F!Bearers(b), F!Adders(b))
        /\ freeListRefs[b] \in Int /\ F!Cardinality(F!Referrers(b)) \in Nat
        /\ FewEnough(F!Cardinality(F!Referrers(b))) /\ F!SHOULD_BE_ON_FREELIST \in Nat
        /\ F!Fresh(b) \in BOOLEAN /\ (b \in F!OnList) \in BOOLEAN
    BY <1>2, FreePlaced
  <2>2. /\ r = freeListRefs[b] + F!SHOULD_BE_ON_FREELIST - 1
        /\ t \in F!Bearers(b)
    BY <1>4, <1>5
  <2>3. PICK p, n, fresh, on, us, bs, ads :
           /\ p = freeListRefs[b] /\ n = F!Cardinality(F!Referrers(b)) /\ fresh = F!Fresh(b)
           /\ on = (b \in F!OnList) /\ us = F!Users(b) /\ bs = F!Bearers(b) /\ ads = F!Adders(b)
    OBVIOUS
  <2>4. /\ F!Placed(p, n, fresh, on, us, bs, ads)
        /\ p \in Int /\ n \in Nat /\ FewEnough(n) /\ F!SHOULD_BE_ON_FREELIST \in Nat
        /\ fresh \in BOOLEAN /\ on \in BOOLEAN /\ t \in bs
        /\ r = p + F!SHOULD_BE_ON_FREELIST - 1
    BY <2>1, <2>2, <2>3
  <2>5. /\ r \in 0 .. 2 * F!SHOULD_BE_ON_FREELIST
        /\ IF p = 1 THEN F!Placed(r, n, fresh, on, us, bs \ {t}, ads \cup {t})
                    ELSE F!Placed(r, n, fresh, on, us, bs \ {t}, ads)
    <3>1. ~ fresh /\ ~ on /\ us = {} /\ bs = {t} /\ ads = {} /\ p = n + 1
      BY <2>4 DEF F!Placed
    <3>2. bs \ {t} = {} /\ ads \cup {t} = {t}
      BY <3>1
    <3>3. /\ r = n + F!SHOULD_BE_ON_FREELIST
          /\ n + F!SHOULD_BE_ON_FREELIST \in 0 .. 2 * F!SHOULD_BE_ON_FREELIST
          /\ p = 1 => n = 0 /\ r = F!SHOULD_BE_ON_FREELIST
      BY <2>4, <3>1 DEF FewEnough
    <3> QED
      BY <2>4, <3>1, <3>2, <3>3 DEF F!Placed
  <2> QED
    BY <2>3, <2>5
<1>7. /\ initialBlockPoolIndex' \in Nat /\ blocksMade' \in PoolSize .. MaxBlocks
      /\ held' = [held EXCEPT ![t] = held[t]] /\ held[t] \in SUBSET F!Block
      /\ freeListRefs' = [freeListRefs EXCEPT ![b] = r]
  BY <1>3, <1>5, FreeFacts, FreeThread
<1>8. \A c \in F!Block : F!Fresh(c)' = F!Fresh(c)
  BY <1>3 DEF F!Fresh
<1>9. CASE freeListRefs[b] = 1
  <2>1. PICK l : l = fl[t]
    OBVIOUS
  <2>2. /\ fpc' = [fpc EXCEPT ![t] = "link"] /\ fl' = [fl EXCEPT ![t] = l]
        /\ l \in FreeLocal /\ l.node = b
    BY <1>1, <1>3, <1>9, <2>1, FreeThread
  <2>3. F!Sound("link", l) /\ "link" \in FreePlaces
    BY <1>2, <2>2, FreeNumbers DEF F!Sound, FreePlaces
  <2>4. \A c \in F!Block \ {b} : SameFor(c, t, "link", l, held[t])
    BY <1>2, <2>1, <2>2 DEF SameFor, F!Refers, F!Bears, F!Adds
  <2>5. /\ Put(F!Users(b), t, b \in held[t]) = F!Users(b)
        /\ Put(F!Referrers(b), t, F!Refers("link", l, b)) = F!Referrers(b)
        /\ Put(F!Bearers(b), t, F!Bears("link", l, b)) = F!Bearers(b) \ {t}
        /\ Put(F!Adders(b), t, F!Adds("link", l, b)) = F!Adders(b) \cup {t}
    BY <1>2, <2>2 DEF Put, F!Users, F!Referrers, F!Refers, F!Bears, F!Adds
  <2>6. F!Placed(r, F!Cardinality(Put(F!Referrers(b), t, F!Refers("link", l, b))), F!Fresh(b)',
                 b \in F!OnList, Put(F!Users(b), t, b \in held[t]),
                 Put(F!Bearers(b), t, F!Bears("link", l, b)),
                 Put(F!Adders(b), t, F!Adds("link", l, b)))
    BY <1>2, <1>6, <1>8, <1>9, <2>5
  <2> QED
    BY <1>2, <1>3, <1>6, <1>7, <1>8, <2>2, <2>3, <2>4, <2>6, FreeTouch
<1>10. CASE freeListRefs[b] # 1
  <2>1. PICK to \in Away \cap FreePlaces : \E l \in FreeLocal :
          fpc' = [fpc EXCEPT ![t] = to] /\ fl' = [fl EXCEPT ![t] = l] /\ F!Sound(to, l)
    BY <1>3, <1>10, LeaveIs
  <2>2. PICK l \in FreeLocal :
          fpc' = [fpc EXCEPT ![t] = to] /\ fl' = [fl EXCEPT ![t] = l] /\ F!Sound(to, l)
    BY <2>1
  <2>3. to \in Away /\ to \in FreePlaces
    OBVIOUS
  <2>4. \A c \in F!Block \ {b} : SameFor(c, t, to, l, held[t])
    BY <1>1, <1>2, <2>3, AwayRoles DEF SameFor, F!Refers, F!Bears, F!Adds
  <2>5. /\ Put(F!Users(b), t, b \in held[t]) = F!Users(b)
        /\ Put(F!Referrers(b), t, F!Refers(to, l, b)) = F!Referrers(b)
        /\ Put(F!Bearers(b), t, F!Bears(to, l, b)) = F!Bearers(b) \ {t}
        /\ Put(F!Adders(b), t, F!Adds(to, l, b)) = F!Adders(b)
    BY <1>2, <2>3, AwayRoles DEF Put, F!Users, F!Referrers, F!Refers, F!Adders, F!Adds
  <2>6. F!Placed(r, F!Cardinality(Put(F!Referrers(b), t, F!Refers(to, l, b))), F!Fresh(b)',
                 b \in F!OnList, Put(F!Users(b), t, b \in held[t]),
                 Put(F!Bearers(b), t, F!Bears(to, l, b)), Put(F!Adders(b), t, F!Adds(to, l, b)))
    BY <1>2, <1>6, <1>8, <1>10, <2>5
  <2> QED
    BY <1>2, <1>3, <1>6, <1>7, <1>8, <2>2, <2>3, <2>4, <2>6, FreeTouch
<1> QED
  BY <1>9, <1>10


-----------------------------------------------------------------------------
(* The steps that change the list.                                          *)

\* What the head reaches without two ways to one block, and without a way back.
LEMMA ReachedPopped ==
  ASSUME NEW D, NEW z, z \notin D, NEW nx \in [D -> D \cup {z}], NEW head \in D,
         \A p \in Reached(D, nx, head, z) : nx[p] # head,
         \A p, q \in Reached(D, nx, head, z) : nx[p] = nx[q] => p = q
  PROVE  Reached(D, nx, nx[head], z) = Reached(D, nx, head, z) \ {head}
<1>0. PICK new : new = nx[head]
  OBVIOUS
<1>1. new \in D \cup {z} /\ head \in D \cup {z} /\ head # z
  BY <1>0
<1> DEFINE X == Reached(D, nx, head, z)
           Y == Reached(D, nx, new, z)
<1>2. /\ X \subseteq D /\ head \in X
      /\ \A p \in X : nx[p] # z => nx[p] \in X
  BY <1>1, ReachedFacts
<1>3. \A S \in SUBSET D :
        (\A q \in S : nx[q] \in S \cup {z}) /\ {head} \ {z} \subseteq S => X \subseteq S
  BY DEF Reached
<1>4. /\ Y \subseteq D /\ (new # z => new \in Y)
      /\ \A p \in Y : nx[p] # z => nx[p] \in Y
  BY <1>1, ReachedFacts
<1>5. \A S \in SUBSET D :
        (\A q \in S : nx[q] \in S \cup {z}) /\ {new} \ {z} \subseteq S => Y \subseteq S
  BY DEF Reached
<1>6. /\ \A p \in X : nx[p] # head
      /\ \A p, q \in X : nx[p] = nx[q] => p = q
  OBVIOUS
<1> HIDE DEF X, Y
<1>7. Y \subseteq X \ {head}
  <2>1. X \ {head} \in SUBSET D
    BY <1>2
  <2>2. {new} \ {z} \subseteq X \ {head}
    BY <1>0, <1>2, <1>6
  <2>3. \A q \in X \ {head} : nx[q] \in (X \ {head}) \cup {z}
    BY <1>2, <1>6
  <2> QED
    BY <1>5, <2>1, <2>2, <2>3
<1>8. X \subseteq Y \cup {head}
  <2>1. Y \cup {head} \in SUBSET D /\ {head} \ {z} \subseteq Y \cup {head}
    BY <1>4
  <2>2. \A q \in Y \cup {head} : nx[q] \in (Y \cup {head}) \cup {z}
    <3>1. nx[head] \in Y \cup {z}
      BY <1>0, <1>4
    <3>2. \A q \in Y : nx[q] \in Y \cup {z}
      BY <1>4
    <3> QED
      BY <3>1, <3>2
  <2> QED
    BY <1>3, <2>1, <2>2
<1> QED
  BY <1>0, <1>7, <1>8 DEF X, Y

LEMMA OnListIs ==
  /\ F!OnList = Reached(F!Block, freeListNext, freeListHead, -1)
  /\ F!OnList' = Reached(F!Block, freeListNext', freeListHead', -1)
BY FreeNumbers DEF F!OnList, F!Closed, Reached

LEMMA OnListFacts ==
  ASSUME F!IInv
  PROVE  /\ F!OnList \subseteq F!Block
         /\ freeListHead # -1 => freeListHead \in F!OnList
         /\ \A p \in F!OnList : freeListNext[p] # -1 => freeListNext[p] \in F!OnList
         /\ \A p \in F!OnList : freeListNext[p] # freeListHead
         /\ \A p, q \in F!OnList : freeListNext[p] = freeListNext[q] => p = q
<1>1. /\ freeListHead \in F!Block \cup {-1} /\ freeListNext \in [F!Block -> F!Block \cup {-1}]
      /\ F!ListInv
  BY FreeFacts
<1> QED
  BY <1>1, OnListIs, ReachedFacts DEF F!ListInv

\* A step that counts nothing, and takes b off the list or puts it there.
LEMMA FreeRelink ==
  ASSUME F!IInv, NEW t \in QBlock, NEW to \in FreePlaces, NEW l \in FreeLocal, NEW b \in F!Block,
         fpc' = [fpc EXCEPT ![t] = to], fl' = [fl EXCEPT ![t] = l],
         UNCHANGED <<held, freeListRefs, initialBlockPoolIndex, blocksMade>>,
         freeListHead' \in F!Block \cup {-1},
         freeListNext' \in [F!Block -> F!Block \cup {-1}],
         \A c \in F!Block \ {b} : /\ c \in F!OnList' <=> c \in F!OnList
                                  /\ SameFor(c, t, to, l, held[t]),
         F!Placed(freeListRefs[b], F!Cardinality(Put(F!Referrers(b), t, F!Refers(to, l, b))),
                  F!Fresh(b), b \in F!OnList', F!Users(b),
                  Put(F!Bearers(b), t, F!Bears(to, l, b)), Put(F!Adders(b), t, F!Adds(to, l, b))),
         \A u \in QBlock \ {t} :
            /\ fpc[u] = "pop" => fl[u].next = freeListNext'[fl[u].head]
            /\ fpc[u] \in {"ready", "push"} => fl[u].seen = freeListNext'[fl[u].node],
         F!Sound(to, l)', F!ListInv'
  PROVE  F!IInv'
<1>1. PICK h : h = held[t]
  OBVIOUS
<1>2. held' = [held EXCEPT ![t] = h] /\ h \in SUBSET F!Block
  BY <1>1, FreeThread
<1>3. /\ freeListRefs' \in [F!Block -> 0 .. 2 * F!SHOULD_BE_ON_FREELIST]
      /\ initialBlockPoolIndex' \in Nat /\ blocksMade' \in PoolSize .. MaxBlocks
  BY FreeFacts
<1>4. ASSUME NEW c \in F!Block
      PROVE  F!Placed(freeListRefs'[c],
                      F!Cardinality(Put(F!Referrers(c), t, F!Refers(to, l, c))),
                      F!Fresh(c)', c \in F!OnList', Put(F!Users(c), t, c \in h),
                      Put(F!Bearers(c), t, F!Bears(to, l, c)), Put(F!Adders(c), t, F!Adds(to, l, c)))
  <2>1. F!Fresh(c)' = F!Fresh(c) /\ freeListRefs'[c] = freeListRefs[c]
    BY DEF F!Fresh
  <2>2. Put(F!Users(c), t, c \in h) = F!Users(c)
    BY <1>1 DEF Put, F!Users
  <2>3. CASE c = b
    BY <2>1, <2>2, <2>3
  <2>4. CASE c # b
    <3>1. (c \in F!OnList' <=> c \in F!OnList) /\ SameFor(c, t, to, l, h)
      BY <1>1, <2>4
    <3>2. F!Placed(freeListRefs[c], F!Cardinality(F!Referrers(c)), F!Fresh(c), c \in F!OnList,
                   F!Users(c), F!Bearers(c), F!Adders(c))
      BY FreePlaced
    <3>3. F!Placed(freeListRefs[c], F!Cardinality(F!Referrers(c)), F!Fresh(c), c \in F!OnList',
                   F!Users(c), F!Bearers(c), F!Adders(c))
      BY <3>1, <3>2 DEF F!Placed
    <3>4. /\ Put(F!Referrers(c), t, F!Refers(to, l, c)) = F!Referrers(c)
          /\ Put(F!Bearers(c), t, F!Bears(to, l, c)) = F!Bearers(c)
          /\ Put(F!Adders(c), t, F!Adds(to, l, c)) = F!Adders(c)
      BY <3>1, PutSame
    <3> QED
      BY <2>1, <2>2, <3>3, <3>4
  <2> QED
    BY <2>3, <2>4
<1> QED
  BY <1>2, <1>3, <1>4, FreeMove


LEMMA FreePop ==
  ASSUME F!IInv, NEW t \in QBlock, F!Pop(t)
  PROVE  F!IInv'
<1>1. PICK b : b = fl[t].head
  OBVIOUS
<1>2. /\ b \in F!Block /\ fpc[t] = "pop" /\ fl[t].next = freeListNext[b] /\ fl[t].head = b
      /\ UNCHANGED <<initialBlockPoolIndex, blocksMade, freeListRefs, freeListNext, held>>
  BY <1>1, FreeThread DEF F!Pop, F!At, F!Sound, F!null, F!pool
<1>3. /\ initialBlockPoolIndex' \in Nat
      /\ freeListHead \in F!Block \cup {-1} /\ freeListNext \in [F!Block -> F!Block \cup {-1}]
  BY <1>2, FreeFacts
<1>4. CASE freeListHead = b
  <2>1. PICK l : l = [fl[t] EXCEPT !.next = F!null]
    OBVIOUS
  <2>2. /\ freeListHead' = freeListNext[b]
        /\ fpc' = [fpc EXCEPT ![t] = "taken"] /\ fl' = [fl EXCEPT ![t] = l]
    BY <1>1, <1>2, <1>4, <2>1 DEF F!Pop, F!Goto, F!Keep
  <2>3. l \in FreeLocal /\ l.head = b /\ l.node = fl[t].node
    BY <1>1, <2>1, FreeThread DEF FreeLocal, F!null
  <2>4. F!Sound("taken", l)' /\ "taken" \in FreePlaces
    BY <1>2, <2>3, FreeNumbers DEF F!Sound, FreePlaces
  <2>5. F!OnList' = F!OnList \ {b}
    <3>1. -1 \notin F!Block /\ freeListNext' = freeListNext
      BY <1>2, FreeNumbers
    <3>2. F!OnList = Reached(F!Block, freeListNext, b, -1)
      BY <1>4, OnListIs
    <3>3. F!OnList' = Reached(F!Block, freeListNext, freeListNext[b], -1)
      BY <2>2, <3>1, OnListIs
    <3>4. /\ \A p \in Reached(F!Block, freeListNext, b, -1) : freeListNext[p] # b
          /\ \A p, q \in Reached(F!Block, freeListNext, b, -1) :
                freeListNext[p] = freeListNext[q] => p = q
      BY <1>4, <3>2, OnListFacts
    <3> QED
      BY <1>2, <1>3, <3>1, <3>2, <3>3, <3>4, ReachedPopped
  <2>6. b \in F!OnList
    BY <1>2, <1>4, OnListFacts, FreeNumbers
  <2>7. F!ListInv'
    BY <1>2, <2>2, <2>5, <2>6, OnListFacts DEF F!ListInv
  <2>8. freeListHead' \in F!Block \cup {-1} /\ freeListNext' \in [F!Block -> F!Block \cup {-1}]
    BY <1>2, <1>3, <2>2
  <2>9. \A c \in F!Block \ {b} : /\ c \in F!OnList' <=> c \in F!OnList
                                 /\ SameFor(c, t, "taken", l, held[t])
    BY <1>2, <2>3, <2>5 DEF SameFor, F!Refers, F!Bears, F!Adds
  <2>10. /\ Put(F!Referrers(b), t, F!Refers("taken", l, b)) = F!Referrers(b)
         /\ Put(F!Bearers(b), t, F!Bears("taken", l, b)) = F!Bearers(b) \cup {t}
         /\ Put(F!Adders(b), t, F!Adds("taken", l, b)) = F!Adders(b)
    BY <1>2, <2>3 DEF Put, F!Referrers, F!Refers, F!Bears, F!Adders, F!Adds
  <2>11. F!Placed(freeListRefs[b], F!Cardinality(F!Referrers(b)), F!Fresh(b), FALSE,
                  F!Users(b), F!Bearers(b) \cup {t}, F!Adders(b))
    <3>1. /\ F!Placed(freeListRefs[b], F!Cardinality(F!Referrers(b)), F!Fresh(b), b \in F!OnList,
                      F!Users(b), F!Bearers(b), F!Adders(b))
          /\ freeListRefs[b] \in Int /\ F!Cardinality(F!Referrers(b)) \in Nat
          /\ FewEnough(F!Cardinality(F!Referrers(b))) /\ F!SHOULD_BE_ON_FREELIST \in Nat
          /\ F!Fresh(b) \in BOOLEAN
      BY <1>2, FreePlaced
    <3>2. F!Placed(freeListRefs[b], F!Cardinality(F!Referrers(b)), F!Fresh(b), TRUE,
                   F!Users(b), F!Bearers(b), F!Adders(b))
      BY <2>6, <3>1 DEF F!Placed
    <3> QED
      BY <3>1, <3>2, PlacedPop
  <2>12. F!Placed(freeListRefs[b], F!Cardinality(Put(F!Referrers(b), t, F!Refers("taken", l, b))),
                  F!Fresh(b), b \in F!OnList', F!Users(b),
                  Put(F!Bearers(b), t, F!Bears("taken", l, b)),
                  Put(F!Adders(b), t, F!Adds("taken", l, b)))
    BY <2>5, <2>10, <2>11 DEF F!Placed
  <2>13. \A u \in QBlock \ {t} :
            /\ fpc[u] = "pop" => fl[u].next = freeListNext'[fl[u].head]
            /\ fpc[u] \in {"ready", "push"} => fl[u].seen = freeListNext'[fl[u].node]
    BY <1>2, FreeFacts DEF F!Sound
  <2> QED
    BY <1>2, <2>2, <2>3, <2>4, <2>7, <2>8, <2>9, <2>12, <2>13, FreeRelink
<1>5. CASE freeListHead # b
  <2>1. PICK l : l = [F!NoLocals EXCEPT !.head = freeListHead, !.node = b]
    OBVIOUS
  <2>2. /\ fpc' = [fpc EXCEPT ![t] = "unref"] /\ fl' = [fl EXCEPT ![t] = l]
        /\ UNCHANGED freeListHead
    BY <1>1, <1>5, <2>1 DEF F!Pop, F!Goto, F!Keep
  <2>3. l \in FreeLocal /\ l.node = b
    BY <1>2, <1>3, <2>1 DEF F!NoLocals, FreeLocal, F!null
  <2>4. F!Sound("unref", l) /\ "unref" \in FreePlaces
    BY <1>2, <2>3, FreeNumbers DEF F!Sound, FreePlaces
  <2>5. \A c \in F!Block : SameFor(c, t, "unref", l, held[t])
    BY <1>2, <2>3 DEF SameFor, F!Refers, F!Bears, F!Adds
  <2> QED
    BY <1>2, <1>3, <2>2, <2>3, <2>4, <2>5, FreeLook
<1> QED
  BY <1>4, <1>5

LEMMA FreeLink ==
  ASSUME F!IInv, NEW t \in QBlock, F!Link(t)
  PROVE  F!IInv'
<1>1. PICK b, l : b = fl[t].node /\ l = fl[t]
  OBVIOUS
<1>2. /\ fpc[t] = "link" /\ freeListNext' = [freeListNext EXCEPT ![b] = l.seen]
      /\ fpc' = [fpc EXCEPT ![t] = "ready"]
      /\ UNCHANGED <<initialBlockPoolIndex, blocksMade, freeListHead, freeListRefs, held, fl>>
  BY <1>1 DEF F!Link, F!At, F!Goto, F!pool
<1>3. /\ b \in F!Block /\ l.node = b /\ l \in FreeLocal /\ l.seen \in F!Block \cup {-1}
      /\ "ready" \in FreePlaces
  BY <1>1, <1>2, FreeThread DEF F!Sound, F!null, FreePlaces
<1>4. /\ freeListNext' \in [F!Block -> F!Block \cup {-1}] /\ freeListHead' \in F!Block \cup {-1}
      /\ freeListNext'[b] = l.seen
      /\ \A c \in F!Block \ {b} : freeListNext'[c] = freeListNext[c]
  BY <1>2, <1>3, FreeFacts
<1>5. t \in F!Adders(b)
  BY <1>1, <1>2 DEF F!Adders, F!Adds
<1>6. b \notin F!OnList /\ F!Referrers(b) = {} /\ F!Bearers(b) = {} /\ F!Adders(b) = {t}
  <2>1. /\ F!Placed(freeListRefs[b], F!Cardinality(F!Referrers(b)), F!Fresh(b), b \in F!OnList,
                    F!Users(b), F!Bearers(b), F!Adders(b))
    BY <1>3, FreePlaced
  <2>2. b \notin F!OnList /\ F!Bearers(b) = {} /\ F!Adders(b) = {t}
        /\ F!Cardinality(F!Referrers(b)) = 0
    BY <1>5, <2>1 DEF F!Placed
  <2>3. F!Referrers(b) = {}
    BY <1>3, <2>2, FreeCount, FewThreads
  <2> QED
    BY <2>2, <2>3
<1>7. F!OnList' = F!OnList
  <2>1. /\ freeListHead \in F!Block \cup {-1} /\ freeListNext \in [F!Block -> F!Block \cup {-1}]
        /\ freeListHead' = freeListHead
    BY <1>2, FreeFacts
  <2>2. \A p \in F!OnList : freeListNext'[p] = freeListNext[p]
    BY <1>4, <1>6, OnListFacts
  <2>3. \A p \in Reached(F!Block, freeListNext, freeListHead, -1) : freeListNext'[p] = freeListNext[p]
    BY <2>2, OnListIs
  <2>4. Reached(F!Block, freeListNext', freeListHead, -1)
          = Reached(F!Block, freeListNext, freeListHead, -1)
    BY <1>4, <2>1, <2>3, ReachedKept
  <2> QED
    BY <2>1, <2>4, OnListIs
<1>8. F!ListInv'
  <2>1. \A p \in F!OnList : freeListNext'[p] = freeListNext[p]
    BY <1>4, <1>6, OnListFacts
  <2> QED
    BY <1>2, <1>7, <2>1, OnListFacts DEF F!ListInv
<1>9. F!Sound("ready", l)'
  BY <1>3, <1>4, FreeNumbers DEF F!Sound
<1>10. \A c \in F!Block \ {b} : /\ c \in F!OnList' <=> c \in F!OnList
                                /\ SameFor(c, t, "ready", l, held[t])
  BY <1>1, <1>2, <1>3, <1>7 DEF SameFor, F!Refers, F!Bears, F!Adds
<1>11. /\ Put(F!Referrers(b), t, F!Refers("ready", l, b)) = F!Referrers(b)
       /\ Put(F!Bearers(b), t, F!Bears("ready", l, b)) = F!Bearers(b)
       /\ Put(F!Adders(b), t, F!Adds("ready", l, b)) = F!Adders(b)
  BY <1>3, <1>6 DEF Put, F!Refers, F!Bears, F!Adds
<1>12. F!Placed(freeListRefs[b], F!Cardinality(Put(F!Referrers(b), t, F!Refers("ready", l, b))),
                F!Fresh(b), b \in F!OnList', F!Users(b),
                Put(F!Bearers(b), t, F!Bears("ready", l, b)),
                Put(F!Adders(b), t, F!Adds("ready", l, b)))
  BY <1>3, <1>7, <1>11, FreePlaced
<1>13. \A u \in QBlock \ {t} :
          /\ fpc[u] = "pop" => fl[u].next = freeListNext'[fl[u].head]
          /\ fpc[u] \in {"ready", "push"} => fl[u].seen = freeListNext'[fl[u].node]
  <2> SUFFICES ASSUME NEW u \in QBlock \ {t}
               PROVE  /\ fpc[u] = "pop" => fl[u].next = freeListNext'[fl[u].head]
                      /\ fpc[u] \in {"ready", "push"} => fl[u].seen = freeListNext'[fl[u].node]
    OBVIOUS
  <2>1. F!Sound(fpc[u], fl[u]) /\ fl[u].head \in F!Block \cup {-1} /\ fl[u].node \in F!Block \cup {-1}
    BY FreeThread
  <2>2. u \notin F!Referrers(b) /\ u \notin F!Bearers(b) /\ u \notin F!Adders(b)
    BY <1>6
  <2>3. fpc[u] = "pop" => fl[u].head # b
    BY <2>2 DEF F!Referrers, F!Refers
  <2>4. fpc[u] \in {"ready", "push"} => fl[u].node # b
    BY <2>2 DEF F!Bearers, F!Bears, F!Adders, F!Adds
  <2> QED
    BY <1>4, <2>1, <2>3, <2>4 DEF F!Sound, F!null
<1>14. fl' = [fl EXCEPT ![t] = l]
  BY <1>1, <1>2, FreeThread
<1> QED
  BY <1>2, <1>3, <1>4, <1>8, <1>9, <1>10, <1>12, <1>13, <1>14, FreeRelink

LEMMA FreePush ==
  ASSUME F!IInv, NEW t \in QBlock, F!Push(t)
  PROVE  F!IInv'
<1>1. PICK b : b = fl[t].node
  OBVIOUS
<1>2. /\ b \in F!Block /\ fpc[t] = "push" /\ fl[t].node = b /\ fl[t].seen = freeListNext[b]
      /\ UNCHANGED <<initialBlockPoolIndex, blocksMade, freeListRefs, freeListNext, held>>
  BY <1>1, FreeThread DEF F!Push, F!At, F!Sound, F!null, F!pool
<1>3. /\ initialBlockPoolIndex' \in Nat
      /\ freeListHead \in F!Block \cup {-1} /\ freeListNext \in [F!Block -> F!Block \cup {-1}]
  BY <1>2, FreeFacts
<1>4. CASE freeListHead = fl[t].seen
  <2>1. freeListHead' = b /\ F!Leave(t)
    BY <1>1, <1>4 DEF F!Push
  <2>2. PICK to \in Away \cap FreePlaces : \E l \in FreeLocal :
          fpc' = [fpc EXCEPT ![t] = to] /\ fl' = [fl EXCEPT ![t] = l] /\ F!Sound(to, l)
    BY <2>1, LeaveIs
  <2>3. PICK l \in FreeLocal :
          fpc' = [fpc EXCEPT ![t] = to] /\ fl' = [fl EXCEPT ![t] = l] /\ F!Sound(to, l)
    BY <2>2
  <2>4. to \in Away /\ to \in FreePlaces
    OBVIOUS
  <2>5. F!Sound(to, l)'
    BY <1>2, <2>3 DEF F!Sound
  <2>6. t \in F!Bearers(b)
    BY <1>1, <1>2 DEF F!Bearers, F!Bears
  <2>7. /\ b \notin F!OnList
        /\ F!Placed(freeListRefs[b], F!Cardinality(F!Referrers(b)), F!Fresh(b), TRUE,
                    F!Users(b), F!Bearers(b) \ {t}, F!Adders(b))
    <3>1. /\ F!Placed(freeListRefs[b], F!Cardinality(F!Referrers(b)), F!Fresh(b), b \in F!OnList,
                      F!Users(b), F!Bearers(b), F!Adders(b))
          /\ freeListRefs[b] \in Int /\ F!Cardinality(F!Referrers(b)) \in Nat
          /\ FewEnough(F!Cardinality(F!Referrers(b))) /\ F!SHOULD_BE_ON_FREELIST \in Nat
          /\ F!Fresh(b) \in BOOLEAN /\ (b \in F!OnList) \in BOOLEAN
      BY <1>2, FreePlaced
    <3>2. PICK r, n, fresh, on, us, bs, ads :
             /\ r = freeListRefs[b] /\ n = F!Cardinality(F!Referrers(b)) /\ fresh = F!Fresh(b)
             /\ on = (b \in F!OnList) /\ us = F!Users(b) /\ bs = F!Bearers(b) /\ ads = F!Adders(b)
      OBVIOUS
    <3>3. /\ F!Placed(r, n, fresh, on, us, bs, ads)
          /\ r \in Int /\ n \in Nat /\ FewEnough(n) /\ F!SHOULD_BE_ON_FREELIST \in Nat
          /\ fresh \in BOOLEAN /\ on \in BOOLEAN /\ t \in bs
      BY <2>6, <3>1, <3>2
    <3>4. ~ fresh /\ ~ on /\ us = {} /\ bs = {t} /\ ads = {} /\ r = n + 1
      BY <3>3 DEF F!Placed
    <3>5. bs \ {t} = {}
      BY <3>4
    <3>6. ~ on /\ F!Placed(r, n, fresh, TRUE, us, bs \ {t}, ads)
      BY <3>3, <3>4, <3>5 DEF F!Placed
    <3> QED
      BY <3>2, <3>6
  <2>8. F!OnList' = F!OnList \cup {b}
    <3>1. -1 \notin F!Block /\ freeListNext' = freeListNext /\ freeListNext[b] = freeListHead
      BY <1>2, <1>4, FreeNumbers
    <3>2. Reached(F!Block, freeListNext, b, -1)
            = Reached(F!Block, freeListNext, freeListHead, -1) \cup {b}
      BY <1>2, <1>3, <3>1, ReachedPushed
    <3> QED
      BY <2>1, <3>1, <3>2, OnListIs
  <2>9. F!ListInv'
    <3>1. freeListNext[b] = freeListHead /\ freeListNext' = freeListNext /\ freeListHead' = b
      BY <1>2, <1>4, <2>1
    <3>2. /\ \A p \in F!OnList : freeListNext[p] # freeListHead /\ freeListNext[p] # b
          /\ freeListHead # b
          /\ \A p, q \in F!OnList : freeListNext[p] = freeListNext[q] => p = q
      BY <1>2, <2>7, OnListFacts, FreeNumbers
    <3>3. \A p \in F!OnList \cup {b} : freeListNext[p] # b
      BY <3>1, <3>2
    <3>4. \A p, q \in F!OnList \cup {b} : freeListNext[p] = freeListNext[q] => p = q
      BY <3>1, <3>2
    <3> QED
      BY <2>8, <3>1, <3>3, <3>4 DEF F!ListInv
  <2>10. freeListHead' \in F!Block \cup {-1} /\ freeListNext' \in [F!Block -> F!Block \cup {-1}]
    BY <1>2, <1>3, <2>1
  <2>11. \A c \in F!Block \ {b} : /\ c \in F!OnList' <=> c \in F!OnList
                                  /\ SameFor(c, t, to, l, held[t])
    BY <1>2, <2>4, <2>8, AwayRoles DEF SameFor, F!Refers, F!Bears, F!Adds
  <2>12. /\ Put(F!Referrers(b), t, F!Refers(to, l, b)) = F!Referrers(b)
         /\ Put(F!Bearers(b), t, F!Bears(to, l, b)) = F!Bearers(b) \ {t}
         /\ Put(F!Adders(b), t, F!Adds(to, l, b)) = F!Adders(b)
    BY <1>2, <2>4, AwayRoles DEF Put, F!Referrers, F!Refers, F!Adders, F!Adds
  <2>13. F!Placed(freeListRefs[b], F!Cardinality(Put(F!Referrers(b), t, F!Refers(to, l, b))),
                  F!Fresh(b), b \in F!OnList', F!Users(b),
                  Put(F!Bearers(b), t, F!Bears(to, l, b)), Put(F!Adders(b), t, F!Adds(to, l, b)))
    BY <2>7, <2>8, <2>12 DEF F!Placed
  <2>14. \A u \in QBlock \ {t} :
            /\ fpc[u] = "pop" => fl[u].next = freeListNext'[fl[u].head]
            /\ fpc[u] \in {"ready", "push"} => fl[u].seen = freeListNext'[fl[u].node]
    BY <1>2, FreeFacts DEF F!Sound
  <2> QED
    BY <1>2, <2>3, <2>4, <2>5, <2>9, <2>10, <2>11, <2>13, <2>14, FreeRelink
<1>5. CASE freeListHead # fl[t].seen
  <2>1. PICK l : l = [fl[t] EXCEPT !.seen = freeListHead]
    OBVIOUS
  <2>2. /\ fpc' = [fpc EXCEPT ![t] = "defer"] /\ fl' = [fl EXCEPT ![t] = l]
        /\ UNCHANGED freeListHead
    BY <1>5, <2>1 DEF F!Push, F!Goto, F!Keep
  <2>3. l \in FreeLocal /\ l.node = b
    BY <1>2, <1>3, <2>1, FreeThread DEF FreeLocal
  <2>4. F!Sound("defer", l) /\ "defer" \in FreePlaces
    BY <1>2, <2>3, FreeNumbers DEF F!Sound, FreePlaces
  <2>5. \A c \in F!Block : SameFor(c, t, "defer", l, held[t])
    BY <1>2, <2>3 DEF SameFor, F!Refers, F!Bears, F!Adds
  <2> QED
    BY <1>2, <1>3, <2>2, <2>3, <2>4, <2>5, FreeLook
<1> QED
  BY <1>4, <1>5

-----------------------------------------------------------------------------
(* The invariant of the free list, and what it says.                        *)

LEMMA FreeInit ==
  ASSUME F!Init
  PROVE  F!IInv
<1>1. /\ freeListHead = -1 /\ freeListRefs = [b \in F!Block |-> 0]
      /\ freeListNext = [b \in F!Block |-> -1]
      /\ initialBlockPoolIndex = 0 /\ blocksMade = PoolSize /\ held = [t \in QBlock |-> {}]
      /\ fpc = [t \in QBlock |-> "idle"] /\ fl = [t \in QBlock |-> F!NoLocals]
  BY FreeNumbers DEF F!Init
<1>2. F!TypeOK
  <2>1. /\ freeListHead \in F!Block \cup {-1} /\ freeListNext \in [F!Block -> F!Block \cup {-1}]
        /\ initialBlockPoolIndex \in Nat /\ held \in [QBlock -> SUBSET F!Block]
    BY <1>1
  <2>2. blocksMade \in PoolSize .. MaxBlocks
    BY <1>1, FreeNumbers
  <2>3. freeListRefs \in [F!Block -> 0 .. 2 * F!SHOULD_BE_ON_FREELIST]
    BY <1>1, FewThreads
  <2>4. fpc \in [QBlock -> FreePlaces] /\ fl \in [QBlock -> FreeLocal]
    BY <1>1, NoLocalsLocal DEF FreePlaces
  <2> QED
    BY <2>1, <2>2, <2>3, <2>4 DEF F!TypeOK, F!null, FreePlaces, FreeLocal
<1>3. F!OnList = {}
  <2>0. freeListHead \in F!Block \cup {-1} /\ freeListNext \in [F!Block -> F!Block \cup {-1}]
    BY <1>1
  <2>1. \A S \in SUBSET F!Block :
           (\A q \in S : freeListNext[q] \in S \cup {-1}) /\ {freeListHead} \ {-1} \subseteq S
             => Reached(F!Block, freeListNext, freeListHead, -1) \subseteq S
    BY <2>0, ReachedFacts
  <2>2. Reached(F!Block, freeListNext, freeListHead, -1) \subseteq {}
    BY <1>1, <2>1
  <2> QED
    BY <2>2, OnListIs
<1>4. \A b \in F!Block : F!BlockInv(b)
  <2> SUFFICES ASSUME NEW b \in F!Block
               PROVE  F!BlockInv(b)
    OBVIOUS
  <2>1. /\ F!Users(b) = {} /\ F!Referrers(b) = {} /\ F!Bearers(b) = {} /\ F!Adders(b) = {}
    BY <1>1 DEF F!Users, F!Referrers, F!Refers, F!Bearers, F!Bears, F!Adders, F!Adds
  <2>2. F!Cardinality(F!Referrers(b)) = 0
    BY <2>1, FewThreads
  <2>3. F!Fresh(b) /\ freeListRefs[b] = 0
    BY <1>1, FreeNumbers DEF F!Fresh
  <2> QED
    BY <1>3, <2>1, <2>2, <2>3 DEF F!BlockInv, F!Placed
<1>5. \A t \in QBlock : F!Sound(fpc[t], fl[t])
  BY <1>1 DEF F!Sound
<1>6. F!ListInv
  BY <1>3 DEF F!ListInv
<1> QED
  BY <1>2, <1>4, <1>5, <1>6 DEF F!IInv

LEMMA FreeStep ==
  ASSUME F!IInv, F!Next
  PROVE  F!IInv'
<1>1. PICK t \in QBlock : F!Requisition(t) \/ F!Add(t) \/ F!Step(t)
  BY DEF F!Next
<1>2. CASE F!Requisition(t) \/ F!Add(t)
  BY <1>2, FreeRequisition, FreeAdd
<1>3. CASE F!Step(t)
  <2>1. CASE F!TakeFromPool(t) \/ F!Create(t)
    BY <2>1, FreeTakeFromPool, FreeCreate
  <2>2. CASE F!GetStep(t)
    BY <2>2, FreeLoadHead, FreeLoadRefs, FreeRef, FreeLoadNext, FreePop, FreeTaken, FreeUnref
       DEF F!GetStep
  <2>3. CASE F!AddStep(t)
    BY <2>3, FreeLoadSeen, FreeLink, FreeReady, FreePush, FreeDefer DEF F!AddStep
  <2> QED
    BY <1>3, <2>1, <2>2, <2>3 DEF F!Step
<1> QED
  BY <1>1, <1>2, <1>3

LEMMA FreeSame ==
  ASSUME F!IInv, UNCHANGED F!vars
  PROVE  F!IInv'
<1>1. UNCHANGED <<freeListHead, freeListRefs, freeListNext, initialBlockPoolIndex, blocksMade,
                  held, fpc, fl>>
  BY DEF F!vars, F!pool, F!list
<1>2. F!TypeOK'
  BY <1>1 DEF F!IInv, F!TypeOK, F!null
<1>3. F!OnList' = F!OnList
  BY <1>1, OnListIs
<1>4. \A b \in F!Block : F!BlockInv(b)'
  <2> SUFFICES ASSUME NEW b \in F!Block
               PROVE  F!BlockInv(b)'
    OBVIOUS
  <2>1. /\ F!Users(b)' = F!Users(b) /\ F!Referrers(b)' = F!Referrers(b)
        /\ F!Bearers(b)' = F!Bearers(b) /\ F!Adders(b)' = F!Adders(b)
        /\ F!Fresh(b)' = F!Fresh(b)
    BY <1>1 DEF F!Users, F!Referrers, F!Bearers, F!Adders, F!Fresh
  <2> QED
    BY <1>1, <1>3, <2>1 DEF F!IInv, F!BlockInv
<1>5. \A t \in QBlock : F!Sound(fpc[t], fl[t])'
  BY <1>1 DEF F!IInv, F!Sound
<1>6. F!ListInv'
  BY <1>1, <1>3 DEF F!IInv, F!ListInv
<1> QED
  BY <1>2, <1>4, <1>5, <1>6 DEF F!IInv

LEMMA FreeListIsExact ==
  ASSUME F!IInv
  PROVE  F!OneUser /\ F!NothingLost
<1>1. ASSUME NEW t \in QBlock, NEW u \in QBlock, t # u
      PROVE  held[t] \cap held[u] = {}
  <2> SUFFICES ASSUME NEW b \in held[t] \cap held[u]
               PROVE  FALSE
    OBVIOUS
  <2>1. b \in F!Block
    BY FreeThread
  <2>2. t \in F!Users(b) /\ u \in F!Users(b)
    BY DEF F!Users
  <2>3. F!Placed(freeListRefs[b], F!Cardinality(F!Referrers(b)), F!Fresh(b), b \in F!OnList,
                 F!Users(b), F!Bearers(b), F!Adders(b))
    BY <2>1, FreePlaced
  <2> QED
    BY <1>1, <2>2, <2>3 DEF F!Placed
<1>2. ASSUME NEW t \in QBlock
      PROVE  held[t] \cap F!OnList = {}
  <2> SUFFICES ASSUME NEW b \in held[t] \cap F!OnList
               PROVE  FALSE
    OBVIOUS
  <2>1. b \in F!Block /\ b \in F!OnList
    BY FreeThread
  <2>2. t \in F!Users(b)
    BY DEF F!Users
  <2>3. F!Placed(freeListRefs[b], F!Cardinality(F!Referrers(b)), F!Fresh(b), b \in F!OnList,
                 F!Users(b), F!Bearers(b), F!Adders(b))
    BY <2>1, FreePlaced
  <2> QED
    BY <2>1, <2>2, <2>3 DEF F!Placed
<1>3. ASSUME NEW t \in QBlock, fpc[t] = "taken"
      PROVE  freeListRefs[fl[t].head] < F!SHOULD_BE_ON_FREELIST
  <2>1. PICK b : b = fl[t].head
    OBVIOUS
  <2>2. b \in F!Block
    BY <1>3, <2>1, FreeThread DEF F!Sound, F!null
  <2>3. t \in F!Bearers(b)
    BY <1>3, <2>1 DEF F!Bearers, F!Bears
  <2>4. /\ F!Placed(freeListRefs[b], F!Cardinality(F!Referrers(b)), F!Fresh(b), b \in F!OnList,
                    F!Users(b), F!Bearers(b), F!Adders(b))
        /\ freeListRefs[b] \in Int /\ F!Cardinality(F!Referrers(b)) \in Nat
        /\ FewEnough(F!Cardinality(F!Referrers(b))) /\ F!SHOULD_BE_ON_FREELIST \in Nat
    BY <2>2, FreePlaced
  <2>5. freeListRefs[b] = F!Cardinality(F!Referrers(b)) + 1
    BY <2>3, <2>4 DEF F!Placed
  <2>6. freeListRefs[b] < F!SHOULD_BE_ON_FREELIST
    BY <2>4, <2>5 DEF FewEnough
  <2> QED
    BY <2>1, <2>6
<1>4. ASSUME \A t \in QBlock : fpc[t] = "idle", NEW b \in 0 .. blocksMade - 1
      PROVE  \/ b \in initialBlockPoolIndex .. PoolSize - 1
             \/ (\E t \in QBlock : b \in held[t]) /\ freeListRefs[b] = 0
             \/ b \in F!OnList /\ freeListRefs[b] = 1
  <2>1. b \in F!Block /\ ~ b >= blocksMade
    BY FreeFacts, FreeNumbers
  <2>2. F!Referrers(b) = {} /\ F!Bearers(b) = {} /\ F!Adders(b) = {}
    BY <1>4 DEF F!Referrers, F!Refers, F!Bearers, F!Bears, F!Adders, F!Adds
  <2>3. F!Cardinality(F!Referrers(b)) = 0
    BY <2>2, FewThreads
  <2>4. F!Placed(freeListRefs[b], F!Cardinality(F!Referrers(b)), F!Fresh(b), b \in F!OnList,
                 F!Users(b), F!Bearers(b), F!Adders(b))
    BY <2>1, FreePlaced
  <2>5. \/ F!Fresh(b)
        \/ b \in F!OnList /\ freeListRefs[b] = 1
        \/ \E t \in QBlock : F!Users(b) = {t} /\ freeListRefs[b] = 0
    BY <2>2, <2>3, <2>4 DEF F!Placed
  <2>6. F!Fresh(b) => b \in initialBlockPoolIndex .. PoolSize - 1
    BY <2>1 DEF F!Fresh
  <2>7. \A t \in QBlock : F!Users(b) = {t} => b \in held[t]
    BY DEF F!Users
  <2> QED
    BY <2>5, <2>6, <2>7
<1>5. F!OneUser
  BY <1>1, <1>2, <1>3 DEF F!OneUser, F!At
<1>6. F!NothingLost
  BY <1>4 DEF F!NothingLost, F!At
<1> QED
  BY <1>5, <1>6

\* A block has one user, is not on the free list meanwhile, and none is lost,
\* however many threads take blocks and give them back (FreeList).
THEOREM BlocksHaveOnePlace == Spec => []FreeListExact
<1> DEFINE I0 == kind = "freeList" => F!IInv
<1>1. Init => I0
  BY FreeInit DEF Init
<1>2. I0 /\ [Next]_vars => I0'
  <2> SUFFICES ASSUME kind' = "freeList", I0, [Next]_vars PROVE F!IInv'
    OBVIOUS
  <2>1. kind = "freeList" /\ F!IInv /\ (F!Next \/ UNCHANGED F!vars)
    BY DEF Next, vars, freeListVars, F!vars, F!pool, F!list
  <2> QED
    BY <2>1, FreeStep, FreeSame
<1>3. I0 => FreeListExact
  BY FreeListIsExact DEF FreeListExact
<1> QED
  BY <1>1, <1>2, <1>3, PTL DEF Spec

-----------------------------------------------------------------------------
(* The indices of a sub-queue.                                              *)

LEMMA ModIs ==
  ASSUME NEW w \in Nat, w > 0, NEW q \in Int, NEW r \in 0 .. w - 1, NEW x \in Int, x = w * q + r
  PROVE  x % w = r
<1>1. PICK k \in Int : x = w * k + (x % w) /\ x % w \in 0 .. w - 1
  OBVIOUS
<1>2. w * (k - q) = r - (x % w)
  BY <1>1
<1>3. ~ k - q >= 1
  <2> SUFFICES ASSUME k - q >= 1 PROVE FALSE
    OBVIOUS
  <2>1. w * (k - q) >= w
    OBVIOUS
  <2> QED
    BY <1>1, <1>2, <2>1
<1>4. ~ q - k >= 1
  <2> SUFFICES ASSUME q - k >= 1 PROVE FALSE
    OBVIOUS
  <2>1. w * (q - k) >= w /\ w * (q - k) = (x % w) - r
    BY <1>1, <1>2
  <2> QED
    BY <1>1, <2>1
<1> QED
  BY <1>1, <1>3, <1>4

LEMMA WrapNumbers ==
  /\ IsFiniteSet(Consumer) /\ MaxBulk \in Nat /\ MaxItems \in Nat /\ MaxOvercommit \in Nat
  /\ Wrap \in Nat /\ Wrap > 0 /\ Wrap \div 2 \in Nat /\ Wrap - 1 >= (Wrap \div 2)
  /\ Wrap - (Wrap \div 2) >= (Wrap \div 2)
  /\ Starts \subseteq Index
  /\ MaxBulk * Cardinality(Consumer) \in Nat
  /\ MaxItems + MaxOvercommit + (MaxBulk * Cardinality(Consumer))
        + (MaxBulk * Cardinality(Consumer)) < Wrap \div 2
<1>1. /\ IsFiniteSet(Consumer) /\ MaxBulk \in Nat /\ MaxItems \in Nat /\ MaxOvercommit \in Nat
      /\ Wrap \in Nat /\ Starts \subseteq Index
      /\ MaxItems + MaxOvercommit + 2 * (MaxBulk * Cardinality(Consumer)) < Wrap \div 2
  BY QueuesAssumption DEF CountsAssumption, Index
<1>2. Cardinality(Consumer) \in Nat
  BY <1>1, FS_CardinalityType
<1>3. PICK n : n = MaxBulk * Cardinality(Consumer)
  OBVIOUS
<1>4. n \in Nat
  BY <1>1, <1>2, <1>3
<1>5. MaxItems + MaxOvercommit + 2 * n < Wrap \div 2
  BY <1>1, <1>3
<1>6. /\ MaxItems + MaxOvercommit + n + n < Wrap \div 2
      /\ Wrap > 0 /\ Wrap \div 2 \in Nat /\ Wrap - 1 >= (Wrap \div 2)
      /\ Wrap - (Wrap \div 2) >= (Wrap \div 2)
  BY <1>1, <1>4, <1>5
<1> QED
  BY <1>1, <1>3, <1>4, <1>6

\* Whatever differs from an index by a multiple of Wrap wraps to it.
LEMMA WrapIs ==
  ASSUME NEW q \in Int, NEW r \in Index, NEW x \in Int, x = Wrap * q + r
  PROVE  x % Wrap = r
<1>1. Wrap \in Nat /\ Wrap > 0
  BY WrapNumbers
<1>2. r \in 0 .. Wrap - 1
  BY DEF Index
<1> QED
  BY <1>1, <1>2, ModIs

LEMMA WrapOf ==
  ASSUME NEW x \in Int
  PROVE  \E k \in Int : x = Wrap * k + (x % Wrap) /\ x % Wrap \in Index
<1>1. Wrap \in Nat /\ Wrap > 0
  BY WrapNumbers
<1> QED
  BY <1>1 DEF Index

LEMMA MinusOf ==
  ASSUME NEW x \in Int, NEW y \in Int
  PROVE  /\ \E k \in Int : x = y + Wrap * k + Minus(x, y)
         /\ Minus(x, y) \in Index /\ Minus(x, y) \in Int
<1>1. PICK d \in Int : d = x - y
  OBVIOUS
<1>2. PICK k \in Int : d = Wrap * k + (d % Wrap) /\ d % Wrap \in Index
  BY WrapOf
<1>3. Minus(x, y) = d % Wrap
  BY <1>1 DEF Minus
<1>4. Minus(x, y) \in Index /\ Minus(x, y) \in Int
  BY <1>2, <1>3, WrapNumbers DEF Index
<1>5. PICK p : p = Wrap * k
  OBVIOUS
<1>6. p \in Int
  BY <1>5, WrapNumbers
<1>7. x = y + p + Minus(x, y)
  BY <1>1, <1>2, <1>3, <1>4, <1>5, <1>6
<1> QED
  BY <1>4, <1>5, <1>7

\* An index moves on: so does its distance from the start.
LEMMA PlusMinus ==
  ASSUME NEW x \in Int, NEW s \in Int, NEW a \in Int, Minus(x, s) + a \in Index
  PROVE  Minus(Plus(x, a), s) = Minus(x, s) + a /\ Plus(x, a) \in Index
<1>1. PICK k \in Int : x = s + Wrap * k + Minus(x, s)
  BY MinusOf
<1>2. PICK y \in Int : y = x + a
  OBVIOUS
<1>3. PICK l \in Int : y = Wrap * l + (y % Wrap) /\ y % Wrap \in Index
  BY WrapOf
<1>4. PICK i : i = Plus(x, a)
  OBVIOUS
<1>5. i = y % Wrap /\ i \in Index /\ i \in Int
  BY <1>2, <1>3, <1>4, WrapNumbers DEF Plus, Index
<1>6. PICK m \in Index : m = Minus(x, s) + a
  OBVIOUS
<1>7. PICK z \in Int : z = i - s
  BY <1>5
<1>8. m \in Int /\ Wrap \in Int
  BY WrapNumbers DEF Index
<1>9. Minus(x, s) \in Int
  BY MinusOf
<1>10. z = Wrap * (k - l) + m
  <2>1. PICK p, q : p = Wrap * k /\ q = Wrap * l
    OBVIOUS
  <2>2. p \in Int /\ q \in Int /\ Wrap * (k - l) = p - q
    BY <1>8, <2>1
  <2>3. x = s + p + Minus(x, s) /\ y = q + i
    BY <1>1, <1>3, <1>5, <2>1
  <2> QED
    BY <1>2, <1>5, <1>6, <1>7, <1>8, <1>9, <2>2, <2>3
<1>11. PICK n \in Int : n = k - l
  OBVIOUS
<1>12. z % Wrap = m
  BY <1>10, <1>11, WrapIs
<1> QED
  BY <1>4, <1>5, <1>6, <1>7, <1>12 DEF Minus

\* The items that are there for a reservation, as the code computes them.
LEMMA ThereIs ==
  ASSUME NEW t \in Int, NEW m \in Int, NEW o \in Int, NEW s \in Int
  PROVE  Minus(t, m - o) = (Minus(t, s) - Minus(m, s + s) + Minus(o, s)) % Wrap
<1>1. PICK i \in Int : t = s + Wrap * i + Minus(t, s)
  BY MinusOf
<1>2. PICK v \in Int : v = s + s
  OBVIOUS
<1>3. PICK j \in Int : m = v + Wrap * j + Minus(m, v)
  BY MinusOf
<1>4. PICK k \in Int : o = s + Wrap * k + Minus(o, s)
  BY MinusOf
<1>5. PICK x, y, z : x = Minus(t, s) /\ y = Minus(m, v) /\ z = Minus(o, s)
  OBVIOUS
<1>6. x \in Int /\ y \in Int /\ z \in Int
  BY <1>5, MinusOf
<1>7. PICK d \in Int : d = x - y + z
  BY <1>6
<1>8. PICK l \in Int : d = Wrap * l + (d % Wrap) /\ d % Wrap \in Index
  BY WrapOf
<1>9. PICK r : r = d % Wrap
  OBVIOUS
<1>10. r \in Index /\ r \in Int
  BY <1>8, <1>9, WrapNumbers DEF Index
<1>11. PICK e \in Int : e = t - (m - o)
  OBVIOUS
<1>12. PICK n \in Int : n = i - j + k + l
  OBVIOUS
<1>13. e = Wrap * n + r
  <2>1. PICK p, q, u, w : p = Wrap * i /\ q = Wrap * j /\ u = Wrap * k /\ w = Wrap * l
    OBVIOUS
  <2>2. p \in Int /\ q \in Int /\ u \in Int /\ w \in Int /\ Wrap * n = p - q + u + w
    BY <1>12, <2>1, WrapNumbers
  <2>3. t = s + p + x /\ m = v + q + y /\ o = s + u + z /\ d = w + r
    BY <1>1, <1>3, <1>4, <1>5, <1>8, <1>9, <2>1
  <2> QED
    BY <1>2, <1>6, <1>7, <1>10, <1>11, <2>2, <2>3
<1>14. e % Wrap = r
  BY <1>10, <1>13, WrapIs
<1> QED
  BY <1>2, <1>5, <1>7, <1>9, <1>11, <1>14 DEF Minus

\* A difference that is less than half way round has its sign.
LEMMA SignIs ==
  ASSUME NEW d \in Int, d < Wrap \div 2, -d < Wrap \div 2
  PROVE  /\ d > 0 => d % Wrap = d /\ Less(0, d % Wrap)
         /\ d <= 0 => ~ Less(0, d % Wrap)
<1>1. ASSUME d > 0 PROVE d % Wrap = d /\ Less(0, d % Wrap)
  <2>1. d \in Index /\ d = Wrap * 0 + d /\ 0 \in Int
    BY <1>1, WrapNumbers DEF Index
  <2>2. d % Wrap = d
    BY <2>1, WrapIs
  <2>3. PICK e \in Int : e = 0 - d
    OBVIOUS
  <2>4. PICK r \in Index : r = Wrap - d
    BY <1>1, <2>1, WrapNumbers DEF Index
  <2>5. e = Wrap * (-1) + r /\ -1 \in Int
    BY <2>3, <2>4, WrapNumbers DEF Index
  <2>6. e % Wrap = r
    BY <2>5, WrapIs
  <2>7. r > Wrap \div 2
    BY <1>1, <2>4, WrapNumbers
  <2> QED
    BY <2>2, <2>3, <2>6, <2>7 DEF Less
<1>2. ASSUME d <= 0 PROVE ~ Less(0, d % Wrap)
  <2>1. PICK k \in Int : d = Wrap * k + (d % Wrap) /\ d % Wrap \in Index
    BY WrapOf
  <2>2. PICK r : r = d % Wrap
    OBVIOUS
  <2>3. r \in Index /\ r \in Int
    BY <2>1, <2>2, WrapNumbers DEF Index
  <2>4. PICK e \in Int : e = 0 - r
    BY <2>3
  <2>5. PICK m \in Index : m = -d
    BY <1>2, WrapNumbers DEF Index
  <2>6. e = Wrap * k + m
    <3>1. PICK p : p = Wrap * k
      OBVIOUS
    <3>2. p \in Int
      BY <3>1, WrapNumbers
    <3> QED
      BY <2>1, <2>2, <2>3, <2>4, <2>5, <3>1, <3>2
  <2>7. e % Wrap = m
    BY <2>6, WrapIs
  <2> QED
    BY <2>2, <2>4, <2>5, <2>7, WrapNumbers DEF Less
<1> QED
  BY <1>1, <1>2

\* No reservation is under way: the counts meet at the head.
LEMMA CountsMeet ==
  ASSUME NEW p \in Int, NEW o \in Int, NEW h \in Index, NEW s \in Int,
         Minus(p, s + s) = Minus(o, s) + Minus(h, s)
  PROVE  Minus(p, o) = h
<1>0. PICK v \in Int : v = s + s
  OBVIOUS
<1>1. PICK i \in Int : p = v + Wrap * i + Minus(p, v)
  BY MinusOf
<1>2. PICK j \in Int : o = s + Wrap * j + Minus(o, s)
  BY MinusOf
<1>3. h \in Int
  BY WrapNumbers DEF Index
<1>4. PICK k \in Int : h = s + Wrap * k + Minus(h, s)
  BY <1>3, MinusOf
<1>5. PICK x, y, z : x = Minus(p, v) /\ y = Minus(o, s) /\ z = Minus(h, s)
  OBVIOUS
<1>6. x \in Int /\ y \in Int /\ z \in Int /\ x = y + z
  BY <1>0, <1>3, <1>5, MinusOf
<1>7. PICK e \in Int : e = p - o
  OBVIOUS
<1>8. PICK n \in Int : n = i - j - k
  OBVIOUS
<1>9. e = Wrap * n + h
  <2>1. PICK a, b, c : a = Wrap * i /\ b = Wrap * j /\ c = Wrap * k
    OBVIOUS
  <2>2. a \in Int /\ b \in Int /\ c \in Int /\ Wrap * n = a - b - c
    BY <1>8, <2>1, WrapNumbers
  <2>3. p = v + a + x /\ o = s + b + y /\ h = s + c + z
    BY <1>1, <1>2, <1>4, <1>5, <2>1
  <2> QED
    BY <1>0, <1>3, <1>6, <1>7, <2>2, <2>3
<1>10. e % Wrap = h
  BY <1>9, WrapIs
<1> QED
  BY <1>7, <1>10 DEF Minus

-----------------------------------------------------------------------------
(* Sums over the consumers.                                                 *)

LEMMA UnitsFinite ==
  ASSUME NEW f
  PROVE  /\ IsFiniteSet(Consumer \X (1 .. MaxBulk))
         /\ Cardinality(Consumer \X (1 .. MaxBulk)) = MaxBulk * Cardinality(Consumer)
         /\ IsFiniteSet(Units(f)) /\ Sum(f) \in Nat
         /\ Sum(f) <= MaxBulk * Cardinality(Consumer)
<1>1. IsFiniteSet(1 .. MaxBulk) /\ Cardinality(1 .. MaxBulk) = MaxBulk
  BY WrapNumbers, FS_Interval
<1>2. /\ IsFiniteSet(Consumer \X (1 .. MaxBulk))
      /\ Cardinality(Consumer \X (1 .. MaxBulk)) = Cardinality(Consumer) * Cardinality(1 .. MaxBulk)
  BY <1>1, WrapNumbers, FS_Product
<1>3. Cardinality(Consumer) \in Nat
  BY WrapNumbers, FS_CardinalityType
<1>4. Cardinality(Consumer \X (1 .. MaxBulk)) = MaxBulk * Cardinality(Consumer)
  BY <1>1, <1>2, <1>3, WrapNumbers
<1>5. Units(f) \subseteq Consumer \X (1 .. MaxBulk)
  BY DEF Units
<1>6. /\ IsFiniteSet(Units(f))
      /\ Cardinality(Units(f)) <= Cardinality(Consumer \X (1 .. MaxBulk))
  BY <1>2, <1>5, FS_Subset
<1>7. Cardinality(Units(f)) \in Nat
  BY <1>6, FS_CardinalityType
<1> QED
  BY <1>2, <1>4, <1>6, <1>7 DEF Sum

\* A sum is one summand and the rest.
LEMMA CountSplit ==
  ASSUME NEW f \in [Consumer -> 0 .. MaxBulk], NEW x \in Consumer
  PROVE  /\ Sum(f) = Cardinality({u \in Units(f) : u[1] # x}) + f[x]
         /\ Cardinality({u \in Units(f) : u[1] # x}) \in Nat
<1> DEFINE rest == {u \in Units(f) : u[1] # x}
           column == {x} \X (1 .. f[x])
<1>1. f[x] \in 0 .. MaxBulk /\ f[x] \in Nat
  BY WrapNumbers
<1>2. IsFiniteSet(column) /\ Cardinality(column) = f[x]
  <2>1. IsFiniteSet({x}) /\ Cardinality({x}) = 1
    BY FS_Singleton
  <2>2. IsFiniteSet(1 .. f[x]) /\ Cardinality(1 .. f[x]) = f[x]
    BY <1>1, FS_Interval
  <2>3. IsFiniteSet(column) /\ Cardinality(column) = Cardinality({x}) * Cardinality(1 .. f[x])
    BY <2>1, <2>2, FS_Product
  <2>4. 1 * f[x] = f[x]
    BY <1>1
  <2> QED
    BY <2>1, <2>2, <2>3, <2>4
<1>3. IsFiniteSet(rest)
  BY UnitsFinite, FS_Subset
<1>4. Units(f) = rest \cup column
  <2>1. ASSUME NEW u \in Units(f) PROVE u \in rest \cup column
    <3>1. u \in Consumer \X (1 .. MaxBulk) /\ u[2] <= f[u[1]]
      BY DEF Units
    <3> QED
      BY <1>1, <3>1
  <2>2. ASSUME NEW i \in 1 .. f[x] PROVE << x, i >> \in Units(f)
    BY <1>1, WrapNumbers DEF Units
  <2> QED
    BY <2>1, <2>2
<1>5. rest \cap column = {}
  OBVIOUS
<1>6. Cardinality(rest) \in Nat
  BY <1>3, FS_CardinalityType
<1> HIDE DEF rest, column
<1>7. /\ Cardinality(rest \cup column)
           = Cardinality(rest) + Cardinality(column) - Cardinality(rest \cap column)
      /\ Cardinality(rest \cap column) = 0
  BY <1>2, <1>3, <1>5, FS_Union, FS_EmptySet
<1>8. Sum(f) = Cardinality(rest) + f[x]
  BY <1>1, <1>2, <1>4, <1>6, <1>7 DEF Sum
<1> QED
  BY <1>6, <1>8 DEF rest

\* One summand changes: so does the sum.
LEMMA CountChange ==
  ASSUME NEW f \in [Consumer -> 0 .. MaxBulk], NEW g \in [Consumer -> 0 .. MaxBulk],
         NEW x \in Consumer, \A y \in Consumer \ {x} : g[y] = f[y]
  PROVE  /\ Sum(g) = Sum(f) - f[x] + g[x]
         /\ Sum(f) \in Nat /\ Sum(g) \in Nat /\ f[x] \in Nat /\ g[x] \in Nat /\ f[x] <= Sum(f)
<1>1. {u \in Units(f) : u[1] # x} = {u \in Units(g) : u[1] # x}
  BY DEF Units
<1>2. f[x] \in Nat /\ g[x] \in Nat
  BY WrapNumbers
<1>3. PICK n : n = Cardinality({u \in Units(f) : u[1] # x})
  OBVIOUS
<1>4. Sum(f) = n + f[x] /\ n \in Nat
  BY <1>3, CountSplit
<1>5. Sum(g) = Cardinality({u \in Units(g) : u[1] # x}) + g[x]
  BY CountSplit
<1>6. Sum(g) = n + g[x]
  BY <1>1, <1>3, <1>5
<1> QED
  BY <1>2, <1>4, <1>6

LEMMA CountZero ==
  ASSUME NEW f \in [Consumer -> 0 .. MaxBulk], \A y \in Consumer : f[y] = 0
  PROVE  Sum(f) = 0
<1>1. Units(f) = {}
  BY DEF Units
<1> QED
  BY <1>1, FS_EmptySet DEF Sum

LEMMA CountMore ==
  ASSUME NEW f \in [Consumer -> 0 .. MaxBulk], NEW g \in [Consumer -> 0 .. MaxBulk],
         \A y \in Consumer : f[y] <= g[y]
  PROVE  Sum(f) <= Sum(g)
<1>1. Units(f) \subseteq Units(g)
  <2> SUFFICES ASSUME NEW u \in Units(f) PROVE u \in Units(g)
    OBVIOUS
  <2>1. u \in Consumer \X (1 .. MaxBulk) /\ u[2] <= f[u[1]]
    BY DEF Units
  <2>2. u[2] \in Int /\ f[u[1]] \in Int /\ g[u[1]] \in Int /\ f[u[1]] <= g[u[1]]
    BY <2>1, WrapNumbers
  <2> QED
    BY <2>1, <2>2 DEF Units
<1> QED
  BY <1>1, UnitsFinite, FS_Subset DEF Sum


-----------------------------------------------------------------------------
(* One step of a consumer, and what it does to the sums.                    *)

LEMMA SumsType ==
  CountsType =>
     /\ Pending \in [Consumer -> 0 .. MaxBulk]
     /\ Returnable \in [Consumer -> 0 .. MaxBulk]
     /\ \A k \in Int : Coming(k) \in [Consumer -> 0 .. MaxBulk]
<1> SUFFICES ASSUME CountsType
             PROVE  /\ Pending \in [Consumer -> 0 .. MaxBulk]
                    /\ Returnable \in [Consumer -> 0 .. MaxBulk]
                    /\ \A k \in Int : Coming(k) \in [Consumer -> 0 .. MaxBulk]
  OBVIOUS
<1>1. 0 \in 0 .. MaxBulk /\ MaxBulk \in 0 .. MaxBulk
  BY WrapNumbers
<1>2. ASSUME NEW c \in Consumer, cpc[c] \in CountPlaces
      PROVE  cl[c].desired \in 0 .. MaxBulk /\ cl[c].actual \in 0 .. MaxBulk
  BY <1>2 DEF CountsType, Counting
<1>3. ASSUME NEW c \in Consumer
      PROVE  (IF cpc[c] \in {"recheck", "give back"} THEN cl[c].desired
              ELSE IF cpc[c] = "claim" THEN cl[c].actual ELSE 0) \in 0 .. MaxBulk
  BY <1>1, <1>2 DEF CountPlaces
<1>4. ASSUME NEW c \in Consumer, NEW k \in Int
      PROVE  (IF cpc[c] \in {"give back", "claim"} THEN cl[c].actual
              ELSE IF cpc[c] = "recheck" /\ Mine(c) < k THEN cl[c].desired ELSE 0) \in 0 .. MaxBulk
  BY <1>1, <1>2 DEF CountPlaces
<1> QED
  BY <1>1, <1>3, <1>4 DEF Pending, Returnable, Coming

\* Consumer c goes to p, with l as what it knows.
Moves(c, p, l) ==
    /\ start' = start
    /\ cpc' = [cpc EXCEPT ![c] = p] /\ cl' = [cl EXCEPT ![c] = l]
    /\ p \in CountPlaces \cup OtherPlaces /\ (p \in CountPlaces => l \in Counting)
    /\ tailIndex' \in Index /\ headIndex' \in Index
    /\ dequeueOptimisticCount' \in Index /\ dequeueOvercommit' \in Index

LEMMA OneMoves ==
  ASSUME CountsType, NEW c \in Consumer, NEW p, NEW l, Moves(c, p, l)
  PROVE  /\ CountsType'
         /\ cpc'[c] = p /\ cl'[c] = l
         /\ \A d \in Consumer \ {c} : /\ cpc'[d] = cpc[d] /\ cl'[d] = cl[d]
                                      /\ Seen(d)' = Seen(d) /\ Mine(d)' = Mine(d)
<1>1. cpc \in [Consumer -> CountPlaces \cup OtherPlaces] /\ cl = [d \in Consumer |-> cl[d]]
  BY DEF CountsType
<1>2. /\ cpc'[c] = p /\ cl'[c] = l
      /\ \A d \in Consumer \ {c} : cpc'[d] = cpc[d] /\ cl'[d] = cl[d]
  BY <1>1 DEF Moves
<1>3. cpc' \in [Consumer -> CountPlaces \cup OtherPlaces] /\ cl' = [d \in Consumer |-> cl'[d]]
  BY <1>1 DEF Moves
<1>4. \A d \in Consumer : cpc'[d] \in CountPlaces => cl'[d] \in Counting
  BY <1>2 DEF Moves, CountsType
<1>5. CountsType'
  <2>1. start' \in Index
    BY DEF Moves, CountsType
  <2> QED
    BY <1>3, <1>4, <2>1 DEF Moves, CountsType
<1> QED
  BY <1>2, <1>5 DEF Moves, Seen, Mine

LEMMA SumsChange ==
  ASSUME CountsType, NEW c \in Consumer, NEW p, NEW l, Moves(c, p, l)
  PROVE  /\ Sum(Pending)' = Sum(Pending) - Pending[c] + Pending'[c]
         /\ Sum(Pending) \in Nat /\ Sum(Pending)' \in Nat /\ Pending[c] <= Sum(Pending)
         /\ Pending[c] \in Nat /\ Pending'[c] \in Nat
         /\ Sum(Pending)' <= MaxBulk * Cardinality(Consumer)
         /\ Sum(Returnable)' = Sum(Returnable) - Returnable[c] + Returnable'[c]
         /\ Sum(Returnable) \in Nat /\ Sum(Returnable)' \in Nat /\ Returnable[c] <= Sum(Returnable)
         /\ Returnable[c] \in Nat /\ Returnable'[c] \in Nat
         /\ Sum(Returnable)' <= MaxBulk * Cardinality(Consumer)
         /\ \A k \in Int :
              /\ Sum(Coming(k))' = Sum(Coming(k)) - Coming(k)[c] + Coming(k)'[c]
              /\ Sum(Coming(k)) \in Nat /\ Sum(Coming(k))' \in Nat
              /\ Coming(k)[c] \in Nat /\ Coming(k)'[c] \in Nat
              /\ Coming(k)[c] <= Sum(Coming(k))
<1>1. CountsType' /\ \A d \in Consumer \ {c} : /\ cpc'[d] = cpc[d] /\ cl'[d] = cl[d]
                                               /\ Mine(d)' = Mine(d)
  BY OneMoves
<1>2. (CountsType =>
     /\ Pending \in [Consumer -> 0 .. MaxBulk]
     /\ Returnable \in [Consumer -> 0 .. MaxBulk]
     /\ \A k \in Int : Coming(k) \in [Consumer -> 0 .. MaxBulk])'
  BY SumsType, PTL
<1>3. Sum(Pending)' = Sum(Pending') /\ Sum(Returnable)' = Sum(Returnable')
  BY DEF Sum, Units
<1>4. ASSUME NEW f \in [Consumer -> 0 .. MaxBulk], NEW g \in [Consumer -> 0 .. MaxBulk],
             \A y \in Consumer \ {c} : g[y] = f[y]
      PROVE  /\ Sum(g) = Sum(f) - f[c] + g[c]
             /\ Sum(f) \in Nat /\ Sum(g) \in Nat /\ f[c] \in Nat /\ g[c] \in Nat /\ f[c] <= Sum(f)
             /\ Sum(g) <= MaxBulk * Cardinality(Consumer)
  BY <1>4, CountChange, UnitsFinite
<1>5. \A y \in Consumer \ {c} : Pending'[y] = Pending[y] /\ Returnable'[y] = Returnable[y]
  BY <1>1 DEF Pending, Returnable
<1>6. ASSUME NEW k \in Int
      PROVE  /\ Sum(Coming(k))' = Sum(Coming(k)) - Coming(k)[c] + Coming(k)'[c]
             /\ Sum(Coming(k)) \in Nat /\ Sum(Coming(k))' \in Nat
             /\ Coming(k)[c] \in Nat /\ Coming(k)'[c] \in Nat
             /\ Coming(k)[c] <= Sum(Coming(k))
  <2>1. PICK f : f = Coming(k)
    OBVIOUS
  <2>2. PICK g : g = Coming(k)'
    OBVIOUS
  <2>3. f \in [Consumer -> 0 .. MaxBulk] /\ g \in [Consumer -> 0 .. MaxBulk]
    BY <1>1, <1>2, <2>1, <2>2, SumsType
  <2>4. \A y \in Consumer \ {c} : g[y] = f[y]
    BY <1>1, <2>1, <2>2 DEF Coming
  <2>5. Sum(Coming(k))' = Sum(g)
    BY <2>2 DEF Sum, Units
  <2> QED
    BY <1>4, <2>1, <2>2, <2>3, <2>4, <2>5
<1>7. PICK f1, f2 : f1 = Pending /\ f2 = Returnable
  OBVIOUS
<1>8. PICK g1, g2 : g1 = Pending' /\ g2 = Returnable'
  OBVIOUS
<1>9. /\ f1 \in [Consumer -> 0 .. MaxBulk] /\ g1 \in [Consumer -> 0 .. MaxBulk]
      /\ f2 \in [Consumer -> 0 .. MaxBulk] /\ g2 \in [Consumer -> 0 .. MaxBulk]
  BY <1>1, <1>2, <1>7, <1>8, SumsType
<1>10. \A y \in Consumer \ {c} : g1[y] = f1[y] /\ g2[y] = f2[y]
  BY <1>5, <1>7, <1>8
<1>11. /\ Sum(g1) = Sum(f1) - f1[c] + g1[c] /\ Sum(g1) <= MaxBulk * Cardinality(Consumer)
       /\ Sum(f1) \in Nat /\ Sum(g1) \in Nat /\ f1[c] \in Nat /\ g1[c] \in Nat /\ f1[c] <= Sum(f1)
  BY <1>4, <1>9, <1>10
<1>12. /\ Sum(g2) = Sum(f2) - f2[c] + g2[c] /\ Sum(g2) <= MaxBulk * Cardinality(Consumer)
       /\ Sum(f2) \in Nat /\ Sum(g2) \in Nat /\ f2[c] \in Nat /\ g2[c] \in Nat /\ f2[c] <= Sum(f2)
  BY <1>4, <1>9, <1>10
<1> QED
  BY <1>3, <1>6, <1>7, <1>8, <1>11, <1>12


\* The indices are less than half a round apart.
LEMMA CountsFacts ==
  ASSUME CountsInv
  PROVE  /\ CountsType /\ \A c \in Consumer : CallInv(c)
         /\ start \in Int /\ tailIndex \in Int /\ headIndex \in Int
         /\ dequeueOptimisticCount \in Int /\ dequeueOvercommit \in Int
         /\ Published \in Nat /\ Claimed \in Nat /\ GivenBack \in Nat /\ Reserved \in Nat
         /\ Claimed <= Published /\ Published <= MaxItems
         /\ Sum(Pending) \in Nat /\ Sum(Returnable) \in Nat
         /\ Reserved = GivenBack + Claimed + Sum(Pending)
         /\ GivenBack + Sum(Returnable) <= MaxOvercommit + MaxBulk * Cardinality(Consumer)
         /\ MaxItems + GivenBack < Wrap \div 2
         /\ Reserved < Wrap \div 2
         /\ GivenBack + Sum(Returnable) < Wrap \div 2
         /\ \A x \in Nat : x <= MaxBulk * Cardinality(Consumer) =>
                              GivenBack + Claimed + x < Wrap \div 2
<1>1. CountsType /\ \A c \in Consumer : CallInv(c)
  BY DEF CountsInv
<1>2. /\ start \in Int /\ tailIndex \in Int /\ headIndex \in Int
      /\ dequeueOptimisticCount \in Int /\ dequeueOvercommit \in Int
  BY <1>1, WrapNumbers DEF CountsType, Index
<1>3. start + start \in Int
  BY <1>2
<1>4. Published \in Index /\ Claimed \in Index /\ GivenBack \in Index /\ Reserved \in Index
  BY <1>2, <1>3, MinusOf DEF Published, Claimed, GivenBack, Reserved
<1>5. Published \in Nat /\ Claimed \in Nat /\ GivenBack \in Nat /\ Reserved \in Nat
  BY <1>4, WrapNumbers DEF Index
<1>6. Sum(Pending) \in Nat /\ Sum(Returnable) \in Nat
      /\ Sum(Pending) <= MaxBulk * Cardinality(Consumer)
  BY UnitsFinite
<1>7. PICK n : n = MaxBulk * Cardinality(Consumer)
  OBVIOUS
<1>8. n \in Nat /\ MaxItems + MaxOvercommit + n + n < Wrap \div 2 /\ Wrap \div 2 \in Nat
      /\ MaxItems \in Nat /\ MaxOvercommit \in Nat
  BY <1>7, WrapNumbers
<1>9. /\ Reserved = GivenBack + Claimed + Sum(Pending)
      /\ GivenBack + Sum(Returnable) <= MaxOvercommit + n
      /\ Published <= MaxItems
  BY <1>7 DEF CountsInv
<1>10. Claimed <= Published
  <2>1. PICK top \in 0 .. Reserved : Covered(top)
    BY DEF CountsInv
  <2>2. Claimed + Sum(Coming(top)) <= Published
    BY <2>1 DEF Covered
  <2>3. Sum(Coming(top)) \in Nat
    BY UnitsFinite
  <2> QED
    BY <1>5, <2>2, <2>3
<1>11. MaxItems + GivenBack < Wrap \div 2 /\ GivenBack + Sum(Returnable) < Wrap \div 2
  BY <1>5, <1>6, <1>8, <1>9
<1>12. \A x \in Nat : x <= n => GivenBack + Claimed + x < Wrap \div 2
  BY <1>5, <1>6, <1>8, <1>9, <1>10
<1>13. Reserved < Wrap \div 2
  BY <1>6, <1>7, <1>9, <1>12
<1> QED
  BY <1>1, <1>2, <1>5, <1>6, <1>7, <1>9, <1>10, <1>11, <1>12, <1>13

LEMMA IndexIs ==
  ASSUME NEW x \in Nat, x < Wrap \div 2
  PROVE  x \in Index
BY WrapNumbers DEF Index

LEMMA NoCallIs == NoCall \in Counting
<1>1. 0 \in Index /\ 0 \in 0 .. MaxBulk
  BY WrapNumbers DEF Index
<1> QED
  BY <1>1 DEF NoCall, Counting

LEMMA CallNumbers ==
  ASSUME CountsType, NEW c \in Consumer, cpc[c] \in CountPlaces
  PROVE  /\ cl[c] \in Counting
         /\ cl[c].tail \in Index /\ cl[c].overcommit \in Index /\ cl[c].mine \in Index
         /\ cl[c].tail \in Int /\ cl[c].overcommit \in Int /\ cl[c].mine \in Int
         /\ cl[c].desired \in 0 .. MaxBulk /\ cl[c].actual \in 0 .. MaxBulk
         /\ cl[c].desired \in Nat /\ cl[c].actual \in Nat
         /\ Seen(c) \in Nat /\ Mine(c) \in Nat
<1>1. cl[c] \in Counting /\ start \in Int
  BY WrapNumbers DEF CountsType, Index
<1>2. /\ cl[c].tail \in Index /\ cl[c].overcommit \in Index /\ cl[c].mine \in Index
      /\ cl[c].desired \in 0 .. MaxBulk /\ cl[c].actual \in 0 .. MaxBulk
  BY <1>1 DEF Counting
<1>3. /\ cl[c].tail \in Int /\ cl[c].overcommit \in Int /\ cl[c].mine \in Int
      /\ cl[c].desired \in Nat /\ cl[c].actual \in Nat
  BY <1>2, WrapNumbers DEF Index
<1>4. start + start \in Int
  BY <1>1
<1>5. Seen(c) \in Index /\ Mine(c) \in Index
  BY <1>1, <1>3, <1>4, MinusOf DEF Seen, Mine
<1>6. Seen(c) \in Nat /\ Mine(c) \in Nat
  BY <1>5, WrapNumbers DEF Index
<1> QED
  BY <1>1, <1>2, <1>3, <1>6

LEMMA Through ==
  ASSUME NEW a \in Nat, NEW b \in Nat, NEW e \in Nat, b <= e
  PROVE  (a <= b => a <= e) /\ (a < b => a < e)
OBVIOUS

\* What a call knows suits the place that it has come to.
Sound(p, l) ==
    /\ p \in {"reserve", "recheck", "give back"} => l.desired > 0
    /\ p = "give back" => l.actual < l.desired
    /\ p = "claim" => l.actual > 0

\* What a step of c does to the calls of the others.
LEMMA OthersCalls ==
  ASSUME CountsInv, NEW c \in Consumer, NEW p, NEW l, Moves(c, p, l),
         GivenBack' \in Nat, Reserved' \in Nat, GivenBack <= GivenBack', Reserved <= Reserved',
         p = "recheck" => \A d \in Consumer : cpc[d] = "recheck" => Mine(c)' # Mine(d),
         Sound(p, l),
         p \in {"test", "reserve", "recheck"} => Seen(c)' <= GivenBack',
         p = "recheck" => Mine(c)' < Reserved'
  PROVE  CountsType' /\ \A d \in Consumer : CallInv(d)'
<1>1. /\ CountsType /\ \A d \in Consumer : CallInv(d)
      /\ GivenBack \in Nat /\ Reserved \in Nat
  BY CountsFacts
<1>2. /\ CountsType' /\ cpc'[c] = p /\ cl'[c] = l
      /\ \A d \in Consumer \ {c} : /\ cpc'[d] = cpc[d] /\ cl'[d] = cl[d]
                                   /\ Seen(d)' = Seen(d) /\ Mine(d)' = Mine(d)
  BY <1>1, OneMoves
<1>3. CallInv(c)'
  BY <1>2 DEF CallInv, Sound
<1>4. ASSUME NEW d \in Consumer \ {c}
      PROVE  CallInv(d)'
  <2>1. CallInv(d) /\ cpc'[d] = cpc[d] /\ cl'[d] = cl[d] /\ Seen(d)' = Seen(d) /\ Mine(d)' = Mine(d)
    BY <1>1, <1>2
  <2>2. cpc[d] \in {"test", "reserve", "recheck"} => Seen(d) \in Nat /\ Mine(d) \in Nat
    BY <1>1, CallNumbers DEF CountPlaces
  <2>3. /\ cpc[d] \in {"test", "reserve", "recheck"} => Seen(d) <= GivenBack
        /\ cpc[d] = "recheck" => Mine(d) < Reserved
    BY <2>1 DEF CallInv
  <2>4. PICK s, m, g, h, r, q : /\ s = Seen(d) /\ m = Mine(d) /\ g = GivenBack /\ h = GivenBack'
                               /\ r = Reserved /\ q = Reserved'
    OBVIOUS
  <2>6. g \in Nat /\ h \in Nat /\ r \in Nat /\ q \in Nat /\ g <= h /\ r <= q
    BY <1>1, <2>4
  <2>8. ASSUME cpc[d] \in {"test", "reserve", "recheck"} PROVE s <= h
    <3>1. s \in Nat /\ s <= g
      BY <2>2, <2>3, <2>4, <2>8
    <3> QED
      BY <2>6, <3>1, Through
  <2>9. ASSUME cpc[d] = "recheck" PROVE m < q
    <3>1. m \in Nat /\ m < r
      BY <2>2, <2>3, <2>4, <2>9
    <3> QED
      BY <2>6, <3>1, Through
  <2>7. /\ cpc[d] \in {"test", "reserve", "recheck"} => s <= h
        /\ cpc[d] = "recheck" => m < q
    BY <2>8, <2>9
  <2>5. \A e \in Consumer \ {d} : cpc'[d] = "recheck" /\ cpc'[e] = "recheck" => Mine(d)' # Mine(e)'
    <3>1. ASSUME NEW e \in Consumer \ {d}, cpc'[d] = "recheck", cpc'[e] = "recheck", e # c
          PROVE  Mine(d)' # Mine(e)'
      BY <1>2, <2>1, <3>1 DEF CallInv
    <3>2. ASSUME cpc'[d] = "recheck", cpc'[c] = "recheck"
          PROVE  Mine(d)' # Mine(c)'
      BY <1>2, <2>1, <3>2
    <3> QED
      BY <3>1, <3>2
  <2> QED
    BY <2>1, <2>4, <2>5, <2>7 DEF CallInv
<1> QED
  BY <1>2, <1>3, <1>4


\* What a consumer that moves adds to the sums, before and after.
LEMMA Shares ==
  ASSUME CountsType, NEW c \in Consumer, NEW p, NEW l, Moves(c, p, l)
  PROVE  /\ Pending[c] = IF cpc[c] \in {"recheck", "give back"} THEN cl[c].desired
                         ELSE IF cpc[c] = "claim" THEN cl[c].actual ELSE 0
         /\ Pending'[c] = IF p \in {"recheck", "give back"} THEN l.desired
                          ELSE IF p = "claim" THEN l.actual ELSE 0
         /\ Returnable[c] = IF cpc[c] \in {"overcommit", "test", "reserve", "recheck", "give back"}
                            THEN MaxBulk ELSE 0
         /\ Returnable'[c] = IF p \in {"overcommit", "test", "reserve", "recheck", "give back"}
                             THEN MaxBulk ELSE 0
         /\ \A k \in Int :
              /\ Coming(k)[c] = IF cpc[c] \in {"give back", "claim"} THEN cl[c].actual
                                ELSE IF cpc[c] = "recheck" /\ Mine(c) < k THEN cl[c].desired ELSE 0
              /\ Coming(k)'[c] = IF p \in {"give back", "claim"} THEN l.actual
                                 ELSE IF p = "recheck" /\ Mine(c)' < k THEN l.desired ELSE 0
<1>1. cpc'[c] = p /\ cl'[c] = l
  BY OneMoves
<1> QED
  BY <1>1 DEF Pending, Returnable, Coming

LEMMA Shifted ==
  ASSUME NEW u \in Nat, NEW v \in Nat, NEW a \in Nat, NEW x \in Nat, NEW y \in Nat,
         v + y <= u + x
  PROVE  v + (a - x + y) <= u + a
OBVIOUS

Owing == {"recheck", "give back", "claim"}

\* Nothing, where nothing is reserved.
LEMMA NoShares ==
  ASSUME CountsType, NEW c \in Consumer, NEW p, NEW l, Moves(c, p, l), cpc[c] \notin Owing
  PROVE  /\ Pending[c] = 0 /\ \A k \in Int : Coming(k)[c] = 0
         /\ p \notin Owing => Pending'[c] = 0 /\ \A k \in Int : Coming(k)'[c] = 0
<1>1. cpc[c] \notin {"recheck", "give back"} /\ cpc[c] # "claim" /\ cpc[c] # "recheck"
      /\ cpc[c] \notin {"give back", "claim"}
  BY DEF Owing
<1>2. Pending[c] = 0
  BY <1>1 DEF Pending
<1>3. ASSUME NEW k \in Int PROVE Coming(k)[c] = 0
  BY <1>1 DEF Coming
<1>4. ASSUME p \notin Owing PROVE Pending'[c] = 0 /\ \A k \in Int : Coming(k)'[c] = 0
  <2>1. p \notin {"recheck", "give back"} /\ p # "claim" /\ p # "recheck"
        /\ p \notin {"give back", "claim"} /\ cpc'[c] = p
    BY <1>4, OneMoves DEF Owing
  <2>2. Pending'[c] = 0
    BY <2>1 DEF Pending
  <2>3. ASSUME NEW k \in Int PROVE Coming(k)'[c] = 0
    BY <2>1 DEF Coming
  <2> QED
    BY <2>2, <2>3
<1> QED
  BY <1>2, <1>3, <1>4

\* Whoever claims no more than before takes no item from those after it.
LEMMA CoveredKept ==
  ASSUME CountsType, NEW c \in Consumer, NEW p, NEW l, Moves(c, p, l), p # "recheck",
         NEW top \in Nat, Covered(top),
         Published \in Nat, Published' \in Nat, Published <= Published',
         Claimed \in Nat, Claimed' \in Nat,
         \A k \in Nat : k >= top => Claimed' + Coming(k)'[c] <= Claimed + Coming(k)[c]
  PROVE  Covered(top)'
<1>1. \A k \in Nat : k >= top => Claimed' + Sum(Coming(k))' <= Claimed + Sum(Coming(k))
  <2> SUFFICES ASSUME NEW k \in Nat, k >= top
               PROVE  Claimed' + Sum(Coming(k))' <= Claimed + Sum(Coming(k))
    OBVIOUS
  <2>1. /\ Sum(Coming(k))' = Sum(Coming(k)) - Coming(k)[c] + Coming(k)'[c]
        /\ Sum(Coming(k)) \in Nat /\ Sum(Coming(k))' \in Nat
        /\ Coming(k)[c] \in Nat /\ Coming(k)'[c] \in Nat
    BY SumsChange
  <2>2. PICK a, b, x, y : /\ a = Sum(Coming(k)) /\ b = Sum(Coming(k))'
                          /\ x = Coming(k)[c] /\ y = Coming(k)'[c]
    OBVIOUS
  <2>3. /\ b = a - x + y /\ a \in Nat /\ x \in Nat /\ y \in Nat
        /\ Claimed' + y <= Claimed + x
    BY <2>1, <2>2
  <2>4. Claimed' + b <= Claimed + a
    BY <2>3, Shifted
  <2> QED
    BY <2>2, <2>4
<1>2. Claimed' + Sum(Coming(top))' <= Published'
  <2>1. Sum(Coming(top)) \in Nat /\ Sum(Coming(top))' \in Nat
    BY SumsChange
  <2>2. Claimed + Sum(Coming(top)) <= Published
    BY DEF Covered
  <2>3. Claimed' + Sum(Coming(top))' <= Claimed + Sum(Coming(top))
    BY <1>1
  <2> QED
    BY <2>1, <2>2, <2>3
<1>3. /\ cpc'[c] = p
      /\ \A d \in Consumer \ {c} : /\ cpc'[d] = cpc[d] /\ Seen(d)' = Seen(d) /\ Mine(d)' = Mine(d)
  BY OneMoves
<1>4. ASSUME NEW d \in Consumer, cpc'[d] = "recheck", Mine(d)' >= top
      PROVE  (Claimed + Sum(Coming(Mine(d))) + Seen(d) <= Mine(d))'
  <2>1. /\ d \in Consumer \ {c} /\ cpc[d] = "recheck" /\ Mine(d) >= top
        /\ Seen(d)' = Seen(d) /\ Mine(d)' = Mine(d)
    BY <1>3, <1>4
  <2>2. PICK k : k = Mine(d)
    OBVIOUS
  <2>3. k \in Nat /\ Seen(d) \in Nat /\ k >= top
    BY <2>1, <2>2, CallNumbers DEF CountPlaces
  <2>4. Claimed + Sum(Coming(k)) + Seen(d) <= k
    BY <2>1, <2>2 DEF Covered
  <2>5. Sum(Coming(k)) \in Nat /\ Sum(Coming(k))' \in Nat
    BY <2>3, SumsChange
  <2>6. Claimed' + Sum(Coming(k))' <= Claimed + Sum(Coming(k))
    BY <1>1, <2>3
  <2>7. Claimed' + Sum(Coming(k))' + Seen(d) <= k
    BY <2>3, <2>4, <2>5, <2>6
  <2>8. Sum(Coming(Mine(d)))' = Sum(Coming(k))'
    BY <2>1, <2>2 DEF Sum, Units, Coming
  <2> QED
    BY <2>1, <2>2, <2>7, <2>8
<1> QED
  BY <1>2, <1>4 DEF Covered


\* The indices stay, and what c adds to the sums.
LEMMA CountsStay ==
  ASSUME CountsInv, NEW c \in Consumer, NEW p, NEW l, Moves(c, p, l), UNCHANGED counts,
         p # "recheck",
         Sound(p, l), p \in {"test", "reserve"} => Seen(c)' <= GivenBack,
         Pending'[c] = Pending[c], \A k \in Int : Coming(k)'[c] = Coming(k)[c],
         Returnable'[c] <= Returnable[c] \/ GivenBack < MaxOvercommit
  PROVE  CountsInv'
<1>1. /\ Published' = Published /\ Claimed' = Claimed /\ GivenBack' = GivenBack
      /\ Reserved' = Reserved
  BY DEF counts, Moves, Published, Claimed, GivenBack, Reserved
<1>2. /\ CountsType /\ Published \in Nat /\ Claimed \in Nat /\ GivenBack \in Nat
      /\ Reserved \in Nat /\ Published <= MaxItems
      /\ Reserved = GivenBack + Claimed + Sum(Pending)
      /\ GivenBack + Sum(Returnable) <= MaxOvercommit + MaxBulk * Cardinality(Consumer)
  BY CountsFacts
<1>3. CountsType' /\ \A d \in Consumer : CallInv(d)'
  BY <1>1, <1>2, OthersCalls
<1>4. Reserved' = GivenBack' + Claimed' + Sum(Pending)'
  <2>1. Sum(Pending)' = Sum(Pending)
    <3>1. PICK a, b, x : a = Sum(Pending) /\ b = Sum(Pending)' /\ x = Pending[c]
      OBVIOUS
    <3>2. b = a - x + x /\ a \in Nat /\ x \in Nat
      BY <1>2, <3>1, SumsChange
    <3> QED
      BY <3>1, <3>2
  <2> QED
    BY <1>1, <1>2, <2>1
<1>5. GivenBack' + Sum(Returnable)' <= MaxOvercommit + MaxBulk * Cardinality(Consumer)
  <2>1. PICK a, b, x, y, n, g, o : /\ a = Sum(Returnable) /\ b = Sum(Returnable)'
                                   /\ x = Returnable[c] /\ y = Returnable'[c]
                                   /\ n = MaxBulk * Cardinality(Consumer)
                                   /\ g = GivenBack /\ o = MaxOvercommit
    OBVIOUS
  <2>2. /\ b = a - x + y /\ a \in Nat /\ b \in Nat /\ x \in Nat /\ y \in Nat
        /\ b <= n /\ n \in Nat /\ g \in Nat /\ o \in Nat
        /\ g + a <= o + n /\ (y <= x \/ g < o)
    BY <1>2, <2>1, SumsChange, WrapNumbers
  <2>3. g + b <= o + n
    BY <2>2
  <2> QED
    BY <1>1, <2>1, <2>3
<1>6. PICK top \in 0 .. Reserved : Covered(top)
  BY DEF CountsInv
<1>7. top \in Nat /\ top \in 0 .. Reserved'
  BY <1>1, <1>2
<1>8. \A k \in Nat : k >= top => Claimed' + Coming(k)'[c] <= Claimed + Coming(k)[c]
  <2> SUFFICES ASSUME NEW k \in Nat PROVE Claimed' + Coming(k)'[c] <= Claimed + Coming(k)[c]
    OBVIOUS
  <2>1. PICK x : x = Coming(k)[c]
    OBVIOUS
  <2>2. x \in Nat /\ Coming(k)'[c] = x
    BY <1>2, <2>1, SumsChange
  <2> QED
    BY <1>1, <1>2, <2>1, <2>2
<1>9. Covered(top)'
  BY <1>1, <1>2, <1>6, <1>7, <1>8, CoveredKept
<1> QED
  BY <1>1, <1>2, <1>3, <1>4, <1>5, <1>7, <1>9 DEF CountsInv

LEMMA CountsLook ==
  ASSUME CountsInv, NEW c \in Consumer, LoadTail(c) \/ LoadOvercommit(c)
  PROVE  CountsInv'
<1>1. /\ CountsType /\ cpc \in [Consumer -> CountPlaces \cup OtherPlaces]
      /\ tailIndex \in Index /\ headIndex \in Index /\ start \in Int
      /\ dequeueOptimisticCount \in Index /\ dequeueOvercommit \in Index
      /\ GivenBack \in Nat
  BY CountsFacts DEF CountsType
<1>2. CASE LoadTail(c)
  <2>1. PICK l : l = [NoCall EXCEPT !.tail = tailIndex]
    OBVIOUS
  <2>2. l \in Counting
    <3>1. NoCall \in Counting
      BY NoCallIs
    <3> QED
      BY <1>1, <2>1, <3>1 DEF Counting
  <2>3. Moves(c, "overcommit", l) /\ cpc[c] = "idle" /\ UNCHANGED counts
    BY <1>1, <1>2, <2>1, <2>2 DEF LoadTail, Moves, CSet, CGoto, CAt, CountPlaces, counts
  <2>4. Pending'[c] = 0 /\ Pending[c] = 0 /\ \A k \in Int : Coming(k)'[c] = 0 /\ Coming(k)[c] = 0
    <3>1. cpc[c] \notin Owing /\ "overcommit" \notin Owing
      BY <2>3 DEF Owing
    <3> QED
      BY <1>1, <2>3, <3>1, NoShares
  <2>6. Sound("overcommit", l)
    BY DEF Sound
  <2>5. GivenBack < MaxOvercommit
    BY <1>2 DEF LoadTail, GivenBack
  <2> QED
    BY <2>3, <2>4, <2>5, <2>6, CountsStay
<1>3. CASE LoadOvercommit(c)
  <2>1. PICK l : l = [cl[c] EXCEPT !.overcommit = dequeueOvercommit]
    OBVIOUS
  <2>2. cpc[c] = "overcommit" /\ cl[c] \in Counting
    BY <1>1, <1>3, CallNumbers DEF LoadOvercommit, CAt, CountPlaces
  <2>3. l \in Counting /\ l.overcommit = dequeueOvercommit
    BY <1>1, <2>1, <2>2 DEF Counting
  <2>4. Moves(c, "test", l) /\ UNCHANGED counts
    BY <1>1, <1>3, <2>1, <2>3 DEF LoadOvercommit, Moves, CSet, CGoto, CountPlaces, counts
  <2>5. /\ Pending'[c] = 0 /\ Pending[c] = 0 /\ \A k \in Int : Coming(k)'[c] = 0 /\ Coming(k)[c] = 0
        /\ Returnable'[c] = MaxBulk /\ Returnable[c] = MaxBulk
    <3>1. cpc[c] \notin Owing /\ "test" \notin Owing
      BY <2>2 DEF Owing
    <3>2. cpc'[c] = "test"
      BY <1>1, <2>4, OneMoves
    <3>3. Returnable'[c] = MaxBulk /\ Returnable[c] = MaxBulk
      BY <2>2, <3>2 DEF Returnable
    <3> QED
      BY <1>1, <2>4, <3>1, <3>3, NoShares
  <2>9. Sound("test", l)
    BY DEF Sound
  <2>6. cl'[c] = l
    BY <1>1, <2>4, OneMoves
  <2>7. Seen(c)' = GivenBack
    BY <2>3, <2>4, <2>6 DEF Seen, GivenBack, Moves
  <2>8. Returnable'[c] <= Returnable[c] /\ GivenBack <= GivenBack
    BY <1>1, <2>5, WrapNumbers
  <2> QED
    BY <2>4, <2>5, <2>7, <2>8, <2>9, CountsStay
<1> QED
  BY <1>2, <1>3


LEMMA LessThanZero ==
  ASSUME NEW x \in Index, Less(0, x)
  PROVE  x > 0
<1>1. x # 0
  <2>1. 0 % Wrap = 0
    BY WrapIs, WrapNumbers DEF Index
  <2> QED
    BY <2>1, WrapNumbers DEF Less
<1> QED
  BY <1>1, WrapNumbers DEF Index

LEMMA CountsTest ==
  ASSUME CountsInv, NEW c \in Consumer, Test(c)
  PROVE  CountsInv'
<1>1. /\ CountsType /\ tailIndex \in Index /\ headIndex \in Index
      /\ dequeueOptimisticCount \in Index /\ dequeueOvercommit \in Index
      /\ tailIndex \in Int /\ dequeueOptimisticCount \in Int
      /\ GivenBack \in Nat /\ CallInv(c)
  BY CountsFacts DEF CountsType
<1>2. cpc[c] = "test" /\ cpc[c] \in CountPlaces
  BY DEF Test, CAt, CountPlaces
<1>3. /\ cl[c] \in Counting /\ cl[c].overcommit \in Int /\ cl[c].tail \in Int
      /\ Seen(c) <= GivenBack
  BY <1>1, <1>2, CallNumbers DEF CallInv
<1>4. Returnable[c] = MaxBulk /\ cpc[c] \notin Owing
  BY <1>2 DEF Returnable, Owing
<1>5. PICK max \in 1 .. MaxBulk :
        IF Less(0, Minus(cl[c].tail, dequeueOptimisticCount - cl[c].overcommit))
        THEN /\ CSet(c, [cl[c] EXCEPT !.desired = Fewer(Minus(cl[c].tail, dequeueOptimisticCount
                                                             - cl[c].overcommit), max), !.tail = 0])
             /\ CGoto(c, "reserve")
        ELSE CDone(c)
  BY DEF Test
<1>6. UNCHANGED <<start, counts>>
  BY DEF Test
<1>7. PICK y \in Int : y = dequeueOptimisticCount - cl[c].overcommit
  BY <1>1, <1>3
<1>8. PICK d : d = Minus(cl[c].tail, y)
  OBVIOUS
<1>9. d \in Index
  BY <1>3, <1>8, MinusOf
<1>10. CASE Less(0, d)
  <2>1. PICK m : m = Fewer(d, max)
    OBVIOUS
  <2>2. d \in Nat /\ d > 0 /\ max \in Nat /\ max > 0 /\ max <= MaxBulk /\ MaxBulk \in Nat
    BY <1>9, <1>10, LessThanZero, WrapNumbers DEF Index
  <2>3. m \in 0 .. MaxBulk /\ m > 0
    BY <2>1, <2>2 DEF Fewer
  <2>4. PICK l : l = [cl[c] EXCEPT !.desired = m, !.tail = 0]
    OBVIOUS
  <2>5. 0 \in Index
    BY WrapNumbers DEF Index
  <2>6. l \in Counting /\ l.desired = m /\ l.overcommit = cl[c].overcommit
    BY <1>3, <2>3, <2>4, <2>5 DEF Counting
  <2>7. Moves(c, "reserve", l) /\ UNCHANGED counts
    <3>1. cl' = [cl EXCEPT ![c] = l] /\ cpc' = [cpc EXCEPT ![c] = "reserve"]
      BY <1>5, <1>7, <1>8, <1>10, <2>1, <2>4 DEF CSet, CGoto
    <3> QED
      BY <1>1, <1>6, <2>6, <3>1 DEF Moves, counts, CountPlaces
  <2>8. cpc'[c] = "reserve" /\ cl'[c] = l
    BY <1>1, <2>7, OneMoves
  <2>9. Seen(c)' <= GivenBack
    BY <1>3, <2>6, <2>7, <2>8 DEF Seen, Moves
  <2>10. Returnable'[c] <= Returnable[c]
    <3>1. Returnable'[c] = MaxBulk
      BY <2>8 DEF Returnable
    <3> QED
      BY <1>4, <3>1, WrapNumbers
  <2>11. Sound("reserve", l) /\ "reserve" \notin Owing
    BY <2>3, <2>6 DEF Sound, Owing
  <2> QED
    BY <1>1, <1>4, <2>7, <2>9, <2>10, <2>11, NoShares, CountsStay
<1>11. CASE ~ Less(0, d)
  <2>1. Moves(c, "idle", NoCall) /\ UNCHANGED counts
    BY <1>1, <1>5, <1>6, <1>7, <1>8, <1>11
    DEF CDone, CSet, CGoto, Moves, counts, CountPlaces, OtherPlaces
  <2>2. cpc'[c] = "idle"
    BY <1>1, <2>1, OneMoves
  <2>3. Returnable'[c] <= Returnable[c]
    <3>1. Returnable'[c] = 0
      BY <2>2 DEF Returnable
    <3> QED
      BY <1>4, <3>1, WrapNumbers
  <2>4. Sound("idle", NoCall) /\ "idle" \notin Owing
    BY DEF Sound, Owing
  <2> QED
    BY <1>1, <1>4, <2>1, <2>3, <2>4, NoShares, CountsStay
<1> QED
  BY <1>10, <1>11

\* A consumer that has claimed its items goes after them.
LEMMA CountsElsewhere ==
  ASSUME CountsInv, NEW c \in Consumer, NEW p \in OtherPlaces, NEW l, cpc[c] \in OtherPlaces,
         cpc' = [cpc EXCEPT ![c] = p], cl' = [cl EXCEPT ![c] = l], UNCHANGED <<start, counts>>
  PROVE  CountsInv'
<1>1. /\ CountsType /\ tailIndex \in Index /\ headIndex \in Index
      /\ dequeueOptimisticCount \in Index /\ dequeueOvercommit \in Index
  BY CountsFacts DEF CountsType
<1>2. p \notin CountPlaces
  BY DEF OtherPlaces, CountPlaces
<1>3. Moves(c, p, l) /\ UNCHANGED counts
  BY <1>1, <1>2 DEF Moves, counts
<1>4. cpc[c] \notin Owing /\ p \notin Owing /\ p \notin {"test", "reserve", "recheck"}
  BY DEF Owing, OtherPlaces
<1>5. cpc'[c] = p
  BY <1>1, <1>3, OneMoves
<1>6. Returnable[c] = 0 /\ Returnable'[c] = 0
  <2>1. /\ cpc[c] \notin {"overcommit", "test", "reserve", "recheck", "give back"}
        /\ cpc'[c] \notin {"overcommit", "test", "reserve", "recheck", "give back"}
    BY <1>5 DEF OtherPlaces
  <2> QED
    BY <2>1 DEF Returnable
<1>7. Returnable'[c] <= Returnable[c]
  BY <1>6
<1>8. Sound(p, l) /\ p # "recheck"
  <2>1. p \notin {"reserve", "recheck", "give back"} /\ p # "give back" /\ p # "claim" /\ p # "recheck"
    BY DEF OtherPlaces
  <2> QED
    BY <2>1 DEF Sound
<1> QED
  BY <1>1, <1>3, <1>4, <1>7, <1>8, NoShares, CountsStay


\* What may be claimed has been reserved.
LEMMA ComingPending ==
  ASSUME CountsInv, NEW k \in Int
  PROVE  Sum(Coming(k)) <= Sum(Pending)
<1>1. CountsType /\ \A c \in Consumer : CallInv(c)
  BY CountsFacts
<1>2. ASSUME NEW c \in Consumer PROVE Coming(k)[c] <= Pending[c]
  <2>1. cpc[c] \in {"recheck", "give back"} =>
           cl[c].desired \in Nat /\ cl[c].actual \in Nat
    BY <1>1, CallNumbers DEF CountPlaces
  <2>2. cpc[c] = "claim" => cl[c].actual \in Nat
    BY <1>1, CallNumbers DEF CountPlaces
  <2>3. CASE cpc[c] = "recheck"
    <3>1. Pending[c] = cl[c].desired /\ (Coming(k)[c] = cl[c].desired \/ Coming(k)[c] = 0)
      BY <2>3 DEF Pending, Coming
    <3> QED
      BY <2>1, <2>3, <3>1
  <2>4. CASE cpc[c] = "give back"
    <3>1. Pending[c] = cl[c].desired /\ Coming(k)[c] = cl[c].actual /\ cl[c].actual < cl[c].desired
      BY <1>1, <2>4 DEF Pending, Coming, CallInv
    <3>2. PICK a, d : a = cl[c].actual /\ d = cl[c].desired
      OBVIOUS
    <3>3. a \in Nat /\ d \in Nat /\ a < d
      BY <2>1, <2>4, <3>1, <3>2
    <3>4. a <= d
      BY <3>3
    <3> QED
      BY <3>1, <3>2, <3>4
  <2>5. CASE cpc[c] = "claim"
    <3>1. Pending[c] = cl[c].actual /\ Coming(k)[c] = cl[c].actual
      BY <2>5 DEF Pending, Coming
    <3> QED
      BY <2>2, <2>5, <3>1
  <2>6. CASE cpc[c] \notin {"recheck", "give back", "claim"}
    <3>1. Pending[c] = 0 /\ Coming(k)[c] = 0
      <4>1. cpc[c] \notin {"recheck", "give back"} /\ cpc[c] # "claim" /\ cpc[c] # "recheck"
            /\ cpc[c] \notin {"give back", "claim"}
        BY <2>6
      <4> QED
        BY <4>1 DEF Pending, Coming
    <3> QED
      BY <3>1
  <2> QED
    BY <2>3, <2>4, <2>5, <2>6
<1>3. PICK f, g : f = Coming(k) /\ g = Pending
  OBVIOUS
<1>4. f \in [Consumer -> 0 .. MaxBulk] /\ g \in [Consumer -> 0 .. MaxBulk]
  BY <1>1, <1>3, SumsType
<1>5. \A c \in Consumer : f[c] <= g[c]
  BY <1>2, <1>3
<1> QED
  BY <1>3, <1>4, <1>5, CountMore

LEMMA CountsReserve ==
  ASSUME CountsInv, NEW c \in Consumer, Reserve(c)
  PROVE  CountsInv'
<1>1. /\ CountsType /\ tailIndex \in Index /\ headIndex \in Index /\ start \in Int
      /\ dequeueOptimisticCount \in Index /\ dequeueOvercommit \in Index
      /\ dequeueOptimisticCount \in Int
      /\ Published \in Nat /\ Claimed \in Nat /\ GivenBack \in Nat /\ Reserved \in Nat
      /\ Published <= MaxItems /\ Reserved < Wrap \div 2
      /\ Reserved = GivenBack + Claimed + Sum(Pending)
      /\ GivenBack + Sum(Returnable) <= MaxOvercommit + MaxBulk * Cardinality(Consumer)
      /\ CallInv(c) /\ \A d \in Consumer : CallInv(d)
      /\ start + start \in Int
  BY CountsFacts DEF CountsType
<1>2. cpc[c] = "reserve" /\ cpc[c] \in CountPlaces /\ cpc[c] \notin Owing
  BY DEF Reserve, CAt, CountPlaces, Owing
<1>3. /\ cl[c] \in Counting /\ cl[c].desired \in Nat /\ cl[c].desired > 0 /\ Seen(c) <= GivenBack
      /\ cl[c].desired \in Int /\ Seen(c) \in Nat
  <2>1. cl[c] \in Counting /\ cl[c].desired \in Nat /\ Seen(c) \in Nat
    BY <1>1, <1>2, CallNumbers
  <2>2. cl[c].desired > 0 /\ Seen(c) <= GivenBack
    BY <1>1, <1>2 DEF CallInv
  <2> QED
    BY <2>1, <2>2
<1>4. PICK l, x : l = [cl[c] EXCEPT !.mine = dequeueOptimisticCount] /\ x = cl[c].desired
  OBVIOUS
<1>5. /\ l \in Counting /\ l.mine = dequeueOptimisticCount /\ l.desired = x
      /\ l.overcommit = cl[c].overcommit /\ x \in Nat /\ x > 0 /\ x \in Int
  BY <1>1, <1>3, <1>4 DEF Counting
<1>6. /\ dequeueOptimisticCount' = Plus(dequeueOptimisticCount, x)
      /\ cl' = [cl EXCEPT ![c] = l] /\ cpc' = [cpc EXCEPT ![c] = "recheck"]
      /\ UNCHANGED <<start, tailIndex, headIndex, dequeueOvercommit>>
  BY <1>4 DEF Reserve, CSet, CGoto
<1>7. PICK y \in Int : y = dequeueOptimisticCount + x
  BY <1>1, <1>5
<1>8. dequeueOptimisticCount' \in Index
  <2>1. Plus(dequeueOptimisticCount, x) = y % Wrap
    BY <1>7 DEF Plus
  <2>2. y % Wrap \in Index
    BY WrapOf
  <2> QED
    BY <1>6, <2>1, <2>2
<1>9. Moves(c, "recheck", l)
  BY <1>1, <1>5, <1>6, <1>8 DEF Moves, CountPlaces
<1>10. /\ CountsType' /\ cpc'[c] = "recheck" /\ cl'[c] = l
       /\ \A d \in Consumer \ {c} : /\ cpc'[d] = cpc[d] /\ cl'[d] = cl[d]
                                    /\ Seen(d)' = Seen(d) /\ Mine(d)' = Mine(d)
  BY <1>1, <1>9, OneMoves
<1>11. Pending[c] = 0 /\ Pending'[c] = x /\ Returnable[c] = MaxBulk /\ Returnable'[c] = MaxBulk
  BY <1>2, <1>5, <1>10 DEF Pending, Returnable, Owing
<1>12. Sum(Pending)' = Sum(Pending) + x
  <2>1. PICK a, b, u, v : a = Sum(Pending) /\ b = Sum(Pending)' /\ u = Pending[c] /\ v = Pending'[c]
    OBVIOUS
  <2>2. b = a - u + v /\ a \in Nat /\ u = 0 /\ v = x
    BY <1>1, <1>9, <1>11, <2>1, SumsChange
  <2>3. b = a + x
    BY <1>5, <2>2
  <2> QED
    BY <2>1, <2>3
<1>13. Sum(Returnable)' = Sum(Returnable)
  <2>1. PICK a, b, u, v : /\ a = Sum(Returnable) /\ b = Sum(Returnable)'
                          /\ u = Returnable[c] /\ v = Returnable'[c]
    OBVIOUS
  <2>2. b = a - u + v /\ a \in Nat /\ u = MaxBulk /\ v = MaxBulk /\ MaxBulk \in Nat
    BY <1>1, <1>9, <1>11, <2>1, SumsChange, WrapNumbers
  <2>3. b = a
    BY <2>2
  <2> QED
    BY <2>1, <2>3
<1>14. Reserved + x \in Index
  <2>1. Sum(Pending)' \in Nat /\ Sum(Pending)' <= MaxBulk * Cardinality(Consumer)
    BY <1>1, <1>9, SumsChange
  <2>2. PICK b : b = Sum(Pending)'
    OBVIOUS
  <2>3. GivenBack + Claimed + b < Wrap \div 2 /\ b \in Nat
    BY <2>1, <2>2, CountsFacts
  <2>4. PICK a : a = Sum(Pending)
    OBVIOUS
  <2>5. b = a + x /\ a \in Nat /\ Reserved = GivenBack + Claimed + a
    BY <1>1, <1>12, <2>2, <2>4, CountsFacts
  <2>6. Reserved + x < Wrap \div 2 /\ Reserved + x \in Nat
    BY <1>1, <1>5, <2>3, <2>5
  <2> QED
    BY <2>6, IndexIs
<1>15. Reserved' = Reserved + x
  <2>1. PICK s \in Int : s = start + start
    BY <1>1
  <2>2. Reserved = Minus(dequeueOptimisticCount, s)
    BY <2>1 DEF Reserved
  <2>3. Minus(dequeueOptimisticCount, s) + x \in Index
    BY <1>14, <2>2
  <2>4. Minus(Plus(dequeueOptimisticCount, x), s) = Minus(dequeueOptimisticCount, s) + x
    BY <1>1, <1>5, <2>3, PlusMinus
  <2>5. Reserved' = Minus(Plus(dequeueOptimisticCount, x), s)
    BY <1>6, <2>1 DEF Reserved
  <2> QED
    BY <2>2, <2>4, <2>5
<1>16. /\ Published' = Published /\ Claimed' = Claimed /\ GivenBack' = GivenBack
       /\ Mine(c)' = Reserved /\ Seen(c)' = Seen(c)
  BY <1>5, <1>6, <1>10 DEF Published, Claimed, GivenBack, Mine, Reserved, Seen
<1>17. CountsType' /\ \A d \in Consumer : CallInv(d)'
  <2>1. ASSUME NEW d \in Consumer, cpc[d] = "recheck" PROVE Mine(c)' # Mine(d)
    <3>1. Mine(d) < Reserved /\ Mine(d) \in Nat
      BY <1>1, <2>1, CallNumbers DEF CallInv, CountPlaces
    <3> QED
      BY <1>1, <1>16, <3>1
  <2>2. Sound("recheck", l)
    BY <1>5 DEF Sound
  <2>3. /\ GivenBack' \in Nat /\ Reserved' \in Nat /\ GivenBack <= GivenBack' /\ Reserved <= Reserved'
        /\ Seen(c)' <= GivenBack' /\ Mine(c)' < Reserved'
    BY <1>1, <1>3, <1>5, <1>15, <1>16
  <2> QED
    BY <1>9, <2>1, <2>2, <2>3, OthersCalls
<1>18. Reserved' = GivenBack' + Claimed' + Sum(Pending)'
  <2>1. Sum(Pending) \in Nat
    BY CountsFacts
  <2> QED
    BY <1>1, <1>5, <1>12, <1>15, <1>16, <2>1
<1>19. PICK top \in 0 .. Reserved : Covered(top)
  BY DEF CountsInv
<1>20. top \in Nat /\ top \in 0 .. Reserved' /\ top <= Reserved
  BY <1>1, <1>5, <1>15
<1>21. ASSUME NEW k \in Nat, k <= Reserved
       PROVE  Sum(Coming(k))' = Sum(Coming(k)) /\ Sum(Coming(k)) \in Nat
  <2>1. Coming(k)[c] = 0
    BY <1>1, <1>2, <1>9, NoShares
  <2>2. ~ Mine(c)' < k
    BY <1>1, <1>16, <1>21
  <2>3. Coming(k)'[c] = 0
    BY <1>10, <2>2 DEF Coming
  <2>4. PICK a, b, u, v : /\ a = Sum(Coming(k)) /\ b = Sum(Coming(k))'
                          /\ u = Coming(k)[c] /\ v = Coming(k)'[c]
    OBVIOUS
  <2>7. /\ Sum(Coming(k))' = Sum(Coming(k)) - Coming(k)[c] + Coming(k)'[c]
        /\ Sum(Coming(k)) \in Nat
    <3>1. k \in Int
      OBVIOUS
    <3> QED
      BY <1>1, <1>9, <3>1, SumsChange, Zenon
  <2>5. b = a - u + v /\ a \in Nat /\ u = 0 /\ v = 0
    BY <2>1, <2>3, <2>4, <2>7
  <2>6. b = a
    BY <2>5
  <2> QED
    BY <2>4, <2>5, <2>6
<1>22. (Claimed + Sum(Coming(top)) <= Published)'
  <2>1. Claimed + Sum(Coming(top)) <= Published
    BY <1>19 DEF Covered
  <2> QED
    BY <1>16, <1>20, <1>21, <2>1
<1>23. ASSUME NEW d \in Consumer, cpc'[d] = "recheck", Mine(d)' >= top
       PROVE  (Claimed + Sum(Coming(Mine(d))) + Seen(d) <= Mine(d))'
  <2>1. CASE d = c
    <3>1. Sum(Coming(Reserved)) <= Sum(Pending) /\ Sum(Pending) \in Nat
      BY <1>1, ComingPending, CountsFacts
    <3>2. PICK k : k = Reserved
      OBVIOUS
    <3>3. Sum(Coming(k))' = Sum(Coming(k)) /\ Sum(Coming(k)) \in Nat
      BY <1>1, <1>21, <3>2
    <3>4. Sum(Coming(Mine(c)))' = Sum(Coming(k))'
      BY <1>16, <3>2 DEF Sum, Units, Coming
    <3>5. PICK a, b, e : a = Sum(Coming(k)) /\ b = Sum(Pending) /\ e = Seen(c)
      OBVIOUS
    <3>6. /\ a <= b /\ a \in Nat /\ b \in Nat /\ k = GivenBack + Claimed + b /\ e <= GivenBack
          /\ e \in Nat
      BY <1>1, <1>3, <3>1, <3>2, <3>3, <3>5
    <3>7. Claimed + a + e <= k
      BY <1>1, <3>6
    <3> QED
      BY <1>16, <2>1, <3>2, <3>3, <3>4, <3>5, <3>7
  <2>2. CASE d # c
    <3>1. /\ cpc[d] = "recheck" /\ Seen(d)' = Seen(d) /\ Mine(d)' = Mine(d) /\ Mine(d) >= top
      BY <1>10, <1>23, <2>2
    <3>2. PICK k : k = Mine(d)
      OBVIOUS
    <3>3. k \in Nat /\ k < Reserved
      BY <1>1, <3>1, <3>2, CallNumbers DEF CallInv, CountPlaces
    <3>4. k <= Reserved
      BY <1>1, <3>3
    <3>5. Sum(Coming(k))' = Sum(Coming(k))
      BY <1>21, <3>3, <3>4
    <3>6. Claimed + Sum(Coming(k)) + Seen(d) <= k
      BY <1>19, <3>1, <3>2 DEF Covered
    <3>7. Sum(Coming(Mine(d)))' = Sum(Coming(k))'
      BY <3>1, <3>2 DEF Sum, Units, Coming
    <3> QED
      BY <1>16, <3>1, <3>2, <3>5, <3>6, <3>7
  <2> QED
    BY <2>1, <2>2
<1>24. Covered(top)'
  BY <1>22, <1>23 DEF Covered
<1> QED
  BY <1>1, <1>13, <1>16, <1>17, <1>18, <1>20, <1>24 DEF CountsInv


\* What a consumer finds to be there when it has reserved.
LEMMA ActualIs ==
  ASSUME CountsInv, NEW c \in Consumer, cpc[c] = "recheck", NEW t, NEW a,
         t = Minus(tailIndex, cl[c].mine - cl[c].overcommit),
         a = IF Less(0, t) THEN Fewer(cl[c].desired, t) ELSE 0
  PROVE  /\ a \in Nat /\ a <= cl[c].desired
         /\ a > 0 => a + Mine(c) <= Published + Seen(c)
<1>1. /\ CountsType /\ CallInv(c) /\ tailIndex \in Int /\ start \in Int
      /\ Published \in Nat /\ GivenBack \in Nat /\ Reserved \in Nat
      /\ Published <= MaxItems /\ MaxItems + GivenBack < Wrap \div 2 /\ Reserved < Wrap \div 2
      /\ MaxItems \in Nat /\ Wrap \div 2 \in Nat
  BY CountsFacts, WrapNumbers
<1>2. cpc[c] \in CountPlaces
  BY DEF CountPlaces
<1>3. /\ cl[c].mine \in Int /\ cl[c].overcommit \in Int /\ cl[c].desired \in Nat
      /\ Seen(c) \in Nat /\ Mine(c) \in Nat
  BY <1>1, <1>2, CallNumbers
<1>4. Seen(c) <= GivenBack /\ Mine(c) < Reserved
  BY <1>1 DEF CallInv
<1>5. PICK d : d = Published - Mine(c) + Seen(c)
  OBVIOUS
<1>6. d \in Int /\ d < Wrap \div 2 /\ -d < Wrap \div 2
  <2>1. PICK p, m, e, g, r, h : /\ p = Published /\ m = Mine(c) /\ e = Seen(c) /\ g = GivenBack
                                /\ r = Reserved /\ h = Wrap \div 2
    OBVIOUS
  <2>2. /\ p \in Nat /\ m \in Nat /\ e \in Nat /\ g \in Nat /\ r \in Nat /\ h \in Nat
        /\ d = p - m + e /\ p <= MaxItems /\ MaxItems + g < h /\ r < h /\ e <= g /\ m < r
        /\ MaxItems \in Nat
    BY <1>1, <1>3, <1>4, <1>5, <2>1
  <2>3. d \in Int /\ d < h /\ -d < h
    BY <2>2
  <2> QED
    BY <2>1, <2>3
<1>7. t = d % Wrap
  <2>1. PICK m \in Int, o \in Int, s \in Int : m = cl[c].mine /\ o = cl[c].overcommit /\ s = start
    BY <1>1, <1>3
  <2>2. Minus(tailIndex, m - o) = (Minus(tailIndex, s) - Minus(m, s + s) + Minus(o, s)) % Wrap
    BY <1>1, ThereIs
  <2>3. Published = Minus(tailIndex, s) /\ Mine(c) = Minus(m, s + s) /\ Seen(c) = Minus(o, s)
    BY <2>1 DEF Published, Mine, Seen
  <2> QED
    BY <1>5, <2>1, <2>2, <2>3
<1>8. CASE d > 0
  <2>1. t = d /\ Less(0, t)
    BY <1>6, <1>7, <1>8, SignIs
  <2>2. a = Fewer(cl[c].desired, d)
    BY <2>1
  <2>3. a \in Nat /\ a <= cl[c].desired /\ a <= d
    BY <1>3, <1>6, <1>8, <2>2 DEF Fewer
  <2>4. a + Mine(c) <= Published + Seen(c)
    BY <1>1, <1>3, <1>5, <1>6, <2>3
  <2> QED
    BY <2>3, <2>4
<1>9. CASE d <= 0
  <2>1. ~ Less(0, t)
    BY <1>6, <1>7, <1>9, SignIs
  <2>2. a = 0
    BY <2>1
  <2> QED
    BY <1>3, <2>2
<1> QED
  BY <1>6, <1>8, <1>9

LEMMA CountsRecheck ==
  ASSUME CountsInv, NEW c \in Consumer, Recheck(c)
  PROVE  CountsInv'
<1>1. /\ CountsType /\ tailIndex \in Index /\ headIndex \in Index
      /\ dequeueOptimisticCount \in Index /\ dequeueOvercommit \in Index
      /\ Published \in Nat /\ Claimed \in Nat /\ GivenBack \in Nat /\ Reserved \in Nat
      /\ Published <= MaxItems
      /\ Reserved = GivenBack + Claimed + Sum(Pending)
      /\ GivenBack + Sum(Returnable) <= MaxOvercommit + MaxBulk * Cardinality(Consumer)
      /\ CallInv(c) /\ \A d \in Consumer : CallInv(d)
  BY CountsFacts DEF CountsType
<1>2. cpc[c] = "recheck" /\ cpc[c] \in CountPlaces
  BY DEF Recheck, CAt, CountPlaces
<1>3. /\ cl[c].desired \in 0 .. MaxBulk /\ cl[c].desired \in Nat
      /\ Seen(c) \in Nat /\ Mine(c) \in Nat
  BY <1>1, <1>2, CallNumbers
<1>4. cl[c].desired > 0 /\ Mine(c) < Reserved
  BY <1>1, <1>2 DEF CallInv
<1>5. PICK t : t = Minus(tailIndex, cl[c].mine - cl[c].overcommit)
  OBVIOUS
<1>6. PICK a, x : (a = IF Less(0, t) THEN Fewer(cl[c].desired, t) ELSE 0) /\ x = cl[c].desired
  OBVIOUS
<1>7. /\ x \in Nat /\ x > 0 /\ x <= MaxBulk /\ MaxBulk \in Nat
      /\ a \in Nat /\ a <= x /\ a \in 0 .. MaxBulk /\ x \in 0 .. MaxBulk
      /\ a > 0 => a + Mine(c) <= Published + Seen(c)
  <2>1. a \in Nat /\ a <= x /\ (a > 0 => a + Mine(c) <= Published + Seen(c))
    BY <1>2, <1>5, <1>6, ActualIs
  <2>2. x \in Nat /\ x > 0 /\ x \in 0 .. MaxBulk /\ MaxBulk \in Nat
    BY <1>3, <1>4, <1>6, WrapNumbers
  <2>3. x <= MaxBulk /\ a <= MaxBulk
    BY <2>1, <2>2
  <2> QED
    BY <2>1, <2>2, <2>3
<1>8. PICK l, p : /\ l = [NoCall EXCEPT !.desired = x, !.actual = a]
                  /\ p = IF a < x THEN "give back" ELSE "claim"
  OBVIOUS
<1>9. l \in Counting /\ l.desired = x /\ l.actual = a
  BY <1>7, <1>8, NoCallIs DEF Counting
<1>10. Moves(c, p, l) /\ UNCHANGED <<start, counts>>
  <2>1. cl' = [cl EXCEPT ![c] = l] /\ cpc' = [cpc EXCEPT ![c] = p] /\ UNCHANGED <<start, counts>>
    BY <1>5, <1>6, <1>8 DEF Recheck, CSet, CGoto
  <2>2. p \in CountPlaces
    BY <1>8 DEF CountPlaces
  <2> QED
    BY <1>1, <1>9, <2>1, <2>2 DEF Moves, counts
<1>11. /\ CountsType' /\ cpc'[c] = p /\ cl'[c] = l
       /\ \A d \in Consumer \ {c} : /\ cpc'[d] = cpc[d] /\ cl'[d] = cl[d]
                                    /\ Seen(d)' = Seen(d) /\ Mine(d)' = Mine(d)
  BY <1>1, <1>10, OneMoves
<1>12. p \in {"give back", "claim"} /\ (p = "give back" => a < x) /\ (p = "claim" => a = x)
  <2>1. CASE a < x
    BY <1>8, <2>1
  <2>2. CASE ~ a < x
    <3>1. a = x
      BY <1>7, <2>2
    <3> QED
      BY <1>8, <2>2, <3>1
  <2> QED
    BY <2>1, <2>2
<1>13. /\ Published' = Published /\ Claimed' = Claimed /\ GivenBack' = GivenBack
       /\ Reserved' = Reserved
  BY <1>10 DEF counts, Published, Claimed, GivenBack, Reserved
<1>14. Pending[c] = x /\ Pending'[c] = x
  <2>1. Pending[c] = x
    BY <1>2, <1>6 DEF Pending
  <2>2. CASE p = "give back"
    BY <1>9, <1>11, <2>1, <2>2 DEF Pending
  <2>3. CASE p = "claim"
    <3>1. Pending'[c] = a /\ a = x
      BY <1>9, <1>11, <1>12, <2>3 DEF Pending
    <3> QED
      BY <2>1, <3>1
  <2> QED
    BY <1>12, <2>2, <2>3
<1>15. Sum(Pending)' = Sum(Pending)
  <2>1. PICK e, b, u, v : e = Sum(Pending) /\ b = Sum(Pending)' /\ u = Pending[c] /\ v = Pending'[c]
    OBVIOUS
  <2>2. b = e - u + v /\ e \in Nat /\ u = x /\ v = x
    BY <1>1, <1>10, <1>14, <2>1, SumsChange
  <2>3. b = e
    BY <1>7, <2>2
  <2> QED
    BY <2>1, <2>3
<1>16. GivenBack' + Sum(Returnable)' <= MaxOvercommit + MaxBulk * Cardinality(Consumer)
  <2>1. Returnable[c] = MaxBulk /\ (Returnable'[c] = MaxBulk \/ Returnable'[c] = 0)
    BY <1>2, <1>11 DEF Returnable
  <2>2. PICK e, b, u, v, n, g, o : /\ e = Sum(Returnable) /\ b = Sum(Returnable)'
                                   /\ u = Returnable[c] /\ v = Returnable'[c]
                                   /\ n = MaxBulk * Cardinality(Consumer)
                                   /\ g = GivenBack /\ o = MaxOvercommit
    OBVIOUS
  <2>3. /\ b = e - u + v /\ e \in Nat /\ b \in Nat /\ u \in Nat /\ v \in Nat
        /\ n \in Nat /\ g \in Nat /\ o \in Nat /\ g + e <= o + n
    BY <1>1, <1>10, <2>2, SumsChange, WrapNumbers
  <2>4. v <= u
    BY <1>7, <2>1, <2>2
  <2>5. g + b <= o + n
    BY <2>3, <2>4
  <2> QED
    BY <1>13, <2>2, <2>5
<1>17. CountsType' /\ \A d \in Consumer : CallInv(d)'
  <2>1. Sound(p, l)
    BY <1>7, <1>9, <1>12 DEF Sound
  <2>2. p # "recheck" /\ p \notin {"test", "reserve", "recheck"}
    BY <1>12
  <2>3. GivenBack' \in Nat /\ Reserved' \in Nat /\ GivenBack <= GivenBack' /\ Reserved <= Reserved'
    BY <1>1, <1>13
  <2> QED
    BY <1>10, <2>1, <2>2, <2>3, OthersCalls
<1>18. ASSUME NEW k \in Nat
       PROVE  /\ Coming(k)'[c] = a
              /\ Coming(k)[c] = IF Mine(c) < k THEN x ELSE 0
              /\ Sum(Coming(k)) \in Nat /\ Sum(Coming(k))' \in Nat
              /\ Sum(Coming(k))' = Sum(Coming(k)) - Coming(k)[c] + a
  <2>1. Coming(k)'[c] = a
    BY <1>9, <1>11, <1>12 DEF Coming
  <2>2. Coming(k)[c] = IF Mine(c) < k THEN x ELSE 0
    BY <1>2, <1>6 DEF Coming
  <2>3. /\ Sum(Coming(k)) \in Nat /\ Sum(Coming(k))' \in Nat
        /\ Sum(Coming(k))' = Sum(Coming(k)) - Coming(k)[c] + Coming(k)'[c]
    BY <1>1, <1>10, SumsChange
  <2> QED
    BY <2>1, <2>2, <2>3
<1>19. PICK top \in 0 .. Reserved : Covered(top)
  BY DEF CountsInv
<1>20. top \in Nat /\ top <= Reserved
  BY <1>1
<1>21. \E n \in 0 .. Reserved : Covered(n)'
  <2>1. CASE a = 0 \/ Mine(c) < top
    <3>1. ASSUME NEW k \in Nat, k >= top
          PROVE  Claimed' + Coming(k)'[c] <= Claimed + Coming(k)[c]
      <4>1. Coming(k)'[c] = a /\ (Coming(k)[c] = x \/ (a = 0 /\ Coming(k)[c] = 0))
        BY <1>3, <1>18, <1>20, <2>1, <3>1
      <4> QED
        BY <1>1, <1>7, <1>13, <4>1
    <3>2. p # "recheck"
      BY <1>12
    <3>4. Published' \in Nat /\ Published <= Published' /\ Claimed' \in Nat
      BY <1>1, <1>13
    <3>3. Covered(top)'
      BY <1>1, <1>10, <1>19, <1>20, <3>1, <3>2, <3>4, CoveredKept
    <3> QED
      BY <1>19, <3>3
  <2>2. CASE a > 0 /\ Mine(c) >= top
    <3>1. PICK m : m = Mine(c)
      OBVIOUS
    <3>2. m \in Nat /\ m < Reserved /\ m >= top /\ m \in 0 .. Reserved
      BY <1>1, <1>3, <1>4, <2>2, <3>1
    <3>3. Claimed + Sum(Coming(m)) + Seen(c) <= m
      BY <1>2, <1>19, <2>2, <3>1 DEF Covered
    <3>4. Claimed' + Sum(Coming(m))' <= Published'
      <4>1. Coming(m)[c] = 0
        BY <1>18, <3>1, <3>2
      <4>2. PICK e, b, s : e = Sum(Coming(m)) /\ b = Sum(Coming(m))' /\ s = Seen(c)
        OBVIOUS
      <4>3. b = e - 0 + a /\ e \in Nat /\ b \in Nat
        BY <1>18, <3>2, <4>1, <4>2
      <4>4. Claimed + e + s <= m /\ a + m <= Published + s /\ s \in Nat
        BY <1>3, <1>7, <2>2, <3>1, <3>3, <4>2
      <4>5. Claimed + b <= Published
        BY <1>1, <1>7, <3>2, <4>3, <4>4
      <4> QED
        BY <1>13, <4>2, <4>5
    <3>5. ASSUME NEW d \in Consumer, cpc'[d] = "recheck", Mine(d)' >= m
          PROVE  (Claimed + Sum(Coming(Mine(d))) + Seen(d) <= Mine(d))'
      <4>1. d # c
        BY <1>11, <1>12, <3>5
      <4>2. /\ cpc[d] = "recheck" /\ Seen(d)' = Seen(d) /\ Mine(d)' = Mine(d) /\ Mine(d) >= m
        BY <1>11, <3>5, <4>1
      <4>3. PICK k : k = Mine(d)
        OBVIOUS
      <4>4. k \in Nat /\ Seen(d) \in Nat
        BY <1>1, <4>2, <4>3, CallNumbers DEF CountPlaces
      <4>5. k # m
        BY <1>1, <1>2, <3>1, <4>1, <4>2, <4>3 DEF CallInv
      <4>6. m < k /\ k >= top
        BY <1>20, <3>2, <4>2, <4>3, <4>4, <4>5
      <4>7. Claimed + Sum(Coming(k)) + Seen(d) <= k
        BY <1>19, <4>2, <4>3, <4>6 DEF Covered
      <4>8. Coming(k)[c] = x
        BY <1>18, <3>1, <4>4, <4>6
      <4>9. PICK e, b, s : e = Sum(Coming(k)) /\ b = Sum(Coming(k))' /\ s = Seen(d)
        OBVIOUS
      <4>10. b = e - x + a /\ e \in Nat /\ b \in Nat /\ s \in Nat /\ Claimed + e + s <= k
        BY <1>18, <4>4, <4>7, <4>8, <4>9
      <4>11. Claimed + b + s <= k
        BY <1>1, <1>7, <4>4, <4>10
      <4>12. Sum(Coming(Mine(d)))' = Sum(Coming(k))'
        BY <4>2, <4>3 DEF Sum, Units, Coming
      <4> QED
        BY <1>13, <4>2, <4>3, <4>9, <4>11, <4>12
    <3>6. Covered(m)'
      BY <3>4, <3>5 DEF Covered
    <3> QED
      BY <3>2, <3>6
  <2> QED
    BY <1>3, <1>7, <1>20, <2>1, <2>2
<1> QED
  BY <1>1, <1>13, <1>15, <1>16, <1>17, <1>21 DEF CountsInv


LEMMA CountsGiveBack ==
  ASSUME CountsInv, NEW c \in Consumer, GiveBack(c)
  PROVE  CountsInv'
<1>1. /\ CountsType /\ tailIndex \in Index /\ headIndex \in Index
      /\ dequeueOptimisticCount \in Index /\ dequeueOvercommit \in Index
      /\ dequeueOvercommit \in Int /\ start \in Int
      /\ cl = [d \in Consumer |-> cl[d]]
      /\ Published \in Nat /\ Claimed \in Nat /\ GivenBack \in Nat /\ Reserved \in Nat
      /\ Published <= MaxItems
      /\ Reserved = GivenBack + Claimed + Sum(Pending)
      /\ GivenBack + Sum(Returnable) <= MaxOvercommit + MaxBulk * Cardinality(Consumer)
      /\ GivenBack + Sum(Returnable) < Wrap \div 2
      /\ CallInv(c) /\ \A d \in Consumer : CallInv(d)
  BY CountsFacts DEF CountsType
<1>2. cpc[c] = "give back" /\ cpc[c] \in CountPlaces
  BY DEF GiveBack, CAt, CountPlaces
<1>3. /\ cl[c] \in Counting /\ cl[c].desired \in 0 .. MaxBulk /\ cl[c].desired \in Nat
      /\ cl[c].actual \in Nat
  BY <1>1, <1>2, CallNumbers
<1>4. cl[c].actual < cl[c].desired
  BY <1>1, <1>2 DEF CallInv
<1>5. PICK a, x : a = cl[c].actual /\ x = cl[c].desired
  OBVIOUS
<1>6. a \in Nat /\ x \in Nat /\ a < x /\ x <= MaxBulk /\ MaxBulk \in Nat /\ x - a \in Nat /\ x - a \in Int
  <2>1. a \in Nat /\ x \in Nat /\ a < x /\ x \in 0 .. MaxBulk /\ MaxBulk \in Nat
    BY <1>3, <1>4, <1>5, WrapNumbers
  <2> QED
    BY <2>1
<1>7. PICK l, p : /\ l = IF a > 0 THEN cl[c] ELSE NoCall
                  /\ p = IF a > 0 THEN "claim" ELSE "idle"
  OBVIOUS
<1>8. /\ dequeueOvercommit' = Plus(dequeueOvercommit, x - a)
      /\ cl' = [cl EXCEPT ![c] = l] /\ cpc' = [cpc EXCEPT ![c] = p]
      /\ UNCHANGED <<start, tailIndex, headIndex, dequeueOptimisticCount>>
  <2>1. /\ dequeueOvercommit' = Plus(dequeueOvercommit, x - a)
        /\ UNCHANGED <<start, tailIndex, headIndex, dequeueOptimisticCount>>
        /\ IF a > 0 THEN CGoto(c, "claim") /\ UNCHANGED cl ELSE CDone(c)
    BY <1>5 DEF GiveBack
  <2>2. CASE a > 0
    <3>1. cl' = cl /\ cl = [cl EXCEPT ![c] = cl[c]]
      BY <1>1, <2>1, <2>2
    <3> QED
      BY <1>7, <2>1, <2>2, <3>1 DEF CGoto
  <2>3. CASE ~ a > 0
    BY <1>7, <2>1, <2>3 DEF CDone, CGoto, CSet
  <2> QED
    BY <2>2, <2>3
<1>9. /\ Returnable[c] = MaxBulk /\ Returnable'[c] = 0
      /\ Pending[c] = x /\ Pending'[c] = a
      /\ \A k \in Int : Coming(k)[c] = a /\ Coming(k)'[c] = a
      /\ p \in {"claim", "idle"} /\ Sound(p, l)
      /\ Moves(c, p, l)
  <2>1. /\ Returnable[c] = MaxBulk /\ Pending[c] = x /\ \A k \in Int : Coming(k)[c] = a
    BY <1>2, <1>5 DEF Returnable, Pending, Coming
  <2>2. PICK y \in Int : y = dequeueOvercommit + (x - a)
    BY <1>1, <1>6
  <2>3. dequeueOvercommit' \in Index
    <3>1. dequeueOvercommit' = y % Wrap
      BY <1>8, <2>2 DEF Plus
    <3> QED
      BY <3>1, WrapOf
  <2>4. CASE a > 0
    <3>1. l = cl[c] /\ p = "claim"
      BY <1>7, <2>4
    <3>2. Moves(c, p, l)
      BY <1>1, <1>3, <1>8, <2>3, <3>1 DEF Moves, CountPlaces
    <3>3. cpc'[c] = "claim" /\ cl'[c] = cl[c]
      BY <1>1, <3>1, <3>2, OneMoves
    <3>4. /\ Returnable'[c] = 0 /\ Pending'[c] = a /\ \A k \in Int : Coming(k)'[c] = a
      BY <1>5, <3>3 DEF Returnable, Pending, Coming
    <3>5. Sound(p, l)
      BY <1>5, <2>4, <3>1 DEF Sound
    <3> QED
      BY <2>1, <3>1, <3>2, <3>4, <3>5
  <2>5. CASE ~ a > 0
    <3>1. l = NoCall /\ p = "idle" /\ a = 0
      BY <1>6, <1>7, <2>5
    <3>2. Moves(c, p, l)
      BY <1>1, <1>8, <2>3, <3>1 DEF Moves, CountPlaces, OtherPlaces
    <3>3. cpc'[c] = "idle"
      BY <1>1, <3>1, <3>2, OneMoves
    <3>4. /\ Returnable'[c] = 0 /\ Pending'[c] = a /\ \A k \in Int : Coming(k)'[c] = a
      BY <3>1, <3>3 DEF Returnable, Pending, Coming
    <3>5. Sound(p, l)
      BY <3>1 DEF Sound
    <3> QED
      BY <2>1, <3>1, <3>2, <3>4, <3>5
  <2> QED
    BY <2>4, <2>5
<1>10. /\ Sum(Returnable)' = Sum(Returnable) - MaxBulk
       /\ Sum(Returnable) \in Nat /\ Sum(Returnable)' \in Nat /\ MaxBulk <= Sum(Returnable)
       /\ Sum(Pending) \in Nat /\ Sum(Pending)' = Sum(Pending) - x + a
  <2>1. PICK e, b, u, v : /\ e = Sum(Returnable) /\ b = Sum(Returnable)'
                          /\ u = Returnable[c] /\ v = Returnable'[c]
    OBVIOUS
  <2>2. b = e - u + v /\ e \in Nat /\ b \in Nat /\ u = MaxBulk /\ v = 0 /\ u <= e
    BY <1>1, <1>9, <2>1, SumsChange
  <2>3. b = e - MaxBulk /\ MaxBulk <= e
    BY <1>6, <2>2
  <2>4. Sum(Pending) \in Nat /\ Sum(Pending)' = Sum(Pending) - Pending[c] + Pending'[c]
    BY <1>1, <1>9, SumsChange
  <2>5. Sum(Pending)' = Sum(Pending) - x + a
    BY <1>9, <2>4
  <2> QED
    BY <2>1, <2>2, <2>3, <2>4, <2>5
<1>11. GivenBack + (x - a) \in Index
  <2>1. PICK r, g, h : r = Sum(Returnable) /\ g = GivenBack /\ h = Wrap \div 2
    OBVIOUS
  <2>2. r \in Nat /\ g \in Nat /\ h \in Nat /\ MaxBulk <= r /\ g + r < h
    BY <1>1, <1>10, <2>1, WrapNumbers
  <2>3. g + (x - a) \in Nat /\ g + (x - a) < h
    BY <1>6, <2>2
  <2> QED
    BY <2>1, <2>3, IndexIs
<1>12. /\ Published' = Published /\ Claimed' = Claimed /\ GivenBack' = GivenBack + (x - a)
       /\ Reserved' = Reserved
  <2>1. Minus(Plus(dequeueOvercommit, x - a), start) = Minus(dequeueOvercommit, start) + (x - a)
    BY <1>1, <1>6, <1>11, PlusMinus DEF GivenBack
  <2> QED
    BY <1>8, <2>1 DEF Published, Claimed, GivenBack, Reserved
<1>13. CountsType' /\ \A d \in Consumer : CallInv(d)'
  <2>1. GivenBack' \in Nat /\ Reserved' \in Nat /\ GivenBack <= GivenBack' /\ Reserved <= Reserved'
    BY <1>1, <1>6, <1>12
  <2>2. p # "recheck" /\ p \notin {"test", "reserve", "recheck"}
    BY <1>9
  <2> QED
    BY <1>9, <2>1, <2>2, OthersCalls
<1>14. Reserved' = GivenBack' + Claimed' + Sum(Pending)'
  <2>1. PICK e, b, r, g, h, q : /\ e = Sum(Pending) /\ b = Sum(Pending)' /\ r = Reserved
                                /\ g = GivenBack /\ h = GivenBack' /\ q = Claimed
    OBVIOUS
  <2>2. /\ e \in Nat /\ b = e - x + a /\ r = g + q + e /\ h = g + (x - a)
        /\ g \in Nat /\ q \in Nat /\ r \in Nat
    BY <1>1, <1>10, <1>12, <2>1
  <2>3. r = h + q + b
    BY <1>6, <2>2
  <2> QED
    BY <1>12, <2>1, <2>3
<1>15. GivenBack' + Sum(Returnable)' <= MaxOvercommit + MaxBulk * Cardinality(Consumer)
  <2>1. PICK e, b, n, g, h, o : /\ e = Sum(Returnable) /\ b = Sum(Returnable)'
                                /\ n = MaxBulk * Cardinality(Consumer)
                                /\ g = GivenBack /\ h = GivenBack' /\ o = MaxOvercommit
    OBVIOUS
  <2>2. /\ e \in Nat /\ b = e - MaxBulk /\ h = g + (x - a) /\ g \in Nat /\ n \in Nat /\ o \in Nat
        /\ g + e <= o + n
    BY <1>1, <1>10, <1>12, <2>1, WrapNumbers
  <2>3. h + b <= o + n
    BY <1>6, <2>2
  <2> QED
    BY <2>1, <2>3
<1>16. PICK top \in 0 .. Reserved : Covered(top)
  BY DEF CountsInv
<1>17. top \in Nat /\ top \in 0 .. Reserved'
  BY <1>1, <1>12
<1>18. Covered(top)'
  <2>1. ASSUME NEW k \in Nat PROVE Claimed' + Coming(k)'[c] <= Claimed + Coming(k)[c]
    <3>1. Coming(k)'[c] = a /\ Coming(k)[c] = a
      BY <1>9
    <3> QED
      BY <1>1, <1>6, <1>12, <3>1
  <2>2. p # "recheck"
    BY <1>9
  <2>3. Published' \in Nat /\ Published <= Published' /\ Claimed' \in Nat
    BY <1>1, <1>12
  <2> QED
    BY <1>1, <1>9, <1>16, <1>17, <2>1, <2>2, <2>3, CoveredKept
<1> QED
  BY <1>1, <1>12, <1>13, <1>14, <1>15, <1>17, <1>18 DEF CountsInv

LEMMA CountsClaim ==
  ASSUME CountsInv, NEW c \in Consumer, Claim(c)
  PROVE  CountsInv'
<1>1. /\ CountsType /\ tailIndex \in Index /\ headIndex \in Index
      /\ dequeueOptimisticCount \in Index /\ dequeueOvercommit \in Index
      /\ headIndex \in Int /\ start \in Int
      /\ Published \in Nat /\ Claimed \in Nat /\ GivenBack \in Nat /\ Reserved \in Nat
      /\ Published <= MaxItems /\ MaxItems + GivenBack < Wrap \div 2
      /\ Reserved = GivenBack + Claimed + Sum(Pending)
      /\ GivenBack + Sum(Returnable) <= MaxOvercommit + MaxBulk * Cardinality(Consumer)
  BY CountsFacts DEF CountsType
<1>2. cpc[c] = "claim" /\ cpc[c] \in CountPlaces
  BY DEF Claim, CAt, CountPlaces
<1>3. cl[c].actual \in Nat
  BY <1>1, <1>2, CallNumbers
<1>4. PICK a \in Nat : a = cl[c].actual
  BY <1>3
<1>5. PICK l : l = [NoCall EXCEPT !.index = headIndex, !.end = Plus(headIndex, cl[c].actual)]
  OBVIOUS
<1>6. /\ headIndex' = Plus(headIndex, a)
      /\ cl' = [cl EXCEPT ![c] = l] /\ cpc' = [cpc EXCEPT ![c] = "header"]
      /\ UNCHANGED <<start, tailIndex, dequeueOptimisticCount, dequeueOvercommit>>
  BY <1>4, <1>5 DEF Claim, CSet, CGoto
<1>7. PICK y \in Int : y = headIndex + a
  BY <1>1
<1>8. headIndex' \in Index
  <2>1. headIndex' = y % Wrap
    BY <1>6, <1>7 DEF Plus
  <2> QED
    BY <2>1, WrapOf
<1>9. Moves(c, "header", l)
  BY <1>1, <1>6, <1>8 DEF Moves, CountPlaces, OtherPlaces
<1>10. cpc'[c] = "header"
  BY <1>1, <1>9, OneMoves
<1>11. /\ Pending[c] = a /\ Pending'[c] = 0 /\ Returnable[c] = 0 /\ Returnable'[c] = 0
       /\ \A k \in Int : Coming(k)[c] = a /\ Coming(k)'[c] = 0
  BY <1>2, <1>4, <1>10 DEF Pending, Returnable, Coming
<1>12. PICK top \in 0 .. Reserved : Covered(top)
  BY DEF CountsInv
<1>13. top \in Nat
  BY <1>1
<1>14. Claimed + a <= Published
  <2>1. PICK e, u : e = Sum(Coming(top)) /\ u = Coming(top)[c]
    OBVIOUS
  <2>2. e \in Nat /\ u <= e /\ u = a
    <3>1. top \in Int
      BY <1>13
    <3>2. Sum(Coming(top)) \in Nat /\ Coming(top)[c] <= Sum(Coming(top))
      BY <1>1, <1>9, <3>1, SumsChange, Zenon
    <3>3. Coming(top)[c] = a
      BY <1>11, <3>1
    <3> QED
      BY <2>1, <3>2, <3>3
  <2>3. Claimed + e <= Published
    BY <1>12, <2>1 DEF Covered
  <2> QED
    BY <1>1, <2>2, <2>3
<1>15. Claimed + a \in Index
  <2>1. PICK q, t, h, g : q = Claimed /\ t = Published /\ h = Wrap \div 2 /\ g = GivenBack
    OBVIOUS
  <2>2. /\ q \in Nat /\ t \in Nat /\ h \in Nat /\ g \in Nat /\ q + a <= t /\ t <= MaxItems
        /\ MaxItems + g < h /\ MaxItems \in Nat
    BY <1>1, <1>14, <2>1, WrapNumbers
  <2>3. q + a \in Nat /\ q + a < h
    BY <2>2
  <2> QED
    BY <2>1, <2>3, IndexIs
<1>16. /\ Published' = Published /\ Claimed' = Claimed + a /\ GivenBack' = GivenBack
       /\ Reserved' = Reserved
  <2>1. Minus(Plus(headIndex, a), start) = Minus(headIndex, start) + a
    BY <1>1, <1>15, PlusMinus DEF Claimed
  <2> QED
    BY <1>6, <2>1 DEF Published, Claimed, GivenBack, Reserved
<1>17. CountsType' /\ \A d \in Consumer : CallInv(d)'
  <2>1. GivenBack' \in Nat /\ Reserved' \in Nat /\ GivenBack <= GivenBack' /\ Reserved <= Reserved'
    BY <1>1, <1>16
  <2>2. Sound("header", l)
    BY DEF Sound
  <2> QED
    BY <1>9, <2>1, <2>2, OthersCalls
<1>18. Reserved' = GivenBack' + Claimed' + Sum(Pending)' /\ Sum(Returnable)' = Sum(Returnable)
  <2>1. PICK e, b, f, d, u, v, i, j : /\ e = Sum(Pending) /\ b = Sum(Pending)'
                                      /\ f = Sum(Returnable) /\ d = Sum(Returnable)'
                                      /\ u = Pending[c] /\ v = Pending'[c]
                                      /\ i = Returnable[c] /\ j = Returnable'[c]
    OBVIOUS
  <2>2. /\ e \in Nat /\ b = e - u + v /\ u = a /\ v = 0
        /\ f \in Nat /\ d = f - i + j /\ i = 0 /\ j = 0
    BY <1>1, <1>9, <1>11, <2>1, SumsChange
  <2>3. b = e - a /\ d = f
    BY <2>2
  <2>4. Reserved = GivenBack + Claimed + e
    BY <1>1, <2>1
  <2>5. Reserved = GivenBack + (Claimed + a) + b
    BY <1>1, <2>2, <2>3, <2>4
  <2> QED
    BY <1>16, <2>1, <2>3, <2>5
<1>19. Covered(top)'
  <2>1. ASSUME NEW k \in Nat PROVE Claimed' + Coming(k)'[c] <= Claimed + Coming(k)[c]
    <3>1. Coming(k)'[c] = 0 /\ Coming(k)[c] = a
      BY <1>11
    <3> QED
      BY <1>1, <1>16, <3>1
  <2>2. Published' \in Nat /\ Published <= Published' /\ Claimed' \in Nat
    BY <1>1, <1>16
  <2> QED
    BY <1>1, <1>9, <1>12, <1>13, <2>1, <2>2, CoveredKept
<1> QED
  BY <1>1, <1>12, <1>16, <1>17, <1>18, <1>19 DEF CountsInv


-----------------------------------------------------------------------------
(* The sub-queues.                                                          *)

LEMMA CountsSame ==
  ASSUME CountsInv, UNCHANGED <<start, counts, cpc, cl>>
  PROVE  CountsInv' /\ Published' = Published
<1>1. UNCHANGED <<start, tailIndex, headIndex, dequeueOptimisticCount, dequeueOvercommit, cpc, cl>>
  BY DEF counts
<1>2. /\ UNCHANGED <<Published, Claimed, GivenBack, Reserved, Pending, Returnable>>
      /\ \A c \in Consumer : Seen(c)' = Seen(c) /\ Mine(c)' = Mine(c)
  BY <1>1 DEF Published, Claimed, GivenBack, Reserved, Pending, Returnable, Seen, Mine
<1>3. \A k : Sum(Coming(k))' = Sum(Coming(k))
  BY <1>1 DEF Coming, Mine, Sum, Units
<1>4. UNCHANGED <<Sum(Pending), Sum(Returnable)>>
  BY <1>2 DEF Sum, Units
<1>5. CountsType'
  BY <1>1 DEF CountsInv, CountsType
<1>6. \A c \in Consumer : CallInv(c)'
  BY <1>1, <1>2 DEF CountsInv, CallInv
<1>7. PICK top \in 0 .. Reserved : Covered(top)
  BY DEF CountsInv
<1>8. Covered(top)'
  <2>1. (Claimed + Sum(Coming(top)) <= Published)'
    BY <1>2, <1>3, <1>7 DEF Covered
  <2>2. ASSUME NEW c \in Consumer, cpc'[c] = "recheck", Mine(c)' >= top
        PROVE  (Claimed + Sum(Coming(Mine(c))) + Seen(c) <= Mine(c))'
    <3>1. Claimed + Sum(Coming(Mine(c))) + Seen(c) <= Mine(c)
      BY <1>1, <1>2, <1>7, <2>2 DEF Covered
    <3>2. Sum(Coming(Mine(c)))' = Sum(Coming(Mine(c)))
      BY <1>1 DEF Coming, Mine, Sum, Units
    <3> QED
      BY <1>2, <3>1, <3>2
  <2> QED
    BY <2>1, <2>2 DEF Covered
<1> QED
  BY <1>2, <1>4, <1>5, <1>6, <1>7, <1>8 DEF CountsInv

\* An enqueue that is under way has room for its items.
Enqueueing == \/ ppc \in {"idle", "destroyed"}
              \/ "n" \in DOMAIN pl /\ pl.n \in Nat /\ Published + pl.n <= MaxItems

LEMMA CountsPublish ==
  ASSUME CountsInv, NEW n \in Nat, Published + n <= MaxItems,
         tailIndex' = Plus(tailIndex, n), UNCHANGED <<start, consumers>>
  PROVE  CountsInv' /\ Published' = Published + n
<1>1. /\ CountsType /\ start \in Int /\ tailIndex \in Int
      /\ Published \in Nat /\ Claimed \in Nat /\ GivenBack \in Nat
      /\ MaxItems + GivenBack < Wrap \div 2
  BY CountsFacts
<1>2. Published + n \in Index
  <2>1. PICK t, g, h : t = Published /\ g = GivenBack /\ h = Wrap \div 2
    OBVIOUS
  <2>2. /\ t \in Nat /\ g \in Nat /\ h \in Nat /\ t + n <= MaxItems /\ MaxItems + g < h
        /\ MaxItems \in Nat
    BY <1>1, <2>1, WrapNumbers
  <2>3. t + n \in Nat /\ t + n < h
    BY <2>2
  <2> QED
    BY <2>1, <2>3, IndexIs
<1>3. Minus(Plus(tailIndex, n), start) = Minus(tailIndex, start) + n /\ Plus(tailIndex, n) \in Index
  BY <1>1, <1>2, PlusMinus DEF Published
<1>4. Published' = Published + n /\ tailIndex' \in Index
  BY <1>3 DEF Published, consumers
<1>5. UNCHANGED <<start, headIndex, dequeueOptimisticCount, dequeueOvercommit, cpc, cl>>
  BY DEF consumers
<1>6. /\ UNCHANGED <<Claimed, GivenBack, Reserved, Pending, Returnable>>
      /\ \A c \in Consumer : Seen(c)' = Seen(c) /\ Mine(c)' = Mine(c)
  BY <1>5 DEF Claimed, GivenBack, Reserved, Pending, Returnable, Seen, Mine
<1>7. \A k : Sum(Coming(k))' = Sum(Coming(k))
  BY <1>5 DEF Coming, Mine, Sum, Units
<1>8. UNCHANGED <<Sum(Pending), Sum(Returnable)>>
  BY <1>6 DEF Sum, Units
<1>9. CountsType'
  BY <1>1, <1>4, <1>5 DEF CountsType
<1>10. \A c \in Consumer : CallInv(c)'
  BY <1>5, <1>6 DEF CountsInv, CallInv
<1>11. PICK top \in 0 .. Reserved : Covered(top)
  BY DEF CountsInv
<1>12. Covered(top)'
  <2>1. (Claimed + Sum(Coming(top)) <= Published)'
    <3>1. Sum(Coming(top)) \in Nat
      BY UnitsFinite
    <3>2. PICK e, q, t : e = Sum(Coming(top)) /\ q = Claimed /\ t = Published
      OBVIOUS
    <3>3. e \in Nat /\ q \in Nat /\ t \in Nat /\ q + e <= t
      BY <1>1, <1>11, <3>1, <3>2 DEF Covered
    <3>4. q + e <= t + n
      BY <3>3
    <3> QED
      BY <1>4, <1>6, <1>7, <3>2, <3>4
  <2>2. ASSUME NEW c \in Consumer, cpc'[c] = "recheck", Mine(c)' >= top
        PROVE  (Claimed + Sum(Coming(Mine(c))) + Seen(c) <= Mine(c))'
    <3>1. Claimed + Sum(Coming(Mine(c))) + Seen(c) <= Mine(c)
      BY <1>5, <1>6, <1>11, <2>2 DEF Covered
    <3>2. Sum(Coming(Mine(c)))' = Sum(Coming(Mine(c)))
      BY <1>5 DEF Coming, Mine, Sum, Units
    <3> QED
      BY <1>6, <3>1, <3>2
  <2> QED
    BY <2>1, <2>2 DEF Covered
<1> QED
  BY <1>4, <1>6, <1>8, <1>9, <1>10, <1>11, <1>12 DEF CountsInv

LEMMA CountsStep ==
  ASSUME CountsInv, NEW c \in Consumer, CountStep(c)
  PROVE  CountsInv' /\ Published' = Published
<1>1. CountsInv'
  BY CountsLook, CountsTest, CountsReserve, CountsRecheck, CountsGiveBack, CountsClaim DEF CountStep
<1>2. UNCHANGED <<start, tailIndex>>
  BY DEF CountStep, LoadTail, LoadOvercommit, Test, Reserve, Recheck, GiveBack, Claim, counts
<1> QED
  BY <1>1, <1>2 DEF Published

\* Both kinds of sub-queue share the indices in the same way.
LEMMA SameCounts ==
  /\ \A c \in Consumer : I!CountStep(c) <=> CountStep(c)
  /\ \A c \in Consumer : E!CountStep(c) <=> CountStep(c)
  /\ I!CountsInit <=> CountsInit
  /\ E!CountsInit <=> CountsInit
<1>1. ASSUME NEW c \in Consumer PROVE I!CountStep(c) <=> CountStep(c)
  BY DEF CountStep, LoadTail, LoadOvercommit, Test, Reserve, Recheck, GiveBack, Claim, counts,
         CAt, CGoto, CSet, CDone, NoCall, Fewer, Less, Minus, Plus,
         I!CountStep, I!LoadTail, I!LoadOvercommit, I!Test, I!Reserve, I!Recheck, I!GiveBack,
         I!Claim, I!counts, I!CAt, I!CGoto, I!CSet, I!CDone, I!NoCall, I!Fewer, I!Less,
         I!Minus, I!Plus
<1>2. ASSUME NEW c \in Consumer PROVE E!CountStep(c) <=> CountStep(c)
  BY DEF CountStep, LoadTail, LoadOvercommit, Test, Reserve, Recheck, GiveBack, Claim, counts,
         CAt, CGoto, CSet, CDone, NoCall, Fewer, Less, Minus, Plus,
         E!CountStep, E!LoadTail, E!LoadOvercommit, E!Test, E!Reserve, E!Recheck, E!GiveBack,
         E!Claim, E!counts, E!CAt, E!CGoto, E!CSet, E!CDone, E!NoCall, E!Fewer, E!Less,
         E!Minus, E!Plus
<1>3. I!CountsInit <=> CountsInit
  BY DEF CountsInit, NoCall, Plus, I!CountsInit, I!NoCall, I!Plus
<1>4. E!CountsInit <=> CountsInit
  BY DEF CountsInit, NoCall, Plus, E!CountsInit, E!NoCall, E!Plus
<1> QED
  BY <1>1, <1>2, <1>3, <1>4


LEMMA CountsStart ==
  ASSUME CountsInit
  PROVE  CountsInv /\ Published = 0
<1>1. /\ start \in Index /\ tailIndex = start /\ headIndex = start /\ dequeueOvercommit = start
      /\ dequeueOptimisticCount = Plus(start, start) /\ start \in Int
      /\ cpc = [c \in Consumer |-> "idle"] /\ cl = [c \in Consumer |-> NoCall]
  BY WrapNumbers DEF CountsInit, Index
<1>2. Minus(start, start) = 0
  <2>1. 0 % Wrap = 0
    BY WrapIs, WrapNumbers DEF Index
  <2> QED
    BY <1>1, <2>1 DEF Minus
<1>3. Published = 0 /\ Claimed = 0 /\ GivenBack = 0
  BY <1>1, <1>2 DEF Published, Claimed, GivenBack
<1>4. Plus(start, start) \in Index /\ Reserved = 0
  <2>1. PICK s \in Int : s = start + start
    BY <1>1
  <2>2. PICK k \in Int : s = Wrap * k + (s % Wrap) /\ s % Wrap \in Index
    BY WrapOf
  <2>3. PICK i : i = s % Wrap
    OBVIOUS
  <2>4. i \in Int /\ i \in Index
    BY <2>2, <2>3, WrapNumbers DEF Index
  <2>5. PICK m \in Int : m = -k
    OBVIOUS
  <2>6. PICK z \in Int : z = i - s
    BY <2>4
  <2>7. z = Wrap * m + 0 /\ 0 \in Index
    <3>1. PICK p, q : p = Wrap * k /\ q = Wrap * m
      OBVIOUS
    <3>2. p \in Int /\ q = -p
      BY <2>5, <3>1, WrapNumbers
    <3>3. s = p + i
      BY <2>2, <2>3, <3>1
    <3>4. z = q + 0
      BY <2>4, <2>6, <3>2, <3>3
    <3> QED
      BY <3>1, <3>4, WrapNumbers DEF Index
  <2>8. z % Wrap = 0
    BY <2>7, WrapIs
  <2>9. Plus(start, start) = i
    BY <2>1, <2>3 DEF Plus
  <2> QED
    BY <1>1, <2>1, <2>4, <2>6, <2>8, <2>9 DEF Reserved, Minus
<1>5. CountsType
  <2>1. "idle" \in OtherPlaces /\ "idle" \notin CountPlaces
    BY DEF OtherPlaces, CountPlaces
  <2>2. cpc \in [Consumer -> CountPlaces \cup OtherPlaces]
    BY <1>1, <2>1
  <2>3. cl = [c \in Consumer |-> cl[c]]
    BY <1>1
  <2>4. \A c \in Consumer : cpc[c] \notin CountPlaces
    BY <1>1, <2>1
  <2> QED
    BY <1>1, <1>4, <2>2, <2>3, <2>4 DEF CountsType
<1>6. /\ Pending \in [Consumer -> 0 .. MaxBulk] /\ Returnable \in [Consumer -> 0 .. MaxBulk]
      /\ \A k \in Int : Coming(k) \in [Consumer -> 0 .. MaxBulk]
  BY <1>5, SumsType
<1>7. \A c \in Consumer : cpc[c] = "idle"
  BY <1>1
<1>8. Sum(Pending) = 0 /\ Sum(Returnable) = 0 /\ Sum(Coming(0)) = 0
  <2>1. /\ \A c \in Consumer : Pending[c] = 0
        /\ \A c \in Consumer : Returnable[c] = 0
        /\ \A c \in Consumer : Coming(0)[c] = 0
    BY <1>7 DEF Pending, Returnable, Coming
  <2> QED
    BY <1>6, <2>1, CountZero
<1>9. \A c \in Consumer : CallInv(c)
  BY <1>7 DEF CallInv
<1>10. Covered(0)
  BY <1>3, <1>7, <1>8 DEF Covered
<1>11. 0 <= MaxOvercommit + MaxBulk * Cardinality(Consumer) /\ 0 <= MaxItems
  <2>1. PICK n : n = MaxBulk * Cardinality(Consumer)
    OBVIOUS
  <2>2. n \in Nat /\ MaxOvercommit \in Nat /\ MaxItems \in Nat
    BY <2>1, WrapNumbers
  <2>3. 0 <= MaxOvercommit + n
    BY <2>2
  <2> QED
    BY <2>1, <2>2, <2>3
<1>12. /\ Reserved = GivenBack + Claimed + Sum(Pending)
       /\ GivenBack + Sum(Returnable) <= MaxOvercommit + MaxBulk * Cardinality(Consumer)
       /\ Published <= MaxItems /\ 0 \in 0 .. Reserved
  BY <1>3, <1>4, <1>8, <1>11
<1> QED
  BY <1>3, <1>5, <1>9, <1>10, <1>12 DEF CountsInv

LEMMA ImplicitReads ==
  ASSUME CountsInv, NEW c \in Consumer, I!DequeueStep(c)
  PROVE  CountsInv' /\ UNCHANGED <<Published, ppc, pl>>
<1>1. cl = [d \in Consumer |-> cl[d]]
  BY CountsFacts DEF CountsType
<1>2. UNCHANGED <<start, counts, ppc, pl>>
  BY DEF I!DequeueStep, I!LoadHeader, I!LoadIndexTail, I!LoadKey, I!LoadBlock, I!Read,
         I!SetEmpty, I!DropEntry, I!FreeBlock, I!counts, counts
<1>3. cpc[c] \in OtherPlaces
  BY DEF I!DequeueStep, I!LoadHeader, I!LoadIndexTail, I!LoadKey, I!LoadBlock, I!Read,
         I!SetEmpty, I!DropEntry, I!FreeBlock, I!CAt, OtherPlaces
<1>4. ASSUME NEW l, I!NextBlock(c, l)
      PROVE  \E p \in OtherPlaces : \E m : cpc' = [cpc EXCEPT ![c] = p] /\ cl' = [cl EXCEPT ![c] = m]
  <2>1. "idle" \in OtherPlaces /\ "entry" \in OtherPlaces
    BY DEF OtherPlaces
  <2>2. CASE l.index = l.end
    BY <1>4, <2>1, <2>2 DEF I!NextBlock, I!CDone, I!CGoto, I!CSet
  <2>3. CASE l.index # l.end
    BY <1>4, <2>1, <2>3 DEF I!NextBlock, I!CGoto, I!CSet
  <2> QED
    BY <2>2, <2>3
<1>5. ASSUME NEW p \in OtherPlaces, I!CGoto(c, p), UNCHANGED cl
      PROVE  \E q \in OtherPlaces : \E m : cpc' = [cpc EXCEPT ![c] = q] /\ cl' = [cl EXCEPT ![c] = m]
  <2>1. cl' = [cl EXCEPT ![c] = cl[c]]
    BY <1>1, <1>5
  <2> QED
    BY <1>5, <2>1 DEF I!CGoto
<1>6. \E p \in OtherPlaces : \E m : cpc' = [cpc EXCEPT ![c] = p] /\ cl' = [cl EXCEPT ![c] = m]
  <2>1. /\ "tail" \in OtherPlaces /\ "key" \in OtherPlaces /\ "entry" \in OtherPlaces
        /\ "read" \in OtherPlaces /\ "empty" \in OtherPlaces /\ "drop" \in OtherPlaces
        /\ "free" \in OtherPlaces
    BY DEF OtherPlaces
  <2>2. CASE I!LoadHeader(c)
    BY <2>1, <2>2 DEF I!LoadHeader, I!CGoto, I!CSet
  <2>3. CASE I!LoadIndexTail(c)
    BY <2>1, <2>3 DEF I!LoadIndexTail, I!CGoto, I!CSet
  <2>4. CASE I!LoadKey(c)
    BY <2>1, <2>4 DEF I!LoadKey, I!CGoto, I!CSet
  <2>5. CASE I!LoadBlock(c)
    BY <2>1, <2>5 DEF I!LoadBlock, I!CGoto, I!CSet
  <2>6. CASE I!Read(c)
    BY <2>1, <2>6 DEF I!Read, I!CGoto, I!CSet
  <2>7. CASE I!SetEmpty(c)
    <3>1. (I!CGoto(c, "drop") /\ UNCHANGED cl) \/ I!NextBlock(c, cl[c])
      BY <2>7 DEF I!SetEmpty
    <3> QED
      BY <1>4, <1>5, <2>1, <3>1
  <2>8. CASE I!DropEntry(c)
    <3>1. I!CGoto(c, "free") /\ UNCHANGED cl
      BY <2>8 DEF I!DropEntry
    <3> QED
      BY <1>5, <2>1, <3>1
  <2>9. CASE I!FreeBlock(c)
    <3>1. I!NextBlock(c, cl[c])
      BY <2>9 DEF I!FreeBlock
    <3> QED
      BY <1>4, <3>1
  <2> QED
    BY <2>2, <2>3, <2>4, <2>5, <2>6, <2>7, <2>8, <2>9 DEF I!DequeueStep
<1>7. CountsInv'
  BY <1>2, <1>3, <1>6, CountsElsewhere
<1>8. Published' = Published
  BY <1>2 DEF Published, counts
<1> QED
  BY <1>2, <1>7, <1>8

LEMMA ExplicitReads ==
  ASSUME CountsInv, NEW c \in Consumer, E!DequeueStep(c)
  PROVE  CountsInv' /\ UNCHANGED <<Published, ppc, pl>>
<1>1. cl = [d \in Consumer |-> cl[d]]
  BY CountsFacts DEF CountsType
<1>2. UNCHANGED <<start, counts, ppc, pl>>
  BY DEF E!DequeueStep, E!LoadHeader, E!LoadFront, E!LoadBase, E!LoadBlock, E!Read,
         E!SetEmpty, E!Alone, E!counts, counts
<1>3. cpc[c] \in OtherPlaces
  BY DEF E!DequeueStep, E!LoadHeader, E!LoadFront, E!LoadBase, E!LoadBlock, E!Read,
         E!SetEmpty, E!CAt, OtherPlaces
<1>4. \E p \in OtherPlaces : \E m : cpc' = [cpc EXCEPT ![c] = p] /\ cl' = [cl EXCEPT ![c] = m]
  <2>1. /\ "front" \in OtherPlaces /\ "base" \in OtherPlaces /\ "entry" \in OtherPlaces
        /\ "read" \in OtherPlaces /\ "empty" \in OtherPlaces /\ "idle" \in OtherPlaces
    BY DEF OtherPlaces
  <2>2. CASE E!LoadHeader(c)
    BY <2>1, <2>2 DEF E!LoadHeader, E!CGoto, E!CSet
  <2>3. CASE E!LoadFront(c)
    BY <2>1, <2>3 DEF E!LoadFront, E!CGoto, E!CSet
  <2>4. CASE E!LoadBase(c)
    BY <2>1, <2>4 DEF E!LoadBase, E!CGoto, E!CSet
  <2>5. CASE E!LoadBlock(c)
    BY <2>1, <2>5 DEF E!LoadBlock, E!CGoto, E!CSet
  <2>6. CASE E!Read(c)
    BY <2>1, <2>6 DEF E!Read, E!CGoto, E!CSet
  <2>7. CASE E!SetEmpty(c)
    <3>1. E!CDone(c) \/ (E!CGoto(c, "entry") /\ UNCHANGED cl)
      BY <2>7 DEF E!SetEmpty
    <3>2. UNCHANGED cl => cl' = [cl EXCEPT ![c] = cl[c]]
      BY <1>1
    <3> QED
      BY <2>1, <3>1, <3>2 DEF E!CDone, E!CGoto, E!CSet
  <2> QED
    BY <2>2, <2>3, <2>4, <2>5, <2>6, <2>7 DEF E!DequeueStep
<1>5. CountsInv'
  BY <1>2, <1>3, <1>4, CountsElsewhere
<1>6. Published' = Published
  BY <1>2 DEF Published, counts
<1> QED
  BY <1>2, <1>5, <1>6


\* What an enqueue does before it publishes its items.
LEMMA ImplicitEnqueues ==
  ASSUME I!ProducerStep, ~ I!Publish
  PROVE  /\ UNCHANGED <<start, counts, cpc, cl>> /\ ppc \notin {"idle", "destroyed"}
         /\ \/ ppc' = "idle"
            \/ "n" \in DOMAIN pl => "n" \in DOMAIN pl' /\ pl'.n = pl.n
<1>1. /\ UNCHANGED <<start, counts, cpc, cl>> /\ ppc \notin {"idle", "destroyed"}
  BY DEF I!ProducerStep, I!Room, I!Insert, I!Grow, I!Expose, I!Requisition, I!StoreValue,
         I!Rewind, I!Clear, I!Undo, I!UndoTail, I!Construct, I!counts, counts
<1>2. \/ ppc' = "idle"
      \/ "n" \in DOMAIN pl => "n" \in DOMAIN pl' /\ pl'.n = pl.n
  <2>1. CASE I!Room \/ I!Insert \/ I!Grow \/ I!Expose \/ I!Rewind \/ I!Clear \/ I!Construct
    BY <2>1 DEF I!Room, I!Insert, I!Grow, I!Expose, I!Rewind, I!Clear, I!Construct
  <2>2. CASE I!Requisition
    BY <2>2 DEF I!Requisition
  <2>3. CASE I!StoreValue
    BY <2>3 DEF I!StoreValue
  <2>4. CASE I!Undo
    BY <2>4 DEF I!Undo, I!Failed
  <2>5. CASE I!UndoTail
    BY <2>5 DEF I!UndoTail
  <2> QED
    BY <2>1, <2>2, <2>3, <2>4, <2>5 DEF I!ProducerStep
<1> QED
  BY <1>1, <1>2

LEMMA ExplicitEnqueues ==
  ASSUME E!ProducerStep, ~ E!Publish, ~ E!CallEnqueue
  PROVE  /\ UNCHANGED <<start, counts, cpc, cl>> /\ ppc \notin {"idle", "destroyed"}
         /\ \/ ppc' = "idle"
            \/ "n" \in DOMAIN pl => "n" \in DOMAIN pl' /\ pl'.n = pl.n
<1>1. /\ UNCHANGED <<start, counts, cpc, cl>> /\ ppc \notin {"idle", "destroyed"}
  BY DEF E!ProducerStep, E!Ahead, E!Room, E!Grow, E!Requisition, E!Undo, E!Reset, E!Construct,
         E!counts, counts
<1>2. \/ ppc' = "idle"
      \/ "n" \in DOMAIN pl => "n" \in DOMAIN pl' /\ pl'.n = pl.n
  <2>1. CASE E!Room \/ E!Reset \/ E!Construct
    BY <2>1 DEF E!Room, E!Reset, E!Construct
  <2>2. CASE E!Ahead
    BY <2>2 DEF E!Ahead, E!TakeBlock
  <2>3. CASE E!Requisition
    BY <2>3 DEF E!Requisition, E!TakeBlock
  <2>4. CASE E!Undo
    BY <2>4 DEF E!Undo
  <2>5. CASE E!Grow
    BY <2>5 DEF E!Grow
  <2> QED
    BY <2>1, <2>2, <2>3, <2>4, <2>5 DEF E!ProducerStep
<1> QED
  BY <1>1, <1>2

LEMMA EnqueuingKept ==
  ASSUME CountsInv, Enqueueing, UNCHANGED <<start, counts, cpc, cl>>,
         ppc \notin {"idle", "destroyed"},
         \/ ppc' = "idle"
         \/ "n" \in DOMAIN pl => "n" \in DOMAIN pl' /\ pl'.n = pl.n
  PROVE  CountsInv' /\ Enqueueing'
<1>1. CountsInv' /\ Published' = Published
  BY CountsSame
<1> QED
  BY <1>1 DEF Enqueueing

LEMMA Publishes ==
  ASSUME CountsInv, Enqueueing, ppc = "publish", tailIndex' = Plus(tailIndex, pl.n), ppc' = "idle",
         UNCHANGED <<start, consumers>>
  PROVE  CountsInv' /\ Enqueueing'
<1>1. pl.n \in Nat /\ Published + pl.n <= MaxItems
  BY DEF Enqueueing
<1> QED
  BY <1>1, CountsPublish DEF Enqueueing

LEMMA ImplicitStep ==
  ASSUME CountsInv, Enqueueing, I!Next
  PROVE  CountsInv' /\ Enqueueing'
<1>1. CASE I!CallEnqueue
  <2>1. UNCHANGED <<start, counts, cpc, cl>>
    BY <1>1 DEF I!CallEnqueue, I!counts, counts
  <2>2. PICK n \in 1 .. MaxBulk : /\ I!Minus(tailIndex, start) + n <= ImplicitItems
                                  /\ pl' = [I!NoEnqueue EXCEPT !.n = n]
    BY <1>1 DEF I!CallEnqueue
  <2>3. n \in Nat
    BY WrapNumbers
  <2>4. "n" \in DOMAIN pl' /\ pl'.n = n
    BY <2>2 DEF I!NoEnqueue
  <2>5. Published + n <= MaxItems
    <3>1. Published + n <= ImplicitItems
      BY <2>2 DEF Published, Minus, I!Minus
    <3>2. Published \in Nat /\ MaxItems \in Nat /\ ImplicitItems \in Nat /\ ImplicitItems <= MaxItems
      BY CountsFacts, QueuesAssumption DEF CountsAssumption, I!CountsAssumption
    <3> QED
      BY <2>3, <3>1, <3>2
  <2>6. CountsInv' /\ Published' = Published
    BY <2>1, CountsSame
  <2> QED
    BY <2>3, <2>4, <2>5, <2>6 DEF Enqueueing
<1>2. CASE I!ProducerStep /\ ~ I!Publish
  BY <1>2, ImplicitEnqueues, EnqueuingKept
<1>3. CASE I!Publish
  <2>1. /\ ppc = "publish" /\ tailIndex' = Plus(tailIndex, pl.n) /\ ppc' = "idle"
        /\ UNCHANGED <<start, consumers>>
    BY <1>3 DEF I!Publish, I!Plus, I!consumers, Plus, consumers
  <2> QED
    BY <2>1, Publishes
<1>4. CASE I!Destroy
  <2>1. UNCHANGED <<start, counts, cpc, cl>> /\ ppc' = "destroyed"
    BY <1>4 DEF I!Destroy, I!counts, counts
  <2> QED
    BY <2>1, CountsSame DEF Enqueueing
<1>5. ASSUME NEW c \in Consumer, I!Dequeue(c)
      PROVE  CountsInv' /\ Enqueueing'
  <2>1. CountStep(c) /\ UNCHANGED <<ppc, pl>>
    BY <1>5, SameCounts DEF I!Dequeue
  <2>2. CountsInv' /\ Published' = Published
    BY <2>1, CountsStep
  <2> QED
    BY <2>1, <2>2 DEF Enqueueing
<1>6. ASSUME NEW c \in Consumer, I!DequeueStep(c)
      PROVE  CountsInv' /\ Enqueueing'
  <2>1. CountsInv' /\ UNCHANGED <<Published, ppc, pl>>
    BY <1>6, ImplicitReads
  <2> QED
    BY <2>1 DEF Enqueueing
<1> QED
  BY <1>1, <1>2, <1>3, <1>4, <1>5, <1>6 DEF I!Next

LEMMA ImplicitFit ==
  ASSUME CountsInv, I!Next, Published <= ImplicitItems,
         ppc = "publish" => pl.n \in Nat /\ Published + pl.n <= ImplicitItems
  PROVE  Published' <= ImplicitItems
<1>1. CASE I!CallEnqueue \/ I!Destroy
  <2>1. UNCHANGED <<start, counts, cpc, cl>>
    BY <1>1 DEF I!CallEnqueue, I!Destroy, I!counts, counts
  <2> QED
    BY <2>1, CountsSame
<1>2. CASE I!ProducerStep /\ ~ I!Publish
  BY <1>2, ImplicitEnqueues, CountsSame
<1>3. CASE I!Publish
  <2>1. ppc = "publish" /\ tailIndex' = Plus(tailIndex, pl.n) /\ UNCHANGED <<start, consumers>>
    BY <1>3 DEF I!Publish, I!Plus, I!consumers, Plus, consumers
  <2>2. pl.n \in Nat /\ Published + pl.n <= MaxItems
    <3>1. /\ Published \in Nat /\ MaxItems \in Nat /\ ImplicitItems \in Nat
          /\ ImplicitItems <= MaxItems
      BY CountsFacts, QueuesAssumption DEF CountsAssumption, I!CountsAssumption
    <3> QED
      BY <2>1, <3>1
  <2> QED
    BY <2>1, <2>2, CountsPublish
<1>4. ASSUME NEW c \in Consumer, I!Dequeue(c) \/ I!DequeueStep(c)
      PROVE  Published' = Published
  <2>1. CASE I!Dequeue(c)
    BY <2>1, SameCounts, CountsStep DEF I!Dequeue
  <2>2. CASE I!DequeueStep(c)
    BY <2>2, ImplicitReads
  <2> QED
    BY <1>4, <2>1, <2>2
<1> QED
  BY <1>1, <1>2, <1>3, <1>4 DEF I!Next

LEMMA ExplicitStep ==
  ASSUME CountsInv, Enqueueing, E!Next
  PROVE  CountsInv' /\ Enqueueing'
<1>1. CASE E!CallEnqueue
  <2>1. UNCHANGED <<start, counts, cpc, cl>>
    BY <1>1 DEF E!CallEnqueue, E!counts, counts
  <2>2. PICK n \in 1 .. MaxBulk :
           /\ E!Minus(tailIndex, start) + n <= MaxItems
           /\ pl' = [n |-> n, need |-> E!Needed(n), first |-> NoBlock, front |-> front,
                     slotsUsed |-> slotsUsed, startBlock |-> tailBlock]
    BY <1>1 DEF E!CallEnqueue
  <2>3. n \in Nat
    BY WrapNumbers
  <2>4. "n" \in DOMAIN pl' /\ pl'.n = n
    BY <2>2
  <2>5. Published + n <= MaxItems
    BY <2>2 DEF Published, Minus, E!Minus
  <2>6. CountsInv' /\ Published' = Published
    BY <2>1, CountsSame
  <2> QED
    BY <2>3, <2>4, <2>5, <2>6 DEF Enqueueing
<1>2. CASE E!ProducerStep /\ ~ E!Publish /\ ~ E!CallEnqueue
  BY <1>2, ExplicitEnqueues, EnqueuingKept
<1>3. CASE E!Publish
  <2>1. /\ ppc = "publish" /\ tailIndex' = Plus(tailIndex, pl.n) /\ ppc' = "idle"
        /\ UNCHANGED <<start, consumers>>
    BY <1>3 DEF E!Publish, E!Plus, E!consumers, Plus, consumers
  <2> QED
    BY <2>1, Publishes
<1>4. CASE E!Destroy
  <2>1. UNCHANGED <<start, counts, cpc, cl>> /\ ppc' = "destroyed"
    BY <1>4 DEF E!Destroy, E!counts, counts
  <2> QED
    BY <2>1, CountsSame DEF Enqueueing
<1>5. ASSUME NEW c \in Consumer, E!Dequeue(c)
      PROVE  CountsInv' /\ Enqueueing'
  <2>1. CountStep(c) /\ UNCHANGED <<ppc, pl>>
    BY <1>5, SameCounts DEF E!Dequeue
  <2>2. CountsInv' /\ Published' = Published
    BY <2>1, CountsStep
  <2> QED
    BY <2>1, <2>2 DEF Enqueueing
<1>6. ASSUME NEW c \in Consumer, E!DequeueStep(c)
      PROVE  CountsInv' /\ Enqueueing'
  <2>1. CountsInv' /\ UNCHANGED <<Published, ppc, pl>>
    BY <1>6, ExplicitReads
  <2> QED
    BY <2>1 DEF Enqueueing
<1> QED
  BY <1>1, <1>2, <1>3, <1>4, <1>5, <1>6 DEF E!Next

LEMMA CountsAreSettled ==
  ASSUME CountsInv
  PROVE  CountsSettle
<1>1. /\ Claimed <= Published /\ CountsType
      /\ GivenBack \in Nat /\ Claimed \in Nat /\ Reserved = GivenBack + Claimed + Sum(Pending)
      /\ start \in Int /\ dequeueOptimisticCount \in Int /\ dequeueOvercommit \in Int
      /\ headIndex \in Index
  BY CountsFacts DEF CountsType
<1>2. ASSUME \A c \in Consumer : CAt(c, "idle")
      PROVE  Minus(dequeueOptimisticCount, dequeueOvercommit) = headIndex
  <2>1. \A c \in Consumer : Pending[c] = 0
    BY <1>2 DEF Pending, CAt
  <2>2. Sum(Pending) = 0
    BY <1>1, <2>1, SumsType, CountZero
  <2>3. Reserved = GivenBack + Claimed
    BY <1>1, <2>2
  <2> QED
    BY <1>1, <2>3, CountsMeet DEF Reserved, GivenBack, Claimed
<1> QED
  BY <1>1, <1>2 DEF CountsSettle

(***************************************************************************)
(* However many consumers reserve, give back and claim at once, and        *)
(* wherever the indices are when they come round: no item is claimed that  *)
(* has not been published, and when nobody dequeues no reservation is      *)
(* left over.                                                              *)
(***************************************************************************)
THEOREM ReservationsComeOutEven == Spec => []CountsSettle
<1> DEFINE I0 == CountsInv /\ Enqueueing
<1>1. Init => I0
  <2> SUFFICES ASSUME Init PROVE CountsInv /\ Enqueueing
    OBVIOUS
  <2>1. CountsInit /\ ppc = "idle"
    BY SameCounts DEF Init, I!Init, E!Init
  <2> QED
    BY <2>1, CountsStart DEF Enqueueing
<1>2. I0 /\ [Next]_vars => I0'
  <2> SUFFICES ASSUME CountsInv, Enqueueing, [Next]_vars PROVE CountsInv' /\ Enqueueing'
    OBVIOUS
  <2>1. I!Next \/ E!Next \/ UNCHANGED <<start, counts, cpc, cl, ppc, pl>>
    BY DEF Next, vars, subQueueVars
  <2>2. CASE UNCHANGED <<start, counts, cpc, cl, ppc, pl>>
    BY <2>2, CountsSame DEF Enqueueing
  <2> QED
    BY <2>1, <2>2, ImplicitStep, ExplicitStep
<1>3. I0 => CountsSettle
  BY CountsAreSettled
<1> QED
  BY <1>1, <1>2, <1>3, PTL DEF Spec

-----------------------------------------------------------------------------
(* ProducerHash: HashProofs has the proofs.                                 *)

N == INSTANCE HashProofs WITH
       Thread <- HThread, Hash <- ThreadHash, InitialSize <- HashSize, MaxFailures <- HashFailures,
       pc <- hpc, local <- hl

LEMMA SameHashInit == H!Init <=> N!Init
  BY DEF H!Init, H!Table, H!NoLocals, N!Init, N!Table, N!NoLocals

LEMMA SameHashNext == H!Next <=> N!Next
  BY DEF H!Next, H!Call, H!Step, H!Probe, H!Put, H!Count, H!TryLock, H!Reload, H!Grow, H!GrowFails, H!Unlock,
         H!Test, H!Create, H!CreateFails, H!At, H!Goto, H!Set, H!Return, H!Fail, H!shared, H!NoLocals, H!Table,
         H!capacity, H!Slot, H!Entry, H!Crowded, H!NewCapacity, H!Cardinality, H!IsFiniteSet,
         N!Next, N!Call, N!Step, N!Probe, N!Put, N!Count, N!TryLock, N!Reload, N!Grow, N!GrowFails, N!Unlock,
         N!Test, N!Create, N!CreateFails, N!At, N!Goto, N!Set, N!Return, N!Fail, N!shared, N!NoLocals, N!Table,
         N!capacity, N!Slot, N!Entry, N!Crowded, N!NewCapacity, N!Cardinality, N!IsFiniteSet

LEMMA SameHashExact ==
  (H!RoomLeft /\ H!CountExact /\ H!OneProducer) <=> (N!RoomLeft /\ N!CountExact /\ N!OneProducer)
  BY DEF H!RoomLeft, H!CountExact, H!OneProducer, H!Keys, H!Cardinality, H!IsFiniteSet,
         N!RoomLeft, N!CountExact, N!OneProducer, N!Keys, N!Cardinality, N!IsFiniteSet

LEMMA HashSettings == N!HashAssumption
  BY QueuesAssumption DEF H!HashAssumption, N!HashAssumption, H!IsFiniteSet, N!IsFiniteSet

(***************************************************************************)
(* However many threads come and wherever their ids hash to, and whatever  *)
(* allocations fail: every table keeps the free slot on which searches and  *)
(* insertions rely, the count that decides when to grow is exact, and a     *)
(* thread is always given the one producer that is its own.                *)
(***************************************************************************)
THEOREM ThreadsKeepProducers == Spec => []HashExact
<1> DEFINE I0 == kind = "hash" => N!IInv
<1>1. Init => I0
  BY SameHashInit, HashSettings, N!InvInit DEF Init
<1>2. I0 /\ [Next]_vars => I0'
  <2> SUFFICES ASSUME kind' = "hash", I0, [Next]_vars PROVE N!IInv'
    OBVIOUS
  <2>1. kind = "hash" /\ N!IInv /\ (H!Next \/ UNCHANGED N!vars)
    BY DEF Next, vars, hashVars, N!vars, N!shared
  <2>2. N!IInv /\ (N!Next \/ UNCHANGED N!vars)
    BY <2>1, SameHashNext
  <2> QED
    BY <2>2, HashSettings, N!InvStep
<1>3. I0 => HashExact
  BY SameHashExact, HashSettings, N!Room, N!Own, N!Exact DEF HashExact
<1> QED
  BY <1>1, <1>2, <1>3, PTL DEF Spec
-----------------------------------------------------------------------------
(* ImplicitProducer's blocks: ImplicitProofs has the proofs.                *)

B == INSTANCE ImplicitProofs WITH Block <- QBlock, null <- NoBlock, Dead <- DeadItem,
       MaxItems <- ImplicitItems, InitialSize <- ImplicitSize

LEMMA SameBlocksInit == I!Init <=> B!Init
  BY DEF I!Init, I!CountsInit, I!NoCall, I!NoEnqueue, I!Plus, I!Blocks, I!INVALID,
         B!Init, B!CountsInit, B!NoCall, B!NoEnqueue, B!Plus, B!Blocks, B!INVALID

LEMMA SameBlocksVars ==
  /\ (UNCHANGED I!index <=> UNCHANGED B!index) /\ (UNCHANGED I!blocks <=> UNCHANGED B!blocks)
  /\ (UNCHANGED I!counts <=> UNCHANGED B!counts) /\ (UNCHANGED I!vars <=> UNCHANGED B!vars)
  BY DEF I!index, I!blocks, I!counts, I!vars, B!index, B!blocks, B!counts, B!vars

LEMMA SameEnqueue ==
  /\ I!CallEnqueue <=> B!CallEnqueue
  /\ I!ProducerStep <=> B!ProducerStep
<1>1. I!CallEnqueue <=> B!CallEnqueue
  BY DEF I!CallEnqueue, I!Minus, I!NoEnqueue, I!Needed, I!Base, I!Plus, I!counts, I!index, I!blocks,
         B!CallEnqueue, B!Minus, B!NoEnqueue, B!Needed, B!Base, B!Plus, B!counts, B!index, B!blocks
<1>2. I!Room <=> B!Room
  BY DEF I!Room, I!Less, I!Blocks, I!next, I!NewBase, I!Base, I!Minus, I!counts, I!index, I!blocks,
         B!Room, B!Less, B!Blocks, B!next, B!NewBase, B!Base, B!Minus, B!counts, B!index, B!blocks
<1>3. I!Insert <=> B!Insert
  BY DEF I!Insert, I!Entry, I!capacity, I!INVALID, I!Blocks, I!next, I!NewBase, I!Base, I!Minus, I!counts, I!blocks,
         I!Cardinality, I!IsFiniteSet,
         B!Insert, B!Entry, B!capacity, B!INVALID, B!Blocks, B!next, B!NewBase, B!Base, B!Minus, B!counts, B!blocks,
         B!Cardinality, B!IsFiniteSet
<1>4. I!Grow <=> B!Grow
  BY DEF I!Grow, I!Entry, I!capacity, I!INVALID, I!counts, I!index, I!blocks, I!Cardinality, I!IsFiniteSet,
         B!Grow, B!Entry, B!capacity, B!INVALID, B!counts, B!index, B!blocks, B!Cardinality, B!IsFiniteSet
<1>5. (I!Expose <=> B!Expose) /\ (I!Rewind <=> B!Rewind)
  BY DEF I!Expose, I!Rewind, I!MoveTail, I!capacity, I!counts, I!blocks, I!Cardinality, I!IsFiniteSet,
         B!Expose, B!Rewind, B!MoveTail, B!capacity, B!counts, B!blocks, B!Cardinality, B!IsFiniteSet
<1>6. I!Requisition <=> B!Requisition
  BY DEF I!Requisition, I!counts, I!index, B!Requisition, B!counts, B!index
<1>7. I!StoreValue <=> B!StoreValue
  BY DEF I!StoreValue, I!LastEntry, I!Entry, I!capacity, I!next, I!NewBase, I!Blocks, I!Base, I!Minus, I!Plus,
         I!LastNeeded, I!counts, I!blocks, I!Cardinality, I!IsFiniteSet,
         B!StoreValue, B!LastEntry, B!Entry, B!capacity, B!next, B!NewBase, B!Blocks, B!Base, B!Minus, B!Plus,
         B!LastNeeded, B!counts, B!blocks, B!Cardinality, B!IsFiniteSet
<1>8. I!Clear <=> B!Clear
  BY DEF I!Clear, I!Entry, I!capacity, I!counts, I!blocks, I!Cardinality, I!IsFiniteSet,
         B!Clear, B!Entry, B!capacity, B!counts, B!blocks, B!Cardinality, B!IsFiniteSet
<1>9. I!Undo <=> B!Undo
  BY DEF I!Undo, I!Entry, I!capacity, I!Find, I!BlockOffset, I!LastEntry, I!NewBase, I!Blocks, I!Base, I!Minus,
         I!Failed, I!NoEnqueue, I!counts, I!Cardinality, I!IsFiniteSet,
         B!Undo, B!Entry, B!capacity, B!Find, B!BlockOffset, B!LastEntry, B!NewBase, B!Blocks, B!Base, B!Minus,
         B!Failed, B!NoEnqueue, B!counts, B!Cardinality, B!IsFiniteSet
<1>a. I!UndoTail <=> B!UndoTail
  BY DEF I!UndoTail, I!MoveTail, I!capacity, I!counts, I!blocks, I!Cardinality, I!IsFiniteSet,
         B!UndoTail, B!MoveTail, B!capacity, B!counts, B!blocks, B!Cardinality, B!IsFiniteSet
<1>b. I!Construct <=> B!Construct
  BY DEF I!Construct, I!TargetBlock, I!Plus, I!Base, I!LastNeeded, I!BlockOffset, I!Minus, I!counts, I!index,
         B!Construct, B!TargetBlock, B!Plus, B!Base, B!LastNeeded, B!BlockOffset, B!Minus, B!counts, B!index
<1>c. I!Publish <=> B!Publish
  BY DEF I!Publish, I!Plus, I!NoEnqueue, I!consumers, I!index, I!blocks,
         B!Publish, B!Plus, B!NoEnqueue, B!consumers, B!index, B!blocks
<1> QED
  BY <1>1, <1>2, <1>3, <1>4, <1>5, <1>6, <1>7, <1>8, <1>9, <1>a, <1>b, <1>c DEF I!ProducerStep, B!ProducerStep

LEMMA SameDequeue ==
  ASSUME NEW c \in Consumer
  PROVE  (I!Dequeue(c) <=> B!Dequeue(c)) /\ (I!DequeueStep(c) <=> B!DequeueStep(c))
<1>1. I!CountStep(c) <=> B!CountStep(c)
  BY DEF I!CountStep, I!LoadTail, I!LoadOvercommit, I!Test, I!Reserve, I!Recheck, I!GiveBack,
         I!Claim, I!counts, I!CAt, I!CGoto, I!CSet, I!CDone, I!NoCall, I!Fewer, I!Less,
         I!Minus, I!Plus,
         B!CountStep, B!LoadTail, B!LoadOvercommit, B!Test, B!Reserve, B!Recheck, B!GiveBack,
         B!Claim, B!counts, B!CAt, B!CGoto, B!CSet, B!CDone, B!NoCall, B!Fewer, B!Less,
         B!Minus, B!Plus
<1>2. I!Dequeue(c) <=> B!Dequeue(c)
  BY <1>1 DEF I!Dequeue, I!index, I!blocks, B!Dequeue, B!index, B!blocks
<1>3. /\ I!LoadHeader(c) <=> B!LoadHeader(c)
      /\ I!LoadIndexTail(c) <=> B!LoadIndexTail(c)
  BY DEF I!LoadHeader, I!LoadIndexTail, I!CAt, I!CSet, I!CGoto, I!counts, I!index, I!blocks,
         B!LoadHeader, B!LoadIndexTail, B!CAt, B!CSet, B!CGoto, B!counts, B!index, B!blocks
<1>4. /\ I!LoadKey(c) <=> B!LoadKey(c)
      /\ I!LoadBlock(c) <=> B!LoadBlock(c)
  BY DEF I!LoadKey, I!LoadBlock, I!CAt, I!CSet, I!CGoto, I!counts, I!index, I!blocks, I!Find, I!Entry, I!capacity,
         I!BlockOffset, I!Base, I!Minus, I!Cardinality, I!IsFiniteSet,
         B!LoadKey, B!LoadBlock, B!CAt, B!CSet, B!CGoto, B!counts, B!index, B!blocks, B!Find, B!Entry, B!capacity,
         B!BlockOffset, B!Base, B!Minus, B!Cardinality, B!IsFiniteSet
<1>5. I!Read(c) <=> B!Read(c)
  BY DEF I!Read, I!CAt, I!CSet, I!CGoto, I!counts, I!index, I!EndIndex, I!Less, I!Plus, I!Minus, I!Base,
         B!Read, B!CAt, B!CSet, B!CGoto, B!counts, B!index, B!EndIndex, B!Less, B!Plus, B!Minus, B!Base
<1>6. \A l : I!NextBlock(c, l) <=> B!NextBlock(c, l)
  BY DEF I!NextBlock, I!CDone, I!CGoto, I!CSet, I!NoCall, B!NextBlock, B!CDone, B!CGoto, B!CSet, B!NoCall
<1>7. I!SetEmpty(c) <=> B!SetEmpty(c)
  BY <1>6 DEF I!SetEmpty, I!CAt, I!CGoto, I!counts, I!index, I!JustRead, I!Fewer, I!Minus,
              B!SetEmpty, B!CAt, B!CGoto, B!counts, B!index, B!JustRead, B!Fewer, B!Minus
<1>8. I!DropEntry(c) <=> B!DropEntry(c)
  BY DEF I!DropEntry, I!CAt, I!CGoto, I!counts, I!blocks, I!Entry, I!capacity, I!Cardinality, I!IsFiniteSet,
         B!DropEntry, B!CAt, B!CGoto, B!counts, B!blocks, B!Entry, B!capacity, B!Cardinality, B!IsFiniteSet
<1>9. I!FreeBlock(c) <=> B!FreeBlock(c)
  BY <1>6 DEF I!FreeBlock, I!CAt, I!counts, I!index, B!FreeBlock, B!CAt, B!counts, B!index
<1> QED
  BY <1>2, <1>3, <1>4, <1>5, <1>7, <1>8, <1>9 DEF I!DequeueStep, B!DequeueStep

LEMMA SameBlocksNext == I!Next <=> B!Next
<1>1. I!Destroy <=> B!Destroy
  BY DEF I!Destroy, I!Left, I!Plus, I!Minus, I!BlockOf, I!Entry, I!capacity, I!Find, I!BlockOffset, I!LastEntry,
         I!Base, I!CAt, I!counts, I!index, I!Cardinality, I!IsFiniteSet,
         B!Destroy, B!Left, B!Plus, B!Minus, B!BlockOf, B!Entry, B!capacity, B!Find, B!BlockOffset, B!LastEntry,
         B!Base, B!CAt, B!counts, B!index, B!Cardinality, B!IsFiniteSet
<1> QED
  BY <1>1, SameEnqueue, SameDequeue DEF I!Next, B!Next

LEMMA SameBlocksClaims ==
  (I!EntryFound <=> B!EntryFound) /\ (I!BlocksConserved <=> B!BlocksConserved)
<1>1. I!EntryFound <=> B!EntryFound
  BY DEF I!EntryFound, I!CAt, I!Entry, I!capacity, I!Base, I!Cardinality, I!IsFiniteSet,
         B!EntryFound, B!CAt, B!Entry, B!capacity, B!Base, B!Cardinality, B!IsFiniteSet
<1>2. I!BlocksConserved <=> B!BlocksConserved
  BY DEF I!BlocksConserved, B!BlocksConserved
<1> QED
  BY <1>1, <1>2

LEMMA BlocksSettings == B!Settings
  BY QueuesAssumption DEF I!BlocksAssumption, I!CountsAssumption, I!IsFiniteSet, I!Cardinality,
     B!Settings, B!CountsAssumption, B!BlocksAssumption, B!IsFiniteSet, B!Cardinality

LEMMA ClaimIsPublished ==
  ASSUME CountsInv, NEW c \in Consumer, cpc[c] = "claim"
  PROVE  cl[c].actual > 0 /\ Claimed + cl[c].actual <= Published
<1>1. /\ CountsType /\ CallInv(c) /\ Published \in Nat /\ Claimed \in Nat
  BY CountsFacts
<1>2. PICK top \in 0 .. Reserved : Covered(top)
  BY DEF CountsInv
<1>3. cl[c].actual \in Nat /\ cpc[c] \in CountPlaces
  BY <1>1, CallNumbers DEF CountPlaces
<1>4. PICK a \in Nat : a = cl[c].actual
  BY <1>3
<1>5. Coming(top)[c] = a
  BY <1>4 DEF Coming
<1>6. PICK e : e = Sum(Coming(top))
  OBVIOUS
<1>7. e \in Nat /\ a <= e
  <2>1. PICK f \in [Consumer -> 0 .. MaxBulk] : f = Coming(top)
    <3>1. top \in Int
      BY <1>1
    <3> QED
      BY <1>1, <3>1, SumsType
  <2>2. PICK x : x = Cardinality({u \in Units(f) : u[1] # c})
    OBVIOUS
  <2>3. Sum(f) = x + f[c] /\ x \in Nat
    BY <2>2, CountSplit
  <2> QED
    BY <1>5, <1>6, <2>1, <2>3
<1>8. Claimed + e <= Published
  BY <1>2, <1>6 DEF Covered
<1>9. a > 0
  BY <1>1, <1>4 DEF CallInv
<1> QED
  BY <1>1, <1>4, <1>7, <1>8, <1>9

LEMMA CountsFit ==
  ASSUME CountsInv, Published <= ImplicitItems
  PROVE  B!Fit /\ B!Published = Published
<1>1. /\ CountsType /\ Claimed <= Published
      /\ \A c \in Consumer : cpc[c] = "claim" => cl[c].actual > 0 /\ Claimed + cl[c].actual <= Published
  BY CountsFacts, ClaimIsPublished
<1>2. B!CountsType
  BY <1>1 DEF CountsType, Index, CountPlaces, OtherPlaces, Counting,
              B!CountsType, B!Index, B!CountPlaces, B!OtherPlaces, B!Counting
<1>3. B!Claimed = Claimed /\ B!Published = Published
  BY DEF Claimed, Published, Minus, B!Claimed, B!Published, B!Minus
<1> QED
  BY <1>1, <1>2, <1>3 DEF B!Fit

\* In every state the counts are right, and an implicit sub-queue's blocks are.
BlocksInv ==
  CountsInv /\ Enqueueing /\ (kind = "implicit" => B!IInv /\ Published <= ImplicitItems)

LEMMA BlocksKept == Spec => []BlocksInv
<1>1. Init => BlocksInv
  <2> SUFFICES ASSUME Init
               PROVE  /\ CountsInv /\ Enqueueing
                      /\ kind = "implicit" => B!IInv /\ Published <= ImplicitItems
    BY DEF BlocksInv
  <2>1. CountsInit /\ ppc = "idle"
    BY SameCounts DEF Init, I!Init, E!Init
  <2>2. kind = "implicit" => B!Init
    BY SameBlocksInit DEF Init
  <2>3. kind = "implicit" => B!Living
    BY <2>2, BlocksSettings, B!InitKept
  <2>4. CountsInv /\ Published = 0 /\ 0 <= ImplicitItems
    BY <2>1, CountsStart, QueuesAssumption DEF I!CountsAssumption
  <2> QED
    BY <2>1, <2>3, <2>4 DEF Enqueueing, B!Living
<1>2. BlocksInv /\ [Next]_vars => BlocksInv'
  <2> SUFFICES ASSUME BlocksInv, [Next]_vars PROVE BlocksInv'
    OBVIOUS
  <2>1. CountsInv' /\ Enqueueing'
    <3>1. I!Next \/ E!Next \/ UNCHANGED <<start, counts, cpc, cl, ppc, pl>>
      BY DEF Next, vars, subQueueVars
    <3>2. CASE UNCHANGED <<start, counts, cpc, cl, ppc, pl>>
      BY <3>2, CountsSame DEF Enqueueing, BlocksInv
    <3> QED
      BY <3>1, <3>2, ImplicitStep, ExplicitStep DEF BlocksInv
  <2>2. ASSUME kind' = "implicit" PROVE B!IInv' /\ Published' <= ImplicitItems
    <3>1. kind = "implicit" /\ (I!Next \/ UNCHANGED <<subQueueVars, entries, elementsCompletelyDequeued>>)
      BY <2>2 DEF Next, vars, implicitVars
    <3>2. UNCHANGED <<subQueueVars, entries, elementsCompletelyDequeued>> => UNCHANGED B!vars
      BY DEF subQueueVars, counts, B!vars, B!counts, B!index, B!blocks
    <3>3. /\ CountsInv /\ Enqueueing /\ B!IInv /\ Published <= ImplicitItems
          /\ B!Fit /\ B!Published = Published
      BY <3>1, CountsFit DEF BlocksInv
    <3>4. B!IInv'
      BY <3>1, <3>2, <3>3, SameBlocksNext, BlocksSettings, B!StepKept
    <3>5. ppc = "publish" => pl.n \in Nat /\ Published + pl.n <= ImplicitItems
      BY <3>3 DEF B!IInv, B!ProducerInv, B!EnqueueInv, Enqueueing
    <3>6. I!Next => Published' <= ImplicitItems
      BY <3>3, <3>5, ImplicitFit
    <3>7. UNCHANGED <<subQueueVars, entries, elementsCompletelyDequeued>> => Published' = Published
      BY <3>3, CountsSame DEF subQueueVars
    <3> QED
      BY <3>1, <3>3, <3>4, <3>6, <3>7
  <2> QED
    BY <2>1, <2>2 DEF BlocksInv
<1> QED
  BY <1>1, <1>2, PTL DEF Spec

(***************************************************************************)
(* For any number of consumers and blocks, any block size and any first    *)
(* table, wherever the indices come round: a consumer that follows the      *)
(* index finds its own item's block, in the table that it has loaded,       *)
(* whatever the producer inserts, takes back or copies to a bigger table    *)
(* meanwhile.                                                              *)
(***************************************************************************)
THEOREM ConsumersFindTheirBlock == Spec => []EntryFound
<1>1. BlocksInv => EntryFound
  BY CountsFit, BlocksSettings, SameBlocksClaims, B!FoundInv DEF BlocksInv, EntryFound
<1> QED
  BY <1>1, BlocksKept, PTL

(***************************************************************************)
(* And no block is given back twice or with items in it, and none is lost, *)
(* when an enqueue fails halfway and in the destructor as well.             *)
(***************************************************************************)
THEOREM BlocksComeBackOnce == Spec => []BlocksConserved
<1>1. BlocksInv => BlocksConserved
  BY BlocksSettings, SameBlocksClaims, B!ConservedInv DEF BlocksInv, BlocksConserved
<1> QED
  BY <1>1, BlocksKept, PTL
=============================================================================
