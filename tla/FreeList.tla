------------------------------ MODULE FreeList ------------------------------
(***************************************************************************)
(* Where the queues of concurrentqueue.h take their blocks from and give   *)
(* them back to: the initial pool, then the lock-free FreeList, then the   *)
(* allocator.  One step is one access to a shared word (sequentially       *)
(* consistent).                                                            *)
(***************************************************************************)
EXTENDS Integers, FiniteSets

CONSTANTS Thread,
          PoolSize,    \* initialBlockPoolSize
          MaxBlocks    \* bound: blocks that ever exist

FreeListAssumption == /\ IsFiniteSet(Thread)
                      /\ PoolSize \in Nat /\ MaxBlocks \in Nat /\ PoolSize <= MaxBlocks

null == -1
Block == 0 .. MaxBlocks - 1
\* Above every reference count, as bit 31 is in the code.
SHOULD_BE_ON_FREELIST == 2 * Cardinality(Thread) + 2

VARIABLES freeListHead, freeListRefs, freeListNext, initialBlockPoolIndex,
          made,        \* blocks that exist: the pool's, then the allocated ones
          held,        \* the blocks that each thread uses
          pc, local
vars == <<freeListHead, freeListRefs, freeListNext, initialBlockPoolIndex,
          made, held, pc, local>>
pool == <<initialBlockPoolIndex, made>>
list == <<freeListHead, freeListRefs, freeListNext>>

\* head, refs and next of try_get; node and its head in the adding functions;
\* where add_knowing_refcount_is_zero returns to.
NoLocals == [head |-> null, refs |-> 0, next |-> null,
             node |-> null, seen |-> null, after |-> "idle"]

Init == /\ freeListHead = null
        /\ freeListRefs = [b \in Block |-> 0]
        /\ freeListNext = [b \in Block |-> null]
        /\ initialBlockPoolIndex = 0
        /\ made = PoolSize
        /\ held = [t \in Thread |-> {}]
        /\ pc = [t \in Thread |-> "idle"]
        /\ local = [t \in Thread |-> NoLocals]

At(t, from) == pc[t] = from
Goto(t, to) == pc' = [pc EXCEPT ![t] = to]
Keep(t, l) == local' = [local EXCEPT ![t] = l]

\* The thread returns with block b, or with none.
Return(t, b) == /\ Goto(t, "idle")
                /\ Keep(t, NoLocals)
                /\ held' = [held EXCEPT ![t] = @ \cup ({b} \ {null})]

\* Back in the loop of try_get with this head: leave it when there is none.
Loop(t, head) == /\ Goto(t, IF head = null THEN "create" ELSE "refs")
                 /\ Keep(t, [NoLocals EXCEPT !.head = head])

(***************************************************************************)
(* requisition_block                                                       *)
(***************************************************************************)
Requisition(t) ==
    /\ At(t, "idle")
    /\ Goto(t, IF initialBlockPoolIndex >= PoolSize THEN "head" ELSE "pool")
    /\ UNCHANGED <<pool, list, held, local>>

TakeFromPool(t) ==
    /\ At(t, "pool")
    /\ initialBlockPoolIndex' = initialBlockPoolIndex + 1
    /\ IF initialBlockPoolIndex < PoolSize
       THEN Return(t, initialBlockPoolIndex)
       ELSE Goto(t, "head") /\ UNCHANGED <<held, local>>
    /\ UNCHANGED <<made, list>>

\* CanAlloc: create<Block>, which may fail.  CannotAlloc: nothing.
Create(t) ==
    /\ At(t, "create")
    /\ \/ made < MaxBlocks /\ Return(t, made) /\ made' = made + 1
       \/ Return(t, null) /\ UNCHANGED made
    /\ UNCHANGED <<initialBlockPoolIndex, list>>

(***************************************************************************)
(* try_get                                                                 *)
(***************************************************************************)
LoadHead(t) ==
    /\ At(t, "head")
    /\ Loop(t, freeListHead)
    /\ UNCHANGED <<pool, list, held>>

LoadRefs(t) ==
    /\ At(t, "refs")
    /\ LET refs == freeListRefs[local[t].head]
       IN  /\ Goto(t, IF refs % SHOULD_BE_ON_FREELIST = 0 THEN "head" ELSE "ref")
           /\ Keep(t, [local[t] EXCEPT !.refs = refs])
    /\ UNCHANGED <<pool, list, held>>

Ref(t) ==
    /\ At(t, "ref")
    /\ IF freeListRefs[local[t].head] = local[t].refs
       THEN /\ freeListRefs' = [freeListRefs EXCEPT ![local[t].head] = @ + 1]
            /\ Goto(t, "next")
       ELSE Goto(t, "head") /\ UNCHANGED freeListRefs
    /\ Keep(t, [local[t] EXCEPT !.refs = 0])
    /\ UNCHANGED <<pool, freeListHead, freeListNext, held>>

LoadNext(t) ==
    /\ At(t, "next")
    /\ Keep(t, [local[t] EXCEPT !.next = freeListNext[local[t].head]])
    /\ Goto(t, "pop")
    /\ UNCHANGED <<pool, list, held>>

\* The exchange that takes the head off; when it fails it reloads head.
Pop(t) ==
    /\ At(t, "pop")
    /\ IF freeListHead = local[t].head
       THEN /\ freeListHead' = local[t].next
            /\ Goto(t, "taken")
            /\ Keep(t, [local[t] EXCEPT !.next = null])
       ELSE /\ Goto(t, "unref")
            /\ Keep(t, [NoLocals EXCEPT !.head = freeListHead, !.node = local[t].head])
            /\ UNCHANGED freeListHead
    /\ UNCHANGED <<pool, freeListRefs, freeListNext, held>>

Taken(t) ==
    /\ At(t, "taken")
    /\ freeListRefs' = [freeListRefs EXCEPT ![local[t].head] = @ - 2]
    /\ Return(t, local[t].head)
    /\ UNCHANGED <<pool, freeListHead, freeListNext>>

Unref(t) ==
    /\ At(t, "unref")
    /\ freeListRefs' = [freeListRefs EXCEPT ![local[t].node] = @ - 1]
    /\ IF freeListRefs[local[t].node] = SHOULD_BE_ON_FREELIST + 1
       THEN Goto(t, "seen") /\ Keep(t, [local[t] EXCEPT !.after = "loop"])
       ELSE Loop(t, local[t].head)
    /\ UNCHANGED <<pool, freeListHead, freeListNext, held>>

(***************************************************************************)
(* add and add_knowing_refcount_is_zero                                    *)
(***************************************************************************)
Add(t) == \E b \in held[t] :
    /\ At(t, "idle")
    /\ held' = [held EXCEPT ![t] = @ \ {b}]
    /\ freeListRefs' = [freeListRefs EXCEPT ![b] = @ + SHOULD_BE_ON_FREELIST]
    /\ IF freeListRefs[b] = 0
       THEN Goto(t, "seen") /\ Keep(t, [NoLocals EXCEPT !.node = b])
       ELSE UNCHANGED <<pc, local>>
    /\ UNCHANGED <<pool, freeListHead, freeListNext>>

LoadSeen(t) ==
    /\ At(t, "seen")
    /\ Keep(t, [local[t] EXCEPT !.seen = freeListHead])
    /\ Goto(t, "link")
    /\ UNCHANGED <<pool, list, held>>

Link(t) ==
    /\ At(t, "link")
    /\ freeListNext' = [freeListNext EXCEPT ![local[t].node] = local[t].seen]
    /\ Goto(t, "ready")
    /\ UNCHANGED <<pool, freeListHead, freeListRefs, held, local>>

Ready(t) ==
    /\ At(t, "ready")
    /\ freeListRefs' = [freeListRefs EXCEPT ![local[t].node] = 1]
    /\ Goto(t, "push")
    /\ UNCHANGED <<pool, freeListHead, freeListNext, held, local>>

Leave(t) == IF local[t].after = "loop" THEN Loop(t, local[t].head)
            ELSE Goto(t, "idle") /\ Keep(t, NoLocals)

\* Wrong on purpose: on failure the thread retries without a look at refs.
PushAgain(t) ==
    /\ At(t, "push")
    /\ IF freeListHead = local[t].seen
       THEN freeListHead' = local[t].node /\ Leave(t)
       ELSE /\ Goto(t, "link")
            /\ Keep(t, [local[t] EXCEPT !.seen = freeListHead])
            /\ UNCHANGED freeListHead
    /\ UNCHANGED <<pool, freeListRefs, freeListNext, held>>

\* The exchange that puts node on the list; when it fails it reloads head.
Push(t) ==
    /\ At(t, "push")
    /\ IF freeListHead = local[t].seen
       THEN freeListHead' = local[t].node /\ Leave(t)
       ELSE /\ Goto(t, "defer")
            /\ Keep(t, [local[t] EXCEPT !.seen = freeListHead])
            /\ UNCHANGED freeListHead
    /\ UNCHANGED <<pool, freeListRefs, freeListNext, held>>

\* Retry when nobody else refers to node, else leave it to the last who does.
Defer(t) ==
    /\ At(t, "defer")
    /\ freeListRefs' = [freeListRefs EXCEPT ![local[t].node] = @ + SHOULD_BE_ON_FREELIST - 1]
    /\ IF freeListRefs[local[t].node] = 1
       THEN Goto(t, "link") /\ UNCHANGED local
       ELSE Leave(t)
    /\ UNCHANGED <<pool, freeListHead, freeListNext, held>>

GetStep(t) == \/ LoadHead(t) \/ LoadRefs(t) \/ Ref(t) \/ LoadNext(t)
              \/ Pop(t) \/ Taken(t) \/ Unref(t)
AddStep(t) == LoadSeen(t) \/ Link(t) \/ Ready(t) \/ Push(t) \/ Defer(t)
Step(t) == TakeFromPool(t) \/ Create(t) \/ GetStep(t) \/ AddStep(t)
Next == \E t \in Thread : Requisition(t) \/ Add(t) \/ Step(t)

Spec == Init /\ [][Next]_vars
-----------------------------------------------------------------------------
\* The blocks on the list: the smallest set that holds the head and, with a
\* block, the next one.
Closed(S) == \A b \in S : freeListNext[b] \in S \cup {null}
OnList == {b \in Block : \A S \in SUBSET Block :
                            Closed(S) /\ {freeListHead} \ {null} \subseteq S => b \in S}

TypeOK ==
    /\ freeListHead \in Block \cup {null}
    /\ freeListRefs \in [Block -> 0 .. 2 * SHOULD_BE_ON_FREELIST]
    /\ freeListNext \in [Block -> Block \cup {null}]
    /\ initialBlockPoolIndex \in Nat
    /\ made \in PoolSize .. MaxBlocks
    /\ held \in [Thread -> SUBSET Block]
    /\ pc \in [Thread -> {"idle", "pool", "create", "head", "refs", "ref", "next", "pop", "taken",
                          "unref", "seen", "link", "ready", "push", "defer"}]
    /\ local \in [Thread -> [head : Block \cup {null}, refs : Nat, next : Block \cup {null},
                             node : Block \cup {null}, seen : Block \cup {null},
                             after : {"idle", "loop"}]]

(***************************************************************************)
(* The inductive invariant: where each block is, and what its reference    *)
(* count holds there.                                                      *)
(***************************************************************************)
Fresh(b) == b \in initialBlockPoolIndex .. PoolSize - 1 \/ b >= made
Users(b) == {t \in Thread : b \in held[t]}
Refers(at, l, b) == \/ at \in {"next", "pop", "taken"} /\ l.head = b
                    \/ at = "unref" /\ l.node = b
Referrers(b) == {t \in Thread : Refers(pc[t], local[t], b)}
\* The list's own reference to b is one of these threads'.
Bears(at, l, b) == \/ at = "taken" /\ l.head = b
                   \/ at \in {"push", "defer"} /\ l.node = b
Bearers(b) == {t \in Thread : Bears(pc[t], local[t], b)}
Adds(at, l, b) == at \in {"seen", "link", "ready"} /\ l.node = b
Adders(b) == {t \in Thread : Adds(pc[t], local[t], b)}

\* A block is in one place, and its count is that of its n referrers with the
\* list's own reference, or with the flag of a block that is to be added.
Placed(refs, n, fresh, listed, users, bearers, adders) ==
    LET Place(f, l, u, b, a) == (fresh <=> f) /\ (listed <=> l)
                                /\ users = u /\ bearers = b /\ adders = a
    IN  \/ Place(TRUE, FALSE, {}, {}, {}) /\ refs = 0 /\ n = 0
        \/ Place(FALSE, TRUE, {}, {}, {}) /\ refs = n + 1
        \/ \E t \in Thread : Place(FALSE, FALSE, {t}, {}, {}) /\ refs = n
        \/ \E t \in Thread : Place(FALSE, FALSE, {}, {t}, {}) /\ refs = n + 1
        \/ \E t \in Thread : /\ Place(FALSE, FALSE, {}, {}, {t})
                             /\ refs = SHOULD_BE_ON_FREELIST /\ n = 0
        \* Left to the last referrer.
        \/ Place(FALSE, FALSE, {}, {}, {}) /\ refs = n + SHOULD_BE_ON_FREELIST /\ n > 0

BlockInv(b) == Placed(freeListRefs[b], Cardinality(Referrers(b)), Fresh(b), b \in OnList,
                      Users(b), Bearers(b), Adders(b))

Sound(at, l) ==
    /\ at \in {"refs", "ref", "next", "pop", "taken"} => l.head # null
    /\ at \in {"unref", "seen", "link", "ready", "push", "defer"} => l.node # null
    /\ at = "ref" => l.refs % SHOULD_BE_ON_FREELIST # 0
    /\ at = "pop" => l.next = freeListNext[l.head]
    /\ at \in {"ready", "push"} => l.seen = freeListNext[l.node]

\* No block of the list comes after two, and none before the head.
ListInv == /\ \A a \in OnList : freeListNext[a] # freeListHead
           /\ \A a, b \in OnList : freeListNext[a] = freeListNext[b] => a = b

IInv == /\ TypeOK
        /\ \A b \in Block : BlockInv(b)
        /\ \A t \in Thread : Sound(pc[t], local[t])
        /\ ListInv
-----------------------------------------------------------------------------
(* A block is used by one queue at a time and is not on the list meanwhile;  *)
(* a thread that has just taken one off finds that nobody asked for it to be *)
(* put back (the assertion of try_get).                                      *)
OneUser ==
    /\ \A t, u \in Thread : t # u => held[t] \cap held[u] = {}
    /\ \A t \in Thread : held[t] \cap OnList = {}
    /\ \A t \in Thread :
          At(t, "taken") => freeListRefs[local[t].head] < SHOULD_BE_ON_FREELIST

(* When no call is in progress every block that exists is used, still in the *)
(* pool, or on the list with exactly the list's reference: an add that was   *)
(* left to another thread has been done.                                     *)
NothingLost ==
    (\A t \in Thread : At(t, "idle")) =>
       \A b \in 0 .. made - 1 :
          \/ b \in initialBlockPoolIndex .. PoolSize - 1
          \/ (\E t \in Thread : b \in held[t]) /\ freeListRefs[b] = 0
          \/ b \in OnList /\ freeListRefs[b] = 1
=============================================================================
