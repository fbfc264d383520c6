---------------------------- MODULE ProducerList ----------------------------
(***************************************************************************)
(* The list of sub-queues of a ConcurrentQueue and their owners: producers *)
(* are added, given up and taken up again through ProducerTokens, and      *)
(* added for good by threads that enqueue without one.                     *)
(***************************************************************************)
EXTENDS Integers, FiniteSets

CONSTANTS User,
          MaxProducers  \* bound: producers made

ProducerListAssumption == MaxProducers \in Nat

null == 0
Producer == 1 .. MaxProducers
NoUser == "no user"

VARIABLES producerListTail, next, producerCount, isExplicit, inactive,
          tokenOf,      \* producer's token, none or a user's
          made,         \* producers that exist
          token,        \* producer of each user's ProducerToken
          implicit,     \* producer that each user's thread enqueues to without one
          pc, local     \* users in recycle_or_create_producer
listing == <<producerListTail, next, producerCount, made, isExplicit>>
users == <<inactive, tokenOf, token, implicit, pc, local>>
vars == <<listing, users>>

NoLocals == [explicit |-> FALSE, ptr |-> null]

Init == /\ producerListTail = null
        /\ next = [p \in Producer |-> null]
        /\ producerCount = 0
        /\ made = 0
        /\ isExplicit = [p \in Producer |-> FALSE]
        /\ inactive = [p \in Producer |-> FALSE]
        /\ tokenOf = [p \in Producer |-> NoUser]
        /\ token = [u \in User |-> null]
        /\ implicit = [u \in User |-> null]
        /\ pc = [u \in User |-> "out"]
        /\ local = [u \in User |-> NoLocals]

(***************************************************************************)
(* recycle_or_create_producer and add_producer                             *)
(***************************************************************************)
At(u, from) == pc[u] = from
Goto(u, to) == pc' = [pc EXCEPT ![u] = to]
Set(u, l) == local' = [local EXCEPT ![u] = l]

\* A ProducerToken is made, or a thread enqueues for the first time.
Call(u) == \E explicit \in BOOLEAN :
    /\ At(u, "out")
    /\ IF explicit THEN token[u] = null ELSE implicit[u] = null
    /\ Set(u, [explicit |-> explicit, ptr |-> producerListTail])
    /\ Goto(u, IF producerListTail = null THEN "create" ELSE "scan")
    /\ UNCHANGED <<listing, inactive, tokenOf, token, implicit>>

\* One producer of the list: taken up again if it is inactive and of the kind.
Suits(u, p) == inactive[p] /\ isExplicit[p] = local[u].explicit

Recycle(u) ==
    LET p == local[u].ptr
    IN  /\ At(u, "scan")
        /\ IF Suits(u, p)
           THEN Goto(u, "claim") /\ UNCHANGED local
           ELSE /\ Set(u, [local[u] EXCEPT !.ptr = next[p]])
                /\ Goto(u, IF next[p] = null THEN "create" ELSE "scan")
        /\ UNCHANGED <<listing, inactive, tokenOf, token, implicit>>

\* Wrong on purpose: the flag is cleared without a look at it.
ClaimBlindly(u) ==
    LET p == local[u].ptr
    IN  /\ At(u, "claim")
        /\ inactive' = [inactive EXCEPT ![p] = FALSE]
        /\ Goto(u, "own")
        /\ UNCHANGED <<listing, tokenOf, token, implicit, local>>

Claim(u) ==
    LET p == local[u].ptr
    IN  /\ At(u, "claim")
        /\ IF inactive[p]
           THEN /\ inactive' = [inactive EXCEPT ![p] = FALSE]
                /\ Goto(u, "own") /\ UNCHANGED local
           ELSE /\ Set(u, [local[u] EXCEPT !.ptr = next[p]])
                /\ Goto(u, IF next[p] = null THEN "create" ELSE "scan")
                /\ UNCHANGED inactive
        /\ UNCHANGED <<listing, tokenOf, token, implicit>>

\* A new producer is counted before it is linked; its allocation may fail.
Create(u) ==
    /\ At(u, "create")
    /\ \/ /\ made < MaxProducers
          /\ made' = made + 1
          /\ isExplicit' = [isExplicit EXCEPT ![made + 1] = local[u].explicit]
          /\ Set(u, [local[u] EXCEPT !.ptr = made + 1])
          /\ Goto(u, "count")
       \/ Goto(u, "out") /\ Set(u, NoLocals) /\ UNCHANGED <<made, isExplicit>>
    /\ UNCHANGED <<producerListTail, next, producerCount, inactive, tokenOf, token,
                   implicit>>

Count(u) ==
    /\ At(u, "count")
    /\ producerCount' = producerCount + 1
    /\ next' = [next EXCEPT ![local[u].ptr] = producerListTail]
    /\ Goto(u, "link")
    /\ UNCHANGED <<producerListTail, made, isExplicit, inactive, tokenOf, token, implicit,
                   local>>

\* The weak exchange of the tail: when it fails next follows the new tail.
Link(u) ==
    LET p == local[u].ptr
    IN  /\ At(u, "link")
        /\ \/ /\ producerListTail = next[p]
              /\ producerListTail' = p
              /\ Goto(u, "own")
              /\ UNCHANGED next
           \/ /\ producerListTail # next[p]
              /\ next' = [next EXCEPT ![p] = producerListTail]
              /\ UNCHANGED <<producerListTail, pc>>
        /\ UNCHANGED <<made, isExplicit, producerCount, inactive, tokenOf, token, implicit,
                       local>>

\* The end of the constructor of a ProducerToken, or of the hash's insertion.
Own(u) ==
    LET p == local[u].ptr
    IN  /\ At(u, "own")
        /\ IF local[u].explicit
           THEN /\ token' = [token EXCEPT ![u] = p]
                /\ tokenOf' = [tokenOf EXCEPT ![p] = u]
                /\ UNCHANGED implicit
           ELSE implicit' = [implicit EXCEPT ![u] = p] /\ UNCHANGED <<token, tokenOf>>
        /\ Goto(u, "out")
        /\ Set(u, NoLocals)
        /\ UNCHANGED <<listing, inactive>>

\* ~ProducerToken: first the back pointer, then the flag.
Disown(u) ==
    /\ At(u, "out") /\ token[u] # null
    /\ tokenOf' = [tokenOf EXCEPT ![token[u]] = NoUser]
    /\ Goto(u, "retire")
    /\ UNCHANGED <<listing, inactive, token, implicit, local>>

Retire(u) ==
    /\ At(u, "retire")
    /\ inactive' = [inactive EXCEPT ![token[u]] = TRUE]
    /\ token' = [token EXCEPT ![u] = null]
    /\ Goto(u, "out")
    /\ UNCHANGED <<listing, tokenOf, implicit, local>>

\* Tokens are moved and swapped between users who do not use them meanwhile.
SwapTokens(u, v) ==
    /\ At(u, "out") /\ At(v, "out") /\ u # v
    /\ token' = [token EXCEPT ![u] = token[v], ![v] = token[u]]
    /\ tokenOf' = [p \in Producer |-> IF p = token[u] THEN v
                                      ELSE IF p = token[v] THEN u ELSE tokenOf[p]]
    /\ UNCHANGED <<listing, inactive, implicit, pc, local>>

Step(u) == \/ Recycle(u) \/ Claim(u) \/ Create(u) \/ Count(u) \/ Link(u) \/ Own(u) \/ Retire(u)
Next == \/ \E u \in User : Call(u) \/ Step(u) \/ Disown(u)
        \/ \E u, v \in User : SwapTokens(u, v)
Spec == Init /\ [][Next]_vars
-----------------------------------------------------------------------------
\* The producers linked from the tail on: the smallest set that holds the tail
\* and with a producer the next one.
Closed(S) == \A p \in S : next[p] \in S \cup {null}
Listed == {p \in Producer : \A S \in SUBSET Producer :
                               Closed(S) /\ {producerListTail} \ {null} \subseteq S => p \in S}

Owns(u, p) == token[u] = p \/ implicit[u] = p \/ (pc[u] = "own" /\ local[u].ptr = p)
New(u) == pc[u] \in {"count", "link"}

(***************************************************************************)
(* The inductive invariant.                                                *)
(***************************************************************************)
TypeOK ==
    /\ made \in 0 .. MaxProducers
    /\ producerListTail \in Producer \cup {null}
    /\ next \in [Producer -> Producer \cup {null}]
    /\ isExplicit \in [Producer -> BOOLEAN]
    /\ inactive \in [Producer -> BOOLEAN]
    /\ tokenOf \in [Producer -> User \cup {NoUser}]
    /\ token \in [User -> Producer \cup {null}]
    /\ implicit \in [User -> Producer \cup {null}]
    /\ pc \in [User -> {"out", "scan", "claim", "create", "count", "link", "own", "retire"}]
    /\ local \in [User -> [explicit : BOOLEAN, ptr : Producer \cup {null}]]

\* Where the producers of a user are, by what the user is doing.
UserInv(u) ==
    /\ pc[u] \in {"scan", "claim", "own"} => local[u].ptr \in Listed
    /\ New(u) => local[u].ptr \in (1 .. made) \ Listed
    /\ New(u) \/ pc[u] \in {"claim", "own"} => isExplicit[local[u].ptr] = local[u].explicit
    /\ pc[u] = "own" => ~inactive[local[u].ptr]
    /\ pc[u] = "retire" => token[u] # null
    /\ token[u] # null => /\ token[u] \in Listed /\ isExplicit[token[u]] /\ ~inactive[token[u]]
                          /\ pc[u] # "retire" => tokenOf[token[u]] = u
    /\ implicit[u] # null => /\ implicit[u] \in Listed
                             /\ ~isExplicit[implicit[u]] /\ ~inactive[implicit[u]]

\* No two users have a producer, or a new one, in common.
Alone(u, v) ==
    /\ \A p \in Producer : ~(Owns(u, p) /\ Owns(v, p))
    /\ New(u) /\ New(v) => local[u].ptr # local[v].ptr

Counted == {p \in 1 .. made : \A u \in User : pc[u] = "count" => local[u].ptr # p}

IInv == /\ TypeOK
        /\ Listed \subseteq 1 .. made
        /\ \A p \in Producer : inactive[p] => p \in Listed
        /\ \A u \in User : UserInv(u)
        /\ \A u, v \in User : u # v => Alone(u, v)
        /\ producerCount = Cardinality(Counted)
-----------------------------------------------------------------------------
(* A producer is used by one user at a time, through the token that it       *)
(* points back to, or as the implicit producer of one thread, and an active  *)
(* one is never handed out again.                                            *)
Users(p) == {u \in User : token[u] = p /\ pc[u] # "retire"}
OneEnqueuer ==
    \A p \in Producer :
       /\ Cardinality({u \in User : Owns(u, p)}) <= 1
       /\ \A u \in Users(p) : isExplicit[p] /\ ~inactive[p] /\ tokenOf[p] = u
       /\ \A u \in User : implicit[u] = p => ~isExplicit[p] /\ ~inactive[p]

(* Every producer that anybody owns, or that has been given up, stays in the *)
(* list, and the count that consumers divide by is at least its length.      *)
AllListed ==
    /\ \A u \in User : {token[u], implicit[u]} \ {null} \subseteq Listed
    /\ {p \in Producer : inactive[p]} \subseteq Listed
    /\ producerCount >= Cardinality(Listed)
=============================================================================
