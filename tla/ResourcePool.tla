---------------------------- MODULE ResourcePool ----------------------------
(***************************************************************************)
(* What a keyed pool of expensive resources promises its users, said       *)
(* without locks, goroutines or timers.  A resource is a stdio subprocess  *)
(* for the session manager (internal/client) and a backend connection for  *)
(* the aggregate server (internal/aggregate).                              *)
(*                                                                         *)
(*   - a resource is started once, closed at most once, and never used     *)
(*     again after that;                                                   *)
(*   - it is published under a key only while that key is free, so that no *)
(*     published resource is ever overwritten and thereby lost;            *)
(*   - whatever leaves the pool is closed by whoever took it out, or is    *)
(*     still waiting to be.                                                *)
(***************************************************************************)
EXTENDS TLAPS

CONSTANTS Key,        \* what a resource is looked up by
          Resource,   \* the resources that can ever be started
          None        \* "no resource"

VARIABLES starting,   \* started, not yet published
          pool,       \* pool[k] is the resource published under k, or None
          retired,    \* taken out of the pool (or never published), not yet closed
          closed      \* closed

pvars == <<starting, pool, retired, closed>>

Published == {pool[k] : k \in Key} \ {None}

Unborn == Resource \ (starting \cup Published \cup retired \cup closed)

Init ==
    /\ starting = {}
    /\ pool = [k \in Key |-> None]
    /\ retired = {}
    /\ closed = {}

Start(r) ==
    /\ r \in Unborn
    /\ starting' = starting \cup {r}
    /\ UNCHANGED <<pool, retired, closed>>

Publish(k, r) ==
    /\ r \in starting
    /\ pool[k] = None
    /\ pool' = [pool EXCEPT ![k] = r]
    /\ starting' = starting \ {r}
    /\ UNCHANGED <<retired, closed>>

\* Started, but found that it cannot be published.
Abandon(r) ==
    /\ r \in starting
    /\ starting' = starting \ {r}
    /\ retired' = retired \cup {r}
    /\ UNCHANGED <<pool, closed>>

\* Every entry of K leaves the pool in one step (one critical section).
Retire(K) ==
    /\ \A k \in K : pool[k] # None
    /\ pool' = [k \in Key |-> IF k \in K THEN None ELSE pool[k]]
    /\ retired' = retired \cup {pool[k] : k \in K}
    /\ UNCHANGED <<starting, closed>>

Close(r) ==
    /\ r \in retired
    /\ retired' = retired \ {r}
    /\ closed' = closed \cup {r}
    /\ UNCHANGED <<starting, pool>>

Next ==
    \/ \E r \in Resource : Start(r) \/ Abandon(r) \/ Close(r)
    \/ \E k \in Key, r \in Resource : Publish(k, r)
    \/ \E K \in SUBSET Key : Retire(K)

Spec == Init /\ [][Next]_pvars

-----------------------------------------------------------------------------
(* What follows for every pool that implements this one                    *)

\* A resource is at one place at a time, and published under one key.
Separate ==
    /\ starting \cap Published = {} /\ starting \cap retired = {} /\ starting \cap closed = {}
    /\ Published \cap retired = {} /\ Published \cap closed = {}
    /\ retired \cap closed = {}
    /\ \A k, l \in Key : pool[k] # None /\ pool[k] = pool[l] => k = l

LEMMA SeparateInductive ==
    ASSUME None \notin Resource
    PROVE  /\ Init => (DOMAIN pool = Key /\ Separate)
           /\ DOMAIN pool = Key /\ Separate /\ [Next]_pvars
                  => (DOMAIN pool = Key /\ Separate)'
<1>1. Init => (DOMAIN pool = Key /\ Separate)
    BY DEF Init, Separate, Published
<1>2. ASSUME DOMAIN pool = Key, Separate, [Next]_pvars
      PROVE  (DOMAIN pool = Key /\ Separate)'
    <2> USE <1>2 DEF Separate, Published
    <2>1. ASSUME NEW r \in Resource, Start(r)
          PROVE  (DOMAIN pool = Key /\ Separate)'
        BY <2>1 DEF Start, Unborn
    <2>2. ASSUME NEW r \in Resource, Abandon(r) \/ Close(r)
          PROVE  (DOMAIN pool = Key /\ Separate)'
        BY <2>2 DEF Abandon, Close
    <2>3. ASSUME NEW k \in Key, NEW r \in Resource, Publish(k, r)
          PROVE  (DOMAIN pool = Key /\ Separate)'
        BY <2>3 DEF Publish
    <2>4. ASSUME NEW K \in SUBSET Key, Retire(K)
          PROVE  (DOMAIN pool = Key /\ Separate)'
        BY <2>4 DEF Retire
    <2>5. CASE UNCHANGED pvars
        BY <2>5 DEF pvars
    <2> QED
        BY <2>1, <2>2, <2>3, <2>4, <2>5 DEF Next
<1> QED
    BY <1>1, <1>2

\* A resource has one owner: its starter, the pool, or whoever closes it.
THEOREM PlacesSeparate ==
    ASSUME None \notin Resource
    PROVE  Spec => []Separate
BY SeparateInductive, PTL DEF Spec

\* What leaves the pool, closed or about to be, never gets into it again.
THEOREM RetiredForGood ==
    ASSUME None \notin Resource, NEW r
    PROVE  Spec => [](r \in retired \cup closed => [](r \notin Published))
<1>1. Separate /\ r \in retired \cup closed => r \notin Published
    BY DEF Separate
<1>2. Separate /\ r \in retired \cup closed /\ [Next]_pvars => (r \in retired \cup closed)'
    BY DEF Separate, Next, Start, Publish, Abandon, Retire, Close, pvars
<1> QED
    BY <1>1, <1>2, PlacesSeparate, PTL DEF Spec
=============================================================================
