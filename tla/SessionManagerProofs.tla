------------------------ MODULE SessionManagerProofs ------------------------
(***************************************************************************)
(* Proofs about SessionManager, for any number of keys, handlers and       *)
(* sessions and any limit.                                                 *)
(*                                                                         *)
(* The safety properties follow from one inductive invariant, IInv.  Its   *)
(* core is ownership: at any time a subprocess that was started and not    *)
(* closed has exactly one owner, which is a map entry, the handler about   *)
(* to store it, a remover about to close it, or the cleanup goroutine.     *)
(* That the creator finds its key still free when it stores rests on       *)
(* singleflight (FlightInv) and on removers deleting the entry before they *)
(* cancel the session (PoolInv).                                           *)
(***************************************************************************)
EXTENDS SessionManager, FiniteSetTheorems, TLAPS

\* p, and nobody else, has got[p] in its hands.
Holds(p) == pc[p] \in {"store", "rmCancel", "rmClose"}

\* Where a goroutine works on the key it was called with.
KeyInv ==
    \A p \in Proc :
        pc[p] \in InFlight \cup {"getTouch", "getCheck", "rmLock", "rmCancel", "rmClose"}
        => key[p] \in Key

\* Shutdown's goroutine makes no sessions.
MainInv == pc[Main] \notin InFlight \cup {"joined"}

\* One handler at a time runs the function of singleflight for a key.
FlightInv == \A t \in Thread : pc[t] \in InFlight => flight[key[t]] = t

\* What the handler inside has learnt about its key still holds.
LookupInv ==
    \A t \in Thread :
        /\ pc[t] \in {"limit", "create", "store"} => sessions[key[t]] = None
        /\ pc[t] \in {"touch", "check"} => sessions[key[t]] \in {None, got[t]}

\* The map offers started, uncancelled sessions, each under one key.
PoolInv ==
    /\ \A k \in Key : sessions[k] # None => sessions[k] \in born \ (cancelled \cup doomed)
    /\ \A k, l \in Key : sessions[k] # None /\ sessions[k] = sessions[l] => k = l

\* A holder shares its session with no map entry, no other holder, and not with
\* the cleanup goroutine.
HolderInv ==
    /\ \A p \in Proc : Holds(p) =>
          /\ got[p] \in born \ (closed \cup doomed)
          /\ \A k \in Key : sessions[k] # got[p]
    /\ \A p, q \in Proc : Holds(p) /\ Holds(q) /\ got[p] = got[q] => p = q
    /\ \A p \in Proc : pc[p] = "store" => got[p] \notin cancelled
    /\ \A p \in Proc : pc[p] = "rmClose" => got[p] \in cancelled

CleanerInv ==
    /\ doomed \subseteq born \ closed
    /\ cleaner # "reaping" => doomed = {}
    /\ closed \subseteq cancelled

\* Nobody lost a session that is not closed.
OwnedInv ==
    \A s \in born \ closed :
        \/ \E k \in Key : sessions[k] = s
        \/ \E p \in Proc : Holds(p) /\ got[p] = s
        \/ s \in doomed

IInv ==
    /\ TypeOK
    /\ KeyInv /\ MainInv /\ FlightInv
    /\ LookupInv
    /\ PoolInv /\ HolderInv /\ CleanerInv /\ OwnedInv

-----------------------------------------------------------------------------
USE ConstantsAssumption DEF Proc

LEMMA Initially == Init => IInv
BY DEF Init, IInv, TypeOK, KeyInv, MainInv, FlightInv, LookupInv, PoolInv, HolderInv,
       CleanerInv, OwnedInv, Holds, InFlight, PC

\* The creator's store finds its key free (LookupInv), so the map loses nothing.
LEMMA StoreKeeps ==
    ASSUME NEW t \in Thread, IInv, StoreSession(t)
    PROVE  IInv'
<1> USE DEF IInv
<1>1. key[t] \in Key /\ got[t] \in Session /\ flight[key[t]] = t /\ sessions[key[t]] = None
  BY DEF StoreSession, KeyInv, FlightInv, LookupInv, HolderInv, Holds, InFlight, TypeOK
<1>2. /\ pc' = [pc EXCEPT ![t] = "finish"]
      /\ result' = [result EXCEPT ![t] = "ok"]
      /\ got' = [got EXCEPT ![t] = got[t]]
      /\ sessions' = [sessions EXCEPT ![key[t]] = got[t]]
      /\ UNCHANGED <<lifeVars, flight, op, key, backVars>>
  BY DEF StoreSession, FlightResult, Goto
<1>3. TypeOK'
  BY <1>1, <1>2 DEF TypeOK, PC, InFlight, Result, lifeVars, backVars
<1>4. (KeyInv /\ MainInv /\ FlightInv)'
  BY <1>1, <1>2, pc[t] = "store" DEF KeyInv, MainInv, FlightInv, TypeOK, InFlight,
     StoreSession
<1>5. LookupInv'
  <2> SUFFICES ASSUME NEW u \in Thread
               PROVE  /\ pc'[u] \in {"limit", "create", "store"} => sessions'[key'[u]] = None
                      /\ pc'[u] \in {"touch", "check"} => sessions'[key'[u]] \in {None, got'[u]}
    BY DEF LookupInv
  <2>1. CASE u = t
    BY <1>2, <2>1 DEF TypeOK
  <2>2. CASE u # t
    <3>1. pc[u] \in InFlight => key[u] # key[t]
      BY <1>1, <2>2 DEF FlightInv
    <3> QED BY <1>2, <2>2, <3>1 DEF LookupInv, TypeOK, InFlight
  <2> QED BY <2>1, <2>2
<1>6. PoolInv'
  BY <1>1, <1>2 DEF PoolInv, HolderInv, Holds, TypeOK, StoreSession, lifeVars, backVars
<1>7. (HolderInv /\ CleanerInv)'
  BY <1>1, <1>2 DEF HolderInv, CleanerInv, Holds, TypeOK, StoreSession, lifeVars, backVars
<1>8. OwnedInv'
  BY <1>1, <1>2 DEF OwnedInv, Holds, TypeOK, lifeVars, backVars
<1> QED BY <1>3, <1>4, <1>5, <1>6, <1>7, <1>8

\* The leader releases its joiners; none of them holds a session.
LEMMA FinishKeeps ==
    ASSUME NEW t \in Thread, IInv, Finish(t)
    PROVE  IInv'
<1> USE DEF IInv
<1> DEFINE S == Sharers(t)
<1>1. /\ S \subseteq Thread
      /\ \A p \in S : pc[p] \in {"finish", "joined"}
      /\ t \in S /\ key[t] \in Key /\ flight[key[t]] = t /\ pc[t] = "finish"
  BY DEF Finish, Sharers, Joiners, KeyInv, FlightInv, InFlight
<1>2. /\ flight' = [flight EXCEPT ![key[t]] = None]
      /\ pc' = [p \in Proc |-> IF p \in S THEN "returned" ELSE pc[p]]
      /\ got' = [p \in Proc |-> IF p \in S THEN got[t] ELSE got[p]]
      /\ result' = [p \in Proc |-> IF p \in S THEN result[t] ELSE result[p]]
      /\ UNCHANGED <<sessions, lifeVars, op, key, backVars>>
  BY DEF Finish
<1> HIDE DEF S
<1>3. TypeOK'
  BY <1>1, <1>2 DEF TypeOK, PC, lifeVars, backVars
<1>4. (KeyInv /\ MainInv)'
  BY <1>1, <1>2 DEF KeyInv, MainInv, TypeOK, InFlight
<1>5. FlightInv'
  <2> SUFFICES ASSUME NEW u \in Thread, pc'[u] \in InFlight
               PROVE  flight'[key'[u]] = u
    BY DEF FlightInv
  <2>1. u \notin S /\ pc'[u] = pc[u]
    BY <1>2 DEF InFlight
  <2>2. u # t /\ flight[key[u]] = u /\ key[u] \in Key
    BY <1>1, <2>1 DEF FlightInv, KeyInv
  <2>3. key[u] # key[t]
    BY <1>1, <2>2
  <2> QED BY <1>2, <2>2, <2>3 DEF TypeOK
<1>6. LookupInv'
  BY <1>1, <1>2 DEF LookupInv, TypeOK
<1>7. \A p \in Proc : (Holds(p)' <=> Holds(p)) /\ (Holds(p) => got'[p] = got[p])
  BY <1>1, <1>2 DEF Holds, TypeOK
<1>8. (PoolInv /\ CleanerInv)'
  BY <1>2 DEF PoolInv, CleanerInv, lifeVars, backVars
<1>9. HolderInv'
  <2>1. \A p \in Proc : Holds(p)' => Holds(p) /\ got'[p] = got[p] /\ pc'[p] = pc[p]
    BY <1>1, <1>2, <1>7 DEF Holds, TypeOK
  <2>2. \A p \in Proc : pc'[p] \in {"store", "rmClose"} => Holds(p)'
    BY DEF Holds
  <2> QED BY <1>2, <2>1, <2>2 DEF HolderInv, lifeVars, backVars
<1>10. OwnedInv'
  BY <1>2, <1>7 DEF OwnedInv, lifeVars, backVars
<1> QED BY <1>3, <1>4, <1>5, <1>6, <1>8, <1>9, <1>10

\* The cleanup goroutine takes whole entries out of the map, all at once.
LEMMA CleanupKeeps ==
    ASSUME IInv, CleanupTimedOut
    PROVE  IInv'
<1> USE DEF IInv
<1> DEFINE V == TimedOut
           T(k) == sessions[k] \in V
<1>1. /\ doomed = {} /\ V \subseteq Pooled
      /\ sessions' = [k \in Key |-> IF T(k) THEN None ELSE sessions[k]]
      /\ doomed' = V
      /\ UNCHANGED <<lifeVars, flight, callVars>>
      /\ cleaner' = "reaping" /\ UNCHANGED <<snapshot, stopping>>
  BY DEF CleanupTimedOut, CleanerInv, TimedOut
<1>2. /\ \A s \in V : s # None /\ \E k \in Key : sessions[k] = s
      /\ \A k \in Key : sessions'[k] # None => sessions'[k] = sessions[k] /\ sessions[k] \notin V
  BY <1>1 DEF Pooled
<1>3. V \subseteq born \ (cancelled \cup closed)
  BY <1>2 DEF PoolInv, CleanerInv
<1> HIDE DEF V
<1>4. TypeOK'
  BY <1>1, <1>3 DEF TypeOK, lifeVars, callVars
<1>5. (KeyInv /\ MainInv /\ FlightInv)'
  BY <1>1 DEF KeyInv, MainInv, FlightInv, callVars
<1>6. LookupInv'
  BY <1>1, KeyInv DEF LookupInv, callVars, KeyInv, InFlight
<1>7. PoolInv'
  BY <1>1, <1>2 DEF PoolInv, lifeVars
<1>8. HolderInv'
  <2>1. \A p \in Proc : Holds(p)' <=> Holds(p)
    BY <1>1 DEF Holds, callVars
  <2>2. \A p \in Proc : Holds(p) => got[p] \notin V /\ got[p] # None
    BY <1>2 DEF HolderInv, TypeOK
  <2>3. \A p \in Proc, k \in Key : Holds(p) => sessions'[k] # got[p]
    BY <1>2, <2>2 DEF HolderInv
  <2> QED BY <1>1, <2>1, <2>2, <2>3 DEF HolderInv, lifeVars, callVars
<1>9. CleanerInv'
  BY <1>1, <1>3 DEF CleanerInv, lifeVars
<1>10. OwnedInv'
  BY <1>1, <1>2 DEF OwnedInv, Holds, lifeVars, callVars
<1> QED BY <1>4, <1>5, <1>6, <1>7, <1>8, <1>9, <1>10

\* The other steps, each by itself.
LEMMA Preservation == IInv /\ [Next]_vars => IInv'
<1> SUFFICES ASSUME IInv, [Next]_vars
             PROVE  IInv'
  OBVIOUS
<1> USE DEF IInv, TypeOK, KeyInv, MainInv, FlightInv, LookupInv, PoolInv, HolderInv,
            CleanerInv, OwnedInv, Holds, InFlight, PC, Goto, lifeVars, callVars, backVars
<1>1. ASSUME NEW t \in Thread, CallStep(t)
      PROVE  IInv'
  <2>1. CASE Lookup(t)
    BY <2>1 DEF Lookup
  <2>2. CASE TouchFound(t)
    BY <2>2 DEF TouchFound, Touch
  <2>3. CASE CheckAlive(t)
    BY <2>3 DEF CheckAlive, Done, FlightResult, Result
  <2>4. CASE CheckUserLimits(t)
    BY <2>4 DEF CheckUserLimits, FlightResult, Result
  <2>5. CASE CreateClient(t)
    BY <2>5 DEF CreateClient
  <2>6. CASE CreateClientFails(t)
    BY <2>6 DEF CreateClientFails, FlightResult, Result
  <2>7. CASE StoreSession(t)
    BY <2>7, StoreKeeps
  <2>8. CASE Finish(t)
    BY <2>8, FinishKeeps
  <2>9. CASE GetSessionTouch(t)
    BY <2>9 DEF GetSessionTouch, Touch
  <2>10. CASE GetSessionCheck(t)
    BY <2>10 DEF GetSessionCheck, Done, Return, Result
  <2> QED
    BY <1>1, <2>1, <2>2, <2>3, <2>4, <2>5, <2>6, <2>7, <2>8, <2>9, <2>10 DEF CallStep
<1>2. ASSUME NEW t \in Thread, Accept(t)
      PROVE  IInv'
  BY <1>2 DEF Accept
<1>3. ASSUME NEW t \in Thread, NEW k \in Key, NewCall(t, k)
      PROVE  IInv'
  <2>1. CASE GetOrCreateSession(t, k)
    BY <2>1 DEF GetOrCreateSession, Call, InProgress, Op
  <2>2. CASE GetOrCreateSessionJoin(t, k)
    BY <2>2 DEF GetOrCreateSessionJoin, Call, Op
  <2>3. CASE GetSession(t, k)
    BY <2>3 DEF GetSession, Call, Return, Op, Result
  <2>4. CASE RemoveSession(t, k)
    BY <2>4 DEF RemoveSession, Call, Op
  <2> QED BY <1>3, <2>1, <2>2, <2>3, <2>4 DEF NewCall
<1>4. ASSUME NEW p \in Proc, RemoveStep(p)
      PROVE  IInv'
  <2>1. CASE RemoveLocked(p)
    BY <2>1 DEF RemoveLocked, WithoutEntry, AfterRemove, Return, Result
  <2>2. CASE RemoveCancel(p)
    BY <2>2 DEF RemoveCancel
  <2>3. CASE RemoveClose(p)
    BY <2>3 DEF RemoveClose, AfterRemove, Return, Result
  <2> QED BY <1>4, <2>1, <2>2, <2>3 DEF RemoveStep
<1>5. ASSUME NEW s \in Session, CleanupStep(s)
      PROVE  IInv'
  BY <1>5 DEF CleanupStep, CleanupCancel, CleanupClose
<1>6. ASSUME NEW s \in Session, BecomeIdle(s) \/ SubprocessExits(s)
      PROVE  IInv'
  BY <1>6 DEF BecomeIdle, SubprocessExits, Pooled
<1>7. CASE CleanupTimedOut
  BY <1>7, CleanupKeeps
<1>8. CASE CleanupStop
  BY <1>8 DEF CleanupStop
<1>9. CASE Shutdown
  BY <1>9 DEF Shutdown, Op
<1>10. CASE ShutdownStep
  BY <1>10 DEF ShutdownStep, ShutdownWait, ShutdownSnapshot, ShutdownDone, ShutdownRemove
<1>11. CASE UNCHANGED vars
  BY <1>11 DEF vars
<1> QED
  BY <1>1, <1>2, <1>3, <1>4, <1>5, <1>6, <1>7, <1>8, <1>9, <1>10, <1>11 DEF Next

LEMMA Invariance == Spec => []IInv
BY Initially, Preservation, PTL DEF Spec

\* Every variable keeps its type, for any constants.
THEOREM TypeCorrect == Spec => []TypeOK
<1>1. IInv => TypeOK
  BY DEF IInv
<1> QED BY <1>1, Invariance, PTL

\* GetOrCreateSession, RemoveSession, cleanup and Shutdown together never lose a
\* started subprocess, however many of them run at once.
THEOREM NothingOrphaned == Spec => []NoOrphan
<1>1. IInv => NoOrphan
  <2> SUFFICES ASSUME IInv, NEW s \in born \ closed
               PROVE  s \in Pooled \cup Starting \cup Retired
    BY DEF NoOrphan
  <2>1. CASE \E k \in Key : sessions[k] = s
    BY <2>1 DEF Pooled, IInv, TypeOK
  <2>2. CASE \E p \in Proc : Holds(p) /\ got[p] = s
    <3>1. PICK p \in Proc : Holds(p) /\ got[p] = s
      BY <2>2
    <3>2. CASE pc[p] = "store"
      BY <3>1, <3>2 DEF Starting, IInv, MainInv, InFlight
    <3>3. CASE pc[p] \in {"rmCancel", "rmClose"}
      BY <3>1, <3>3 DEF Retired
    <3> QED BY <3>1, <3>2, <3>3 DEF Holds
  <2>3. CASE s \in doomed
    BY <2>3 DEF Retired
  <2> QED BY <2>1, <2>2, <2>3 DEF IInv, OwnedInv
<1> QED BY <1>1, Invariance, PTL

\* RemoveSession, the cleanup goroutine and Shutdown never close the same
\* subprocess, nor one that the map still offers.
THEOREM OneCloserEach == Spec => []OneCloser
<1>1. IInv => OneCloser
  BY DEF IInv, OneCloser, HolderInv, PoolInv, Holds, Pooled, TypeOK
<1> QED BY <1>1, Invariance, PTL

-----------------------------------------------------------------------------
(* The session manager implements the abstract pool of ResourcePool.       *)

LEMMA InitRefined == Init => Pool!Init
BY DEF Init, Pool!Init, Starting, Retired

\* What the refinement mapping makes of a step depends on holders alone.
LEMMA SameHolders ==
    ASSUME IInv,
           \A p \in Proc : Holds(p)' <=> Holds(p),
           \A p \in Proc : Holds(p) => got'[p] = got[p]
                           /\ (pc'[p] = "store" <=> pc[p] = "store")
    PROVE  Starting' = Starting /\ (doomed' = doomed => Retired' = Retired)
BY DEF Starting, Retired, Holds

\* One new holder, at "store", which had none before.
LEMMA CreateRefined ==
    ASSUME IInv, NEW t \in Thread, CreateClient(t)
    PROVE  Pool!Next
<1>1. PICK s \in Session \ born :
         /\ born' = born \cup {s}
         /\ got' = [got EXCEPT ![t] = s]
         /\ pc' = [pc EXCEPT ![t] = "store"]
         /\ pc[t] = "create"
         /\ UNCHANGED <<sessions, closed, doomed>>
  BY DEF CreateClient, Goto, backVars
<1>2. Starting' = Starting \cup {s}
  BY <1>1 DEF Starting, IInv, TypeOK
<1>3. Retired' = Retired
  BY <1>1 DEF Retired, IInv, TypeOK
<1>4. s \notin Starting \cup Retired \cup closed \cup Pool!Published
  BY <1>1 DEF Starting, Retired, Pool!Published, IInv, TypeOK, PoolInv, HolderInv, Holds,
     CleanerInv
<1>5. Pool!Start(s)
  BY <1>1, <1>2, <1>3, <1>4 DEF Pool!Start, Pool!Unborn
<1> QED BY <1>5 DEF Pool!Next

LEMMA StoreRefined ==
    ASSUME IInv, NEW t \in Thread, StoreSession(t)
    PROVE  Pool!Next
<1>1. /\ pc[t] = "store" /\ pc' = [pc EXCEPT ![t] = "finish"]
      /\ got' = [got EXCEPT ![t] = got[t]]
      /\ sessions' = [sessions EXCEPT ![key[t]] = got[t]]
      /\ UNCHANGED <<closed, doomed>>
  BY DEF StoreSession, FlightResult, Goto, lifeVars, backVars
<1>2. key[t] \in Key /\ got[t] \in Session /\ sessions[key[t]] = None
  BY <1>1 DEF IInv, KeyInv, LookupInv, HolderInv, Holds, TypeOK, InFlight
<1>3. got[t] \in Starting /\ Starting' = Starting \ {got[t]}
  BY <1>1 DEF Starting, IInv, TypeOK, HolderInv, Holds
<1>4. Retired' = Retired
  BY <1>1 DEF Retired, IInv, TypeOK
<1>5. Pool!Publish(key[t], got[t])
  BY <1>1, <1>2, <1>3, <1>4 DEF Pool!Publish
<1> QED BY <1>2, <1>5 DEF Pool!Next

LEMMA RemoveRefined ==
    ASSUME IInv, NEW p \in Proc, RemoveStep(p)
    PROVE  Pool!Next \/ UNCHANGED Pool!pvars
<1> USE DEF IInv, TypeOK, KeyInv, MainInv, HolderInv, Holds, Goto, Return, lifeVars, backVars
<1>1. CASE RemoveLocked(p) /\ sessions[key[p]] = None
  <2>1. UNCHANGED <<sessions, closed, doomed>>
    BY <1>1 DEF RemoveLocked
  <2>2. Starting' = Starting /\ Retired' = Retired
    BY <1>1, SameHolders DEF RemoveLocked, AfterRemove
  <2> QED BY <2>1, <2>2 DEF Pool!pvars
<1>2. CASE RemoveLocked(p) /\ sessions[key[p]] # None
  <2>1. /\ key[p] \in Key /\ pc[p] = "rmLock" /\ pc' = [pc EXCEPT ![p] = "rmCancel"]
        /\ got' = [got EXCEPT ![p] = sessions[key[p]]]
        /\ sessions' = [sessions EXCEPT ![key[p]] = None]
        /\ UNCHANGED <<closed, doomed>>
    BY <1>2 DEF RemoveLocked, WithoutEntry
  <2>2. Starting' = Starting
    BY <2>1 DEF Starting
  <2>3. Retired' = Retired \cup {sessions[key[p]]}
    BY <2>1 DEF Retired
  <2>4. sessions' = [k \in Key |-> IF k \in {key[p]} THEN None ELSE sessions[k]]
    BY <2>1
  <2>5. {sessions[key[p]]} = {sessions[k] : k \in {key[p]}}
    OBVIOUS
  <2>6. Pool!Retire({key[p]})
    BY <1>2, <2>1, <2>2, <2>3, <2>4, <2>5 DEF Pool!Retire
  <2> QED BY <2>1, <2>6 DEF Pool!Next
<1>3. CASE RemoveCancel(p)
  <2>1. UNCHANGED <<sessions, closed, doomed>>
    BY <1>3 DEF RemoveCancel
  <2>2. Starting' = Starting /\ Retired' = Retired
    BY <1>3, SameHolders DEF RemoveCancel
  <2> QED BY <2>1, <2>2 DEF Pool!pvars
<1>4. CASE RemoveClose(p)
  <2>1. /\ pc[p] = "rmClose" /\ pc'[p] \in {"returned", "sdLoop"}
        /\ \A q \in Proc \ {p} : pc'[q] = pc[q] /\ got'[q] = got[q]
        /\ closed' = closed \cup {got[p]} /\ UNCHANGED <<sessions, doomed>>
    BY <1>4 DEF RemoveClose, AfterRemove
  <2>2. got[p] \in Session /\ got[p] \in Retired
    BY <2>1 DEF Retired
  <2>3. Starting' = Starting
    BY <2>1 DEF Starting
  <2>4. Retired' = Retired \ {got[p]}
    BY <2>1 DEF Retired
  <2>5. Pool!Close(got[p])
    BY <2>1, <2>2, <2>3, <2>4 DEF Pool!Close
  <2> QED BY <2>2, <2>5 DEF Pool!Next
<1> QED BY <1>1, <1>2, <1>3, <1>4 DEF RemoveStep

LEMMA CleanupRefined ==
    /\ IInv /\ CleanupTimedOut => Pool!Next
    /\ \A s \in Session : IInv /\ CleanupStep(s) => Pool!Next \/ UNCHANGED Pool!pvars
<1> USE DEF IInv
<1>1. ASSUME IInv, CleanupTimedOut
      PROVE  Pool!Next
  <2> DEFINE K == {k \in Key : sessions[k] \in TimedOut}
  <2>1. \A k \in K : sessions[k] # None
    BY DEF TimedOut, Pooled
  <2>2. TimedOut = {sessions[k] : k \in K}
    BY DEF TimedOut, Pooled
  <2>3. /\ Starting' = Starting
        /\ Retired' = Retired \cup {sessions[k] : k \in K}
    BY <1>1, <2>2 DEF CleanupTimedOut, Starting, Retired, callVars, CleanerInv
  <2>4. sessions' = [k \in Key |-> IF k \in K THEN None ELSE sessions[k]] /\ closed' = closed
    BY <1>1 DEF CleanupTimedOut, lifeVars
  <2>5. Pool!Retire(K)
    BY <2>1, <2>3, <2>4 DEF Pool!Retire
  <2> QED BY <2>5 DEF Pool!Next
<1>2. ASSUME IInv, NEW s \in Session, CleanupCancel(s)
      PROVE  UNCHANGED Pool!pvars
  BY <1>2 DEF CleanupCancel, Pool!pvars, Starting, Retired, callVars, backVars
<1>3. ASSUME IInv, NEW s \in Session, CleanupClose(s)
      PROVE  Pool!Next
  <2>1. /\ s \in doomed /\ doomed' = doomed \ {s} /\ closed' = closed \cup {s}
        /\ UNCHANGED <<sessions, pc, got>>
    BY <1>3 DEF CleanupClose, callVars
  <2>2. Starting' = Starting
    BY <2>1 DEF Starting
  <2> DEFINE Held == {got[p] : p \in {p \in Proc : pc[p] \in {"rmCancel", "rmClose"}}}
  <2>3. s \notin Held /\ Held' = Held
    BY <1>3, <2>1 DEF HolderInv, Holds
  <2>4. Retired = Held \cup doomed /\ Retired' = Held' \cup doomed'
    BY DEF Retired
  <2> HIDE DEF Held
  <2>5. s \in Retired /\ Retired' = Retired \ {s}
    BY <2>1, <2>3, <2>4
  <2>6. Pool!Close(s)
    BY <2>1, <2>2, <2>5 DEF Pool!Close
  <2> QED BY <2>6 DEF Pool!Next
<1> QED BY <1>1, <1>2, <1>3 DEF CleanupStep

LEMMA StepRefined == IInv /\ [Next]_vars => [Pool!Next]_Pool!pvars
<1> SUFFICES ASSUME IInv, [Next]_vars
             PROVE  Pool!Next \/ UNCHANGED Pool!pvars
  OBVIOUS
<1> USE DEF IInv, TypeOK, MainInv, Holds, InFlight, Goto, lifeVars, backVars, Pool!pvars
<1>1. ASSUME NEW t \in Thread, CallStep(t)
      PROVE  Pool!Next \/ UNCHANGED Pool!pvars
  <2>1. CASE CreateClient(t)
    BY <2>1, CreateRefined
  <2>2. CASE StoreSession(t)
    BY <2>2, StoreRefined
  <2>3. CASE Finish(t)
    <3>1. \A p \in Sharers(t) : pc[p] \in {"finish", "joined"}
      BY <2>3 DEF Finish, Sharers, Joiners
    <3>2. UNCHANGED <<sessions, closed, doomed>>
      BY <2>3 DEF Finish
    <3>3. Starting' = Starting /\ Retired' = Retired
      BY <2>3, <3>1, <3>2, SameHolders DEF Finish
    <3> QED BY <3>2, <3>3
  <2>4. CASE Lookup(t) \/ TouchFound(t) \/ CheckAlive(t) \/ CheckUserLimits(t)
             \/ CreateClientFails(t) \/ GetSessionTouch(t) \/ GetSessionCheck(t)
    <3>1. UNCHANGED <<sessions, closed, doomed>>
      BY <2>4 DEF Lookup, TouchFound, CheckAlive, CheckUserLimits, CreateClientFails,
         GetSessionTouch, GetSessionCheck
    <3>2. Starting' = Starting /\ Retired' = Retired
      BY <2>4, <3>1, SameHolders DEF Lookup, TouchFound, CheckAlive, CheckUserLimits,
         CreateClientFails, GetSessionTouch, GetSessionCheck, FlightResult, Return
    <3> QED BY <3>1, <3>2
  <2> QED BY <1>1, <2>1, <2>2, <2>3, <2>4 DEF CallStep
<1>2. ASSUME NEW t \in Thread, Accept(t) \/ \E k \in Key : NewCall(t, k)
      PROVE  UNCHANGED Pool!pvars
  <2>1. UNCHANGED <<sessions, closed, doomed>>
    BY <1>2 DEF Accept, NewCall, GetOrCreateSession, GetOrCreateSessionJoin, GetSession,
       RemoveSession
  <2>2. Starting' = Starting /\ Retired' = Retired
    BY <1>2, <2>1, SameHolders DEF Accept, NewCall, GetOrCreateSession,
       GetOrCreateSessionJoin, GetSession, RemoveSession, Call, Return
  <2> QED BY <2>1, <2>2
<1>3. ASSUME NEW p \in Proc, RemoveStep(p)
      PROVE  Pool!Next \/ UNCHANGED Pool!pvars
  BY <1>3, RemoveRefined
<1>4. ASSUME NEW s \in Session, CleanupStep(s)
      PROVE  Pool!Next \/ UNCHANGED Pool!pvars
  BY <1>4, CleanupRefined
<1>5. ASSUME NEW s \in Session, BecomeIdle(s) \/ SubprocessExits(s)
      PROVE  UNCHANGED Pool!pvars
  BY <1>5 DEF BecomeIdle, SubprocessExits, Starting, Retired, callVars
<1>6. CASE CleanupTimedOut
  BY <1>6, CleanupRefined
<1>7. CASE CleanupStop \/ Shutdown \/ ShutdownStep \/ UNCHANGED vars
  <2>1. UNCHANGED <<sessions, closed, doomed>>
    BY <1>7 DEF CleanupStop, Shutdown, ShutdownStep, ShutdownWait, ShutdownSnapshot,
       ShutdownDone, ShutdownRemove, vars
  <2>2. Starting' = Starting /\ Retired' = Retired
    BY <1>7, <2>1, SameHolders DEF CleanupStop, Shutdown, ShutdownStep, ShutdownWait,
       ShutdownSnapshot, ShutdownDone, ShutdownRemove, vars, callVars
  <2> QED BY <2>1, <2>2
<1> QED BY <1>1, <1>2, <1>3, <1>4, <1>5, <1>6, <1>7 DEF Next

\* The session manager is a keyed pool: no entry is overwritten, nothing is closed
\* twice, and only what left the map is closed, whoever took it out.
THEOREM Refinement == Spec => ImplementsPool
<1>1. Spec => [][Pool!Next]_Pool!pvars
  BY Invariance, StepRefined, PTL DEF Spec
<1> QED BY <1>1, InitRefined, PTL DEF Spec, ImplementsPool, Pool!Spec

\* What the session manager took out of its map, RemoveSession, cleanup or Shutdown
\* close once, and no handler finds it in the map again.
THEOREM RetiredStaysOut ==
    Spec => \A r \in Session : [](r \in Retired \cup closed => [](r \notin Pool!Published))
<1> HIDE ConstantsAssumption DEF Proc
<1>1. None \notin Session
  BY ConstantsAssumption
<1>2. \A r : Pool!Spec => [](r \in Retired \cup closed => [](r \notin Pool!Published))
  BY <1>1, Pool!RetiredForGood
<1>3. Spec => Pool!Spec
  BY Refinement DEF ImplementsPool
<1> QED BY <1>2, <1>3
-----------------------------------------------------------------------------
(* The overshoot of the per-user limit.                                    *)

\* The keys that count against u's limit.
Held(u) == {k \in Key : UserOf[k] = u /\ sessions[k] # None}

LimitInv ==
    \A u \in User :
        /\ IsFiniteSet(Held(u))
        /\ u # Anonymous /\ MaxPerUser > 0 =>
              Cardinality(Held(u)) + Cardinality(Creators(u))
                  < MaxPerUser + Cardinality(Thread)

\* What one step can do to the two sets: shrink them, let one creator pass the
\* check, or turn one creator into a map entry.
LEMMA LimitSteps ==
    ASSUME IInv, [Next]_vars, NEW u \in User
    PROVE  \/ Held(u)' \subseteq Held(u) /\ Creators(u)' \subseteq Creators(u)
           \/ Held(u)' = Held(u) /\ WithinLimit(u)
           \/ \E t \in Creators(u) :
                 /\ Creators(u)' = Creators(u) \ {t}
                 /\ Held(u)' = Held(u) \cup {key[t]}
<1> USE DEF IInv, TypeOK, KeyInv, Held, Creators, Goto, InFlight, backVars, callVars
<1>1. ASSUME NEW t \in Thread, CheckUserLimits(t)
      PROVE  \/ Held(u)' \subseteq Held(u) /\ Creators(u)' \subseteq Creators(u)
             \/ Held(u)' = Held(u) /\ WithinLimit(u)
  BY <1>1 DEF CheckUserLimits, FlightResult
<1>2. ASSUME NEW t \in Thread, StoreSession(t), UserOf[key[t]] = u
      PROVE  /\ t \in Creators(u)
             /\ Creators(u)' = Creators(u) \ {t}
             /\ Held(u)' = Held(u) \cup {key[t]}
  BY <1>2 DEF StoreSession, FlightResult, HolderInv, Holds
<1>3. ASSUME NEW t \in Thread, StoreSession(t), UserOf[key[t]] # u
      PROVE  Held(u)' \subseteq Held(u) /\ Creators(u)' \subseteq Creators(u)
  BY <1>3 DEF StoreSession, FlightResult
<1>4. ASSUME NEW t \in Thread, Finish(t)
      PROVE  Held(u)' \subseteq Held(u) /\ Creators(u)' \subseteq Creators(u)
  BY <1>4 DEF Finish
<1>5. ASSUME NEW t \in Thread,
             \/ Lookup(t) \/ TouchFound(t) \/ CheckAlive(t) \/ CreateClient(t)
             \/ CreateClientFails(t) \/ GetSessionTouch(t) \/ GetSessionCheck(t)
             \/ Accept(t)
      PROVE  Held(u)' \subseteq Held(u) /\ Creators(u)' \subseteq Creators(u)
  BY <1>5 DEF Lookup, TouchFound, CheckAlive, CreateClient, CreateClientFails,
     GetSessionTouch, GetSessionCheck, Accept, FlightResult, Return
<1>6. ASSUME NEW t \in Thread, NEW k \in Key, NewCall(t, k)
      PROVE  Held(u)' \subseteq Held(u) /\ Creators(u)' \subseteq Creators(u)
  BY <1>6 DEF NewCall, GetOrCreateSession, GetOrCreateSessionJoin, GetSession,
     RemoveSession, Call, Return
<1>7. ASSUME NEW p \in Proc, RemoveStep(p)
      PROVE  Held(u)' \subseteq Held(u) /\ Creators(u)' \subseteq Creators(u)
  BY <1>7 DEF RemoveStep, RemoveLocked, RemoveCancel, RemoveClose, WithoutEntry,
     AfterRemove, Return
<1>8. ASSUME NEW s \in Session, CleanupStep(s) \/ BecomeIdle(s) \/ SubprocessExits(s)
      PROVE  Held(u)' \subseteq Held(u) /\ Creators(u)' \subseteq Creators(u)
  BY <1>8 DEF CleanupStep, CleanupCancel, CleanupClose, BecomeIdle, SubprocessExits
<1>9. CASE CleanupTimedOut
  BY <1>9 DEF CleanupTimedOut, TimedOut, Pooled
<1>10. CASE CleanupStop \/ Shutdown \/ ShutdownStep \/ UNCHANGED vars
  BY <1>10 DEF CleanupStop, Shutdown, ShutdownStep, ShutdownWait, ShutdownSnapshot,
     ShutdownDone, ShutdownRemove, vars
<1>11. ASSUME NEW t \in Thread, CallStep(t)
       PROVE  \/ Held(u)' \subseteq Held(u) /\ Creators(u)' \subseteq Creators(u)
              \/ Held(u)' = Held(u) /\ WithinLimit(u)
              \/ \E v \in Creators(u) :
                    /\ Creators(u)' = Creators(u) \ {v}
                    /\ Held(u)' = Held(u) \cup {key[v]}
  <2> HIDE DEF Held, Creators
  <2> QED BY <1>1, <1>2, <1>3, <1>4, <1>5, <1>11 DEF CallStep
<1> HIDE DEF Held, Creators
<1> QED
  BY <1>5, <1>6, <1>7, <1>8, <1>9, <1>10, <1>11 DEF Next

LEMMA LimitPreserved == IInv /\ LimitInv /\ [Next]_vars => LimitInv'
<1> SUFFICES ASSUME IInv, LimitInv, [Next]_vars, NEW u \in User
             PROVE  /\ IsFiniteSet(Held(u)')
                    /\ u # Anonymous /\ MaxPerUser > 0 =>
                          Cardinality(Held(u)') + Cardinality(Creators(u)')
                              < MaxPerUser + Cardinality(Thread)
  BY DEF LimitInv
<1> DEFINE H == Held(u)
           C == Creators(u)
<1>1. IsFiniteSet(Thread) /\ Cardinality(Thread) \in Nat
  BY HandlersFinite, FS_CardinalityType
<1>2. C \subseteq Thread /\ C' \subseteq Thread
  BY DEF Creators
<1>3. /\ IsFiniteSet(C) /\ IsFiniteSet(C')
      /\ Cardinality(C) \in Nat /\ Cardinality(C') \in Nat
      /\ Cardinality(C') <= Cardinality(Thread)
  BY <1>1, <1>2, FS_Subset, FS_CardinalityType
<1>4. /\ IsFiniteSet(H) /\ Cardinality(H) \in Nat
      /\ u # Anonymous /\ MaxPerUser > 0 =>
            Cardinality(H) + Cardinality(C) < MaxPerUser + Cardinality(Thread)
  BY FS_CardinalityType DEF LimitInv
<1> HIDE DEF H, C
<1>5. CASE H' \subseteq H /\ C' \subseteq C
  <2>1. /\ IsFiniteSet(H') /\ Cardinality(H') <= Cardinality(H)
        /\ Cardinality(C') <= Cardinality(C) /\ Cardinality(H') \in Nat
    BY <1>3, <1>4, <1>5, FS_Subset, FS_CardinalityType
  <2> QED BY <1>1, <1>3, <1>4, <2>1 DEF H, C
<1>6. CASE H' = H /\ WithinLimit(u)
  <2>1. u # Anonymous /\ MaxPerUser > 0 => Cardinality(H) < MaxPerUser
    BY <1>6 DEF WithinLimit, SessionCount, Held, H
  <2> QED BY <1>1, <1>3, <1>4, <1>6, <2>1 DEF H, C
<1>7. CASE \E t \in C : C' = C \ {t} /\ H' = H \cup {key[t]}
  <2>1. PICK t \in C : C' = C \ {t} /\ H' = H \cup {key[t]}
    BY <1>7
  <2>2. Cardinality(C') = Cardinality(C) - 1
    BY <1>3, <2>1, FS_RemoveElement
  <2>3. /\ IsFiniteSet(H \cup {key[t]})
        /\ Cardinality(H \cup {key[t]}) =
              IF key[t] \in H THEN Cardinality(H) ELSE Cardinality(H) + 1
    BY <1>4, FS_AddElement
  <2>4. /\ IsFiniteSet(H') /\ Cardinality(H') \in Nat
        /\ Cardinality(H') <= Cardinality(H) + 1
    BY <1>4, <2>1, <2>3
  <2> QED BY <1>1, <1>3, <1>4, <2>2, <2>4 DEF H, C
<1> QED BY <1>5, <1>6, <1>7, LimitSteps DEF H, C

\* However many handlers create sessions of one user at the same time, the user
\* ends up with fewer than maxPerUser plus the number of handlers.
THEOREM OvershootBounded == Spec => []BoundedOvershoot
<1>1. Init => LimitInv
  <2> SUFFICES ASSUME Init, NEW u \in User
               PROVE  /\ IsFiniteSet(Held(u))
                      /\ u # Anonymous /\ MaxPerUser > 0 =>
                            Cardinality(Held(u)) + Cardinality(Creators(u))
                                < MaxPerUser + Cardinality(Thread)
    BY DEF LimitInv
  <2>1. Held(u) = {} /\ Creators(u) = {}
    BY DEF Init, Held, Creators
  <2>2. Cardinality(Thread) \in Nat
    BY HandlersFinite, FS_CardinalityType
  <2> QED BY <2>1, <2>2, FS_EmptySet
<1>2. LimitInv => BoundedOvershoot
  BY DEF LimitInv, BoundedOvershoot, Held, SessionCount
<1> QED BY <1>1, <1>2, Invariance, LimitPreserved, PTL DEF Spec
-----------------------------------------------------------------------------
(* Whose session a goroutine has, and whom it waits for.                   *)

\* A goroutine with a session is inside a call for a key, or has its result.
ResultInv ==
    /\ \A p \in Proc : got[p] # None => got[p] \in born /\ key[p] \in Key /\ pc[p] # "ready"
    /\ pc[Main] # "ready" => op[Main] = "shutdown"
    /\ got[Main] # None => pc[Main] \in {"rmCancel", "rmClose"}

\* The converse of FlightInv: singleflight knows only handlers that are inside, and
\* whoever has joined finds one of them.
LeaderInv ==
    /\ \A k \in Key : flight[k] # None => pc[flight[k]] \in InFlight /\ key[flight[k]] = k
    /\ \A t \in Thread : pc[t] = "joined" => key[t] \in Key /\ flight[key[t]] # None
    /\ cleaner = "reaping" => doomed # {}

CallInv == ResultInv /\ SessionOfOneKey /\ LeaderInv

LEMMA CallsPreserved == IInv /\ CallInv /\ [Next]_vars => CallInv'
<1> SUFFICES ASSUME IInv, CallInv, [Next]_vars
             PROVE  CallInv'
  OBVIOUS
<1> USE DEF CallInv, IInv, TypeOK, KeyInv, MainInv, FlightInv, ResultInv, SessionOfOneKey,
            LeaderInv, InFlight, Goto, lifeVars, callVars, backVars
<1>1. ASSUME NEW t \in Thread, CallStep(t)
      PROVE  CallInv'
  <2>1. CASE Lookup(t)
    BY <2>1 DEF Lookup, PoolInv
  <2>2. CASE TouchFound(t)
    BY <2>2 DEF TouchFound, Touch
  <2>3. CASE CheckAlive(t)
    BY <2>3 DEF CheckAlive, FlightResult
  <2>4. CASE CheckUserLimits(t)
    BY <2>4 DEF CheckUserLimits, FlightResult
  <2>5. CASE CreateClient(t)
    BY <2>5 DEF CreateClient, PoolInv
  <2>6. CASE CreateClientFails(t)
    BY <2>6 DEF CreateClientFails, FlightResult
  <2>7. CASE StoreSession(t)
    BY <2>7 DEF StoreSession, FlightResult
  <2>8. CASE Finish(t)
    BY <2>8 DEF Finish, Sharers, Joiners
  <2>9. CASE GetSessionTouch(t)
    BY <2>9 DEF GetSessionTouch, Touch
  <2>10. CASE GetSessionCheck(t)
    BY <2>10 DEF GetSessionCheck, Return
  <2> QED
    BY <1>1, <2>1, <2>2, <2>3, <2>4, <2>5, <2>6, <2>7, <2>8, <2>9, <2>10 DEF CallStep
<1>2. ASSUME NEW t \in Thread, Accept(t)
      PROVE  CallInv'
  BY <1>2 DEF Accept
<1>3. ASSUME NEW t \in Thread, NEW k \in Key, NewCall(t, k)
      PROVE  CallInv'
  <2>1. CASE GetOrCreateSession(t, k)
    BY <2>1 DEF GetOrCreateSession, Call, InProgress
  <2>2. CASE GetOrCreateSessionJoin(t, k)
    BY <2>2 DEF GetOrCreateSessionJoin, Call, InProgress
  <2>3. CASE GetSession(t, k)
    BY <2>3 DEF GetSession, Call, Return, PoolInv
  <2>4. CASE RemoveSession(t, k)
    BY <2>4 DEF RemoveSession, Call
  <2> QED BY <1>3, <2>1, <2>2, <2>3, <2>4 DEF NewCall
<1>4. ASSUME NEW p \in Proc, RemoveStep(p)
      PROVE  CallInv'
  <2>1. CASE RemoveLocked(p)
    BY <2>1 DEF RemoveLocked, WithoutEntry, AfterRemove, Return, PoolInv
  <2>2. CASE RemoveCancel(p)
    BY <2>2 DEF RemoveCancel
  <2>3. CASE RemoveClose(p)
    BY <2>3 DEF RemoveClose, AfterRemove, Return
  <2> QED BY <1>4, <2>1, <2>2, <2>3 DEF RemoveStep
<1>5. ASSUME NEW s \in Session, CleanupStep(s)
      PROVE  CallInv'
  BY <1>5 DEF CleanupStep, CleanupCancel, CleanupClose
<1>6. ASSUME NEW s \in Session, BecomeIdle(s) \/ SubprocessExits(s)
      PROVE  CallInv'
  BY <1>6 DEF BecomeIdle, SubprocessExits
<1>7. CASE CleanupTimedOut
  BY <1>7 DEF CleanupTimedOut
<1>8. CASE CleanupStop
  BY <1>8 DEF CleanupStop
<1>9. CASE Shutdown
  BY <1>9 DEF Shutdown
<1>10. CASE ShutdownStep
  BY <1>10 DEF ShutdownStep, ShutdownWait, ShutdownSnapshot, ShutdownDone, ShutdownRemove
<1>11. CASE UNCHANGED vars
  BY <1>11 DEF vars
<1> QED
  BY <1>1, <1>2, <1>3, <1>4, <1>5, <1>6, <1>7, <1>8, <1>9, <1>10, <1>11 DEF Next

LEMMA CallInvariance == Spec => []CallInv
<1>1. Init => CallInv
  BY DEF Init, CallInv, ResultInv, SessionOfOneKey, LeaderInv
<1> QED BY <1>1, Invariance, CallsPreserved, PTL DEF Spec

\* A session is never shared between two keys, so no user gets another's.
THEOREM SessionsStayWithTheirKey == Spec => []SessionOfOneKey
<1>1. CallInv => SessionOfOneKey
  BY DEF CallInv
<1> QED BY <1>1, CallInvariance, PTL

\* A joiner always has a leader that can release it, and Shutdown never waits for
\* a cleanup goroutine that has nothing to do and does not know it.
THEOREM NobodyStranded == Spec => []WaitersHaveLeader
<1>1. IInv /\ CallInv => WaitersHaveLeader
  BY DEF CallInv, LeaderInv, WaitersHaveLeader, IInv, TypeOK
<1> QED BY <1>1, Invariance, CallInvariance, PTL
-----------------------------------------------------------------------------
(* What Shutdown found in the map is gone when it returns.                 *)

\* s was in the map when Shutdown looked: nobody will store it again, and as long as
\* an entry has it, Shutdown has that entry's key before it.
Taken(s) ==
    /\ s \in born /\ \A t \in Thread : pc[t] = "store" => got[t] # s
    /\ \/ pc[Main] = "sdSnapshot"
       \/ /\ pc[Main] \in {"sdLoop", "rmLock", "rmCancel", "rmClose"}
          /\ \A k \in Key : sessions[k] = s =>
                k \in snapshot \/ (pc[Main] = "rmLock" /\ key[Main] = k)
       \/ /\ pc[Main] = "sdDone"
          /\ \A k \in Key : sessions[k] # s

LEMMA TakenStays ==
    ASSUME NEW s \in Session
    PROVE  IInv /\ CallInv /\ Taken(s) /\ [Next]_vars => Taken(s)'
<1> SUFFICES ASSUME IInv, CallInv, Taken(s), [Next]_vars
             PROVE  Taken(s)'
  OBVIOUS
<1> USE DEF Taken, IInv, TypeOK, CallInv, ResultInv, Goto, lifeVars, callVars, backVars
<1>1. ASSUME NEW t \in Thread, CallStep(t)
      PROVE  Taken(s)'
  BY <1>1 DEF CallStep, Lookup, TouchFound, CheckAlive, CheckUserLimits, CreateClient,
     CreateClientFails, StoreSession, Finish, Sharers, Joiners, GetSessionTouch,
     GetSessionCheck, FlightResult, Return
<1>2. ASSUME NEW t \in Thread, Accept(t) \/ \E k \in Key : NewCall(t, k)
      PROVE  Taken(s)'
  BY <1>2 DEF Accept, NewCall, GetOrCreateSession, GetOrCreateSessionJoin, GetSession,
     RemoveSession, Call, Return
<1>3. ASSUME NEW p \in Proc, RemoveStep(p)
      PROVE  Taken(s)'
  <2> USE DEF AfterRemove, Return, KeyInv
  <2>1. CASE RemoveLocked(p) /\ sessions[key[p]] = None
    BY <2>1 DEF RemoveLocked
  <2>2. CASE RemoveLocked(p) /\ sessions[key[p]] # None
    <3>1. /\ pc[p] = "rmLock" /\ key[p] \in Key
          /\ sessions' = [sessions EXCEPT ![key[p]] = None]
          /\ pc' = [pc EXCEPT ![p] = "rmCancel"]
          /\ got' = [got EXCEPT ![p] = sessions[key[p]]]
          /\ UNCHANGED <<lifeVars, op, key, backVars>>
      BY <2>2 DEF RemoveLocked, WithoutEntry
    <3>2. CASE p = Main
      BY <3>1, <3>2
    <3>3. CASE p # Main
      BY <3>1, <3>3
    <3> QED BY <3>2, <3>3
  <2>3. CASE RemoveCancel(p)
    BY <2>3 DEF RemoveCancel
  <2>4. CASE RemoveClose(p)
    BY <2>4 DEF RemoveClose
  <2> QED BY <1>3, <2>1, <2>2, <2>3, <2>4 DEF RemoveStep
<1>4. ASSUME NEW r \in Session, CleanupStep(r) \/ BecomeIdle(r) \/ SubprocessExits(r)
      PROVE  Taken(s)'
  BY <1>4 DEF CleanupStep, CleanupCancel, CleanupClose, BecomeIdle, SubprocessExits
<1>5. CASE CleanupTimedOut \/ CleanupStop
  BY <1>5 DEF CleanupTimedOut, CleanupStop
<1>6. CASE Shutdown \/ ShutdownStep
  BY <1>6 DEF Shutdown, ShutdownStep, ShutdownWait, ShutdownSnapshot, ShutdownDone,
     ShutdownRemove
<1>7. CASE UNCHANGED vars
  BY <1>7 DEF vars
<1> QED BY <1>1, <1>2, <1>3, <1>4, <1>5, <1>6, <1>7 DEF Next

\* Shutdown leaves none of the sessions that it found, whoever else removes, creates
\* and stores sessions under the same keys; only later ones can stay.
THEOREM ShutdownComplete == Spec => ShutdownTakesAll
<1>1. ASSUME NEW s \in Session
      PROVE  Spec => [](pc[Main] = "sdSnapshot" /\ s \in Pooled
                        => [](pc[Main] = "sdDone" => s \notin Pooled \cup Starting))
  <2>1. IInv /\ pc[Main] = "sdSnapshot" /\ s \in Pooled => Taken(s)
    BY DEF IInv, TypeOK, PoolInv, HolderInv, Holds, Pooled, Taken
  <2>2. Taken(s) => (pc[Main] = "sdDone" => s \notin Pooled \cup Starting)
    BY DEF Taken, Pooled, Starting
  <2> QED BY <2>1, <2>2, TakenStays, Invariance, CallInvariance, PTL DEF Spec
<1> QED BY <1>1 DEF ShutdownTakesAll
-----------------------------------------------------------------------------
(* Joiners are served, as long as the runtime lets handlers go on.         *)

\* t waits for u, which is at step l of the function.
Awaits(t, u, l) ==
    pc[t] = "joined" /\ pc[u] = l /\ flight[key[t]] = u /\ key[u] = key[t]

\* u, for which t waits, goes forward or stays; leaving the function it takes t along.
GoesOn(t, u) ==
    /\ Awaits(t, u, "lookup") => Awaits(t, u, "lookup")' \/ Awaits(t, u, "touch")'
                                 \/ Awaits(t, u, "limit")'
    /\ Awaits(t, u, "touch") => Awaits(t, u, "touch")' \/ Awaits(t, u, "check")'
    /\ Awaits(t, u, "check") => Awaits(t, u, "check")' \/ Awaits(t, u, "limit")'
                                \/ Awaits(t, u, "finish")'
    /\ Awaits(t, u, "limit") => Awaits(t, u, "limit")' \/ Awaits(t, u, "create")'
                                \/ Awaits(t, u, "finish")'
    /\ Awaits(t, u, "create") => Awaits(t, u, "create")' \/ Awaits(t, u, "store")'
                                 \/ Awaits(t, u, "finish")'
    /\ Awaits(t, u, "store") => Awaits(t, u, "store")' \/ Awaits(t, u, "finish")'
    /\ Awaits(t, u, "finish") => Awaits(t, u, "finish")' \/ (pc[t] = "returned")'

\* While a handler is waited for, that is all that it does, whatever others do.
LEMMA AwaitedGoesOn ==
    ASSUME NEW t \in Thread, NEW u \in Thread
    PROVE  IInv /\ CallInv /\ [Next]_vars => GoesOn(t, u)
<1> SUFFICES ASSUME IInv, CallInv, [Next]_vars PROVE GoesOn(t, u)
  OBVIOUS
<1> USE DEF GoesOn, Awaits, IInv, TypeOK, KeyInv, MainInv, FlightInv, InFlight, Goto, callVars
<1>1. ASSUME NEW v \in Thread, Finish(v)
      PROVE  \A l \in InFlight : Awaits(t, u, l) =>
                Awaits(t, u, l)' \/ (l = "finish" /\ (pc[t] = "returned")')
  BY <1>1 DEF Finish, Sharers, Joiners
<1>2. ASSUME NEW v \in Thread, CallStep(v), ~Finish(v), v # u
      PROVE  \A l \in InFlight : Awaits(t, u, l) => Awaits(t, u, l)'
  BY <1>2 DEF CallStep, Lookup, TouchFound, CheckAlive, CheckUserLimits, CreateClient,
     CreateClientFails, StoreSession, GetSessionTouch, GetSessionCheck, FlightResult, Return
<1>3. ASSUME CallStep(u), ~Finish(u), pc[t] = "joined"
      PROVE  /\ pc'[t] = pc[t] /\ UNCHANGED <<flight, key>>
             /\ pc[u] = "lookup" => pc'[u] \in {"touch", "limit"}
             /\ pc[u] = "touch" => pc'[u] = "check"
             /\ pc[u] = "check" => pc'[u] \in {"limit", "finish"}
             /\ pc[u] = "limit" => pc'[u] \in {"create", "finish"}
             /\ pc[u] = "create" => pc'[u] \in {"store", "finish"}
             /\ pc[u] = "store" => pc'[u] = "finish"
             /\ pc[u] # "finish"
  BY <1>3 DEF CallStep, Lookup, TouchFound, CheckAlive, CheckUserLimits, CreateClient,
     CreateClientFails, StoreSession, GetSessionTouch, GetSessionCheck, FlightResult, Return
<1>4. ASSUME NEW v \in Thread, Accept(v) \/ \E k \in Key : NewCall(v, k)
      PROVE  \A l \in InFlight : Awaits(t, u, l) => Awaits(t, u, l)'
  BY <1>4 DEF Accept, NewCall, GetOrCreateSession, GetOrCreateSessionJoin, GetSession,
     RemoveSession, Call, Return, InProgress
<1>5. ASSUME NEW p \in Proc, RemoveStep(p)
      PROVE  \A l \in InFlight : Awaits(t, u, l) => Awaits(t, u, l)'
  BY <1>5 DEF RemoveStep, RemoveLocked, RemoveCancel, RemoveClose, AfterRemove, Return
<1>6. ASSUME \/ \E s \in Session : CleanupStep(s) \/ BecomeIdle(s) \/ SubprocessExits(s)
             \/ CleanupTimedOut \/ CleanupStop \/ Shutdown \/ ShutdownStep
             \/ UNCHANGED vars
      PROVE  \A l \in InFlight : Awaits(t, u, l) => Awaits(t, u, l)'
  BY <1>6 DEF CleanupStep, CleanupCancel, CleanupClose, BecomeIdle, SubprocessExits,
     CleanupTimedOut, CleanupStop, Shutdown, ShutdownStep, ShutdownWait, ShutdownSnapshot,
     ShutdownDone, ShutdownRemove, vars
<1> QED BY <1>1, <1>2, <1>3, <1>4, <1>5, <1>6 DEF Next

\* Whatever else goes on, a handler that joined another one's GetOrCreateSession gets
\* that one's answer, if only no handler stops for ever inside the function.
THEOREM JoinersServed == Spec /\ HandlersMove => JoinersReturn
<1>1. ASSUME NEW t \in Thread, []IInv, []CallInv, [][Next]_vars, []AllLeave
      PROVE  pc[t] = "joined" ~> pc[t] = "returned"
  <2>1. AllLeave
    BY <1>1, PTL
  <2>2. ASSUME NEW u \in Thread
        PROVE  (\E l \in InFlight : Awaits(t, u, l)) => <>(pc[t] = "returned")
    <3>1. /\ Leaves(u, "lookup") /\ Leaves(u, "touch") /\ Leaves(u, "check")
          /\ Leaves(u, "limit") /\ Leaves(u, "create") /\ Leaves(u, "store")
          /\ Leaves(u, "finish")
      BY <2>1 DEF AllLeave, InFlight
    <3>2. /\ Awaits(t, u, "lookup") => <>(~(pc[u] = "lookup"))
          /\ Awaits(t, u, "touch") => <>(~(pc[u] = "touch"))
          /\ Awaits(t, u, "check") => <>(~(pc[u] = "check"))
          /\ Awaits(t, u, "limit") => <>(~(pc[u] = "limit"))
          /\ Awaits(t, u, "create") => <>(~(pc[u] = "create"))
          /\ Awaits(t, u, "store") => <>(~(pc[u] = "store"))
          /\ Awaits(t, u, "finish") => <>(~(pc[u] = "finish"))
      BY <3>1 DEF Leaves, Awaits
    <3>3. /\ Awaits(t, u, "lookup") => pc[u] = "lookup"
          /\ Awaits(t, u, "touch") => pc[u] = "touch"
          /\ Awaits(t, u, "check") => pc[u] = "check"
          /\ Awaits(t, u, "limit") => pc[u] = "limit"
          /\ Awaits(t, u, "create") => pc[u] = "create"
          /\ Awaits(t, u, "store") => pc[u] = "store"
          /\ Awaits(t, u, "finish") => pc[u] = "finish"
      BY DEF Awaits
    <3>4. (\E l \in InFlight : Awaits(t, u, l)) =>
             \/ Awaits(t, u, "lookup") \/ Awaits(t, u, "touch") \/ Awaits(t, u, "check")
             \/ Awaits(t, u, "limit") \/ Awaits(t, u, "create") \/ Awaits(t, u, "store")
             \/ Awaits(t, u, "finish")
      BY DEF InFlight
    <3>5. IInv /\ CallInv /\ [Next]_vars => GoesOn(t, u)
      BY AwaitedGoesOn
    <3> QED BY <1>1, <3>2, <3>3, <3>4, <3>5, PTL DEF GoesOn
  <2>3. IInv /\ CallInv /\ pc[t] = "joined" =>
           \E u \in Thread : \E l \in InFlight : Awaits(t, u, l)
    BY DEF IInv, TypeOK, CallInv, LeaderInv, Awaits
  <2>4. \A u \in Thread : (\E l \in InFlight : Awaits(t, u, l)) => <>(pc[t] = "returned")
    BY <2>2
  <2>5. (\E u \in Thread : \E l \in InFlight : Awaits(t, u, l)) => <>(pc[t] = "returned")
    BY <2>4
  <2> QED BY <1>1, <2>3, <2>5, PTL
<1>2. []IInv /\ []CallInv /\ [][Next]_vars /\ []AllLeave
        => \A t \in Thread : pc[t] = "joined" ~> pc[t] = "returned"
  BY <1>1
<1>3. Spec /\ HandlersMove => []IInv /\ []CallInv /\ [][Next]_vars /\ []AllLeave
  BY Invariance, CallInvariance, PTL DEF Spec, HandlersMove
<1> QED BY <1>2, <1>3 DEF JoinersReturn
=============================================================================
