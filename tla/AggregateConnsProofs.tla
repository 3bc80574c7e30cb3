------------------------ MODULE AggregateConnsProofs ------------------------
(***************************************************************************)
(* Proofs about AggregateConns, for any number of users, backends, callers *)
(* and connections and any limit.                                          *)
(*                                                                         *)
(* The argument is again one of ownership: a connection that was made and  *)
(* not closed is in the pool, in the hands of the one caller that makes or *)
(* closes it, or on the list of cleanup or of Shutdown.  Two things differ *)
(* from the session manager.  Callers keep using a connection that others  *)
(* may take out of the pool, so UseInv says what they still know of it:    *)
(* it is under no key but theirs.  And ShutInv says that nothing enters    *)
(* the pool once it is shut.                                               *)
(***************************************************************************)
EXTENDS AggregateConns, FiniteSetTheorems, TLAPS

\* t, and nobody else, has got[t] in its hands.
Holds(t) == pc[t] \in {"handshake", "store", "discard", "discardClose", "evictCancel",
                       "evictClose"}

\* t was handed got[t] for its key, and others may use it, too.
Uses(t) == pc[t] \in {"touch", "acquired", "using", "evict"}
           \/ (pc[t] = "finish" /\ result[t] = "ok")

KeyInv ==
    \A t \in Thread : pc[t] \notin {"ready", "returned"} => key[t] \in Key

\* Shutdown's goroutine makes no calls, and no caller shuts down.
MainInv ==
    /\ pc[Main] \in {"ready", "sdWait", "sdTransport", "sdSwap", "sdLoop", "sdDone"}
    /\ \A t \in Thread :
          pc[t] \in InFlight \cup {"ready", "joined", "acquired", "using", "evict",
                                   "evictCancel", "evictClose", "returned"}

\* One caller at a time runs the function of singleflight for a key.
FlightInv == \A t \in Thread : pc[t] \in InFlight => flight[key[t]] = t

\* The key it has found free stays free until it stores.
LookupInv ==
    \A t \in Thread :
        pc[t] \in {"limit", "create", "handshake", "store"} => conns[key[t]] = None

\* The pool offers made, uncancelled connections, each under one key.
PoolInv ==
    /\ \A k \in Key : conns[k] # None =>
          conns[k] \in started \ (cancelled \cup doomed \cup snapshot)
    /\ \A k, l \in Key : conns[k] # None /\ conns[k] = conns[l] => k = l

HolderInv ==
    /\ \A t \in Thread : Holds(t) =>
          /\ got[t] \in started \ (closed \cup doomed \cup snapshot)
          /\ \A k \in Key : conns[k] # got[t]
    /\ \A t, u \in Thread : Holds(t) /\ Holds(u) /\ got[t] = got[u] => t = u
    /\ \A t \in Thread : pc[t] \in {"handshake", "store"} => got[t] \notin cancelled
    /\ \A t \in Thread : pc[t] \in {"discardClose", "evictClose"} => got[t] \in cancelled

UseInv ==
    /\ \A t \in Thread : Uses(t) =>
          /\ got[t] \in started
          /\ \A k \in Key : conns[k] = got[t] => k = key[t]
          /\ \A u \in Thread : pc[u] \in {"handshake", "store"} => got[u] # got[t]
    /\ \A t \in Thread : pc[t] \in {"discard", "discardClose"} => result[t] # "ok"

\* What cleanup and Shutdown have taken out of the pool, and have still to close.
CleanerInv ==
    /\ doomed \subseteq started \ closed /\ snapshot \subseteq started \ closed
    /\ doomed \cap snapshot = {}
    /\ cleaner # "reaping" => doomed = {}
    /\ snapshot # {} => pc[Main] = "sdLoop"

\* Shutdown goes on when cleanup has ended; once it has swapped the pool, nothing
\* comes back.
ShutInv ==
    /\ pc[Main] \in {"sdTransport", "sdSwap", "sdLoop", "sdDone"} => cleaner = "exited"
    /\ shut <=> pc[Main] \in {"sdLoop", "sdDone"}
    /\ shut => \A k \in Key : conns[k] = None

\* Nobody lost a connection that is not closed.
OwnedInv ==
    \A c \in started \ closed :
        \/ \E k \in Key : conns[k] = c
        \/ \E t \in Thread : Holds(t) /\ got[t] = c
        \/ c \in doomed \cup snapshot

IInv ==
    /\ TypeOK
    /\ KeyInv /\ MainInv /\ FlightInv
    /\ LookupInv
    /\ PoolInv /\ HolderInv /\ UseInv /\ CleanerInv /\ ShutInv /\ OwnedInv

-----------------------------------------------------------------------------
USE ConnConstantsAssumption DEF Proc

LEMMA Initially == Init => IInv
BY DEF Init, IInv, TypeOK, KeyInv, MainInv, FlightInv, LookupInv, PoolInv, HolderInv,
       UseInv, CleanerInv, ShutInv, OwnedInv, Holds, Uses, InFlight, PC

\* A new connection is nobody else's.
LEMMA CreateKeeps ==
    ASSUME NEW t \in Thread, IInv, CreateTransport(t)
    PROVE  IInv'
<1> USE DEF IInv
<1>1. PICK c \in Conn \ started :
         /\ pc[t] = "create"
         /\ started' = started \cup {c}
         /\ got' = [got EXCEPT ![t] = c]
         /\ pc' = [pc EXCEPT ![t] = "handshake"]
         /\ UNCHANGED <<mapVars, idle, cancelled, closed, flight, op, key, result, backVars>>
  BY DEF CreateTransport, Goto
<1> USE <1>1 DEF mapVars, backVars
<1>2. TypeOK'
  BY DEF TypeOK, PC, InFlight
<1>3. (KeyInv /\ MainInv /\ FlightInv /\ LookupInv)'
  BY DEF KeyInv, MainInv, FlightInv, LookupInv, TypeOK, InFlight
<1>4. \A k \in Key : conns[k] # c
  BY DEF PoolInv, TypeOK
<1>5. (PoolInv /\ CleanerInv /\ ShutInv)'
  BY DEF PoolInv, CleanerInv, ShutInv, TypeOK
<1>6. HolderInv'
  BY <1>4 DEF HolderInv, CleanerInv, Holds, TypeOK
<1>7. UseInv'
  BY DEF UseInv, Uses, TypeOK
<1>8. OwnedInv'
  BY DEF OwnedInv, Holds, TypeOK
<1> QED BY <1>2, <1>3, <1>5, <1>6, <1>7, <1>8

\* The creator finds its key free (LookupInv), so the pool loses nothing.
LEMMA StoreKeeps ==
    ASSUME NEW t \in Thread, IInv, StoreConn(t), ~Refused
    PROVE  IInv'
<1> USE DEF IInv
<1>1. /\ key[t] \in Key /\ got[t] \in Conn /\ flight[key[t]] = t /\ conns[key[t]] = None
      /\ Holds(t)
  BY DEF StoreConn, KeyInv, FlightInv, LookupInv, HolderInv, Holds, InFlight, TypeOK
<1>2. /\ pc[t] = "store"
      /\ pc' = [pc EXCEPT ![t] = "finish"]
      /\ result' = [result EXCEPT ![t] = "ok"]
      /\ got' = [got EXCEPT ![t] = got[t]]
      /\ conns' = [conns EXCEPT ![key[t]] = got[t]]
      /\ ~shut
      /\ UNCHANGED <<shut, lifeVars, flight, op, key, backVars>>
  BY DEF StoreConn, FlightResult, Goto, Refused
<1> USE <1>1, <1>2 DEF lifeVars, backVars
<1>3. TypeOK'
  BY DEF TypeOK, PC, InFlight, Result
<1>4. (KeyInv /\ MainInv /\ FlightInv)'
  BY DEF KeyInv, MainInv, FlightInv, TypeOK, InFlight
<1>5. LookupInv'
  <2> SUFFICES ASSUME NEW u \in Thread, pc'[u] \in {"limit", "create", "handshake", "store"}
               PROVE  conns'[key'[u]] = None
    BY DEF LookupInv
  <2>1. u # t /\ pc[u] \in InFlight /\ key[u] # key[t]
    BY DEF FlightInv, TypeOK, InFlight
  <2> QED BY <2>1 DEF LookupInv, TypeOK
<1>6. PoolInv'
  BY DEF PoolInv, HolderInv, TypeOK
<1>7. HolderInv'
  BY DEF HolderInv, Holds, TypeOK
<1>8. (CleanerInv /\ ShutInv)'
  BY DEF CleanerInv, ShutInv, TypeOK
<1>9. UseInv'
  <2>1. \A u \in Thread : u # t /\ Uses(u)' => Uses(u) /\ got[u] # got[t]
    BY DEF Uses, UseInv
  <2>2. \A u \in Thread : pc'[u] \in {"handshake", "store"} =>
            pc[u] \in {"handshake", "store"} /\ got[u] # got[t]
    BY DEF HolderInv, Holds, TypeOK
  <2>3. \A k \in Key : conns'[k] = got[t] => k = key[t]
    BY DEF HolderInv, TypeOK
  <2>4. \A u \in Thread, k \in Key :
            u # t /\ Uses(u)' /\ conns'[k] = got[u] => conns[k] = got[u]
    BY <2>1 DEF TypeOK
  <2>5. got[t] \in started
    BY DEF HolderInv
  <2> QED BY <2>1, <2>2, <2>3, <2>4, <2>5 DEF UseInv, TypeOK
<1>10. OwnedInv'
  BY DEF OwnedInv, Holds, TypeOK
<1> QED BY <1>3, <1>4, <1>5, <1>6, <1>7, <1>8, <1>9, <1>10

\* The leader lets its joiners go; with a connection, they all use it.
LEMMA FinishKeeps ==
    ASSUME NEW t \in Thread, IInv, Finish(t)
    PROVE  IInv'
<1> USE DEF IInv
<1> DEFINE S == Sharers(t)
           Out == IF result[t] = "ok" THEN "acquired" ELSE "returned"
<1>1. /\ S \subseteq Thread /\ t \in S
      /\ \A p \in S : pc[p] \in {"finish", "joined"} /\ key[p] = key[t]
      /\ key[t] \in Key /\ flight[key[t]] = t /\ pc[t] = "finish"
  BY DEF Finish, Sharers, KeyInv, FlightInv, InFlight
<1>2. /\ flight' = [flight EXCEPT ![key[t]] = None]
      /\ pc' = [p \in Proc |-> IF p \notin S THEN pc[p] ELSE Out]
      /\ got' = [p \in Proc |-> IF p \in S THEN got[t] ELSE got[p]]
      /\ result' = [p \in Proc |-> IF p \in S THEN result[t] ELSE result[p]]
      /\ UNCHANGED <<mapVars, lifeVars, op, key, backVars>>
  BY DEF Finish
<1> HIDE DEF S
<1> USE <1>1, <1>2 DEF mapVars, lifeVars, backVars
<1>3. TypeOK'
  BY DEF TypeOK, PC
<1>4. (KeyInv /\ MainInv)'
  BY DEF KeyInv, MainInv, TypeOK, InFlight
<1>5. FlightInv'
  <2> SUFFICES ASSUME NEW u \in Thread, pc'[u] \in InFlight
               PROVE  flight'[key'[u]] = u
    BY DEF FlightInv
  <2>1. u \notin S /\ pc'[u] = pc[u]
    BY DEF InFlight
  <2>2. u # t /\ flight[key[u]] = u /\ key[u] \in Key
    BY <2>1 DEF FlightInv, KeyInv, InFlight
  <2>3. key[u] # key[t]
    BY <2>2
  <2> QED BY <2>2, <2>3 DEF TypeOK
<1>6. LookupInv'
  BY DEF LookupInv, TypeOK
<1>7. \A p \in Thread : (Holds(p)' <=> Holds(p)) /\ (Holds(p) => p \notin S /\ got'[p] = got[p])
  BY DEF Holds
<1>8. \A p \in Thread : p \notin S => got'[p] = got[p] /\ pc'[p] = pc[p]
  OBVIOUS
<1>9. PoolInv'
  BY DEF PoolInv
<1>10. HolderInv'
  <2>1. \A p \in Thread : pc'[p] \in {"handshake", "store", "discardClose", "evictClose"} =>
            pc'[p] = pc[p] /\ got'[p] = got[p]
    BY <1>8
  <2> HIDE <1>2
  <2>2. UNCHANGED <<conns, started, cancelled, closed, doomed, snapshot>>
    BY <1>2
  <2> QED BY <1>7, <2>1, <2>2 DEF HolderInv
<1>11. UseInv'
  <2>1. \A p \in Thread : Uses(p)' =>
            \/ p \notin S /\ Uses(p) /\ got'[p] = got[p]
            \/ p \in S /\ Uses(t) /\ got'[p] = got[t] /\ key[p] = key[t]
    BY <1>8 DEF Uses
  <2>2. \A p \in Thread : pc'[p] \in {"handshake", "store"} =>
            pc[p] = pc'[p] /\ got'[p] = got[p]
    BY <1>8
  <2>3. UNCHANGED <<conns, started, key>>
    OBVIOUS
  <2>4. \A p \in Thread : pc'[p] \in {"discard", "discardClose"} =>
            pc[p] = pc'[p] /\ result'[p] = result[p]
    BY <1>2
  <2> HIDE <1>2
  <2> QED BY <2>1, <2>2, <2>3, <2>4 DEF UseInv
<1>12. (CleanerInv /\ ShutInv)'
  BY DEF CleanerInv, ShutInv, TypeOK
<1>13. OwnedInv'
  BY <1>7 DEF OwnedInv
<1> QED BY <1>3, <1>4, <1>5, <1>6, <1>9, <1>10, <1>11, <1>12, <1>13

\* Cleanup takes whole entries out of the pool, all at once.
LEMMA CleanupKeeps ==
    ASSUME IInv, CleanupIdleConns
    PROVE  IInv'
<1> USE DEF IInv
<1> DEFINE V == IdleConns
<1>1. /\ doomed = {}
      /\ conns' = [k \in Key |-> IF conns[k] \in V THEN None ELSE conns[k]]
      /\ doomed' = V
      /\ UNCHANGED <<shut, lifeVars, flight, callVars, snapshot, stopping>>
      /\ cleaner = "waiting" /\ cleaner' = "reaping"
  BY DEF CleanupIdleConns, CleanerInv
<1>2. /\ \A c \in V : c # None /\ \E k \in Key : conns[k] = c
      /\ \A k \in Key : conns'[k] # None => conns'[k] = conns[k] /\ conns[k] \notin V
  BY <1>1 DEF IdleConns, Pooled
<1>3. V \subseteq started \ (cancelled \cup closed \cup snapshot)
  BY <1>2 DEF PoolInv, TypeOK
<1> HIDE DEF V
<1> USE <1>1 DEF lifeVars, callVars
<1>4. TypeOK'
  BY <1>3 DEF TypeOK
<1>5. (KeyInv /\ MainInv /\ FlightInv /\ LookupInv)'
  BY KeyInv DEF KeyInv, MainInv, FlightInv, LookupInv, InFlight
<1>6. PoolInv'
  BY <1>2 DEF PoolInv
<1>7. HolderInv'
  <2>1. \A t \in Thread : Holds(t)' <=> Holds(t)
    BY DEF Holds
  <2>2. \A t \in Thread : Holds(t) => got[t] \notin V /\ got[t] # None
    BY <1>2 DEF HolderInv, TypeOK
  <2>3. \A t \in Thread, k \in Key : Holds(t) => conns'[k] # got[t]
    BY <1>2, <2>2 DEF HolderInv
  <2> QED BY <2>1, <2>2, <2>3 DEF HolderInv
<1>8. UseInv'
  <2>1. \A t \in Thread : Uses(t)' <=> Uses(t)
    BY DEF Uses
  <2>2. \A t \in Thread : Uses(t) => got[t] # None
    BY DEF UseInv, TypeOK
  <2> QED BY <1>2, <2>1, <2>2 DEF UseInv
<1>9. (CleanerInv /\ ShutInv)'
  BY <1>2, <1>3 DEF CleanerInv, ShutInv
<1>10. OwnedInv'
  BY <1>2 DEF OwnedInv, Holds
<1> QED BY <1>4, <1>5, <1>6, <1>7, <1>8, <1>9, <1>10

\* So does Shutdown, when cleanup has already ended.
LEMMA SwapKeeps ==
    ASSUME IInv, ShutdownSwap
    PROVE  IInv'
<1> USE DEF IInv
<1>1. /\ pc[Main] = "sdSwap" /\ pc' = [pc EXCEPT ![Main] = "sdLoop"]
      /\ conns' = [k \in Key |-> None] /\ shut'
      /\ snapshot' = Pooled /\ snapshot = {}
      /\ cleaner = "exited" /\ doomed = {}
      /\ UNCHANGED <<lifeVars, flight, op, key, got, result, cleaner, doomed, stopping>>
  BY DEF ShutdownSwap, Goto, CleanerInv, ShutInv
<1>2. \A c \in Pooled : c # None /\ \E k \in Key : conns[k] = c
  BY DEF Pooled
<1>3. Pooled \subseteq started \ (cancelled \cup closed)
  BY <1>2 DEF PoolInv, TypeOK
<1>4. \A t \in Thread : pc'[t] = pc[t]
  BY <1>1
<1> USE <1>1 DEF lifeVars
<1>5. TypeOK'
  BY <1>3 DEF TypeOK, PC
<1>6. (KeyInv /\ MainInv /\ FlightInv /\ LookupInv)'
  BY <1>4 DEF KeyInv, MainInv, FlightInv, LookupInv, InFlight, TypeOK
<1>7. PoolInv'
  BY DEF PoolInv
<1>8. \A t \in Thread : (Holds(t)' <=> Holds(t)) /\ (Uses(t)' <=> Uses(t))
  BY <1>4 DEF Holds, Uses
<1>9. HolderInv'
  <2>1. \A t \in Thread : Holds(t) => got[t] \notin Pooled /\ got[t] # None
    BY <1>2 DEF HolderInv, TypeOK
  <2> QED BY <1>4, <1>8, <2>1 DEF HolderInv
<1>10. UseInv'
  BY <1>4, <1>8 DEF UseInv, TypeOK
<1>11. (CleanerInv /\ ShutInv)'
  BY <1>3 DEF CleanerInv, ShutInv, TypeOK
<1>12. OwnedInv'
  <2>1. \A c \in started : (\E k \in Key : conns[k] = c) => c \in Pooled
    BY DEF Pooled, TypeOK
  <2> QED BY <1>8, <2>1 DEF OwnedInv
<1> QED BY <1>5, <1>6, <1>7, <1>9, <1>10, <1>11, <1>12

\* The other steps, each by itself.
LEMMA Preservation == IInv /\ [Next]_vars => IInv'
<1> SUFFICES ASSUME IInv, [Next]_vars
             PROVE  IInv'
  OBVIOUS
<1> USE DEF IInv, TypeOK, KeyInv, MainInv, FlightInv, LookupInv, PoolInv, HolderInv, UseInv,
            CleanerInv, ShutInv, OwnedInv, Holds, Uses, InFlight, PC, Goto, mapVars,
            lifeVars, callVars, backVars
<1>1. ASSUME NEW t \in Thread, CreateStep(t)
      PROVE  IInv'
  <2>1. CASE Lookup(t)
    BY <2>1 DEF Lookup
  <2>2. CASE TouchExisting(t)
    BY <2>2 DEF TouchExisting, FlightResult, Result
  <2>3. CASE CheckUserConnLimit(t)
    BY <2>3 DEF CheckUserConnLimit, FlightResult, Result
  <2>4. CASE CreateTransport(t)
    BY <2>4, CreateKeeps
  <2>5. CASE CreateTransportFails(t)
    BY <2>5 DEF CreateTransportFails, FlightResult, Result
  <2>6. CASE HandshakeOk(t)
    BY <2>6 DEF HandshakeOk
  <2>7. CASE HandshakeFails(t)
    BY <2>7 DEF HandshakeFails, Result
  <2>8. CASE StoreConn(t) /\ Refused
    BY <2>8 DEF StoreConn, Refused, Result
  <2>9. CASE StoreConn(t) /\ ~Refused
    BY <2>9, StoreKeeps
  <2>10. CASE DiscardCancel(t)
    BY <2>10 DEF DiscardCancel
  <2>11. CASE DiscardClose(t)
    BY <2>11 DEF DiscardClose, FlightResult
  <2>12. CASE Finish(t)
    BY <2>12, FinishKeeps
  <2> QED
    BY <1>1, <2>1, <2>2, <2>3, <2>4, <2>5, <2>6, <2>7, <2>8, <2>9, <2>10, <2>11, <2>12
       DEF CreateStep
<1>2. ASSUME NEW t \in Thread, UseStep(t)
      PROVE  IInv'
  <2>1. CASE UseConn(t)
    BY <2>1 DEF UseConn
  <2>2. CASE UseSucceeds(t)
    BY <2>2 DEF UseSucceeds
  <2>3. CASE UseFails(t)
    BY <2>3 DEF UseFails, Result
  <2>4. CASE EvictConn(t)
    BY <2>4 DEF EvictConn, IsCurrent
  <2>5. CASE EvictCancel(t)
    BY <2>5 DEF EvictCancel
  <2>6. CASE EvictClose(t)
    BY <2>6 DEF EvictClose
  <2> QED BY <1>2, <2>1, <2>2, <2>3, <2>4, <2>5, <2>6 DEF UseStep
<1>3. ASSUME NEW t \in Thread, Accept(t)
      PROVE  IInv'
  BY <1>3 DEF Accept
<1>4. ASSUME NEW t \in Thread, NEW k \in Key, NEW o \in {"list", "call"},
             GetOrCreateConn(t, k, o)
      PROVE  IInv'
  BY <1>4 DEF GetOrCreateConn
<1>5. ASSUME NEW c \in Conn, CleanupStep(c)
      PROVE  IInv'
  BY <1>5 DEF CleanupStep, CleanupCancel, CleanupClose
<1>6. ASSUME NEW c \in Conn, BecomeIdle(c)
      PROVE  IInv'
  BY <1>6 DEF BecomeIdle, Pooled
<1>7. CASE CleanupIdleConns
  BY <1>7, CleanupKeeps
<1>8. CASE CleanupStop
  BY <1>8 DEF CleanupStop
<1>9. CASE Shutdown
  BY <1>9 DEF Shutdown
<1>10. CASE ShutdownStep
  <2>1. CASE ShutdownWait
    BY <2>1 DEF ShutdownWait
  <2>2. CASE ShutdownTransport
    BY <2>2 DEF ShutdownTransport
  <2>3. CASE ShutdownSwap
    BY <2>3, SwapKeeps
  <2>4. CASE ShutdownDone
    BY <2>4 DEF ShutdownDone
  <2>5. ASSUME NEW c \in Conn, ShutdownCancel(c)
        PROVE  IInv'
    BY <2>5 DEF ShutdownCancel
  <2>6. ASSUME NEW c \in Conn, ShutdownClose(c)
        PROVE  IInv'
    BY <2>6 DEF ShutdownClose
  <2> QED BY <1>10, <2>1, <2>2, <2>3, <2>4, <2>5, <2>6 DEF ShutdownStep
<1>11. CASE UNCHANGED vars
  BY <1>11 DEF vars
<1> HIDE DEF IInv
<1> QED
  BY <1>1, <1>2, <1>3, <1>4, <1>5, <1>6, <1>7, <1>8, <1>9, <1>10, <1>11 DEF Next

LEMMA Invariance == Spec => []IInv
BY Initially, Preservation, PTL DEF Spec

\* Every variable keeps its type, for any constants.
THEOREM TypeCorrect == Spec => []TypeOK
<1>1. IInv => TypeOK
  BY DEF IInv
<1> QED BY <1>1, Invariance, PTL

\* Server.Shutdown is final: whatever callers were doing when it began, the pool
\* stays empty, and the connections they were making are closed.
THEOREM ShutdownFinal == Spec => []ShutdownIsFinal
<1>1. IInv => ShutdownIsFinal
  <2> SUFFICES ASSUME IInv, pc[Main] = "sdDone"
               PROVE  /\ Pooled = {}
                      /\ (\A t \in Thread : pc[t] \in {"ready", "returned"}) => started = closed
    BY DEF ShutdownIsFinal
  <2>1. Pooled = {} /\ doomed = {} /\ snapshot = {}
    BY DEF IInv, ShutInv, CleanerInv, Pooled
  <2>2. ASSUME \A t \in Thread : pc[t] \in {"ready", "returned"}
        PROVE  started = closed
    <3>1. \A c \in started : c \in closed
      BY <2>1, <2>2 DEF IInv, OwnedInv, Holds, ShutInv, TypeOK
    <3> QED BY <3>1 DEF IInv, TypeOK
  <2> QED BY <2>1, <2>2
<1> QED BY <1>1, Invariance, PTL

\* evictConn takes the broken connection out of the pool, whoever else has failed
\* on it or replaced it.
THEOREM BrokenStaysOut == Spec => BrokenNotReused
<1>1. IInv /\ [Next]_vars =>
         [\A t \in Thread :
             pc[t] \in {"evict", "evictClose"} /\ pc'[t] = "returned"
             => got[t] \notin Pooled']_vars
  <2> SUFFICES ASSUME IInv, Next, NEW t \in Thread,
                      pc[t] \in {"evict", "evictClose"}, pc'[t] = "returned"
               PROVE  got[t] \notin Pooled'
    BY DEF vars, mapVars, lifeVars, callVars, backVars
  <2> USE DEF IInv, TypeOK, Goto, mapVars, callVars, backVars
  <2>1. ASSUME NEW u \in Thread, CreateStep(u)
        PROVE  FALSE
    BY <2>1 DEF CreateStep, Lookup, TouchExisting, CheckUserConnLimit, CreateTransport,
       CreateTransportFails, HandshakeOk, HandshakeFails, StoreConn, DiscardCancel,
       DiscardClose, Finish, Sharers, FlightResult
  <2>2. ASSUME NEW u \in Thread, UseStep(u)
        PROVE  got[t] \notin Pooled'
    <3>1. u = t /\ (EvictConn(t) \/ EvictClose(t))
      BY <2>2 DEF UseStep, UseConn, UseSucceeds, UseFails, EvictConn, EvictCancel, EvictClose
    <3>2. conns' = conns /\ (pc[t] = "evict" => ~IsCurrent(t))
      BY <3>1 DEF EvictConn, EvictClose
    <3>3. \A k \in Key : conns[k] # got[t]
      BY <3>2 DEF HolderInv, Holds, UseInv, Uses, IsCurrent
    <3> QED BY <3>2, <3>3 DEF Pooled
  <2>3. ASSUME NEW u \in Thread,
               Accept(u) \/ \E k \in Key, o \in {"list", "call"} : GetOrCreateConn(u, k, o)
        PROVE  FALSE
    BY <2>3 DEF Accept, GetOrCreateConn
  <2>4. CASE \/ \E c \in Conn : CleanupStep(c) \/ BecomeIdle(c)
             \/ CleanupIdleConns \/ CleanupStop
             \/ Shutdown \/ ShutdownStep
    BY <2>4 DEF CleanupStep, CleanupCancel, CleanupClose, BecomeIdle, CleanupIdleConns,
       CleanupStop, Shutdown, ShutdownStep, ShutdownWait, ShutdownTransport, ShutdownSwap,
       ShutdownDone, ShutdownCancel, ShutdownClose
  <2> QED BY <2>1, <2>2, <2>3, <2>4 DEF Next
<1> QED BY <1>1, Invariance, PTL DEF Spec, BrokenNotReused
-----------------------------------------------------------------------------
(* The connection pool implements the abstract pool of ResourcePool.       *)

\* What the refinement mapping makes of a step depends on holders and lists alone.
Closing == {got[t] : t \in {t \in Thread :
    pc[t] \in {"discard", "discardClose", "evictCancel", "evictClose"}}}

LEMMA InitRefined == Init => Pool!Init
BY DEF Init, Pool!Init, Starting, Retired

LEMMA RetiredParts == Retired = doomed \cup snapshot \cup Closing
BY DEF Retired, Closing

LEMMA SameHolders ==
    ASSUME \A t \in Thread : Holds(t)' <=> Holds(t),
           \A t \in Thread : Holds(t) =>
               got'[t] = got[t]
               /\ (pc'[t] \in {"handshake", "store"} <=> pc[t] \in {"handshake", "store"})
    PROVE  Starting' = Starting /\ Closing' = Closing
BY DEF Starting, Closing, Holds

\* One step of t, with what it has in its hands.
LEMMA ConnRefined ==
    ASSUME IInv, NEW t \in Thread, NEW c \in Conn, got'[t] = c,
           \A u \in Thread \ {t} : pc'[u] = pc[u] /\ got'[u] = got[u],
           UNCHANGED <<doomed, snapshot>>
    PROVE  /\ /\ pc[t] = "create" /\ c \notin started /\ pc'[t] = "handshake"
              /\ UNCHANGED <<conns, closed>>
              => Pool!Start(c)
           /\ /\ pc[t] \in {"handshake", "store"} /\ got[t] = c /\ pc'[t] = "discard"
              /\ UNCHANGED <<conns, closed>>
              => Pool!Abandon(c)
           /\ /\ pc[t] = "store" /\ got[t] = c /\ pc'[t] = "finish"
              /\ conns' = [conns EXCEPT ![key[t]] = c] /\ UNCHANGED closed
              => Pool!Publish(key[t], c)
           /\ /\ pc[t] = "evict" /\ got[t] = c /\ conns[key[t]] = c /\ pc'[t] = "evictCancel"
              /\ conns' = [conns EXCEPT ![key[t]] = None] /\ UNCHANGED closed
              => Pool!Retire({key[t]})
<1> USE DEF IInv
<1>1. Retired' = doomed \cup snapshot \cup Closing'
  BY DEF Retired, Closing
<1>2. ASSUME pc[t] = "create", c \notin started, pc'[t] = "handshake",
             UNCHANGED <<conns, closed>>
      PROVE  Pool!Start(c)
  <2>1. Starting' = Starting \cup {c} /\ Closing' = Closing
    BY <1>2 DEF Starting, Closing
  <2>2. c \notin Starting \cup Pool!Published \cup Retired \cup closed
    BY <1>2 DEF Starting, Pool!Published, Retired, HolderInv, PoolInv, CleanerInv, Holds,
       TypeOK
  <2> QED BY <1>1, <1>2, <2>1, <2>2, RetiredParts DEF Pool!Start, Pool!Unborn
<1>3. ASSUME pc[t] \in {"handshake", "store"}, got[t] = c, pc'[t] = "discard",
             UNCHANGED <<conns, closed>>
      PROVE  Pool!Abandon(c)
  <2>1. c \in Starting /\ Starting' = Starting \ {c}
    BY <1>3 DEF Starting, HolderInv, Holds
  <2>2. Closing' = Closing \cup {c}
    BY <1>3 DEF Closing
  <2> QED BY <1>1, <1>3, <2>1, <2>2, RetiredParts DEF Pool!Abandon
<1>4. ASSUME pc[t] = "store", got[t] = c, pc'[t] = "finish",
             conns' = [conns EXCEPT ![key[t]] = c], UNCHANGED closed
      PROVE  Pool!Publish(key[t], c)
  <2>1. c \in Starting /\ Starting' = Starting \ {c}
    BY <1>4 DEF Starting, HolderInv, Holds
  <2>2. Closing' = Closing
    BY <1>4 DEF Closing
  <2>3. conns[key[t]] = None
    BY <1>4 DEF LookupInv
  <2> QED BY <1>1, <1>4, <2>1, <2>2, <2>3, RetiredParts DEF Pool!Publish
<1>5. ASSUME pc[t] = "evict", got[t] = c, conns[key[t]] = c, pc'[t] = "evictCancel",
             conns' = [conns EXCEPT ![key[t]] = None], UNCHANGED closed
      PROVE  Pool!Retire({key[t]})
  <2>1. Starting' = Starting
    BY <1>5 DEF Starting
  <2>2. Closing' = Closing \cup {c}
    BY <1>5 DEF Closing
  <2>3. conns' = [k \in Key |-> IF k \in {key[t]} THEN None ELSE conns[k]] /\ c # None
    BY <1>5 DEF TypeOK
  <2>4. {conns[k] : k \in {key[t]}} = {c}
    BY <1>5
  <2> QED BY <1>1, <1>5, <2>1, <2>2, <2>3, <2>4, RetiredParts DEF Pool!Retire
<1> QED BY <1>2, <1>3, <1>4, <1>5

\* What is closed was on one list or in one caller's hands.
LEMMA CloseRefined ==
    ASSUME IInv, NEW c \in Conn, closed' = closed \cup {c}, UNCHANGED conns
    PROVE  /\ \A t \in Thread :
                /\ pc[t] \in {"discardClose", "evictClose"} /\ got[t] = c /\ ~Holds(t)'
                /\ \A u \in Thread \ {t} : pc'[u] = pc[u] /\ got'[u] = got[u]
                /\ UNCHANGED <<doomed, snapshot>>
                => Pool!Close(c)
           /\ /\ c \in doomed \cup snapshot
              /\ doomed' = doomed \ {c} /\ snapshot' = snapshot \ {c}
              /\ UNCHANGED <<pc, got>>
              => Pool!Close(c)
<1> USE DEF IInv
<1>1. Retired' = doomed' \cup snapshot' \cup Closing'
  BY DEF Retired, Closing
<1>2. ASSUME NEW t \in Thread,
             pc[t] \in {"discardClose", "evictClose"}, got[t] = c, ~Holds(t)',
             \A u \in Thread \ {t} : pc'[u] = pc[u] /\ got'[u] = got[u],
             UNCHANGED <<doomed, snapshot>>
      PROVE  Pool!Close(c)
  <2>1. Starting' = Starting
    BY <1>2 DEF Starting, Holds
  <2>2. c \in Closing /\ Closing' = Closing \ {c}
    BY <1>2 DEF Closing, HolderInv, Holds
  <2>3. c \notin doomed \cup snapshot
    BY <1>2 DEF HolderInv, Holds
  <2> QED BY <1>1, <1>2, <2>1, <2>2, <2>3, RetiredParts DEF Pool!Close
<1>3. ASSUME c \in doomed \cup snapshot,
             doomed' = doomed \ {c}, snapshot' = snapshot \ {c}, UNCHANGED <<pc, got>>
      PROVE  Pool!Close(c)
  <2>1. Starting' = Starting /\ Closing' = Closing
    BY <1>3 DEF Starting, Closing
  <2>2. c \notin Closing
    BY <1>3 DEF Closing, HolderInv, Holds
  <2> QED BY <1>1, <1>3, <2>1, <2>2, RetiredParts DEF Pool!Close
<1> QED BY <1>2, <1>3

\* Cleanup and Shutdown take entries out of the pool and keep them on a list.
LEMMA ListRefined ==
    ASSUME IInv, NEW K \in SUBSET Key, \A k \in K : conns[k] # None,
           conns' = [k \in Key |-> IF k \in K THEN None ELSE conns[k]],
           doomed' \cup snapshot' = doomed \cup snapshot \cup {conns[k] : k \in K},
           \A t \in Thread : pc'[t] = pc[t] /\ got'[t] = got[t],
           UNCHANGED closed
    PROVE  Pool!Retire(K)
<1>1. Starting' = Starting /\ Closing' = Closing
  BY SameHolders DEF Holds
<1>2. Retired' = doomed' \cup snapshot' \cup Closing'
  BY DEF Retired, Closing
<1> QED BY <1>1, <1>2, RetiredParts DEF Pool!Retire

LEMMA StepRefined == IInv /\ [Next]_vars => [Pool!Next]_Pool!pvars
<1> SUFFICES ASSUME IInv, [Next]_vars
             PROVE  Pool!Next \/ UNCHANGED Pool!pvars
  OBVIOUS
<1> USE DEF IInv, TypeOK, MainInv, KeyInv, InFlight, Goto, mapVars, lifeVars, backVars
<1>1. ASSUME \A t \in Thread : Holds(t)' <=> Holds(t),
             \A t \in Thread : Holds(t) =>
                 got'[t] = got[t]
                 /\ (pc'[t] \in {"handshake", "store"} <=> pc[t] \in {"handshake", "store"}),
             UNCHANGED <<conns, closed, doomed, snapshot>>
      PROVE  UNCHANGED Pool!pvars
  <2>1. Starting' = Starting /\ Closing' = Closing
    BY <1>1, SameHolders
  <2>2. Retired' = doomed' \cup snapshot' \cup Closing'
    BY DEF Retired, Closing
  <2> QED BY <1>1, <2>1, <2>2, RetiredParts DEF Pool!pvars
<1>2. ASSUME NEW t \in Thread, CreateStep(t)
      PROVE  Pool!Next \/ UNCHANGED Pool!pvars
  <2>1. CASE CreateTransport(t)
    <3>1. PICK c \in Conn \ started : got' = [got EXCEPT ![t] = c]
      BY <2>1 DEF CreateTransport
    <3>2. Pool!Start(c)
      BY <2>1, <3>1, ConnRefined DEF CreateTransport
    <3> QED BY <3>2 DEF Pool!Next
  <2>2. CASE HandshakeFails(t) \/ (StoreConn(t) /\ Refused)
    <3>1. got[t] \in Conn
      BY <2>2 DEF HandshakeFails, StoreConn, HolderInv, Holds
    <3>2. Pool!Abandon(got[t])
      BY <2>2, <3>1, ConnRefined DEF HandshakeFails, StoreConn
    <3> QED BY <3>1, <3>2 DEF Pool!Next
  <2>3. CASE StoreConn(t) /\ ~Refused
    <3>1. got[t] \in Conn /\ key[t] \in Key
      BY <2>3 DEF StoreConn, HolderInv, Holds
    <3>2. /\ pc[t] = "store" /\ pc'[t] = "finish" /\ got'[t] = got[t]
          /\ \A u \in Thread \ {t} : pc'[u] = pc[u] /\ got'[u] = got[u]
          /\ conns' = [conns EXCEPT ![key[t]] = got[t]]
          /\ UNCHANGED <<closed, doomed, snapshot>>
      BY <2>3 DEF StoreConn, FlightResult
    <3>3. Pool!Publish(key[t], got[t])
      BY <3>1, <3>2, ConnRefined
    <3> QED BY <3>1, <3>3 DEF Pool!Next
  <2>4. CASE DiscardClose(t)
    <3>1. got[t] \in Conn
      BY <2>4 DEF DiscardClose, HolderInv, Holds
    <3>2. Pool!Close(got[t])
      BY <2>4, <3>1, CloseRefined DEF DiscardClose, FlightResult, Holds
    <3> QED BY <3>1, <3>2 DEF Pool!Next
  <2>5. CASE Finish(t)
    BY <1>1, <2>5 DEF Finish, Sharers, Holds
  <2>6. CASE Lookup(t) \/ TouchExisting(t) \/ CheckUserConnLimit(t)
             \/ CreateTransportFails(t) \/ HandshakeOk(t) \/ DiscardCancel(t)
    BY <1>1, <2>6 DEF Lookup, TouchExisting, CheckUserConnLimit, CreateTransportFails,
       HandshakeOk, DiscardCancel, FlightResult, Holds
  <2> QED BY <1>2, <2>1, <2>2, <2>3, <2>4, <2>5, <2>6 DEF CreateStep
<1>3. ASSUME NEW t \in Thread, UseStep(t)
      PROVE  Pool!Next \/ UNCHANGED Pool!pvars
  <2>1. CASE EvictConn(t) /\ IsCurrent(t)
    <3>1. got[t] \in Conn /\ key[t] \in Key
      BY <2>1 DEF EvictConn, UseInv, Uses
    <3>2. Pool!Retire({key[t]})
      BY <2>1, <3>1, ConnRefined DEF EvictConn, IsCurrent
    <3> QED BY <3>1, <3>2 DEF Pool!Next
  <2>2. CASE EvictClose(t)
    <3>1. got[t] \in Conn
      BY <2>2 DEF EvictClose, HolderInv, Holds
    <3>2. Pool!Close(got[t])
      BY <2>2, <3>1, CloseRefined DEF EvictClose, Holds
    <3> QED BY <3>1, <3>2 DEF Pool!Next
  <2>3. CASE UseConn(t) \/ UseSucceeds(t) \/ UseFails(t) \/ EvictCancel(t)
             \/ (EvictConn(t) /\ ~IsCurrent(t))
    BY <1>1, <2>3 DEF UseConn, UseSucceeds, UseFails, EvictCancel, EvictConn, Holds
  <2> QED BY <1>3, <2>1, <2>2, <2>3 DEF UseStep
<1>4. ASSUME NEW t \in Thread,
             Accept(t) \/ \E k \in Key, o \in {"list", "call"} : GetOrCreateConn(t, k, o)
      PROVE  UNCHANGED Pool!pvars
  BY <1>1, <1>4 DEF Accept, GetOrCreateConn, Holds
<1>5. ASSUME NEW c \in Conn, CleanupStep(c) \/ ShutdownCancel(c) \/ ShutdownClose(c)
      PROVE  Pool!Next \/ UNCHANGED Pool!pvars
  <2>1. CASE CleanupClose(c) \/ ShutdownClose(c)
    <3>1. /\ c \in doomed \cup snapshot
          /\ doomed' = doomed \ {c} /\ snapshot' = snapshot \ {c}
          /\ closed' = closed \cup {c}
          /\ UNCHANGED <<conns, pc, got>>
      BY <2>1 DEF CleanupClose, ShutdownClose, callVars, CleanerInv
    <3>2. Pool!Close(c)
      BY <3>1, CloseRefined
    <3> QED BY <3>2 DEF Pool!Next
  <2>2. CASE CleanupCancel(c) \/ ShutdownCancel(c)
    BY <1>1, <2>2 DEF CleanupCancel, ShutdownCancel, callVars, Holds
  <2> QED BY <1>5, <2>1, <2>2 DEF CleanupStep
<1>6. CASE CleanupIdleConns
  <2> DEFINE K == {k \in Key : conns[k] \in IdleConns}
  <2>1. (\A k \in K : conns[k] # None) /\ IdleConns = {conns[k] : k \in K}
    BY DEF IdleConns, Pooled
  <2>2. conns' = [k \in Key |-> IF k \in K THEN None ELSE conns[k]]
    BY <1>6 DEF CleanupIdleConns
  <2>3. /\ doomed = {} /\ doomed' = IdleConns
        /\ UNCHANGED <<closed, snapshot, pc, got>>
    BY <1>6 DEF CleanupIdleConns, CleanerInv, callVars
  <2> HIDE DEF K
  <2>4. K \in SUBSET Key
    BY DEF K
  <2>5. Pool!Retire(K)
    BY <2>1, <2>2, <2>3, <2>4, ListRefined
  <2> QED BY <2>4, <2>5 DEF Pool!Next
<1>7. CASE ShutdownSwap
  <2> DEFINE K == {k \in Key : conns[k] # None}
  <2>1. (\A k \in K : conns[k] # None) /\ Pooled = {conns[k] : k \in K}
    BY DEF Pooled
  <2>2. conns' = [k \in Key |-> IF k \in K THEN None ELSE conns[k]]
    BY <1>7 DEF ShutdownSwap
  <2>3. /\ snapshot = {} /\ snapshot' = Pooled
        /\ UNCHANGED <<closed, doomed, got>>
        /\ \A t \in Thread : pc'[t] = pc[t]
    BY <1>7 DEF ShutdownSwap, CleanerInv
  <2> HIDE DEF K
  <2>4. K \in SUBSET Key
    BY DEF K
  <2>5. Pool!Retire(K)
    BY <2>1, <2>2, <2>3, <2>4, ListRefined
  <2> QED BY <2>4, <2>5 DEF Pool!Next
<1>8. CASE CleanupStop \/ Shutdown \/ ShutdownWait \/ ShutdownTransport \/ ShutdownDone
           \/ (\E c \in Conn : BecomeIdle(c)) \/ UNCHANGED vars
  BY <1>1, <1>8 DEF CleanupStop, Shutdown, ShutdownWait, ShutdownTransport, ShutdownDone,
     BecomeIdle, Holds, callVars, vars
<1> QED
  BY <1>2, <1>3, <1>4, <1>5, <1>6, <1>7, <1>8 DEF Next, ShutdownStep

\* The connection pool is a keyed pool like the session manager: no entry is
\* overwritten, and whatever leaves the pool is closed once, by who took it out.
THEOREM Refinement == Spec => ImplementsPool
<1>1. Spec => [][Pool!Next]_Pool!pvars
  BY Invariance, StepRefined, PTL DEF Spec
<1> QED BY <1>1, InitRefined, PTL DEF Spec, ImplementsPool, Pool!Spec

\* What left the pool of connections, evicted, idle or at Shutdown, and what was never
\* offered, is closed once and no caller finds it in the pool again.
THEOREM RetiredStaysOut ==
    Spec => \A r \in Conn : [](r \in Retired \cup closed => [](r \notin Pool!Published))
<1> HIDE ConnConstantsAssumption DEF Proc
<1>1. None \notin Conn
  BY ConnConstantsAssumption
<1>2. \A r : Pool!Spec => [](r \in Retired \cup closed => [](r \notin Pool!Published))
  BY <1>1, Pool!RetiredForGood
<1>3. Spec => Pool!Spec
  BY Refinement DEF ImplementsPool
<1> QED BY <1>2, <1>3
-----------------------------------------------------------------------------
(* The overshoot of the per-user limit.                                    *)

\* The keys that count against u's limit.
Held(u) == {k \in Key : UserOf[k] = u /\ conns[k] # None}

LimitInv ==
    \A u \in User :
        /\ IsFiniteSet(Held(u))
        /\ u # Anonymous /\ MaxConnsPerUser > 0 =>
              Cardinality(Held(u)) + Cardinality(Creators(u))
                  < MaxConnsPerUser + Cardinality(Thread)

\* One step shrinks the two sets, lets one caller pass the check, or turns one
\* creator into an entry.
LEMMA LimitSteps ==
    ASSUME IInv, [Next]_vars, NEW u \in User
    PROVE  \/ Held(u)' \subseteq Held(u) /\ Creators(u)' \subseteq Creators(u)
           \/ Held(u)' = Held(u) /\ WithinLimit(u)
           \/ \E t \in Creators(u) :
                 /\ Creators(u)' = Creators(u) \ {t}
                 /\ Held(u)' = Held(u) \cup {key[t]}
<1> DEFINE Shrinks == Held(u)' \subseteq Held(u) /\ Creators(u)' \subseteq Creators(u)
<1> USE DEF IInv, TypeOK, KeyInv, MainInv, Held, Creators, Goto, InFlight, mapVars, backVars,
            callVars
<1>1. ASSUME NEW t \in Thread, CheckUserConnLimit(t)
      PROVE  Shrinks \/ (Held(u)' = Held(u) /\ WithinLimit(u))
  BY <1>1 DEF CheckUserConnLimit, FlightResult
<1>2. ASSUME NEW t \in Thread, StoreConn(t), ~Refused, UserOf[key[t]] = u
      PROVE  /\ t \in Creators(u)
             /\ Creators(u)' = Creators(u) \ {t}
             /\ Held(u)' = Held(u) \cup {key[t]}
  BY <1>2 DEF StoreConn, FlightResult, HolderInv, Holds
<1>3. ASSUME NEW t \in Thread, StoreConn(t), Refused \/ UserOf[key[t]] # u
      PROVE  Shrinks
  BY <1>3 DEF StoreConn, FlightResult
<1>4. ASSUME NEW t \in Thread, Finish(t)
      PROVE  Shrinks
  BY <1>4 DEF Finish
<1>5. ASSUME NEW t \in Thread,
             \/ Lookup(t) \/ TouchExisting(t) \/ CreateTransport(t) \/ CreateTransportFails(t)
             \/ HandshakeOk(t) \/ HandshakeFails(t) \/ DiscardCancel(t) \/ DiscardClose(t)
      PROVE  Shrinks
  BY <1>5 DEF Lookup, TouchExisting, CreateTransport, CreateTransportFails, HandshakeOk,
     HandshakeFails, DiscardCancel, DiscardClose, FlightResult
<1>6. ASSUME NEW t \in Thread, UseStep(t) \/ Accept(t)
      PROVE  Shrinks
  BY <1>6 DEF UseStep, UseConn, UseSucceeds, UseFails, EvictConn, EvictCancel, EvictClose,
     Accept
<1>7. ASSUME NEW t \in Thread, NEW k \in Key, NEW o \in {"list", "call"},
             GetOrCreateConn(t, k, o)
      PROVE  Shrinks
  BY <1>7 DEF GetOrCreateConn
<1>8. ASSUME NEW c \in Conn, CleanupStep(c) \/ BecomeIdle(c)
      PROVE  Shrinks
  BY <1>8 DEF CleanupStep, CleanupCancel, CleanupClose, BecomeIdle
<1>9. ASSUME CleanupIdleConns \/ CleanupStop \/ UNCHANGED vars
      PROVE  Shrinks
  BY <1>9 DEF CleanupIdleConns, CleanupStop, vars
<1>10. ASSUME Shutdown \/ ShutdownStep
       PROVE  Shrinks
  BY <1>10 DEF Shutdown, ShutdownStep, ShutdownWait, ShutdownTransport, ShutdownSwap,
     ShutdownDone, ShutdownCancel, ShutdownClose
<1> HIDE DEF Held, Creators, Shrinks
<1>11. ASSUME NEW t \in Thread, CreateStep(t)
       PROVE  \/ Shrinks
              \/ Held(u)' = Held(u) /\ WithinLimit(u)
              \/ \E v \in Creators(u) :
                    /\ Creators(u)' = Creators(u) \ {v}
                    /\ Held(u)' = Held(u) \cup {key[v]}
  BY <1>1, <1>2, <1>3, <1>4, <1>5, <1>11 DEF CreateStep
<1>12. \/ Shrinks
       \/ Held(u)' = Held(u) /\ WithinLimit(u)
       \/ \E t \in Creators(u) :
             /\ Creators(u)' = Creators(u) \ {t}
             /\ Held(u)' = Held(u) \cup {key[t]}
  BY <1>6, <1>7, <1>8, <1>9, <1>10, <1>11 DEF Next
<1> QED BY <1>12 DEF Shrinks

LEMMA LimitPreserved == IInv /\ LimitInv /\ [Next]_vars => LimitInv'
<1> SUFFICES ASSUME IInv, LimitInv, [Next]_vars, NEW u \in User
             PROVE  /\ IsFiniteSet(Held(u)')
                    /\ u # Anonymous /\ MaxConnsPerUser > 0 =>
                          Cardinality(Held(u)') + Cardinality(Creators(u)')
                              < MaxConnsPerUser + Cardinality(Thread)
  BY DEF LimitInv
<1> DEFINE H == Held(u)
           C == Creators(u)
<1>1. IsFiniteSet(Thread) /\ Cardinality(Thread) \in Nat
  BY ThreadsFinite, FS_CardinalityType
<1>2. C \subseteq Thread /\ C' \subseteq Thread
  BY DEF Creators
<1>3. /\ IsFiniteSet(C) /\ IsFiniteSet(C')
      /\ Cardinality(C) \in Nat /\ Cardinality(C') \in Nat
      /\ Cardinality(C') <= Cardinality(Thread)
  BY <1>1, <1>2, FS_Subset, FS_CardinalityType
<1>4. /\ IsFiniteSet(H) /\ Cardinality(H) \in Nat
      /\ u # Anonymous /\ MaxConnsPerUser > 0 =>
            Cardinality(H) + Cardinality(C) < MaxConnsPerUser + Cardinality(Thread)
  BY FS_CardinalityType DEF LimitInv
<1> HIDE DEF H, C
<1>5. CASE H' \subseteq H /\ C' \subseteq C
  <2>1. /\ IsFiniteSet(H') /\ Cardinality(H') <= Cardinality(H) /\ Cardinality(H') \in Nat
        /\ Cardinality(C') <= Cardinality(C)
    BY <1>3, <1>4, <1>5, FS_Subset, FS_CardinalityType
  <2> QED BY <1>1, <1>3, <1>4, <2>1 DEF H, C
<1>6. CASE H' = H /\ WithinLimit(u)
  <2>1. u # Anonymous /\ MaxConnsPerUser > 0 => Cardinality(H) < MaxConnsPerUser
    BY <1>6 DEF WithinLimit, Count, Held, H
  <2> QED BY <1>1, <1>3, <1>4, <1>6, <2>1 DEF H, C
<1>7. CASE \E t \in C : C' = C \ {t} /\ H' = H \cup {key[t]}
  <2>1. PICK t \in C : C' = C \ {t} /\ H' = H \cup {key[t]}
    BY <1>7
  <2>2. Cardinality(C') = Cardinality(C) - 1
    BY <1>3, <2>1, FS_RemoveElement
  <2>3. /\ IsFiniteSet(H')
        /\ Cardinality(H') = IF key[t] \in H THEN Cardinality(H) ELSE Cardinality(H) + 1
    BY <1>4, <2>1, FS_AddElement
  <2>4. Cardinality(H') \in Nat /\ Cardinality(H') <= Cardinality(H) + 1
    BY <1>4, <2>3
  <2> QED BY <1>1, <1>3, <1>4, <2>2, <2>3, <2>4 DEF H, C
<1> QED BY <1>5, <1>6, <1>7, LimitSteps DEF H, C

\* However many callers connect to backends of one user at the same time, the user
\* has fewer than maxConnsPerUser plus the number of callers.
THEOREM OvershootBounded == Spec => []BoundedOvershoot
<1>1. Init => LimitInv
  <2> SUFFICES ASSUME Init, NEW u \in User
               PROVE  /\ IsFiniteSet(Held(u))
                      /\ u # Anonymous /\ MaxConnsPerUser > 0 =>
                            Cardinality(Held(u)) + Cardinality(Creators(u))
                                < MaxConnsPerUser + Cardinality(Thread)
    BY DEF LimitInv
  <2>1. Held(u) = {} /\ Creators(u) = {}
    BY DEF Init, Held, Creators
  <2>2. Cardinality(Thread) \in Nat
    BY ThreadsFinite, FS_CardinalityType
  <2> QED BY <2>1, <2>2, FS_EmptySet
<1>2. LimitInv => BoundedOvershoot
  BY DEF LimitInv, BoundedOvershoot, Held, Count
<1> QED BY <1>1, <1>2, Invariance, LimitPreserved, PTL DEF Spec
-----------------------------------------------------------------------------
(* Whose connection a caller has, and whom it waits for.                   *)

\* A caller with a connection is inside a call for a key, or has its result.
ResultInv ==
    \A t \in Thread : got[t] # None =>
        got[t] \in started /\ key[t] \in Key /\ pc[t] # "ready"

\* The converse of FlightInv: singleflight knows only callers that are inside, and
\* whoever has joined finds one of them.
LeaderInv ==
    /\ \A k \in Key : flight[k] # None => pc[flight[k]] \in InFlight /\ key[flight[k]] = k
    /\ \A t \in Thread : pc[t] = "joined" => key[t] \in Key /\ flight[key[t]] # None
    /\ cleaner = "reaping" => doomed # {}

CallInv == ResultInv /\ ConnOfOneKey /\ LeaderInv

LEMMA CallsPreserved == IInv /\ CallInv /\ [Next]_vars => CallInv'
<1> SUFFICES ASSUME IInv, CallInv, [Next]_vars
             PROVE  CallInv'
  OBVIOUS
<1> USE DEF CallInv, IInv, TypeOK, KeyInv, MainInv, FlightInv, ResultInv, ConnOfOneKey,
            LeaderInv, InFlight, Goto, mapVars, lifeVars, callVars, backVars
<1>1. ASSUME NEW t \in Thread, CreateStep(t)
      PROVE  CallInv'
  <2>1. CASE Lookup(t)
    BY <2>1 DEF Lookup, PoolInv
  <2>2. CASE TouchExisting(t)
    BY <2>2 DEF TouchExisting, FlightResult
  <2>3. CASE CheckUserConnLimit(t)
    BY <2>3 DEF CheckUserConnLimit, FlightResult
  <2>4. CASE CreateTransport(t)
    BY <2>4 DEF CreateTransport, PoolInv
  <2>5. CASE CreateTransportFails(t)
    BY <2>5 DEF CreateTransportFails, FlightResult
  <2>6. CASE HandshakeOk(t)
    BY <2>6 DEF HandshakeOk
  <2>7. CASE HandshakeFails(t)
    BY <2>7 DEF HandshakeFails
  <2>8. CASE StoreConn(t)
    BY <2>8 DEF StoreConn, FlightResult
  <2>9. CASE DiscardCancel(t)
    BY <2>9 DEF DiscardCancel
  <2>10. CASE DiscardClose(t)
    BY <2>10 DEF DiscardClose, FlightResult
  <2>11. CASE Finish(t)
    BY <2>11 DEF Finish, Sharers
  <2> QED
    BY <1>1, <2>1, <2>2, <2>3, <2>4, <2>5, <2>6, <2>7, <2>8, <2>9, <2>10, <2>11
       DEF CreateStep
<1>2. ASSUME NEW t \in Thread, UseStep(t)
      PROVE  CallInv'
  <2>1. CASE UseConn(t)
    BY <2>1 DEF UseConn
  <2>2. CASE UseSucceeds(t) \/ UseFails(t)
    BY <2>2 DEF UseSucceeds, UseFails
  <2>3. CASE EvictConn(t)
    BY <2>3 DEF EvictConn
  <2>4. CASE EvictCancel(t) \/ EvictClose(t)
    BY <2>4 DEF EvictCancel, EvictClose
  <2> QED BY <1>2, <2>1, <2>2, <2>3, <2>4 DEF UseStep
<1>3. ASSUME NEW t \in Thread, Accept(t)
      PROVE  CallInv'
  BY <1>3 DEF Accept
<1>4. ASSUME NEW t \in Thread, NEW k \in Key, NEW o \in {"list", "call"},
             GetOrCreateConn(t, k, o)
      PROVE  CallInv'
  BY <1>4 DEF GetOrCreateConn
<1>5. ASSUME NEW c \in Conn, CleanupStep(c)
      PROVE  CallInv'
  BY <1>5 DEF CleanupStep, CleanupCancel, CleanupClose
<1>6. ASSUME NEW c \in Conn, BecomeIdle(c)
      PROVE  CallInv'
  BY <1>6 DEF BecomeIdle
<1>7. CASE CleanupIdleConns
  BY <1>7 DEF CleanupIdleConns
<1>8. CASE CleanupStop
  BY <1>8 DEF CleanupStop
<1>9. CASE Shutdown
  BY <1>9 DEF Shutdown
<1>10. CASE ShutdownStep
  BY <1>10 DEF ShutdownStep, ShutdownWait, ShutdownTransport, ShutdownSwap, ShutdownDone,
     ShutdownCancel, ShutdownClose
<1>11. CASE UNCHANGED vars
  BY <1>11 DEF vars
<1> QED
  BY <1>1, <1>2, <1>3, <1>4, <1>5, <1>6, <1>7, <1>8, <1>9, <1>10, <1>11 DEF Next

LEMMA CallInvariance == Spec => []CallInv
<1>1. Init => CallInv
  BY DEF Init, CallInv, ResultInv, ConnOfOneKey, LeaderInv
<1> QED BY <1>1, Invariance, CallsPreserved, PTL DEF Spec

\* A connection, made with one user's token for one backend, never answers a call of
\* another user or for another backend.
THEOREM ConnsStayWithTheirKey == Spec => []ConnOfOneKey
<1>1. CallInv => ConnOfOneKey
  BY DEF CallInv
<1> QED BY <1>1, CallInvariance, PTL

\* A joiner always has a leader that can release it, and Shutdown never waits for
\* a cleanup goroutine that has nothing to do and does not know it.
THEOREM NobodyStranded == Spec => []WaitersHaveLeader
<1>1. IInv /\ CallInv => WaitersHaveLeader
  BY DEF CallInv, LeaderInv, WaitersHaveLeader, IInv, TypeOK
<1> QED BY <1>1, Invariance, CallInvariance, PTL
-----------------------------------------------------------------------------
(* Joiners are served, as long as handshakes and closes end.               *)

\* No caller stays for ever at one step of the function that singleflight runs:
\* Initialize ends by the discovery timeout; Start and Close have no timeout of this
\* code's, and that they return is left to the transport.
Leaves(t, l) == pc[t] = l => <>(~(pc[t] = l))
AllLeave == \A t \in Thread, l \in InFlight : Leaves(t, l)
CallersMove == []AllLeave

Served(t) == pc[t] \in {"acquired", "returned"}

\* t waits for u, which is at step l of the function.
Awaits(t, u, l) ==
    pc[t] = "joined" /\ pc[u] = l /\ flight[key[t]] = u /\ key[u] = key[t]

\* u, for which t waits, goes forward or stays; leaving the function it takes t along.
GoesOn(t, u) ==
    /\ Awaits(t, u, "lookup") => Awaits(t, u, "lookup")' \/ Awaits(t, u, "touch")'
                                 \/ Awaits(t, u, "limit")'
    /\ Awaits(t, u, "touch") => Awaits(t, u, "touch")' \/ Awaits(t, u, "finish")'
    /\ Awaits(t, u, "limit") => Awaits(t, u, "limit")' \/ Awaits(t, u, "create")'
                                \/ Awaits(t, u, "finish")'
    /\ Awaits(t, u, "create") => Awaits(t, u, "create")' \/ Awaits(t, u, "handshake")'
                                 \/ Awaits(t, u, "finish")'
    /\ Awaits(t, u, "handshake") => Awaits(t, u, "handshake")' \/ Awaits(t, u, "store")'
                                    \/ Awaits(t, u, "discard")'
    /\ Awaits(t, u, "store") => Awaits(t, u, "store")' \/ Awaits(t, u, "discard")'
                                \/ Awaits(t, u, "finish")'
    /\ Awaits(t, u, "discard") => Awaits(t, u, "discard")' \/ Awaits(t, u, "discardClose")'
    /\ Awaits(t, u, "discardClose") => Awaits(t, u, "discardClose")'
                                       \/ Awaits(t, u, "finish")'
    /\ Awaits(t, u, "finish") => Awaits(t, u, "finish")' \/ Served(t)'

\* While a caller is waited for, that is all that it does, whatever others do.
LEMMA AwaitedGoesOn ==
    ASSUME NEW t \in Thread, NEW u \in Thread
    PROVE  IInv /\ CallInv /\ [Next]_vars => GoesOn(t, u)
<1> SUFFICES ASSUME IInv, CallInv, [Next]_vars PROVE GoesOn(t, u)
  OBVIOUS
<1> USE DEF GoesOn, Awaits, Served, IInv, TypeOK, KeyInv, MainInv, FlightInv, InFlight, Goto,
            mapVars, callVars
<1>1. ASSUME NEW v \in Thread, Finish(v)
      PROVE  \A l \in InFlight : Awaits(t, u, l) =>
                Awaits(t, u, l)' \/ (l = "finish" /\ Served(t)')
  BY <1>1 DEF Finish, Sharers
<1>2. ASSUME NEW v \in Thread, CreateStep(v), ~Finish(v), v # u
      PROVE  \A l \in InFlight : Awaits(t, u, l) => Awaits(t, u, l)'
  BY <1>2 DEF CreateStep, Lookup, TouchExisting, CheckUserConnLimit, CreateTransport,
     CreateTransportFails, HandshakeOk, HandshakeFails, StoreConn, DiscardCancel,
     DiscardClose, FlightResult
<1>3. ASSUME CreateStep(u), ~Finish(u), pc[t] = "joined"
      PROVE  /\ pc'[t] = pc[t] /\ UNCHANGED <<flight, key>>
             /\ pc[u] = "lookup" => pc'[u] \in {"touch", "limit"}
             /\ pc[u] = "touch" => pc'[u] = "finish"
             /\ pc[u] = "limit" => pc'[u] \in {"create", "finish"}
             /\ pc[u] = "create" => pc'[u] \in {"handshake", "finish"}
             /\ pc[u] = "handshake" => pc'[u] \in {"store", "discard"}
             /\ pc[u] = "store" => pc'[u] \in {"discard", "finish"}
             /\ pc[u] = "discard" => pc'[u] = "discardClose"
             /\ pc[u] = "discardClose" => pc'[u] = "finish"
             /\ pc[u] # "finish"
  BY <1>3 DEF CreateStep, Lookup, TouchExisting, CheckUserConnLimit, CreateTransport,
     CreateTransportFails, HandshakeOk, HandshakeFails, StoreConn, DiscardCancel,
     DiscardClose, FlightResult
<1>4. ASSUME NEW v \in Thread, UseStep(v) \/ Accept(v)
      PROVE  \A l \in InFlight : Awaits(t, u, l) => Awaits(t, u, l)'
  BY <1>4 DEF UseStep, UseConn, UseSucceeds, UseFails, EvictConn, EvictCancel, EvictClose,
     Accept
<1>5. ASSUME NEW v \in Thread, NEW k \in Key, NEW o \in {"list", "call"},
             GetOrCreateConn(v, k, o)
      PROVE  \A l \in InFlight : Awaits(t, u, l) => Awaits(t, u, l)'
  BY <1>5 DEF GetOrCreateConn
<1>6. ASSUME \/ \E c \in Conn : CleanupStep(c) \/ BecomeIdle(c)
             \/ CleanupIdleConns \/ CleanupStop \/ Shutdown \/ ShutdownStep
             \/ UNCHANGED vars
      PROVE  \A l \in InFlight : Awaits(t, u, l) => Awaits(t, u, l)'
  BY <1>6 DEF CleanupStep, CleanupCancel, CleanupClose, BecomeIdle, CleanupIdleConns,
     CleanupStop, Shutdown, ShutdownStep, ShutdownWait, ShutdownTransport, ShutdownSwap,
     ShutdownDone, ShutdownCancel, ShutdownClose, vars
<1> QED BY <1>1, <1>2, <1>3, <1>4, <1>5, <1>6 DEF Next

\* A caller that joined another one's getOrCreateConn gets that one's connection or
\* error, also when the program shuts down meanwhile, if only no caller stops for ever
\* inside the function.
THEOREM JoinersServed ==
    Spec /\ CallersMove => \A t \in Thread : pc[t] = "joined" ~> Served(t)
<1>1. ASSUME NEW t \in Thread, []IInv, []CallInv, [][Next]_vars, []AllLeave
      PROVE  pc[t] = "joined" ~> Served(t)
  <2>1. AllLeave
    BY <1>1, PTL
  <2>2. ASSUME NEW u \in Thread
        PROVE  (\E l \in InFlight : Awaits(t, u, l)) => <>Served(t)
    <3>1. /\ Leaves(u, "lookup") /\ Leaves(u, "touch") /\ Leaves(u, "limit")
          /\ Leaves(u, "create") /\ Leaves(u, "handshake") /\ Leaves(u, "store")
          /\ Leaves(u, "discard") /\ Leaves(u, "discardClose") /\ Leaves(u, "finish")
      BY <2>1 DEF AllLeave, InFlight
    <3>2. /\ Awaits(t, u, "lookup") => <>(~(pc[u] = "lookup"))
          /\ Awaits(t, u, "touch") => <>(~(pc[u] = "touch"))
          /\ Awaits(t, u, "limit") => <>(~(pc[u] = "limit"))
          /\ Awaits(t, u, "create") => <>(~(pc[u] = "create"))
          /\ Awaits(t, u, "handshake") => <>(~(pc[u] = "handshake"))
          /\ Awaits(t, u, "store") => <>(~(pc[u] = "store"))
          /\ Awaits(t, u, "discard") => <>(~(pc[u] = "discard"))
          /\ Awaits(t, u, "discardClose") => <>(~(pc[u] = "discardClose"))
          /\ Awaits(t, u, "finish") => <>(~(pc[u] = "finish"))
      BY <3>1 DEF Leaves, Awaits
    <3>3. /\ Awaits(t, u, "lookup") => pc[u] = "lookup"
          /\ Awaits(t, u, "touch") => pc[u] = "touch"
          /\ Awaits(t, u, "limit") => pc[u] = "limit"
          /\ Awaits(t, u, "create") => pc[u] = "create"
          /\ Awaits(t, u, "handshake") => pc[u] = "handshake"
          /\ Awaits(t, u, "store") => pc[u] = "store"
          /\ Awaits(t, u, "discard") => pc[u] = "discard"
          /\ Awaits(t, u, "discardClose") => pc[u] = "discardClose"
          /\ Awaits(t, u, "finish") => pc[u] = "finish"
      BY DEF Awaits
    <3>4. (\E l \in InFlight : Awaits(t, u, l)) =>
             \/ Awaits(t, u, "lookup") \/ Awaits(t, u, "touch") \/ Awaits(t, u, "limit")
             \/ Awaits(t, u, "create") \/ Awaits(t, u, "handshake") \/ Awaits(t, u, "store")
             \/ Awaits(t, u, "discard") \/ Awaits(t, u, "discardClose")
             \/ Awaits(t, u, "finish")
      BY DEF InFlight
    <3>5. IInv /\ CallInv /\ [Next]_vars => GoesOn(t, u)
      BY AwaitedGoesOn
    <3> QED BY <1>1, <3>2, <3>3, <3>4, <3>5, PTL DEF GoesOn
  <2>3. IInv /\ CallInv /\ pc[t] = "joined" =>
           \E u \in Thread : \E l \in InFlight : Awaits(t, u, l)
    BY DEF IInv, TypeOK, CallInv, LeaderInv, Awaits
  <2>4. \A u \in Thread : (\E l \in InFlight : Awaits(t, u, l)) => <>Served(t)
    BY <2>2
  <2>5. (\E u \in Thread : \E l \in InFlight : Awaits(t, u, l)) => <>Served(t)
    BY <2>4
  <2> QED BY <1>1, <2>3, <2>5, PTL
<1>2. []IInv /\ []CallInv /\ [][Next]_vars /\ []AllLeave
        => \A t \in Thread : pc[t] = "joined" ~> Served(t)
  BY <1>1
<1>3. Spec /\ CallersMove => []IInv /\ []CallInv /\ [][Next]_vars /\ []AllLeave
  BY Invariance, CallInvariance, PTL DEF Spec, CallersMove
<1> QED BY <1>2, <1>3
=============================================================================
