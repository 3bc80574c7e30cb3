--------------------------- MODULE AggregateConns ---------------------------
(***************************************************************************)
(* internal/aggregate/server.go: the pool of backend connections of an     *)
(* aggregate server, one per user and backend.  Tool discovery and tool    *)
(* calls obtain a connection through getOrCreateConn, use it, and evict it *)
(* when the transport fails; a cleanup goroutine closes idle connections   *)
(* and Shutdown closes them all.                                           *)
(*                                                                         *)
(* As in SessionManager, a step is one critical section of connMu, one     *)
(* atomic access, or one call out.  Unlike the session manager, this pool  *)
(* refuses new entries once it is shut down, and its eviction compares the *)
(* entry with the connection that failed.                                  *)
(***************************************************************************)
EXTENDS Naturals, FiniteSets

CONSTANTS Key,        \* connKey values
          User,       \* values of connKey.userEmail
          Anonymous,  \* "anonymous"
          UserOf,     \* UserOf[k] is k.userEmail
          Thread,     \* goroutines of tool calls and of discovery
          Main,       \* the goroutine that calls Shutdown
          Conn,       \* *conn objects that can ever be allocated (a bound)
          MaxConnsPerUser,  \* discovery.MaxConnsPerUser, 0 for no limit
          None

Proc == Thread \cup {Main}

ASSUME ConnConstantsAssumption ==
    /\ UserOf \in [Key -> User]
    /\ Main \notin Thread
    /\ MaxConnsPerUser \in Nat
    /\ None \notin Key \cup Conn \cup Proc

\* Only so many calls run at a time.
ASSUME ThreadsFinite == IsFiniteSet(Thread)

VARIABLES
    conns,      \* s.conns, guarded by s.connMu
    shut,       \* s.closed, guarded by s.connMu
    started,    \* connections whose transport createTransport has made
    idle,       \* lastAccessed lies more than connIdleTimeout in the past
    cancelled,  \* c.cancel() was called
    closed,     \* client.Close() was called
    flight,     \* s.connGroup: the caller that runs the function for a key
    pc, op, key, got, result,   \* per goroutine: where it is, and its locals
    cleaner,    \* the cleanup goroutine: "waiting", "reaping", "exited"
    doomed,     \* its local toClose
    snapshot,   \* Shutdown's local copy of the pool
    stopping    \* s.stopCleanup is closed

mapVars == <<conns, shut>>
lifeVars == <<started, idle, cancelled, closed>>
callVars == <<pc, op, key, got, result>>
backVars == <<cleaner, doomed, snapshot, stopping>>
vars == <<mapVars, lifeVars, flight, callVars, backVars>>

InFlight == {"lookup", "touch", "limit", "create", "handshake", "store", "discard",
             "discardClose", "finish"}

PC == InFlight \cup {"ready", "joined", "acquired", "using", "evict", "evictCancel",
                     "evictClose", "returned", "sdWait", "sdTransport", "sdSwap",
                     "sdLoop", "sdDone"}

Result == {"ok", "limit", "connectFailed", "shutDown", "callFailed"}

TypeOK ==
    /\ conns \in [Key -> Conn \cup {None}]
    /\ shut \in BOOLEAN
    /\ started \subseteq Conn /\ idle \subseteq started
    /\ cancelled \subseteq started /\ closed \subseteq cancelled
    /\ flight \in [Key -> Thread \cup {None}]
    /\ pc \in [Proc -> PC]
    /\ op \in [Proc -> {"list", "call", None}]
    /\ key \in [Proc -> Key \cup {None}]
    /\ got \in [Proc -> Conn \cup {None}]
    /\ result \in [Proc -> Result \cup {None}]
    /\ cleaner \in {"waiting", "reaping", "exited"}
    /\ doomed \subseteq Conn /\ snapshot \subseteq Conn
    /\ stopping \in BOOLEAN

Init ==
    /\ conns = [k \in Key |-> None]
    /\ shut = FALSE
    /\ started = {} /\ idle = {} /\ cancelled = {} /\ closed = {}
    /\ flight = [k \in Key |-> None]
    /\ pc = [p \in Proc |-> "ready"]
    /\ op = [p \in Proc |-> None]
    /\ key = [p \in Proc |-> None]
    /\ got = [p \in Proc |-> None]
    /\ result = [p \in Proc |-> None]
    /\ cleaner = "waiting"
    /\ doomed = {} /\ snapshot = {}
    /\ stopping = FALSE

Goto(p, label) == pc' = [pc EXCEPT ![p] = label]

Pooled == {conns[k] : k \in Key} \ {None}

-----------------------------------------------------------------------------
(* getOrCreateConn, from the handler of a tool call or from discovery      *)

GetOrCreateConn(t, k, o) ==
    /\ pc[t] = "ready"
    /\ op' = [op EXCEPT ![t] = o]
    /\ key' = [key EXCEPT ![t] = k]
    /\ \/ /\ flight[k] = None
          /\ flight' = [flight EXCEPT ![k] = t]
          /\ Goto(t, "lookup")
       \/ /\ flight[k] # None
          /\ Goto(t, "joined")
          /\ UNCHANGED flight
    /\ UNCHANGED <<mapVars, lifeVars, got, result, backVars>>

\* The function's result is fixed; Do has still to publish it.
FlightResult(t, r, c) ==
    /\ Goto(t, "finish")
    /\ result' = [result EXCEPT ![t] = r]
    /\ got' = [got EXCEPT ![t] = c]

LookupUnchecked(t) ==
    /\ pc[t] = "lookup"
    /\ got' = [got EXCEPT ![t] = conns[key[t]]]
    /\ Goto(t, "touch")
    /\ UNCHANGED <<mapVars, lifeVars, flight, op, key, result, backVars>>
Lookup(t) ==
    /\ pc[t] = "lookup"
    /\ got' = [got EXCEPT ![t] = conns[key[t]]]
    /\ Goto(t, IF conns[key[t]] = None THEN "limit" ELSE "touch")
    /\ UNCHANGED <<mapVars, lifeVars, flight, op, key, result, backVars>>

TouchExisting(t) ==
    /\ pc[t] = "touch"
    /\ idle' = idle \ {got[t]}
    /\ FlightResult(t, "ok", got[t])
    /\ UNCHANGED <<mapVars, started, cancelled, closed, flight, op, key, backVars>>

Count(u) == Cardinality({k \in Key : UserOf[k] = u /\ conns[k] # None})

WithinLimitOffByOne(u) ==
    MaxConnsPerUser = 0 \/ u = Anonymous \/ Count(u) <= MaxConnsPerUser

WithinLimit(u) ==
    \/ MaxConnsPerUser = 0
    \/ u = Anonymous
    \/ Count(u) < MaxConnsPerUser

CheckUserConnLimit(t) ==
    /\ pc[t] = "limit"
    /\ \/ /\ WithinLimit(UserOf[key[t]])
          /\ Goto(t, "create")
          /\ UNCHANGED <<got, result>>
       \/ /\ ~WithinLimit(UserOf[key[t]])
          /\ FlightResult(t, "limit", None)
    /\ UNCHANGED <<mapVars, lifeVars, flight, op, key, backVars>>

\* createTransport.  A user token that cannot be had is only logged.
CreateTransport(t) ==
    /\ pc[t] = "create"
    /\ \E c \in Conn \ started :
          /\ started' = started \cup {c}
          /\ got' = [got EXCEPT ![t] = c]
    /\ Goto(t, "handshake")
    /\ UNCHANGED <<mapVars, idle, cancelled, closed, flight, op, key, result, backVars>>

CreateTransportFails(t) ==
    /\ pc[t] = "create"
    /\ FlightResult(t, "connectFailed", None)
    /\ UNCHANGED <<mapVars, lifeVars, flight, op, key, backVars>>

\* transport.Start, and Initialize with its timeout.
HandshakeOk(t) ==
    /\ pc[t] = "handshake"
    /\ Goto(t, "store")
    /\ UNCHANGED <<mapVars, lifeVars, flight, op, key, got, result, backVars>>

HandshakeFails(t) ==
    /\ pc[t] = "handshake"
    /\ result' = [result EXCEPT ![t] = "connectFailed"]
    /\ Goto(t, "discard")
    /\ UNCHANGED <<mapVars, lifeVars, flight, op, key, got, backVars>>

RefusedNever == FALSE
\* if s.closed { ... return "server is shut down" }
Refused == shut

StoreConn(t) ==
    /\ pc[t] = "store"
    /\ \/ /\ Refused
          /\ result' = [result EXCEPT ![t] = "shutDown"]
          /\ Goto(t, "discard")
          /\ UNCHANGED <<conns, got>>
       \/ /\ ~Refused
          /\ conns' = [conns EXCEPT ![key[t]] = got[t]]
          /\ FlightResult(t, "ok", got[t])
    /\ UNCHANGED <<shut, lifeVars, flight, op, key, backVars>>

DiscardCancel(t) ==
    /\ pc[t] = "discard"
    /\ cancelled' = cancelled \cup {got[t]}
    /\ Goto(t, "discardClose")
    /\ UNCHANGED <<mapVars, started, idle, closed, flight, op, key, got, result, backVars>>

DiscardClose(t) ==
    /\ pc[t] = "discardClose"
    /\ closed' = closed \cup {got[t]}
    /\ FlightResult(t, result[t], None)
    /\ UNCHANGED <<mapVars, started, idle, cancelled, flight, op, key, backVars>>

\* singleflight: everyone who gets the outcome of the call t made.
Sharers(t) == {t} \cup {u \in Thread : pc[u] = "joined" /\ key[u] = key[t]}

\* With a connection, the callers go on to use it; an error is what they return.
Finish(t) ==
    /\ pc[t] = "finish"
    /\ flight' = [flight EXCEPT ![key[t]] = None]
    /\ pc' = [p \in Proc |->
                 IF p \notin Sharers(t) THEN pc[p]
                 ELSE IF result[t] = "ok" THEN "acquired" ELSE "returned"]
    /\ got' = [p \in Proc |-> IF p \in Sharers(t) THEN got[t] ELSE got[p]]
    /\ result' = [p \in Proc |-> IF p \in Sharers(t) THEN result[t] ELSE result[p]]
    /\ UNCHANGED <<mapVars, lifeVars, op, key, backVars>>

-----------------------------------------------------------------------------
(* Use of the connection, and eviction                                     *)

\* Only the handler of a tool call stores lastAccessed again.
UseConn(t) ==
    /\ pc[t] = "acquired"
    /\ idle' = IF op[t] = "call" THEN idle \ {got[t]} ELSE idle
    /\ Goto(t, "using")
    /\ UNCHANGED <<mapVars, started, cancelled, closed, flight, op, key, got, result,
                   backVars>>

\* CallTool or ListTools answers; a closed transport does not.
UseSucceeds(t) ==
    /\ pc[t] = "using"
    /\ got[t] \notin closed
    /\ Goto(t, "returned")
    /\ UNCHANGED <<mapVars, lifeVars, flight, op, key, got, result, backVars>>

\* The transport fails, at any time and for any reason.
UseFails(t) ==
    /\ pc[t] = "using"
    /\ result' = [result EXCEPT ![t] = "callFailed"]
    /\ Goto(t, "evict")
    /\ UNCHANGED <<mapVars, lifeVars, flight, op, key, got, backVars>>

IsAnyEntry(t) == conns[key[t]] # None
\* current == broken
IsCurrent(t) == conns[key[t]] = got[t]

EvictWithoutDelete(t) ==
    /\ pc[t] = "evict"
    /\ Goto(t, IF IsCurrent(t) THEN "evictCancel" ELSE "returned")
    /\ UNCHANGED <<mapVars, lifeVars, flight, op, key, got, result, backVars>>
EvictConn(t) ==
    /\ pc[t] = "evict"
    /\ \/ /\ IsCurrent(t)
          /\ conns' = [conns EXCEPT ![key[t]] = None]
          /\ Goto(t, "evictCancel")
       \/ /\ ~IsCurrent(t)
          /\ Goto(t, "returned")
          /\ UNCHANGED conns
    /\ UNCHANGED <<shut, lifeVars, flight, op, key, got, result, backVars>>

EvictCancel(t) ==
    /\ pc[t] = "evictCancel"
    /\ cancelled' = cancelled \cup {got[t]}
    /\ Goto(t, "evictClose")
    /\ UNCHANGED <<mapVars, started, idle, closed, flight, op, key, got, result, backVars>>

EvictClose(t) ==
    /\ pc[t] = "evictClose"
    /\ closed' = closed \cup {got[t]}
    /\ Goto(t, "returned")
    /\ UNCHANGED <<mapVars, started, idle, cancelled, flight, op, key, got, result,
                   backVars>>

Accept(t) ==
    /\ pc[t] = "returned"
    /\ Goto(t, "ready")
    /\ op' = [op EXCEPT ![t] = None]
    /\ key' = [key EXCEPT ![t] = None]
    /\ got' = [got EXCEPT ![t] = None]
    /\ result' = [result EXCEPT ![t] = None]
    /\ UNCHANGED <<mapVars, lifeVars, flight, backVars>>

-----------------------------------------------------------------------------
(* The cleanup goroutine                                                   *)

IdleConns == Pooled \cap idle

CleanupIdleConns ==
    /\ cleaner = "waiting"
    /\ IdleConns # {}
    /\ doomed' = IdleConns
    /\ conns' = [k \in Key |-> IF conns[k] \in IdleConns THEN None ELSE conns[k]]
    /\ cleaner' = "reaping"
    /\ UNCHANGED <<shut, lifeVars, flight, callVars, snapshot, stopping>>

CleanupCancel(c) ==
    /\ cleaner = "reaping"
    /\ c \in doomed
    /\ doomed \cap cancelled = {}
    /\ cancelled' = cancelled \cup {c}
    /\ UNCHANGED <<mapVars, started, idle, closed, flight, callVars, backVars>>

CleanupClose(c) ==
    /\ cleaner = "reaping"
    /\ c \in doomed \cap cancelled
    /\ closed' = closed \cup {c}
    /\ doomed' = doomed \ {c}
    /\ cleaner' = IF doomed = {c} THEN "waiting" ELSE "reaping"
    /\ UNCHANGED <<mapVars, started, idle, cancelled, flight, callVars, snapshot, stopping>>

CleanupStop ==
    /\ cleaner = "waiting"
    /\ stopping
    /\ cleaner' = "exited"
    /\ UNCHANGED <<mapVars, lifeVars, flight, callVars, doomed, snapshot, stopping>>

-----------------------------------------------------------------------------
(* Shutdown                                                                *)

Shutdown ==
    /\ pc[Main] = "ready"
    /\ stopping' = TRUE
    /\ Goto(Main, "sdWait")
    /\ UNCHANGED <<mapVars, lifeVars, flight, op, key, got, result, cleaner, doomed,
                   snapshot>>

\* s.wg.Wait()
ShutdownWait ==
    /\ pc[Main] = "sdWait"
    /\ cleaner = "exited"
    /\ Goto(Main, "sdTransport")
    /\ UNCHANGED <<mapVars, lifeVars, flight, op, key, got, result, backVars>>

\* s.transport.Shutdown(ctx): clients are disconnected, running calls go on; its
\* error is returned at the end and changes nothing here.
ShutdownTransport ==
    /\ pc[Main] = "sdTransport"
    /\ Goto(Main, "sdSwap")
    /\ UNCHANGED <<mapVars, lifeVars, flight, op, key, got, result, backVars>>

SwapWithoutClear ==
    /\ pc[Main] = "sdSwap"
    /\ shut' = TRUE
    /\ snapshot' = Pooled
    /\ UNCHANGED conns
    /\ Goto(Main, "sdLoop")
    /\ UNCHANGED <<lifeVars, flight, op, key, got, result, cleaner, doomed, stopping>>
\* closed, the copy and the clear are one critical section.
ShutdownSwap ==
    /\ pc[Main] = "sdSwap"
    /\ shut' = TRUE
    /\ snapshot' = Pooled
    /\ conns' = [k \in Key |-> None]
    /\ Goto(Main, "sdLoop")
    /\ UNCHANGED <<lifeVars, flight, op, key, got, result, cleaner, doomed, stopping>>

ShutdownCancel(c) ==
    /\ pc[Main] = "sdLoop"
    /\ c \in snapshot
    /\ snapshot \cap cancelled = {}
    /\ cancelled' = cancelled \cup {c}
    /\ UNCHANGED <<mapVars, started, idle, closed, flight, callVars, backVars>>

\* An error of Close is only logged.
ShutdownClose(c) ==
    /\ pc[Main] = "sdLoop"
    /\ c \in snapshot \cap cancelled
    /\ closed' = closed \cup {c}
    /\ snapshot' = snapshot \ {c}
    /\ UNCHANGED <<mapVars, started, idle, cancelled, flight, callVars, cleaner, doomed,
                   stopping>>

ShutdownDone ==
    /\ pc[Main] = "sdLoop"
    /\ snapshot = {}
    /\ Goto(Main, "sdDone")
    /\ UNCHANGED <<mapVars, lifeVars, flight, op, key, got, result, backVars>>

-----------------------------------------------------------------------------
\* connIdleTimeout passes without an access to c.
BecomeIdle(c) ==
    /\ c \in Pooled \ idle
    /\ idle' = idle \cup {c}
    /\ UNCHANGED <<mapVars, started, cancelled, closed, flight, callVars, backVars>>

CreateStep(t) ==
    \/ Lookup(t) \/ TouchExisting(t) \/ CheckUserConnLimit(t)
    \/ CreateTransport(t) \/ CreateTransportFails(t)
    \/ HandshakeOk(t) \/ HandshakeFails(t)
    \/ StoreConn(t) \/ DiscardCancel(t) \/ DiscardClose(t) \/ Finish(t)

UseStep(t) ==
    \/ UseConn(t) \/ UseSucceeds(t) \/ UseFails(t)
    \/ EvictConn(t) \/ EvictCancel(t) \/ EvictClose(t)

CleanupStep(c) == CleanupCancel(c) \/ CleanupClose(c)

ShutdownStep ==
    \/ ShutdownWait \/ ShutdownTransport \/ ShutdownSwap \/ ShutdownDone
    \/ \E c \in Conn : ShutdownCancel(c) \/ ShutdownClose(c)

Next ==
    \/ \E t \in Thread : CreateStep(t) \/ UseStep(t) \/ Accept(t)
    \/ \E t \in Thread, k \in Key, o \in {"list", "call"} : GetOrCreateConn(t, k, o)
    \/ \E c \in Conn : CleanupStep(c) \/ BecomeIdle(c)
    \/ CleanupIdleConns \/ CleanupStop
    \/ Shutdown \/ ShutdownStep

Spec == Init /\ [][Next]_vars

-----------------------------------------------------------------------------
(* Properties                                                              *)

\* Connections made and not yet offered to anybody.
Starting == {got[t] : t \in {t \in Thread : pc[t] \in {"handshake", "store"}}}

\* Connections that somebody has still to close.
Retired ==
    doomed \cup snapshot \cup
    {got[t] : t \in {t \in Thread :
        pc[t] \in {"discard", "discardClose", "evictCancel", "evictClose"}}}

\* The connection pool implements the abstract pool: no entry is overwritten, an
\* eviction takes out its own connection and no replacement, nothing is closed
\* twice.
Pool == INSTANCE ResourcePool WITH
    Resource <- Conn,
    starting <- Starting,
    pool     <- conns,
    retired  <- Retired

ImplementsPool == Pool!Spec

\* Shutdown is final: once it has returned, the pool stays empty, and when the
\* last caller has left, every transport that was ever made is closed.
ShutdownIsFinal ==
    pc[Main] = "sdDone" =>
        /\ Pooled = {}
        /\ (\A t \in Thread : pc[t] \in {"ready", "returned"}) => started = closed

\* The callers for u's backends that have passed checkUserConnLimit.
Creators(u) ==
    {t \in Thread : pc[t] \in {"create", "handshake", "store"} /\ UserOf[key[t]] = u}

\* Callers of one user for different backends may pass checkUserConnLimit together:
\* the limit is exceeded by no more than the number of callers beside the first.
BoundedOvershoot ==
    \A u \in User \ {Anonymous} : MaxConnsPerUser > 0 =>
        Count(u) + Cardinality(Creators(u)) < MaxConnsPerUser + Cardinality(Thread)

\* A connection serves one user and one backend: whoever has one, as its creator, as
\* a joiner of singleflight or from the pool, on its way to use it, evict it or close
\* it, called for the one key under which the pool has it, if it still does.
ConnOfOneKey ==
    /\ \A t, u \in Thread : got[t] = got[u] /\ got[t] # None => key[t] = key[u]
    /\ \A t \in Thread, k \in Key : conns[k] = got[t] /\ got[t] # None => key[t] = k

\* Whoever waits, waits for somebody who can go on: a joiner for a caller that is
\* inside the function for the joiner's key and has still to publish its result;
\* Shutdown's wg.Wait for a cleanup goroutine that has something left to close.
WaitersHaveLeader ==
    /\ \A t \in Thread : pc[t] = "joined" =>
          \E u \in Thread : /\ flight[key[t]] = u /\ key[u] = key[t]
                            /\ pc[u] \in InFlight
    /\ cleaner = "reaping" => doomed # {}

\* evictConn's comment: the broken connection is what leaves the pool.  A caller
\* whose call failed never finds its failed connection again.
BrokenNotReused ==
    [][\A t \in Thread :
          pc[t] \in {"evict", "evictClose"} /\ pc'[t] = "returned"
          => got[t] \notin Pooled']_vars
=============================================================================
