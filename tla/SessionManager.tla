--------------------------- MODULE SessionManager ---------------------------
(***************************************************************************)
(* internal/client/session_manager.go: the pool of stdio subprocesses, one *)
(* per session key.  Request handlers call GetOrCreateSession, GetSession  *)
(* and RemoveSession concurrently; a cleanup goroutine reaps idle sessions *)
(* and Shutdown takes the pool down.                                       *)
(*                                                                         *)
(* One step of the model is one critical section of sm.mu, one atomic      *)
(* access to lastAccessed or to a session's context, or one call out       *)
(* (createClient, client.Close).  singleflight.Group.Do is modelled by its *)
(* documented effect: the first caller for a key runs the function, later  *)
(* callers wait for it and take its result.                                *)
(***************************************************************************)
EXTENDS Naturals, FiniteSets

CONSTANTS Key,        \* SessionKey values
          User,       \* values of SessionKey.UserEmail
          Anonymous,  \* the empty UserEmail
          UserOf,     \* UserOf[k] is k.UserEmail
          Thread,     \* goroutines of request handlers
          Main,       \* the goroutine that calls Shutdown
          Session,    \* *StdioSession objects that can ever be allocated (a bound)
          MaxPerUser, \* sm.maxPerUser, 0 for no limit
          Mortal,     \* the sessions whose subprocess may end by itself
          None        \* nil, and "no result yet"

Proc == Thread \cup {Main}

ASSUME ConstantsAssumption ==
    /\ Anonymous \in User
    /\ UserOf \in [Key -> User]
    /\ Main \notin Thread
    /\ MaxPerUser \in Nat
    /\ Mortal \subseteq Session
    /\ None \notin Key \cup Session \cup Proc

\* Only so many requests run at a time.
ASSUME HandlersFinite == IsFiniteSet(Thread)

VARIABLES
    sessions,   \* sm.sessions, guarded by sm.mu
    born,       \* sessions whose subprocess createClient has started
    idle,       \* lastAccessed lies more than defaultTimeout in the past
    cancelled,  \* session.cancel() was called: session.ctx is done
    closed,     \* session.client.Close() was called
    exited,     \* the subprocess ended by itself
    flight,     \* sm.group: the caller that runs the function for a key
    pc, op, key, got, result,   \* per goroutine: where it is, and its locals
    cleaner,    \* the cleanup goroutine: "waiting", "reaping", "exited"
    doomed,     \* its local timedOut
    snapshot,   \* Shutdown's local list of sessions (their keys)
    stopping    \* sm.stopCleanup is closed

callVars == <<pc, op, key, got, result>>
lifeVars == <<born, idle, cancelled, closed, exited>>
backVars == <<cleaner, doomed, snapshot, stopping>>
vars == <<sessions, lifeVars, flight, callVars, backVars>>

Op == {"getOrCreate", "get", "remove", "shutdown"}

Result == {"ok", "notFound", "limit", "createFailed", "closeFailed"}

\* Where a goroutine is inside the function that singleflight runs.
InFlight == {"lookup", "touch", "check", "limit", "create", "store", "finish"}

PC == InFlight \cup {"ready", "joined", "getTouch", "getCheck", "rmLock", "rmCancel",
                     "rmClose", "returned", "sdWait", "sdSnapshot", "sdLoop", "sdDone"}

TypeOK ==
    /\ sessions \in [Key -> Session \cup {None}]
    /\ born \subseteq Session /\ idle \subseteq born
    /\ cancelled \subseteq born /\ closed \subseteq born /\ exited \subseteq born
    /\ flight \in [Key -> Thread \cup {None}]
    /\ pc \in [Proc -> PC]
    /\ op \in [Proc -> Op \cup {None}]
    /\ key \in [Proc -> Key \cup {None}]
    /\ got \in [Proc -> Session \cup {None}]
    /\ result \in [Proc -> Result \cup {None}]
    /\ cleaner \in {"waiting", "reaping", "exited"}
    /\ doomed \subseteq Session
    /\ snapshot \subseteq Key
    /\ stopping \in BOOLEAN

Init ==
    /\ sessions = [k \in Key |-> None]
    /\ born = {} /\ idle = {} /\ cancelled = {} /\ closed = {} /\ exited = {}
    /\ flight = [k \in Key |-> None]
    /\ pc = [p \in Proc |-> "ready"]
    /\ op = [p \in Proc |-> None]
    /\ key = [p \in Proc |-> None]
    /\ got = [p \in Proc |-> None]
    /\ result = [p \in Proc |-> None]
    /\ cleaner = "waiting"
    /\ doomed = {} /\ snapshot = {}
    /\ stopping = FALSE

-----------------------------------------------------------------------------
(* Steps shared by several operations.                                     *)

Goto(p, label) == pc' = [pc EXCEPT ![p] = label]

\* A handler starts operation o on key k.
Call(t, o, k) ==
    /\ pc[t] = "ready"
    /\ op' = [op EXCEPT ![t] = o]
    /\ key' = [key EXCEPT ![t] = k]

\* p's operation ends with result r and session s.
Return(p, r, s) ==
    /\ Goto(p, "returned")
    /\ result' = [result EXCEPT ![p] = r]
    /\ got' = [got EXCEPT ![p] = s]

\* session.lastAccessed.Store(&now)
Touch(s) == idle' = idle \ {s}

\* The <-session.ctx.Done() case of a select.
Done(s) == s \in cancelled

Pooled == {sessions[k] : k \in Key} \ {None}

\* The handler has consumed the result and is free for another request.
Accept(t) ==
    /\ pc[t] = "returned"
    /\ Goto(t, "ready")
    /\ op' = [op EXCEPT ![t] = None]
    /\ key' = [key EXCEPT ![t] = None]
    /\ got' = [got EXCEPT ![t] = None]
    /\ result' = [result EXCEPT ![t] = None]
    /\ UNCHANGED <<sessions, lifeVars, flight, backVars>>

-----------------------------------------------------------------------------
(* GetOrCreateSession                                                      *)

NeverInProgress(k) == FALSE
\* singleflight: is somebody already running the function for k?
InProgress(k) == flight[k] # None

GetOrCreateSession(t, k) ==
    /\ Call(t, "getOrCreate", k)
    /\ ~InProgress(k)
    /\ Goto(t, "lookup")
    /\ flight' = [flight EXCEPT ![k] = t]
    /\ UNCHANGED <<sessions, lifeVars, got, result, backVars>>

GetOrCreateSessionJoin(t, k) ==
    /\ Call(t, "getOrCreate", k)
    /\ InProgress(k)
    /\ Goto(t, "joined")
    /\ UNCHANGED <<sessions, lifeVars, flight, got, result, backVars>>

LookupIgnoringSessionID(t) ==
    /\ pc[t] = "lookup"
    /\ \E k \in Key :
          /\ UserOf[k] = UserOf[key[t]]
          /\ got' = [got EXCEPT ![t] = sessions[k]]
          /\ Goto(t, IF sessions[k] = None THEN "limit" ELSE "touch")
    /\ UNCHANGED <<sessions, lifeVars, flight, op, key, result, backVars>>
\* Fast check under RLock.
Lookup(t) ==
    /\ pc[t] = "lookup"
    /\ got' = [got EXCEPT ![t] = sessions[key[t]]]
    /\ Goto(t, IF sessions[key[t]] = None THEN "limit" ELSE "touch")
    /\ UNCHANGED <<sessions, lifeVars, flight, op, key, result, backVars>>

TouchFound(t) ==
    /\ pc[t] = "touch"
    /\ Touch(got[t])
    /\ Goto(t, "check")
    /\ UNCHANGED <<sessions, born, cancelled, closed, exited, flight, op, key, got,
                   result, backVars>>

\* The function's result is fixed; Do has still to publish it.
FlightResult(t, r, s) ==
    /\ Goto(t, "finish")
    /\ result' = [result EXCEPT ![t] = r]
    /\ got' = [got EXCEPT ![t] = s]

CheckAlive(t) ==
    /\ pc[t] = "check"
    /\ \/ /\ ~Done(got[t])
          /\ FlightResult(t, "ok", got[t])
       \/ /\ Done(got[t])
          /\ Goto(t, "limit")
          /\ got' = [got EXCEPT ![t] = None]
          /\ UNCHANGED result
    /\ UNCHANGED <<sessions, lifeVars, flight, op, key, backVars>>

\* getUserSessionCount
SessionCount(u) == Cardinality({k \in Key : UserOf[k] = u /\ sessions[k] # None})

WithinLimitOffByOne(u) ==
    u = Anonymous \/ MaxPerUser = 0 \/ SessionCount(u) <= MaxPerUser
WithinLimit(u) ==
    u = Anonymous \/ MaxPerUser = 0 \/ SessionCount(u) < MaxPerUser

CheckUserLimits(t) ==
    /\ pc[t] = "limit"
    /\ \/ /\ WithinLimit(UserOf[key[t]])
          /\ Goto(t, "create")
          /\ UNCHANGED <<got, result>>
       \/ /\ ~WithinLimit(UserOf[key[t]])
          /\ FlightResult(t, "limit", None)
    /\ UNCHANGED <<sessions, lifeVars, flight, op, key, backVars>>

\* sm.createClient, outside the lock: the subprocess runs from here on.
CreateClient(t) ==
    /\ pc[t] = "create"
    /\ \E s \in Session \ born :
          /\ born' = born \cup {s}
          /\ got' = [got EXCEPT ![t] = s]
    /\ Goto(t, "store")
    /\ UNCHANGED <<sessions, idle, cancelled, closed, exited, flight, op, key, result,
                   backVars>>

CreateClientFails(t) ==
    /\ pc[t] = "create"
    /\ FlightResult(t, "createFailed", None)
    /\ UNCHANGED <<sessions, lifeVars, flight, op, key, backVars>>

\* sm.sessions[key] = session, unconditionally.
StoreSession(t) ==
    /\ pc[t] = "store"
    /\ sessions' = [sessions EXCEPT ![key[t]] = got[t]]
    /\ FlightResult(t, "ok", got[t])
    /\ UNCHANGED <<lifeVars, flight, op, key, backVars>>

Joiners(k) == {t \in Thread : pc[t] = "joined" /\ key[t] = k}

ReleasesLeaderOnly(t) == {t}
\* singleflight: everyone who gets the outcome of the call t made.
Sharers(t) == {t} \cup Joiners(key[t])

Finish(t) ==
    /\ pc[t] = "finish"
    /\ flight' = [flight EXCEPT ![key[t]] = None]
    /\ pc' = [p \in Proc |-> IF p \in Sharers(t) THEN "returned" ELSE pc[p]]
    /\ got' = [p \in Proc |-> IF p \in Sharers(t) THEN got[t] ELSE got[p]]
    /\ result' = [p \in Proc |-> IF p \in Sharers(t) THEN result[t] ELSE result[p]]
    /\ UNCHANGED <<sessions, lifeVars, op, key, backVars>>

-----------------------------------------------------------------------------
(* GetSession and RemoveSession                                            *)

GetSession(t, k) ==
    /\ Call(t, "get", k)
    /\ \/ /\ sessions[k] = None
          /\ Return(t, "notFound", None)
       \/ /\ sessions[k] # None
          /\ Goto(t, "getTouch")
          /\ got' = [got EXCEPT ![t] = sessions[k]]
          /\ UNCHANGED result
    /\ UNCHANGED <<sessions, lifeVars, flight, backVars>>

GetSessionTouch(t) ==
    /\ pc[t] = "getTouch"
    /\ Touch(got[t])
    /\ Goto(t, "getCheck")
    /\ UNCHANGED <<sessions, born, cancelled, closed, exited, flight, op, key, got,
                   result, backVars>>

\* A dead session is removed, by key, through RemoveSession.
GetSessionCheck(t) ==
    /\ pc[t] = "getCheck"
    /\ \/ /\ ~Done(got[t])
          /\ Return(t, "ok", got[t])
       \/ /\ Done(got[t])
          /\ Goto(t, "rmLock")
          /\ got' = [got EXCEPT ![t] = None]
          /\ UNCHANGED result
    /\ UNCHANGED <<sessions, lifeVars, flight, op, key, backVars>>

RemoveSession(t, k) ==
    /\ Call(t, "remove", k)
    /\ Goto(t, "rmLock")
    /\ UNCHANGED <<sessions, lifeVars, flight, got, result, backVars>>

\* Where RemoveSession returns to, with its own error or nil.
AfterRemove(p, err) ==
    \/ /\ op[p] = "remove"
       /\ Return(p, err, None)
    \/ /\ op[p] = "get"
       /\ Return(p, "notFound", None)
    \/ /\ op[p] = "shutdown"
       /\ Goto(p, "sdLoop")
       /\ got' = [got EXCEPT ![p] = None]
       /\ UNCHANGED result

EntryKept(k) == sessions
\* delete(sm.sessions, key)
WithoutEntry(k) == [sessions EXCEPT ![k] = None]

RemoveLockedUnchecked(p) ==
    /\ pc[p] = "rmLock"
    /\ sessions' = WithoutEntry(key[p])
    /\ got' = [got EXCEPT ![p] = sessions[key[p]]]
    /\ Goto(p, "rmCancel")
    /\ UNCHANGED <<lifeVars, flight, op, key, result, backVars>>
RemoveLocked(p) ==
    /\ pc[p] = "rmLock"
    /\ \/ /\ sessions[key[p]] = None
          /\ AfterRemove(p, "ok")
          /\ UNCHANGED sessions
       \/ /\ sessions[key[p]] # None
          /\ sessions' = WithoutEntry(key[p])
          /\ got' = [got EXCEPT ![p] = sessions[key[p]]]
          /\ Goto(p, "rmCancel")
          /\ UNCHANGED result
    /\ UNCHANGED <<lifeVars, flight, op, key, backVars>>

RemoveCancelOnly(p) ==
    /\ pc[p] = "rmCancel"
    /\ cancelled' = cancelled \cup {got[p]}
    /\ AfterRemove(p, "ok")
    /\ UNCHANGED <<sessions, born, idle, closed, exited, flight, op, key, backVars>>
RemoveCancel(p) ==
    /\ pc[p] = "rmCancel"
    /\ cancelled' = cancelled \cup {got[p]}
    /\ Goto(p, "rmClose")
    /\ UNCHANGED <<sessions, born, idle, closed, exited, flight, op, key, got, result,
                   backVars>>

RemoveClose(p) ==
    /\ pc[p] = "rmClose"
    /\ closed' = closed \cup {got[p]}
    /\ \E err \in {"ok", "closeFailed"} : AfterRemove(p, err)
    /\ UNCHANGED <<sessions, born, idle, cancelled, exited, flight, op, key, backVars>>

-----------------------------------------------------------------------------
(* The cleanup goroutine                                                   *)

TimedOutInverted == Pooled \ idle
\* The sessions whose lastAccessed lies more than defaultTimeout back.
TimedOut == Pooled \cap idle

\* The critical section of cleanupTimedOutSessions.  Its time.Now() is taken just
\* before the lock; a session that becomes idle in between is one the model has
\* become idle after this step.
CleanupTimedOut ==
    /\ cleaner = "waiting"
    /\ TimedOut # {}
    /\ doomed' = TimedOut
    /\ sessions' = [k \in Key |-> IF sessions[k] \in TimedOut THEN None ELSE sessions[k]]
    /\ cleaner' = "reaping"
    /\ UNCHANGED <<lifeVars, flight, callVars, snapshot, stopping>>

CleanupCancel(s) ==
    /\ cleaner = "reaping"
    /\ s \in doomed
    /\ doomed \cap cancelled = {}
    /\ cancelled' = cancelled \cup {s}
    /\ UNCHANGED <<sessions, born, idle, closed, exited, flight, callVars, backVars>>

CleanupCloseOnlyFirst(s) ==
    /\ cleaner = "reaping"
    /\ s \in doomed \cap cancelled
    /\ closed' = closed \cup {s}
    /\ doomed' = {}
    /\ cleaner' = "waiting"
    /\ UNCHANGED <<sessions, born, idle, cancelled, exited, flight, callVars, snapshot,
                   stopping>>
\* An error of client.Close() is only logged.
CleanupClose(s) ==
    /\ cleaner = "reaping"
    /\ s \in doomed \cap cancelled
    /\ closed' = closed \cup {s}
    /\ doomed' = doomed \ {s}
    /\ cleaner' = IF doomed = {s} THEN "waiting" ELSE "reaping"
    /\ UNCHANGED <<sessions, born, idle, cancelled, exited, flight, callVars, snapshot,
                   stopping>>

CleanupStopOnEmptyMap ==
    /\ cleaner = "waiting"
    /\ stopping
    /\ Pooled = {}
    /\ cleaner' = "exited"
    /\ UNCHANGED <<sessions, lifeVars, flight, callVars, doomed, snapshot, stopping>>
CleanupStop ==
    /\ cleaner = "waiting"
    /\ stopping
    /\ cleaner' = "exited"
    /\ UNCHANGED <<sessions, lifeVars, flight, callVars, doomed, snapshot, stopping>>

-----------------------------------------------------------------------------
(* Shutdown                                                                *)

Shutdown ==
    /\ pc[Main] = "ready"
    /\ op' = [op EXCEPT ![Main] = "shutdown"]
    /\ stopping' = TRUE
    /\ Goto(Main, "sdWait")
    /\ UNCHANGED <<sessions, lifeVars, flight, key, got, result, cleaner, doomed,
                   snapshot>>

\* sm.wg.Wait()
ShutdownWait ==
    /\ pc[Main] = "sdWait"
    /\ cleaner = "exited"
    /\ Goto(Main, "sdSnapshot")
    /\ UNCHANGED <<sessions, lifeVars, flight, op, key, got, result, backVars>>

ShutdownSnapshot ==
    /\ pc[Main] = "sdSnapshot"
    /\ snapshot' = {k \in Key : sessions[k] # None}
    /\ Goto(Main, "sdLoop")
    /\ UNCHANGED <<sessions, lifeVars, flight, op, key, got, result, cleaner, doomed,
                   stopping>>

ShutdownRemove(k) ==
    /\ pc[Main] = "sdLoop"
    /\ k \in snapshot
    /\ snapshot' = snapshot \ {k}
    /\ key' = [key EXCEPT ![Main] = k]
    /\ Goto(Main, "rmLock")
    /\ UNCHANGED <<sessions, lifeVars, flight, op, got, result, cleaner, doomed, stopping>>

ShutdownDone ==
    /\ pc[Main] = "sdLoop"
    /\ snapshot = {}
    /\ Goto(Main, "sdDone")
    /\ UNCHANGED <<sessions, lifeVars, flight, op, key, got, result, backVars>>

-----------------------------------------------------------------------------
(* The environment                                                         *)

\* defaultTimeout passes without an access to s.  A goroutine does not take that
\* long from storing lastAccessed to the select that follows.
BecomeIdle(s) ==
    /\ s \in Pooled \ idle
    /\ \A t \in Thread : pc[t] \in {"check", "getCheck"} => got[t] # s
    /\ idle' = idle \cup {s}
    /\ UNCHANGED <<sessions, born, cancelled, closed, exited, flight, callVars, backVars>>

\* The subprocess crashes or ends; nothing in the session records it.
SubprocessExits(s) ==
    /\ s \in (Mortal \cap born) \ (closed \cup exited)
    /\ exited' = exited \cup {s}
    /\ UNCHANGED <<sessions, born, idle, cancelled, closed, flight, callVars, backVars>>

-----------------------------------------------------------------------------
(* The specification                                                       *)

\* What a handler's goroutine does by itself once it is inside a call.
CallStep(t) ==
    \/ Lookup(t) \/ TouchFound(t) \/ CheckAlive(t) \/ CheckUserLimits(t)
    \/ CreateClient(t) \/ CreateClientFails(t) \/ StoreSession(t) \/ Finish(t)
    \/ GetSessionTouch(t) \/ GetSessionCheck(t)

RemoveStep(p) == RemoveLocked(p) \/ RemoveCancel(p) \/ RemoveClose(p)

NewCall(t, k) ==
    \/ GetOrCreateSession(t, k) \/ GetOrCreateSessionJoin(t, k)
    \/ GetSession(t, k) \/ RemoveSession(t, k)

CleanupStep(s) == CleanupCancel(s) \/ CleanupClose(s)

ShutdownStep ==
    \/ ShutdownWait \/ ShutdownSnapshot \/ ShutdownDone
    \/ \E k \in Key : ShutdownRemove(k)

Next ==
    \/ \E t \in Thread : CallStep(t) \/ Accept(t)
    \/ \E t \in Thread, k \in Key : NewCall(t, k)
    \/ \E p \in Proc : RemoveStep(p)
    \/ \E s \in Session : CleanupStep(s) \/ BecomeIdle(s) \/ SubprocessExits(s)
    \/ CleanupTimedOut \/ CleanupStop
    \/ Shutdown \/ ShutdownStep

Spec == Init /\ [][Next]_vars

\* The Go scheduler runs every goroutine, createClient and Close return, and the
\* ticker of the cleanup goroutine fires.  Nobody has to make a call, to consume a
\* result, or to shut down.
Fairness ==
    /\ \A t \in Thread : WF_vars(CallStep(t))
    /\ \A p \in Proc : WF_vars(RemoveStep(p))
    /\ WF_vars(\E s \in Session : CleanupStep(s))
    /\ WF_vars(CleanupTimedOut) /\ WF_vars(CleanupStop)
    /\ WF_vars(ShutdownStep)

FairSpec == Spec /\ Fairness

-----------------------------------------------------------------------------
(* Properties                                                              *)

\* Sessions that a creator has started and not yet put into the map.
Starting == {got[t] : t \in {t \in Thread : pc[t] = "store"}}

\* Sessions that somebody took out of the map and has still to close.
Retired == {got[p] : p \in {p \in Proc : pc[p] \in {"rmCancel", "rmClose"}}} \cup doomed

\* GetOrCreateSession's comment promises "no orphaned subprocesses": a subprocess
\* that was started and not closed is in the map, where cleanup and Shutdown find
\* it, or in the hands of exactly the goroutine that is about to store or close it.
NoOrphan == born \ closed \subseteq Pooled \cup Starting \cup Retired

\* A session has one closer: two removers (RemoveSession, the cleanup goroutine,
\* Shutdown) never hold the same session, and no remover holds one that the map
\* still offers to other callers.
OneCloser ==
    /\ \A p, q \in Proc :
          /\ p # q
          /\ {pc[p], pc[q]} \subseteq {"rmCancel", "rmClose"}
          => got[p] # got[q]
    /\ \A p \in Proc :
          pc[p] \in {"rmCancel", "rmClose"} => got[p] \notin Pooled \cup doomed
    /\ doomed \cap Pooled = {}

\* A session never changes hands between keys, hence between users: whoever has
\* it, as its creator, as a joiner of singleflight, from the map or to remove it,
\* was called for the one key under which the map has it, if it still does.
SessionOfOneKey ==
    /\ \A p, q \in Proc : got[p] = got[q] /\ got[p] # None => key[p] = key[q]
    /\ \A p \in Proc, k \in Key : sessions[k] = got[p] /\ got[p] # None => key[p] = k

\* Whoever waits, waits for somebody who can go on: a joiner for a handler that is
\* inside the function for the joiner's key and has still to publish its result;
\* Shutdown's wg.Wait for a cleanup goroutine that has something left to close.
WaitersHaveLeader ==
    /\ \A t \in Thread : pc[t] = "joined" =>
          \E u \in Thread : /\ flight[key[t]] = u /\ key[u] = key[t]
                            /\ pc[u] \in InFlight
    /\ cleaner = "reaping" => doomed # {}

\* The creators of u's sessions that have passed checkUserLimits.
Creators(u) ==
    {t \in Thread : pc[t] \in {"create", "store"} /\ UserOf[key[t]] = u}

\* docs-site configuration.md: "`maxPerUser` limits concurrent sessions per user".  The
\* limit is checked outside the critical section that stores the session, so it is not
\* exact; but the overshoot never exceeds the number of other handlers
\* that were creating sessions at the same time.
BoundedOvershoot ==
    \A u \in User \ {Anonymous} : MaxPerUser > 0 =>
        SessionCount(u) + Cardinality(Creators(u)) < MaxPerUser + Cardinality(Thread)

\* The session manager implements the abstract pool: no entry of the map is ever
\* overwritten, nothing is closed twice, and only what was taken out is closed.
Pool == INSTANCE ResourcePool WITH
    Resource <- Session,
    starting <- Starting,
    pool     <- sessions,
    retired  <- Retired

ImplementsPool == Pool!Spec

\* No handler stays for ever at one step of the function that singleflight runs.
Leaves(t, l) == pc[t] = l => <>(~(pc[t] = l))
AllLeave == \A t \in Thread, l \in InFlight : Leaves(t, l)
HandlersMove == []AllLeave

\* A handler that joined another one's GetOrCreateSession gets that one's answer,
\* because that one gets through.
JoinersReturn ==
    /\ HandlersMove
    /\ \A t \in Thread : pc[t] = "joined" ~> pc[t] = "returned"

\* Whatever leaves the map is closed in the end, whichever remover took it out.
RetiredAreClosed == \A s \in Session : s \in Retired ~> s \in closed

\* Cleanup reaps a session that nobody uses any more, unless Shutdown stops it.
IdleAreReaped ==
    \A s \in Session : s \in Pooled \cap idle ~> s \notin Pooled \cap idle \/ stopping

\* Shutdown always comes to its end, however many calls are going on.
ShutdownReturns == stopping ~> pc[Main] = "sdDone"

\* What ShutdownLeavesNothing comes to: a session that the map had when Shutdown
\* looked is gone from it when Shutdown returns, and nobody is about to put it back,
\* although others remove, create and store sessions under the same keys meanwhile.
ShutdownTakesAll ==
    \A s \in Session :
        [](pc[Main] = "sdSnapshot" /\ s \in Pooled
           => [](pc[Main] = "sdDone" => s \notin Pooled \cup Starting))

-----------------------------------------------------------------------------
(* What the repository says and the code does not do                       *)

\* cleanupTimedOutSessions' comment: no session is accessed between the scan and
\* the removal.  GetSession would then never hand out what cleanup has taken.
ReapedNotHandedOut ==
    [][\A t \in Thread :
          pc[t] = "getCheck" /\ pc'[t] = "returned" => got[t] \notin doomed]_vars

\* GetOrCreateSession's comment: "prevents orphaned subprocesses".  After Shutdown
\* has returned and every call has ended, no subprocess should be left.
ShutdownLeavesNothing ==
    /\ pc[Main] = "sdDone"
    /\ \A t \in Thread : pc[t] = "ready"
    => born = closed

\* GetOrCreateSession's aliveness check: "Process died, need to create new".  The
\* check would then never answer with a session whose subprocess has ended.
DeadSubprocessReplaced ==
    [][\A t \in Thread :
          pc[t] = "check" /\ pc'[t] = "finish" => got[t] \notin exited]_vars
=============================================================================
