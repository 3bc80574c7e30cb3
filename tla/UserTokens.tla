----------------------------- MODULE UserTokens -----------------------------
(***************************************************************************)
(* The token one user has for one service: internal/auth/service_oauth.go  *)
(* and internal/server/user_token_service.go over internal/storage, with   *)
(* the handlers that set and delete the token.  Keys (user, service) are   *)
(* independent of each other, so one is enough.                            *)
(*                                                                         *)
(* A step is one call to the storage, one exchange with the provider, or   *)
(* one read of or assignment to a field of a record that other goroutines  *)
(* may see.  MemoryStorage.GetUserToken copies the StoredToken but not the *)
(* OAuthData it points to; every OAuthData is allocated by a callback, so  *)
(* in memory all records of one grant are the same OAuthData.  Firestore   *)
(* decodes a fresh one on each read.                                       *)
(*                                                                         *)
(* The provider is external: its answers are numbered, answer n bringing   *)
(* the access token n, the expiry of n, which may be none (the zero time), *)
(* and perhaps the refresh token n.                                        *)
(* A provider that rotates accepts a refresh token once.                   *)
(***************************************************************************)
EXTENDS Naturals

CONSTANTS Thread,     \* goroutines, of all instances of the program
          MaxIssued   \* how many answers the provider gives (a bound)

ASSUME MaxIssuedAssumption == MaxIssued \in Nat

VARIABLES
    durable,    \* the storage is Firestore, not memory (never changes)
    rotates,    \* the provider rotates refresh tokens (never changes)
    stored,     \* the token in the storage
    pc,
    first,      \* GetUserToken's storedToken
    rec,        \* RefreshToken's or HandleCallback's storedToken
    old,        \* oldToken, as far as it is read
    new,        \* newToken
    replaced,   \* history: the access token that t's exchange has replaced
    renewed,    \* GetUserToken has re-fetched the token after a refresh
    issued,     \* provider: how many answers it gave
    live,       \* provider: the refresh token it accepts for a grant, or 0
    fresh,      \* answers whose expiry is more than TokenRefreshThreshold away
    undated,    \* answers without an expiry
    lost,       \* history: grants whose newest refresh token never came to the storage
    reverted    \* history: grants whose newer tokens a call overwrote with what it had read

modeVars == <<durable, rotates>>
callVars == <<pc, first, rec, old, new, replaced, renewed>>
providerVars == <<issued, live, fresh, undated>>
historyVars == <<lost, reverted>>
vars == <<modeVars, stored, callVars, providerVars, historyVars>>

\* A grant is named by the answer that began it.
Serial == 0..MaxIssued
Token == [kind : {"none", "manual", "oauth"}, grant : Serial, access : Serial,
          refresh : Serial, expiry : Serial]

OAuthToken(g, a, r) == [kind |-> "oauth", grant |-> g, access |-> a, refresh |-> r, expiry |-> a]
NoToken == [OAuthToken(0, 0, 0) EXCEPT !.kind = "none"]
ManualToken == [OAuthToken(0, 0, 0) EXCEPT !.kind = "manual"]

\* An oauth2.Token, or as much of it as has been read.
Fields == [access : Serial, refresh : Serial, expiry : Serial]
Nothing == [access |-> 0, refresh |-> 0, expiry |-> 0]

\* Where RefreshToken builds oldToken, and where it has a newToken that is not stored yet.
Reading == {"readAccess", "readRefresh", "readExpiry"}
Renewing == {"setAccess", "setRefresh", "setExpiry", "save"}
PC == Reading \cup Renewing
          \cup {"ready", "refresh", "check", "exchange", "refetch", "serve", "callback"}

TypeOK ==
    /\ durable \in BOOLEAN /\ rotates \in BOOLEAN
    /\ stored \in Token
    /\ pc \in [Thread -> PC]
    /\ first \in [Thread -> Token] /\ rec \in [Thread -> Token]
    /\ old \in [Thread -> Fields] /\ new \in [Thread -> Fields]
    /\ replaced \in [Thread -> Serial] /\ renewed \in [Thread -> BOOLEAN]
    /\ issued \in Serial /\ live \in [Serial -> Serial]
    /\ fresh \subseteq 1..issued /\ undated \subseteq 1..issued /\ fresh \cap undated = {}
    /\ \A t \in Thread :
          /\ new[t].refresh # 0 <=> pc[t] \in Renewing
          /\ old[t].refresh # 0 <=> pc[t] \in Renewing \cup {"readExpiry", "exchange"}
    /\ lost \subseteq 1..issued /\ reverted \subseteq 1..issued

Init ==
    /\ durable \in BOOLEAN /\ rotates \in BOOLEAN
    /\ stored = NoToken
    /\ pc = [t \in Thread |-> "ready"]
    /\ first = [t \in Thread |-> NoToken] /\ rec = [t \in Thread |-> NoToken]
    /\ old = [t \in Thread |-> Nothing] /\ new = [t \in Thread |-> Nothing]
    /\ replaced = [t \in Thread |-> 0] /\ renewed = [t \in Thread |-> FALSE]
    /\ issued = 0 /\ live = [g \in Serial |-> 0] /\ fresh = {} /\ undated = {}
    /\ lost = {} /\ reverted = {}

Goto(t, label) == pc' = [pc EXCEPT ![t] = label]

\* RefreshToken, called by t, returns and its locals are gone.
RefreshReturns(t, label) ==
    /\ Goto(t, label)
    /\ rec' = [rec EXCEPT ![t] = NoToken]
    /\ old' = [old EXCEPT ![t] = Nothing]
    /\ new' = [new EXCEPT ![t] = Nothing]

\* A storage call other than one to memory may fail.
StorageFails == durable

\* The provider gives its next answer, with an expiry or without.
Issue ==
    /\ issued < MaxIssued
    /\ issued' = issued + 1
    /\ \/ fresh' = fresh \cup {issued + 1} /\ UNCHANGED undated
       \/ undated' = undated \cup {issued + 1} /\ UNCHANGED fresh

-----------------------------------------------------------------------------
(* UserTokenService.GetUserToken                                           *)

\* Without a token, or when the storage fails, the call returns at once.
GetUserToken(t) ==
    /\ pc[t] = "ready"
    /\ stored.kind # "none"
    /\ first' = [first EXCEPT ![t] = stored]
    /\ Goto(t, IF stored.kind = "oauth" THEN "refresh" ELSE "serve")
    /\ UNCHANGED <<modeVars, stored, rec, old, new, replaced, renewed, providerVars,
                   historyVars>>

RefreshReadNotAgain(t) ==
    /\ pc[t] = "refresh"
    /\ rec' = [rec EXCEPT ![t] = first[t]]
    /\ Goto(t, "check")
    /\ UNCHANGED <<modeVars, stored, first, old, new, replaced, renewed, providerVars,
                   historyVars>>
\* RefreshToken's own read.
RefreshRead(t) ==
    /\ pc[t] = "refresh"
    /\ \/ /\ stored.kind # "oauth" \/ StorageFails
          /\ RefreshReturns(t, "serve")
       \/ /\ stored.kind = "oauth"
          /\ rec' = [rec EXCEPT ![t] = stored]
          /\ Goto(t, "check")
          /\ UNCHANGED <<old, new>>
    /\ UNCHANGED <<modeVars, stored, first, replaced, renewed, providerVars, historyVars>>

CheckUnchecked(t) ==
    /\ pc[t] = "check"
    /\ \/ rec[t].expiry \in fresh /\ RefreshReturns(t, "refetch")
       \/ rec[t].expiry \notin fresh /\ Goto(t, "readAccess") /\ UNCHANGED <<rec, old, new>>
    /\ UNCHANGED <<modeVars, stored, first, replaced, renewed, providerVars, historyVars>>
\* Whether there is anything to do, and anything to do it with.  (A grant that has a
\* refresh token keeps having one, so that the two reads may be one step.)
RefreshCheck(t) ==
    /\ pc[t] = "check"
    /\ \/ rec[t].expiry \in fresh /\ RefreshReturns(t, "refetch")
       \/ /\ rec[t].expiry \notin fresh /\ rec[t].refresh = 0
          /\ RefreshReturns(t, "serve")
       \/ /\ rec[t].expiry \notin fresh /\ rec[t].refresh # 0
          /\ Goto(t, "readAccess")
          /\ UNCHANGED <<rec, old, new>>
    /\ UNCHANGED <<modeVars, stored, first, replaced, renewed, providerVars, historyVars>>

\* oldToken is built field by field from a record that may be changing.
ReadField(t, f, from, to) ==
    /\ pc[t] = from
    /\ old' = [old EXCEPT ![t] = [@ EXCEPT ![f] = rec[t][f]]]
    /\ Goto(t, to)
    /\ UNCHANGED <<modeVars, stored, first, rec, new, replaced, renewed, providerVars,
                   historyVars>>

ReadAccess(t) == ReadField(t, "access", "readAccess", "readRefresh")
ReadRefresh(t) == ReadField(t, "refresh", "readRefresh", "readExpiry")
ReadExpiry(t) == ReadField(t, "expiry", "readExpiry", "exchange")

\* oauth2: oldToken.Valid(), with the expiryDelta that RefreshToken sets.
Valid(t) == old[t].expiry \in fresh \cup undated

\* ReuseTokenSource returns a valid oldToken as it is, and asks nobody.
RefreshReuses(t) ==
    /\ pc[t] = "exchange"
    /\ Valid(t)
    /\ new' = [new EXCEPT ![t] = old[t]]
    /\ Goto(t, "setAccess")
    /\ UNCHANGED <<modeVars, stored, first, rec, old, replaced, renewed, providerVars,
                   historyVars>>

\* newToken brings an answer, and is not oldToken: no answer is given twice.
Exchanged(t) == new[t].access # old[t].access

\* The provider accepts t's refresh token and answers.
ProviderRefreshes(t) ==
    /\ ~Valid(t)
    /\ old[t].refresh = live[rec[t].grant]
    /\ Issue
    /\ live' = [live EXCEPT ![rec[t].grant] = IF rotates THEN issued + 1 ELSE @]

\* oauth2 fills in the offered refresh token when the answer has none.
RefreshExchange(t) ==
    /\ pc[t] = "exchange"
    /\ ProviderRefreshes(t)
    /\ new' = [new EXCEPT ![t] =
          [access |-> issued + 1, refresh |-> IF rotates THEN issued + 1 ELSE old[t].refresh,
           expiry |-> issued + 1]]
    /\ replaced' = [replaced EXCEPT ![t] = old[t].access]
    /\ Goto(t, "setAccess")
    /\ UNCHANGED <<modeVars, stored, first, rec, old, renewed, historyVars>>

\* The answer is lost on its way: an error, with the provider's state changed.
RefreshAnswerLost(t) ==
    /\ pc[t] = "exchange"
    /\ ProviderRefreshes(t)
    /\ lost' = lost \cup {rec[t].grant}
    /\ RefreshReturns(t, "serve")
    /\ UNCHANGED <<modeVars, stored, first, replaced, renewed, reverted>>

\* The provider cannot be reached, or refuses: as it likes, for the user may have
\* withdrawn the authorisation there.
RefreshRefused(t) ==
    /\ pc[t] = "exchange"
    /\ ~Valid(t)
    /\ RefreshReturns(t, "serve")
    /\ UNCHANGED <<modeVars, stored, first, replaced, renewed, providerVars, historyVars>>

\* storedToken.OAuthData.f = newToken.f, seen through every alias of that OAuthData.  A
\* token that was reused reverts what another call has written since it was read.
Assign(t, f, from, to) ==
    LET Aliased(r) == ~durable /\ r.kind = "oauth" /\ r.grant = rec[t].grant
        Seen(r) == IF Aliased(r) THEN [r EXCEPT ![f] = new[t][f]] ELSE r
    IN  /\ pc[t] = from
        /\ stored' = Seen(stored)
        /\ first' = [u \in Thread |-> Seen(first[u])]
        /\ rec' = [u \in Thread |->
                     IF u = t THEN [rec[t] EXCEPT ![f] = new[t][f]] ELSE Seen(rec[u])]
        /\ reverted' = IF Exchanged(t) \/ rec[t][f] = new[t][f] THEN reverted
                       ELSE reverted \cup {rec[t].grant}
        /\ Goto(t, to)
        /\ UNCHANGED <<modeVars, old, new, replaced, renewed, providerVars, lost>>

SetAccess(t) == Assign(t, "access", "setAccess", "setRefresh")
SetRefreshForgotten(t) ==
    /\ pc[t] = "setRefresh"
    /\ Goto(t, "setExpiry")
    /\ UNCHANGED <<modeVars, stored, first, rec, old, new, replaced, renewed, providerVars,
                   historyVars>>
SetRefresh(t) == Assign(t, "refresh", "setRefresh", "setExpiry")
SetExpiry(t) == Assign(t, "expiry", "setExpiry", "save")

\* The grants whose newest refresh token is gone if t gets no further.
Pending(t) == IF pc[t] \in Renewing /\ Exchanged(t) THEN {rec[t].grant} ELSE {}

RefreshSave(t) ==
    /\ pc[t] = "save"
    /\ \/ /\ stored' = rec[t]
          /\ RefreshReturns(t, "refetch")
          /\ UNCHANGED lost
       \/ /\ StorageFails
          /\ lost' = lost \cup Pending(t)
          /\ RefreshReturns(t, "serve")
          /\ UNCHANGED stored
       \/ /\ StorageFails     \* an error although the write was done
          /\ stored' = rec[t]
          /\ RefreshReturns(t, "serve")
          /\ UNCHANGED lost
    /\ UNCHANGED <<modeVars, first, replaced, renewed, providerVars, reverted>>

RefetchSkipped(t) ==
    /\ pc[t] = "refetch"
    /\ renewed' = [renewed EXCEPT ![t] = TRUE]
    /\ Goto(t, "serve")
    /\ UNCHANGED <<modeVars, stored, first, rec, old, new, replaced, providerVars,
                   historyVars>>
\* After RefreshToken returned nil; if this read fails, the first one has to do.
Refetch(t) ==
    /\ pc[t] = "refetch"
    /\ \/ /\ stored.kind # "none"
          /\ first' = [first EXCEPT ![t] = stored]
          /\ renewed' = [renewed EXCEPT ![t] = TRUE]
       \/ /\ stored.kind = "none" \/ StorageFails
          /\ UNCHANGED <<first, renewed>>
    /\ Goto(t, "serve")
    /\ UNCHANGED <<modeVars, stored, rec, old, new, replaced, providerVars, historyVars>>

\* t's call is over.
Finished(t) ==
    /\ RefreshReturns(t, "ready")
    /\ first' = [first EXCEPT ![t] = NoToken]
    /\ replaced' = [replaced EXCEPT ![t] = 0]
    /\ renewed' = [renewed EXCEPT ![t] = FALSE]

\* The caller gets the access token, or the manual token, of first.
Serve(t) ==
    /\ pc[t] = "serve"
    /\ Finished(t)
    /\ UNCHANGED <<modeVars, stored, providerVars, historyVars>>

-----------------------------------------------------------------------------
(* ServiceOAuthClient.HandleCallback, the user having authorised           *)

\* The code is exchanged; the answer may come without a refresh token.
HandleCallback(t) ==
    /\ pc[t] = "ready"
    /\ Issue
    /\ \E r \in {0, issued + 1} :
          /\ rec' = [rec EXCEPT ![t] = OAuthToken(issued + 1, issued + 1, r)]
          /\ live' = [live EXCEPT ![issued + 1] = r]
    /\ Goto(t, "callback")
    /\ UNCHANGED <<modeVars, stored, first, old, new, replaced, renewed, historyVars>>

CallbackSave(t) ==
    /\ pc[t] = "callback"
    /\ \/ stored' = rec[t]
       \/ StorageFails /\ UNCHANGED stored
    /\ Finished(t)
    /\ UNCHANGED <<modeVars, providerVars, historyVars>>

-----------------------------------------------------------------------------
(* The user's own handlers, each one call to the storage.                  *)

\* SetTokenHandler: any service that requires a user token takes a manual one.
SetToken ==
    /\ stored' = ManualToken
    /\ UNCHANGED <<modeVars, callVars, providerVars, historyVars>>

\* DeleteTokenHandler and DisconnectHandler
DeleteUserToken ==
    /\ stored' = NoToken
    /\ UNCHANGED <<modeVars, callVars, providerVars, historyVars>>

-----------------------------------------------------------------------------
(* Time and crashes                                                        *)

Age(n) ==
    /\ n \in fresh
    /\ fresh' = fresh \ {n}
    /\ UNCHANGED <<modeVars, stored, callVars, issued, live, undated, historyVars>>

\* The program stops and is started again: calls are cut off, memory is empty.
Crash ==
    /\ \E t \in Thread : pc[t] # "ready"
    /\ lost' = lost \cup UNION {Pending(t) : t \in Thread}
    /\ stored' = IF durable THEN stored ELSE NoToken
    /\ pc' = [t \in Thread |-> "ready"]
    /\ first' = [t \in Thread |-> NoToken] /\ rec' = [t \in Thread |-> NoToken]
    /\ old' = [t \in Thread |-> Nothing] /\ new' = [t \in Thread |-> Nothing]
    /\ replaced' = [t \in Thread |-> 0] /\ renewed' = [t \in Thread |-> FALSE]
    /\ UNCHANGED <<modeVars, providerVars, reverted>>

-----------------------------------------------------------------------------
CallStep(t) ==
    \/ RefreshRead(t) \/ RefreshCheck(t)
    \/ ReadAccess(t) \/ ReadRefresh(t) \/ ReadExpiry(t)
    \/ RefreshReuses(t) \/ RefreshExchange(t) \/ RefreshAnswerLost(t) \/ RefreshRefused(t)
    \/ SetAccess(t) \/ SetRefresh(t) \/ SetExpiry(t) \/ RefreshSave(t)
    \/ Refetch(t) \/ Serve(t) \/ CallbackSave(t)

Next ==
    \/ \E t \in Thread : CallStep(t) \/ GetUserToken(t) \/ HandleCallback(t)
    \/ SetToken \/ DeleteUserToken
    \/ \E n \in Serial : Age(n)
    \/ Crash

Spec == Init /\ [][Next]_vars

-----------------------------------------------------------------------------
(* Properties                                                              *)

\* The storage has the refresh token that the provider accepts for its grant, or somebody
\* is on the way to put it there.
Connected ==
    LET g == stored.grant
    IN  \/ stored.refresh = live[g]
        \/ \E t \in Thread : Pending(t) = {g} /\ new[t].refresh = live[g]

\* RefreshToken updates the stored token with whatever the provider rotated.  With
\* Firestore, concurrent refreshes never cost the user the connection, unless an answer
\* or a write was lost.  With memory there is one more way to
\* lose it, a call that wrote back what it had read before another call's answer.
ConnectionSurvives ==
    LET g == stored.grant
    IN  /\ stored.kind = "oauth" /\ live[g] # 0 /\ g \notin lost
        /\ durable \/ g \notin reverted
        => Connected

\* GetUserToken re-fetches "the updated token after refresh": what it then hands
\* out is never the access token that its exchange has replaced, whoever else refreshes,
\* connects or deletes in between, with the same exception for memory.
RefreshedIsServed ==
    \A t \in Thread :
        /\ renewed[t] /\ replaced[t] # 0
        /\ durable \/ first[t].grant \notin reverted
        => first[t].access # replaced[t]

\* Grant g is neither in the storage nor in a record that a call may still save.
Gone(g) ==
    /\ g \in 1..issued
    /\ stored.grant # g
    /\ \A t \in Thread : rec[t].grant # g

\* What OnlyCallbackConnects comes to: a token that was deleted or replaced comes back
\* only through a call that had read it before, to refresh it, and has not ended.  Once
\* no such call is left, the grant stays out of the storage, although GetUserToken
\* goes on with copies that it read earlier.
ForgottenForGood == [][\A g \in Serial : Gone(g) => Gone(g)']_vars

-----------------------------------------------------------------------------
(* What the repository says and the code does not do                       *)

\* DisconnectHandler's comment: it "revokes OAuth access for a service".  Once the
\* token is deleted, only a new authorisation would then bring one back.
OnlyCallbackConnects ==
    [][stored.kind = "none" /\ stored'.kind = "oauth"
       => \E t \in Thread : pc[t] = "callback" /\ pc'[t] = "ready"]_vars

\* RefreshToken leaves it to the oauth2 library when and how a token is exchanged,
\* "refresh token rotation" included, and then updates the stored token: no answer or
\* write having been lost, the connection would be there.
RotationIsStored ==
    stored.kind = "oauth" /\ live[stored.grant] # 0 /\ stored.grant \notin lost => Connected
=============================================================================
