-------------------------- MODULE UserTokensProofs --------------------------
(***************************************************************************)
(* Proofs about UserTokens, for any number of goroutines and of answers.   *)
(*                                                                         *)
(* Concurrent refreshes of one token are safe because an answer of the     *)
(* provider is in one place until it is written where others can read it:  *)
(* with Firestore when the record is saved, in memory as soon as the field *)
(* of the shared record is assigned.  Until then nobody else can offer it  *)
(* (AnswerInv), so whoever is about to write one has the refresh token     *)
(* that the provider accepts (CurrentInv).                                 *)
(*                                                                         *)
(* A call that reuses what it has read writes it back.  With Firestore it  *)
(* has read one answer, without an expiry, and nothing newer can exist     *)
(* (WholeInv); in memory it may have read parts of two.                    *)
(***************************************************************************)
EXTENDS UserTokens, TLAPS

HasRecord(t) == pc[t] \in Reading \cup Renewing \cup {"check", "exchange", "callback"}
HasOld(t) == pc[t] \in Renewing \cup {"readRefresh", "readExpiry", "exchange"}

\* t has an answer of the provider that is not stored yet.
Renews(t) == pc[t] \in Renewing /\ Exchanged(t)

\* Its access token, its refresh token, is one that nobody else can read.
HidesAccess(t) == Renews(t) /\ (durable \/ pc[t] = "setAccess")
HidesRefresh(t) == Renews(t) /\ (durable \/ pc[t] \in {"setAccess", "setRefresh"})

\* Tokens are answers that the provider has given.
Numbered(r) ==
    /\ r.kind = "oauth" => r.grant \in 1..issued /\ r.access \in 1..issued
    /\ r.kind # "oauth" => r.grant = 0 /\ r.access = 0 /\ r.refresh = 0 /\ r.expiry = 0
    /\ r.refresh <= issued /\ r.expiry <= issued

NumbersInv ==
    /\ Numbered(stored) /\ \A t \in Thread : Numbered(rec[t])
    /\ \A t \in Thread :
          /\ old[t].access <= issued /\ old[t].refresh <= issued /\ old[t].expiry <= issued
          /\ new[t].access <= issued /\ new[t].refresh <= issued /\ new[t].expiry <= issued
          /\ replaced[t] <= issued

\* What a goroutine's locals hold where it is.
PhaseInv ==
    \A t \in Thread :
        /\ HasRecord(t) <=> rec[t].kind = "oauth"
        /\ pc[t] \in Reading => rec[t].refresh # 0
        /\ HasOld(t) => old[t].access # 0
        /\ pc[t] \notin Renewing \cup {"refetch", "serve"} => replaced[t] = 0
        /\ pc[t] \in Renewing /\ ~Exchanged(t) => new[t] = old[t] /\ replaced[t] = 0
        /\ Renews(t) =>
              /\ replaced[t] = old[t].access /\ new[t].access # 0
              /\ new[t].expiry = new[t].access
              /\ rotates => new[t].refresh = new[t].access
        /\ renewed[t] => pc[t] = "serve"

\* Firestore: nobody else changes a goroutine's record.
OwnInv ==
    durable => \A t \in Thread :
        /\ pc[t] \in {"readRefresh", "readExpiry", "exchange"} => old[t].access = rec[t].access
        /\ pc[t] \in {"readExpiry", "exchange"} => old[t].refresh = rec[t].refresh
        /\ pc[t] = "exchange" => old[t].expiry = rec[t].expiry
        /\ pc[t] \in Reading \cup {"exchange"} => rec[t].expiry \notin fresh
        /\ pc[t] \in Renewing /\ ~Exchanged(t) =>
              /\ rec[t].access = new[t].access /\ rec[t].refresh = new[t].refresh
              /\ rec[t].expiry = new[t].expiry /\ rec[t].expiry \in undated
        /\ pc[t] \in {"setRefresh", "setExpiry", "save"} => rec[t].access = new[t].access
        /\ pc[t] \in {"setExpiry", "save"} => rec[t].refresh = new[t].refresh
        /\ pc[t] = "save" => rec[t].expiry = new[t].expiry

\* The fields of r come from one answer, and one without an expiry is the last of its grant.
Whole(r) ==
    /\ r.expiry = r.access
    /\ rotates => r.refresh \in {0, r.access}
    /\ r.expiry \in undated /\ r.refresh # 0 => r.refresh = live[r.grant]

WholeInv ==
    durable =>
        /\ Whole(stored)
        /\ \A t \in Thread :
              \/ Renews(t) /\ pc[t] \in {"setRefresh", "setExpiry"}
              \/ Whole(rec[t])

\* An answer is one goroutine's, and what it hides is nowhere else.
AnswerInv ==
    \A t \in Thread :
        /\ HidesAccess(t) => stored.access # new[t].access
        /\ rotates /\ HidesRefresh(t) => stored.refresh # new[t].refresh
        /\ \A u \in Thread \ {t} :
              /\ HidesAccess(t) =>
                    /\ rec[u].access # new[t].access /\ old[u].access # new[t].access
                    /\ new[u].access # new[t].access
              /\ rotates /\ HidesRefresh(t) =>
                    /\ rec[u].refresh # new[t].refresh /\ old[u].refresh # new[t].refresh
                    /\ new[u].refresh # new[t].refresh

\* Who is about to write a refresh token has the one that the provider accepts.
CurrentInv ==
    \A t \in Thread : HidesRefresh(t) => new[t].refresh = live[rec[t].grant]

\* A new grant is nowhere else before it is saved.
CallbackInv ==
    \A t \in Thread : pc[t] = "callback" =>
        /\ live[rec[t].grant] = rec[t].refresh
        /\ stored.grant # rec[t].grant
        /\ \A u \in Thread \ {t} : rec[u].grant # rec[t].grant
        /\ \A u \in Thread : replaced[u] # rec[t].access

\* Somebody has the access token a as one of grant g.
Holds(a, g) ==
    \/ stored.kind = "oauth" /\ stored.access = a /\ stored.grant = g
    \/ \E t \in Thread :
          /\ HasRecord(t) /\ rec[t].grant = g
          /\ \/ rec[t].access = a
             \/ HasOld(t) /\ old[t].access = a
             \/ pc[t] \in Renewing /\ new[t].access = a

\* An access token is of one grant.
OwnerInv == \A a, g, h \in Serial : Holds(a, g) /\ Holds(a, h) => g = h

\* The refresh token of r is the one that the provider accepts, or somebody will write it.
Survives(r) ==
    /\ r.kind = "oauth" /\ r.grant \notin lost
    /\ durable \/ r.grant \notin reverted
    => \/ r.refresh = live[r.grant]
       \/ \E u \in Thread : HidesRefresh(u) /\ rec[u].grant = r.grant

\* In memory a goroutine may save its record as it is.
SurvivalInv == Survives(stored) /\ (~durable => \A t \in Thread : Survives(rec[t]))

\* The access token that a refresh replaces does not come back.
ReplacedInv ==
    \A t \in Thread : replaced[t] # 0 =>
        /\ \A u \in Thread : HidesAccess(u) => new[u].access # replaced[t]
        /\ durable => replaced[t] \notin fresh \cup undated
        /\ durable /\ pc[t] = "refetch" => stored.access # replaced[t]
        /\ renewed[t] /\ (durable \/ first[t].grant \notin reverted) =>
              first[t].access # replaced[t]

\* In memory it is gone with the assignment of the new one, unless somebody writes it back.
GoneInv ==
    ~durable => \A t \in Thread : replaced[t] # 0 /\ pc[t] # "setAccess" =>
        /\ stored.access = replaced[t] => stored.grant \in reverted
        /\ \A u \in Thread : rec[u].access = replaced[t] => rec[u].grant \in reverted

IInv ==
    /\ TypeOK
    /\ NumbersInv /\ PhaseInv /\ OwnInv /\ WholeInv
    /\ AnswerInv /\ CurrentInv /\ CallbackInv
    /\ OwnerInv /\ SurvivalInv /\ ReplacedInv /\ GoneInv

-----------------------------------------------------------------------------
(* What each action does, goroutine by goroutine.                          *)

Same(u) ==
    /\ pc'[u] = pc[u] /\ first'[u] = first[u] /\ rec'[u] = rec[u] /\ old'[u] = old[u]
    /\ new'[u] = new[u] /\ replaced'[u] = replaced[u] /\ renewed'[u] = renewed[u]

OnlyMoves(t) == \A u \in Thread \ {t} : Same(u)
SameMode == durable' = durable /\ rotates' = rotates
SameProvider == issued' = issued /\ live' = live /\ fresh' = fresh /\ undated' = undated
SameHistory == lost' = lost /\ reverted' = reverted
Blank(r) == r.kind # "oauth" /\ r.grant = 0 /\ r.access = 0 /\ r.refresh = 0 /\ r.expiry = 0
Cleared(t) ==
    /\ Blank(rec'[t])
    /\ old'[t].access = 0 /\ old'[t].refresh = 0 /\ old'[t].expiry = 0
    /\ new'[t].access = 0 /\ new'[t].refresh = 0 /\ new'[t].expiry = 0
SameRefresh(t) == replaced'[t] = replaced[t] /\ renewed'[t] = renewed[t] /\ first'[t] = first[t]

\* The provider's next answer.
Answers ==
    /\ issued < MaxIssued /\ issued' = issued + 1
    /\ \/ fresh' = fresh \cup {issued + 1} /\ undated' = undated
       \/ undated' = undated \cup {issued + 1} /\ fresh' = fresh
Rotates(t) ==
    /\ old[t].expiry \notin fresh \cup undated /\ old[t].refresh = live[rec[t].grant]
    /\ live' = [live EXCEPT ![rec[t].grant] = IF rotates THEN issued + 1 ELSE @]

\* Assign changes one field of t's record and of those that are the same.
Reached(u, t) == u = t \/ (~durable /\ rec[u].kind = "oauth" /\ rec[u].grant = rec[t].grant)
StoreReached(t) == ~durable /\ stored.kind = "oauth" /\ stored.grant = rec[t].grant

RefreshReadDoes(t) ==
    /\ SameMode /\ SameProvider /\ stored' = stored /\ SameHistory
    /\ OnlyMoves(t) /\ SameRefresh(t) /\ pc[t] = "refresh"
    /\ \/ pc'[t] = "serve" /\ Cleared(t)
       \/ /\ pc'[t] = "check" /\ rec'[t] = stored /\ stored.kind = "oauth"
          /\ old'[t] = old[t] /\ new'[t] = new[t]
LEMMA RefreshReadFlat ==
    ASSUME TypeOK, NEW t \in Thread, RefreshRead(t)
    PROVE RefreshReadDoes(t)
BY DEF RefreshReadDoes, TypeOK, RefreshRead, RefreshReturns, Goto, modeVars, providerVars,
       historyVars, Same, OnlyMoves, SameMode, SameProvider, SameHistory, Blank, Cleared,
       SameRefresh, NoToken, OAuthToken, Nothing

RefreshCheckDoes(t) ==
    /\ SameMode /\ SameProvider /\ stored' = stored /\ SameHistory
    /\ OnlyMoves(t) /\ SameRefresh(t) /\ pc[t] = "check"
    /\ \/ pc'[t] \in {"refetch", "serve"} /\ Cleared(t)
       \/ /\ pc'[t] = "readAccess" /\ rec[t].expiry \notin fresh /\ rec[t].refresh # 0
          /\ rec'[t] = rec[t] /\ old'[t] = old[t] /\ new'[t] = new[t]
LEMMA RefreshCheckFlat ==
    ASSUME TypeOK, NEW t \in Thread, RefreshCheck(t)
    PROVE RefreshCheckDoes(t)
BY DEF RefreshCheckDoes, TypeOK, RefreshCheck, RefreshReturns, Goto, modeVars, providerVars,
       historyVars, Same, OnlyMoves, SameMode, SameProvider, SameHistory, Blank, Cleared,
       SameRefresh, NoToken, OAuthToken, Nothing

\* A read of one field.
Reads(t, from, to) ==
    /\ SameMode /\ SameProvider /\ stored' = stored /\ SameHistory
    /\ OnlyMoves(t) /\ SameRefresh(t) /\ pc[t] = from /\ pc'[t] = to
    /\ rec'[t] = rec[t] /\ new'[t] = new[t]

ReadAccessDoes(t) ==
    /\ Reads(t, "readAccess", "readRefresh")
    /\ old'[t].access = rec[t].access /\ old'[t].refresh = old[t].refresh
    /\ old'[t].expiry = old[t].expiry
LEMMA ReadAccessFlat ==
    ASSUME TypeOK, NEW t \in Thread, ReadAccess(t)
    PROVE ReadAccessDoes(t)
BY DEF ReadAccessDoes, TypeOK, Fields, ReadAccess, ReadField, Goto, modeVars, providerVars,
       historyVars, Same, OnlyMoves, SameMode, SameProvider, SameHistory, SameRefresh,
       Reads

ReadRefreshDoes(t) ==
    /\ Reads(t, "readRefresh", "readExpiry")
    /\ old'[t].access = old[t].access /\ old'[t].refresh = rec[t].refresh
    /\ old'[t].expiry = old[t].expiry
LEMMA ReadRefreshFlat ==
    ASSUME TypeOK, NEW t \in Thread, ReadRefresh(t)
    PROVE ReadRefreshDoes(t)
BY DEF ReadRefreshDoes, TypeOK, Fields, ReadRefresh, ReadField, Goto, modeVars,
       providerVars, historyVars, Same, OnlyMoves, SameMode, SameProvider, SameHistory,
       SameRefresh, Reads

ReadExpiryDoes(t) ==
    /\ Reads(t, "readExpiry", "exchange")
    /\ old'[t].access = old[t].access /\ old'[t].refresh = old[t].refresh
    /\ old'[t].expiry = rec[t].expiry
LEMMA ReadExpiryFlat ==
    ASSUME TypeOK, NEW t \in Thread, ReadExpiry(t)
    PROVE ReadExpiryDoes(t)
BY DEF ReadExpiryDoes, TypeOK, Fields, ReadExpiry, ReadField, Goto, modeVars, providerVars,
       historyVars, Same, OnlyMoves, SameMode, SameProvider, SameHistory, SameRefresh,
       Reads

RefreshReusesDoes(t) ==
    /\ SameMode /\ SameProvider /\ stored' = stored /\ SameHistory
    /\ OnlyMoves(t) /\ SameRefresh(t) /\ pc[t] = "exchange" /\ pc'[t] = "setAccess"
    /\ rec'[t] = rec[t] /\ old'[t] = old[t] /\ new'[t] = old[t]
    /\ old[t].expiry \in fresh \cup undated
LEMMA RefreshReusesFlat ==
    ASSUME TypeOK, NEW t \in Thread, RefreshReuses(t)
    PROVE RefreshReusesDoes(t)
BY DEF RefreshReusesDoes, TypeOK, RefreshReuses, Valid, Goto, modeVars, providerVars,
       historyVars, Same, OnlyMoves, SameMode, SameProvider, SameHistory, SameRefresh

RefreshExchangeDoes(t) ==
    /\ SameMode /\ stored' = stored /\ SameHistory /\ OnlyMoves(t)
    /\ pc[t] = "exchange" /\ pc'[t] = "setAccess"
    /\ rec'[t] = rec[t] /\ old'[t] = old[t]
    /\ new'[t].access = issued + 1 /\ new'[t].expiry = issued + 1
    /\ new'[t].refresh = IF rotates THEN issued + 1 ELSE old[t].refresh
    /\ replaced'[t] = old[t].access
    /\ renewed'[t] = renewed[t] /\ first'[t] = first[t]
    /\ Answers /\ Rotates(t)
LEMMA RefreshExchangeFlat ==
    ASSUME TypeOK, NEW t \in Thread, RefreshExchange(t)
    PROVE RefreshExchangeDoes(t)
BY DEF RefreshExchangeDoes, TypeOK, RefreshExchange, ProviderRefreshes, Valid, Issue, Goto,
       modeVars, historyVars, Same, OnlyMoves, SameMode, SameHistory, Answers, Rotates

RefreshAnswerLostDoes(t) ==
    /\ SameMode /\ stored' = stored
    /\ lost' = lost \cup {rec[t].grant} /\ reverted' = reverted
    /\ OnlyMoves(t) /\ SameRefresh(t) /\ pc[t] = "exchange" /\ pc'[t] = "serve"
    /\ Cleared(t) /\ Answers /\ Rotates(t)
LEMMA RefreshAnswerLostFlat ==
    ASSUME TypeOK, NEW t \in Thread, RefreshAnswerLost(t)
    PROVE RefreshAnswerLostDoes(t)
BY DEF RefreshAnswerLostDoes, TypeOK, RefreshAnswerLost, ProviderRefreshes, Valid, Issue,
       RefreshReturns, Goto, modeVars, Same, OnlyMoves, SameMode, SameRefresh, Blank,
       Cleared, NoToken, OAuthToken, Nothing, Answers, Rotates

RefreshRefusedDoes(t) ==
    /\ SameMode /\ SameProvider /\ stored' = stored /\ SameHistory
    /\ OnlyMoves(t) /\ SameRefresh(t) /\ pc[t] = "exchange" /\ pc'[t] = "serve"
    /\ Cleared(t)
LEMMA RefreshRefusedFlat ==
    ASSUME TypeOK, NEW t \in Thread, RefreshRefused(t)
    PROVE RefreshRefusedDoes(t)
BY DEF RefreshRefusedDoes, TypeOK, RefreshRefused, RefreshReturns, Goto, modeVars,
       providerVars, historyVars, Same, OnlyMoves, SameMode, SameProvider, SameHistory,
       SameRefresh, Blank, Cleared, NoToken, OAuthToken, Nothing

\* What an assignment to a field leaves, and whom it may have reverted.
SameCall(u) ==
    /\ old'[u] = old[u] /\ new'[u] = new[u] /\ replaced'[u] = replaced[u]
    /\ renewed'[u] = renewed[u] /\ first'[u].grant = first[u].grant
Assigns(t, from, to) ==
    /\ SameMode /\ SameProvider /\ lost' = lost
    /\ pc[t] = from /\ pc'[t] = to
    /\ \A u \in Thread \ {t} : pc'[u] = pc[u]
    /\ \A u \in Thread : SameCall(u)
Reverts(t, same) ==
    reverted' = IF Exchanged(t) \/ same THEN reverted ELSE reverted \cup {rec[t].grant}
SameButAccess(r, s) ==
    r.kind = s.kind /\ r.grant = s.grant /\ r.refresh = s.refresh /\ r.expiry = s.expiry
SameButRefresh(r, s) ==
    r.kind = s.kind /\ r.grant = s.grant /\ r.access = s.access /\ r.expiry = s.expiry
SameButExpiry(r, s) ==
    r.kind = s.kind /\ r.grant = s.grant /\ r.access = s.access /\ r.refresh = s.refresh

SetAccessDoes(t) ==
    /\ Assigns(t, "setAccess", "setRefresh")
    /\ Reverts(t, rec[t].access = new[t].access)
    /\ \A u \in Thread :
          /\ SameButAccess(rec'[u], rec[u])
          /\ Reached(u, t) => rec'[u].access = new[t].access
          /\ ~Reached(u, t) => rec'[u].access = rec[u].access
          /\ \/ first'[u].access = first[u].access
             \/ ~durable /\ first[u].grant = rec[t].grant
                   /\ first'[u].access = new[t].access
    /\ SameButAccess(stored', stored)
    /\ StoreReached(t) => stored'.access = new[t].access
    /\ ~StoreReached(t) => stored'.access = stored.access
LEMMA SetAccessFlat ==
    ASSUME TypeOK, NEW t \in Thread, SetAccess(t)
    PROVE SetAccessDoes(t)
BY DEF SetAccessDoes, TypeOK, Token, SetAccess, Assign, Goto, modeVars, providerVars,
       SameMode, SameProvider, Assigns, SameCall, Reverts, SameButAccess, Reached,
       StoreReached

SetRefreshDoes(t) ==
    /\ Assigns(t, "setRefresh", "setExpiry")
    /\ Reverts(t, rec[t].refresh = new[t].refresh)
    /\ \A u \in Thread :
          /\ SameButRefresh(rec'[u], rec[u])
          /\ Reached(u, t) => rec'[u].refresh = new[t].refresh
          /\ ~Reached(u, t) => rec'[u].refresh = rec[u].refresh
          /\ first'[u].access = first[u].access
    /\ SameButRefresh(stored', stored)
    /\ StoreReached(t) => stored'.refresh = new[t].refresh
    /\ ~StoreReached(t) => stored'.refresh = stored.refresh
LEMMA SetRefreshFlat ==
    ASSUME TypeOK, NEW t \in Thread, SetRefresh(t)
    PROVE SetRefreshDoes(t)
BY DEF SetRefreshDoes, TypeOK, Token, SetRefresh, Assign, Goto, modeVars, providerVars,
       SameMode, SameProvider, Assigns, SameCall, Reverts, SameButRefresh, Reached,
       StoreReached

SetExpiryDoes(t) ==
    /\ Assigns(t, "setExpiry", "save")
    /\ Reverts(t, rec[t].expiry = new[t].expiry)
    /\ \A u \in Thread :
          /\ SameButExpiry(rec'[u], rec[u])
          /\ Reached(u, t) => rec'[u].expiry = new[t].expiry
          /\ ~Reached(u, t) => rec'[u].expiry = rec[u].expiry
          /\ first'[u].access = first[u].access
    /\ SameButExpiry(stored', stored)
    /\ StoreReached(t) => stored'.expiry = new[t].expiry
    /\ ~StoreReached(t) => stored'.expiry = stored.expiry
LEMMA SetExpiryFlat ==
    ASSUME TypeOK, NEW t \in Thread, SetExpiry(t)
    PROVE SetExpiryDoes(t)
BY DEF SetExpiryDoes, TypeOK, Token, SetExpiry, Assign, Goto, modeVars, providerVars,
       SameMode, SameProvider, Assigns, SameCall, Reverts, SameButExpiry, Reached,
       StoreReached

RefreshSaveDoes(t) ==
    /\ SameMode /\ SameProvider /\ reverted' = reverted
    /\ OnlyMoves(t) /\ SameRefresh(t) /\ pc[t] = "save" /\ Cleared(t)
    /\ \/ pc'[t] = "refetch" /\ stored' = rec[t] /\ lost' = lost
       \/ /\ durable /\ pc'[t] = "serve"
          /\ \/ stored' = stored /\ lost' = lost \cup Pending(t)
             \/ stored' = rec[t] /\ lost' = lost
LEMMA RefreshSaveFlat ==
    ASSUME TypeOK, NEW t \in Thread, RefreshSave(t)
    PROVE RefreshSaveDoes(t)
BY DEF RefreshSaveDoes, TypeOK, RefreshSave, StorageFails, RefreshReturns, Goto, modeVars,
       providerVars, Same, OnlyMoves, SameMode, SameProvider, SameRefresh, Blank, Cleared,
       NoToken, OAuthToken, Nothing

RefetchDoes(t) ==
    /\ SameMode /\ SameProvider /\ stored' = stored /\ SameHistory
    /\ OnlyMoves(t) /\ pc[t] = "refetch" /\ pc'[t] = "serve"
    /\ rec'[t] = rec[t] /\ old'[t] = old[t] /\ new'[t] = new[t]
    /\ replaced'[t] = replaced[t]
    /\ \/ first'[t] = stored
       \/ renewed'[t] = renewed[t] /\ first'[t] = first[t]
LEMMA RefetchFlat ==
    ASSUME TypeOK, NEW t \in Thread, Refetch(t)
    PROVE RefetchDoes(t)
BY DEF RefetchDoes, TypeOK, Refetch, Goto, modeVars, providerVars, historyVars, Same,
       OnlyMoves, SameMode, SameProvider, SameHistory

\* t's call is over, or has not begun.
Idle(t) == pc'[t] = "ready" /\ Cleared(t) /\ replaced'[t] = 0 /\ ~renewed'[t]

ServeDoes(t) ==
    /\ SameMode /\ SameProvider /\ stored' = stored /\ SameHistory
    /\ OnlyMoves(t) /\ pc[t] = "serve" /\ Idle(t)
LEMMA ServeFlat ==
    ASSUME TypeOK, NEW t \in Thread, Serve(t)
    PROVE ServeDoes(t)
BY DEF ServeDoes, TypeOK, Serve, Finished, RefreshReturns, Goto, modeVars, providerVars,
       historyVars, Same, OnlyMoves, SameMode, SameProvider, SameHistory, Blank, Cleared,
       Idle, NoToken, OAuthToken, Nothing

CallbackSaveDoes(t) ==
    /\ SameMode /\ SameProvider /\ stored' \in {stored, rec[t]} /\ SameHistory
    /\ OnlyMoves(t) /\ pc[t] = "callback" /\ Idle(t)
LEMMA CallbackSaveFlat ==
    ASSUME TypeOK, NEW t \in Thread, CallbackSave(t)
    PROVE CallbackSaveDoes(t)
BY DEF CallbackSaveDoes, TypeOK, CallbackSave, Finished, RefreshReturns, Goto, modeVars,
       providerVars, historyVars, Same, OnlyMoves, SameMode, SameProvider, SameHistory,
       Blank, Cleared, Idle, NoToken, OAuthToken, Nothing

GetUserTokenDoes(t) ==
    /\ SameMode /\ SameProvider /\ stored' = stored /\ SameHistory
    /\ OnlyMoves(t) /\ pc[t] = "ready" /\ pc'[t] \in {"refresh", "serve"}
    /\ rec'[t] = rec[t] /\ old'[t] = old[t] /\ new'[t] = new[t]
    /\ replaced'[t] = replaced[t] /\ renewed'[t] = renewed[t]
LEMMA GetUserTokenFlat ==
    ASSUME TypeOK, NEW t \in Thread, GetUserToken(t)
    PROVE GetUserTokenDoes(t)
BY DEF GetUserTokenDoes, TypeOK, GetUserToken, Goto, modeVars, providerVars, historyVars,
       Same, OnlyMoves, SameMode, SameProvider, SameHistory

HandleCallbackDoes(t) ==
    /\ SameMode /\ stored' = stored /\ SameHistory
    /\ OnlyMoves(t) /\ pc[t] = "ready" /\ pc'[t] = "callback" /\ SameRefresh(t)
    /\ old'[t] = old[t] /\ new'[t] = new[t]
    /\ rec'[t].kind = "oauth" /\ rec'[t].grant = issued + 1
    /\ rec'[t].access = issued + 1 /\ rec'[t].expiry = issued + 1
    /\ rec'[t].refresh \in {0, issued + 1}
    /\ Answers /\ live' = [live EXCEPT ![issued + 1] = rec'[t].refresh]
LEMMA HandleCallbackFlat ==
    ASSUME TypeOK, NEW t \in Thread, HandleCallback(t)
    PROVE HandleCallbackDoes(t)
BY DEF HandleCallbackDoes, TypeOK, HandleCallback, Issue, OAuthToken, Goto, modeVars,
       historyVars, Same, OnlyMoves, SameMode, SameHistory, SameRefresh, Answers

CrashDoes ==
    /\ SameMode /\ SameProvider /\ \A t \in Thread : Idle(t)
    /\ \/ durable /\ stored' = stored
       \/ Blank(stored')
    /\ \A t \in Thread : Renews(t) => rec[t].grant \in lost'
    /\ lost \subseteq lost' /\ reverted' = reverted
LEMMA CrashFlat ==
    ASSUME TypeOK, Crash
    PROVE CrashDoes
BY DEF CrashDoes, TypeOK, Crash, Pending, Renews, modeVars, providerVars, SameMode,
       SameProvider, Blank, Cleared, Idle, NoToken, OAuthToken, Nothing

-----------------------------------------------------------------------------
(* Types of the parts that the actions are built from.                     *)

\* The numbers in the variables.
LEMMA Numbers ==
    ASSUME TypeOK
    PROVE  /\ issued \in Nat /\ MaxIssued \in Nat /\ issued <= MaxIssued
           /\ Serial \subseteq Nat /\ live \in [Serial -> Serial]
           /\ stored.grant \in Serial /\ stored.access \in Serial /\ stored.refresh \in Serial
           /\ stored.expiry \in Serial
           /\ \A t \in Thread :
                 /\ rec[t].grant \in Serial /\ rec[t].access \in Serial /\ rec[t].refresh \in Serial
                 /\ rec[t].expiry \in Serial
                 /\ old[t].access \in Serial /\ old[t].refresh \in Serial
                 /\ old[t].expiry \in Serial
                 /\ new[t].access \in Serial /\ new[t].refresh \in Serial
                 /\ new[t].expiry \in Serial
                 /\ replaced[t] \in Serial
<1>1. \A r \in Token :
          /\ r.grant \in Serial /\ r.access \in Serial /\ r.refresh \in Serial
          /\ r.expiry \in Serial
  BY DEF Token
<1>2. Serial \subseteq Nat /\ MaxIssued \in Nat /\ (issued \in Serial => issued <= MaxIssued)
  BY MaxIssuedAssumption DEF Serial
<1>3. \A t \in Thread :
          rec[t] \in Token /\ old[t] \in Fields /\ new[t] \in Fields /\ replaced[t] \in Serial
  BY DEF TypeOK
<1>4. \A r \in Fields : r.access \in Serial /\ r.refresh \in Serial /\ r.expiry \in Serial
  BY DEF Fields
<1>. QED
  BY <1>1, <1>2, <1>3, <1>4 DEF TypeOK

\* The two locals that have no refresh token outside a refresh.
LEMMA Locals ==
    ASSUME TypeOK, NEW t \in Thread
    PROVE  /\ new[t].refresh # 0 <=> pc[t] \in Renewing
           /\ old[t].refresh # 0 <=> pc[t] \in Renewing \cup {"readExpiry", "exchange"}
BY DEF TypeOK

LEMMA TokenTypes ==
    /\ NoToken \in Token /\ ManualToken \in Token /\ Nothing \in Fields /\ 0 \in Serial
    /\ \A g, a, r \in Serial : OAuthToken(g, a, r) \in Token
<1>1. 0 \in Serial
  BY MaxIssuedAssumption DEF Serial
<1>2. \A g, a, r \in Serial : OAuthToken(g, a, r) \in Token
  BY DEF OAuthToken, Token
<1>3. OAuthToken(0, 0, 0) \in Token
  BY <1>1, <1>2
<1>4. \A r \in Token :
         /\ [r EXCEPT !.kind = "none"] \in Token
         /\ [r EXCEPT !.kind = "manual"] \in Token
  BY DEF Token
<1>5. Nothing \in Fields
  BY <1>1 DEF Nothing, Fields
<1>. QED
  BY <1>1, <1>2, <1>3, <1>4, <1>5 DEF NoToken, ManualToken

LEMMA GotoType ==
    ASSUME TypeOK, NEW t \in Thread, NEW label \in PC, Goto(t, label)
    PROVE  pc' \in [Thread -> PC]
BY DEF TypeOK, Goto

LEMMA ReturnsType ==
    ASSUME TypeOK, NEW t \in Thread, NEW label \in PC, RefreshReturns(t, label)
    PROVE  /\ pc' \in [Thread -> PC] /\ rec' \in [Thread -> Token]
           /\ old' \in [Thread -> Fields] /\ new' \in [Thread -> Fields]
BY TokenTypes, GotoType DEF TypeOK, RefreshReturns

LEMMA FinishedType ==
    ASSUME TypeOK, NEW t \in Thread, Finished(t)
    PROVE  /\ pc' \in [Thread -> PC] /\ rec' \in [Thread -> Token]
           /\ old' \in [Thread -> Fields] /\ new' \in [Thread -> Fields]
           /\ first' \in [Thread -> Token] /\ replaced' \in [Thread -> Serial]
           /\ renewed' \in [Thread -> BOOLEAN]
<1>1. "ready" \in PC
  BY DEF PC
<1>2. RefreshReturns(t, "ready")
  BY DEF Finished
<1>3. first' \in [Thread -> Token] /\ replaced' \in [Thread -> Serial]
  BY TokenTypes DEF TypeOK, Finished
<1>4. renewed' \in [Thread -> BOOLEAN]
  BY DEF TypeOK, Finished
<1>. QED
  BY <1>1, <1>2, <1>3, <1>4, ReturnsType

LEMMA IssueType ==
    ASSUME TypeOK, Issue
    PROVE  /\ issued' \in Serial /\ issued + 1 \in Serial /\ 1..issued \subseteq 1..issued'
           /\ fresh' \subseteq 1..issued' /\ undated' \subseteq 1..issued'
           /\ fresh' \cap undated' = {}
<1>1. issued \in Nat /\ MaxIssued \in Nat /\ issued < MaxIssued /\ issued' = issued + 1
  BY Numbers DEF Issue
<1>2. /\ issued' \in Serial /\ 1..issued \subseteq 1..issued' /\ issued + 1 \in 1..issued'
      /\ issued + 1 \notin 1..issued
  BY <1>1 DEF Serial
<1>. QED
  BY <1>1, <1>2 DEF TypeOK, Issue

LEMMA ReadType ==
    ASSUME TypeOK, NEW t \in Thread, NEW from, NEW to \in PC,
           \/ ReadField(t, "access", from, to)
           \/ ReadField(t, "refresh", from, to)
           \/ ReadField(t, "expiry", from, to)
    PROVE  old' \in [Thread -> Fields] /\ pc' \in [Thread -> PC]
<1>1. \A r \in Fields, n \in Serial :
          /\ [r EXCEPT !["access"] = n] \in Fields /\ [r EXCEPT !["refresh"] = n] \in Fields
          /\ [r EXCEPT !["expiry"] = n] \in Fields
  BY DEF Fields
<1>2. rec[t]["access"] \in Serial /\ rec[t]["refresh"] \in Serial /\ rec[t]["expiry"] \in Serial
  BY DEF TypeOK, Token
<1>3. pc' \in [Thread -> PC]
  BY GotoType DEF ReadField
<1>4. CASE ReadField(t, "access", from, to)
  BY <1>1, <1>2, <1>3, <1>4 DEF TypeOK, ReadField
<1>5. CASE ReadField(t, "refresh", from, to)
  BY <1>1, <1>2, <1>3, <1>5 DEF TypeOK, ReadField
<1>6. CASE ReadField(t, "expiry", from, to)
  BY <1>1, <1>2, <1>3, <1>6 DEF TypeOK, ReadField
<1>. QED
  BY <1>4, <1>5, <1>6

LEMMA AssignType ==
    ASSUME TypeOK, NEW t \in Thread, NEW from, NEW to \in PC,
           \/ Assign(t, "access", from, to)
           \/ Assign(t, "refresh", from, to)
           \/ Assign(t, "expiry", from, to)
    PROVE  /\ stored' \in Token /\ first' \in [Thread -> Token] /\ rec' \in [Thread -> Token]
           /\ pc' \in [Thread -> PC]
<1>1. \A r \in Token, n \in Serial :
          /\ [r EXCEPT !["access"] = n] \in Token /\ [r EXCEPT !["refresh"] = n] \in Token
          /\ [r EXCEPT !["expiry"] = n] \in Token
  BY DEF Token
<1>2. new[t]["access"] \in Serial /\ new[t]["refresh"] \in Serial /\ new[t]["expiry"] \in Serial
  BY DEF TypeOK, Fields
<1>3. CASE Assign(t, "access", from, to)
  BY <1>1, <1>2, <1>3, GotoType DEF TypeOK, Assign
<1>4. CASE Assign(t, "refresh", from, to)
  BY <1>1, <1>2, <1>4, GotoType DEF TypeOK, Assign
<1>5. CASE Assign(t, "expiry", from, to)
  BY <1>1, <1>2, <1>5, GotoType DEF TypeOK, Assign
<1>. QED
  BY <1>3, <1>4, <1>5

\* A record under a refresh belongs to a grant.
LEMMA GrantNumbers ==
    ASSUME IInv, NEW t \in Thread, HasRecord(t)
    PROVE  rec[t].grant \in 1..issued
BY DEF IInv, PhaseInv, NumbersInv, Numbered

\* The number of the next answer is not in use.
LEMMA NewSerial ==
    ASSUME IInv, issued < MaxIssued
    PROVE  /\ issued + 1 \in Serial /\ issued + 1 # 0
           /\ stored.grant # issued + 1 /\ stored.access # issued + 1
           /\ stored.refresh # issued + 1 /\ stored.expiry # issued + 1
           /\ \A t \in Thread :
                 /\ rec[t].grant # issued + 1 /\ rec[t].access # issued + 1
                 /\ rec[t].refresh # issued + 1 /\ rec[t].expiry # issued + 1
                 /\ old[t].access # issued + 1 /\ old[t].refresh # issued + 1
                 /\ new[t].access # issued + 1 /\ new[t].refresh # issued + 1
                 /\ replaced[t] # issued + 1
<1>1. issued + 1 \in Serial /\ issued + 1 # 0
  <2>1. issued \in Nat /\ MaxIssued \in Nat
    BY Numbers DEF IInv
  <2>. QED
    BY <2>1 DEF Serial
<1>2. ASSUME NEW r, r.grant \in Serial, r.access \in Serial, Numbered(r)
      PROVE  /\ r.grant # issued + 1 /\ r.access # issued + 1
             /\ r.refresh # issued + 1 /\ r.expiry # issued + 1
  BY <1>2, Numbers DEF IInv, Numbered, Serial
<1>3. stored.grant \in Serial /\ stored.access \in Serial
      /\ \A t \in Thread : rec[t].grant \in Serial /\ rec[t].access \in Serial
  BY Numbers DEF IInv
<1>. QED
  BY <1>1, <1>2, <1>3, Numbers DEF IInv, NumbersInv

-----------------------------------------------------------------------------
(* The types, action by action.                                            *)

LEMMA RefreshReadType ==
    ASSUME IInv, NEW t \in Thread, RefreshRead(t)
    PROVE  TypeOK'
<1>1. TypeOK
  BY DEF IInv
<1>2. \A u \in Thread :
          /\ new'[u].refresh # 0 <=> pc'[u] \in Renewing
          /\ old'[u].refresh # 0 <=> pc'[u] \in Renewing \cup {"readExpiry", "exchange"}
  BY <1>1, RefreshReadFlat, Locals DEF RefreshReadDoes, Renewing, OnlyMoves, Same, Blank,
         Cleared, SameRefresh
<1>3. /\ durable' \in BOOLEAN /\ rotates' \in BOOLEAN
      /\ stored' \in Token /\ pc' \in [Thread -> PC]
      /\ first' \in [Thread -> Token] /\ rec' \in [Thread -> Token]
  BY <1>1, GotoType, ReturnsType DEF TypeOK, RefreshRead, PC, Reading, Renewing, modeVars,
         providerVars, historyVars
<1>4. /\ old' \in [Thread -> Fields] /\ new' \in [Thread -> Fields]
      /\ replaced' \in [Thread -> Serial] /\ renewed' \in [Thread -> BOOLEAN]
  BY <1>1, GotoType, ReturnsType DEF TypeOK, RefreshRead, PC, Reading, Renewing, modeVars,
         providerVars, historyVars
<1>5. /\ issued' \in Serial /\ live' \in [Serial -> Serial]
      /\ fresh' \subseteq 1..issued' /\ undated' \subseteq 1..issued'
      /\ fresh' \cap undated' = {}
      /\ lost' \subseteq 1..issued' /\ reverted' \subseteq 1..issued'
  BY <1>1, GotoType, ReturnsType DEF TypeOK, RefreshRead, PC, Reading, Renewing, modeVars,
         providerVars, historyVars
<1>. QED
  BY <1>2, <1>3, <1>4, <1>5 DEF TypeOK

LEMMA RefreshCheckType ==
    ASSUME IInv, NEW t \in Thread, RefreshCheck(t)
    PROVE  TypeOK'
<1>1. TypeOK
  BY DEF IInv
<1>2. \A u \in Thread :
          /\ new'[u].refresh # 0 <=> pc'[u] \in Renewing
          /\ old'[u].refresh # 0 <=> pc'[u] \in Renewing \cup {"readExpiry", "exchange"}
  BY <1>1, RefreshCheckFlat, Locals DEF RefreshCheckDoes, Renewing, OnlyMoves, Same, Blank,
         Cleared, SameRefresh
<1>3. /\ durable' \in BOOLEAN /\ rotates' \in BOOLEAN
      /\ stored' \in Token /\ pc' \in [Thread -> PC]
      /\ first' \in [Thread -> Token] /\ rec' \in [Thread -> Token]
  BY <1>1, GotoType, ReturnsType DEF TypeOK, RefreshCheck, PC, Reading, Renewing, modeVars,
         providerVars, historyVars
<1>4. /\ old' \in [Thread -> Fields] /\ new' \in [Thread -> Fields]
      /\ replaced' \in [Thread -> Serial] /\ renewed' \in [Thread -> BOOLEAN]
  BY <1>1, GotoType, ReturnsType DEF TypeOK, RefreshCheck, PC, Reading, Renewing, modeVars,
         providerVars, historyVars
<1>5. /\ issued' \in Serial /\ live' \in [Serial -> Serial]
      /\ fresh' \subseteq 1..issued' /\ undated' \subseteq 1..issued'
      /\ fresh' \cap undated' = {}
      /\ lost' \subseteq 1..issued' /\ reverted' \subseteq 1..issued'
  BY <1>1, GotoType, ReturnsType DEF TypeOK, RefreshCheck, PC, Reading, Renewing, modeVars,
         providerVars, historyVars
<1>. QED
  BY <1>2, <1>3, <1>4, <1>5 DEF TypeOK

LEMMA ReadAccessType ==
    ASSUME IInv, NEW t \in Thread, ReadAccess(t)
    PROVE  TypeOK'
<1>1. TypeOK
  BY DEF IInv
<1>2. \A u \in Thread :
          /\ new'[u].refresh # 0 <=> pc'[u] \in Renewing
          /\ old'[u].refresh # 0 <=> pc'[u] \in Renewing \cup {"readExpiry", "exchange"}
  BY <1>1, ReadAccessFlat, Locals DEF ReadAccessDoes, Renewing, OnlyMoves, Same, Reads,
         SameRefresh
<1>3. /\ durable' \in BOOLEAN /\ rotates' \in BOOLEAN
      /\ stored' \in Token /\ pc' \in [Thread -> PC]
      /\ first' \in [Thread -> Token] /\ rec' \in [Thread -> Token]
  BY <1>1, ReadType DEF TypeOK, ReadAccess, PC, Reading, Renewing, modeVars, providerVars,
         historyVars, ReadField
<1>4. /\ old' \in [Thread -> Fields] /\ new' \in [Thread -> Fields]
      /\ replaced' \in [Thread -> Serial] /\ renewed' \in [Thread -> BOOLEAN]
  BY <1>1, ReadType DEF TypeOK, ReadAccess, PC, Reading, Renewing, modeVars, providerVars,
         historyVars, ReadField
<1>5. /\ issued' \in Serial /\ live' \in [Serial -> Serial]
      /\ fresh' \subseteq 1..issued' /\ undated' \subseteq 1..issued'
      /\ fresh' \cap undated' = {}
      /\ lost' \subseteq 1..issued' /\ reverted' \subseteq 1..issued'
  BY <1>1, ReadType DEF TypeOK, ReadAccess, PC, Reading, Renewing, modeVars, providerVars,
         historyVars, ReadField
<1>. QED
  BY <1>2, <1>3, <1>4, <1>5 DEF TypeOK

LEMMA ReadRefreshType ==
    ASSUME IInv, NEW t \in Thread, ReadRefresh(t)
    PROVE  TypeOK'
<1>1. TypeOK
  BY DEF IInv
<1>2. \A u \in Thread :
          /\ new'[u].refresh # 0 <=> pc'[u] \in Renewing
          /\ old'[u].refresh # 0 <=> pc'[u] \in Renewing \cup {"readExpiry", "exchange"}
  BY <1>1, ReadRefreshFlat, Locals DEF IInv, ReadRefreshDoes, Renewing, OnlyMoves, Same,
         Reads, SameRefresh, PhaseInv, Reading
<1>3. /\ durable' \in BOOLEAN /\ rotates' \in BOOLEAN
      /\ stored' \in Token /\ pc' \in [Thread -> PC]
      /\ first' \in [Thread -> Token] /\ rec' \in [Thread -> Token]
  BY <1>1, ReadType DEF TypeOK, ReadRefresh, PC, Reading, Renewing, modeVars, providerVars,
         historyVars, ReadField
<1>4. /\ old' \in [Thread -> Fields] /\ new' \in [Thread -> Fields]
      /\ replaced' \in [Thread -> Serial] /\ renewed' \in [Thread -> BOOLEAN]
  BY <1>1, ReadType DEF TypeOK, ReadRefresh, PC, Reading, Renewing, modeVars, providerVars,
         historyVars, ReadField
<1>5. /\ issued' \in Serial /\ live' \in [Serial -> Serial]
      /\ fresh' \subseteq 1..issued' /\ undated' \subseteq 1..issued'
      /\ fresh' \cap undated' = {}
      /\ lost' \subseteq 1..issued' /\ reverted' \subseteq 1..issued'
  BY <1>1, ReadType DEF TypeOK, ReadRefresh, PC, Reading, Renewing, modeVars, providerVars,
         historyVars, ReadField
<1>. QED
  BY <1>2, <1>3, <1>4, <1>5 DEF TypeOK

LEMMA ReadExpiryType ==
    ASSUME IInv, NEW t \in Thread, ReadExpiry(t)
    PROVE  TypeOK'
<1>1. TypeOK
  BY DEF IInv
<1>2. \A u \in Thread :
          /\ new'[u].refresh # 0 <=> pc'[u] \in Renewing
          /\ old'[u].refresh # 0 <=> pc'[u] \in Renewing \cup {"readExpiry", "exchange"}
  BY <1>1, ReadExpiryFlat, Locals DEF ReadExpiryDoes, Renewing, OnlyMoves, Same, Reads,
         SameRefresh
<1>3. /\ durable' \in BOOLEAN /\ rotates' \in BOOLEAN
      /\ stored' \in Token /\ pc' \in [Thread -> PC]
      /\ first' \in [Thread -> Token] /\ rec' \in [Thread -> Token]
  BY <1>1, ReadType DEF TypeOK, ReadExpiry, PC, Reading, Renewing, modeVars, providerVars,
         historyVars, ReadField
<1>4. /\ old' \in [Thread -> Fields] /\ new' \in [Thread -> Fields]
      /\ replaced' \in [Thread -> Serial] /\ renewed' \in [Thread -> BOOLEAN]
  BY <1>1, ReadType DEF TypeOK, ReadExpiry, PC, Reading, Renewing, modeVars, providerVars,
         historyVars, ReadField
<1>5. /\ issued' \in Serial /\ live' \in [Serial -> Serial]
      /\ fresh' \subseteq 1..issued' /\ undated' \subseteq 1..issued'
      /\ fresh' \cap undated' = {}
      /\ lost' \subseteq 1..issued' /\ reverted' \subseteq 1..issued'
  BY <1>1, ReadType DEF TypeOK, ReadExpiry, PC, Reading, Renewing, modeVars, providerVars,
         historyVars, ReadField
<1>. QED
  BY <1>2, <1>3, <1>4, <1>5 DEF TypeOK

LEMMA RefreshReusesType ==
    ASSUME IInv, NEW t \in Thread, RefreshReuses(t)
    PROVE  TypeOK'
<1>1. TypeOK
  BY DEF IInv
<1>2. \A u \in Thread :
          /\ new'[u].refresh # 0 <=> pc'[u] \in Renewing
          /\ old'[u].refresh # 0 <=> pc'[u] \in Renewing \cup {"readExpiry", "exchange"}
  BY <1>1, RefreshReusesFlat, Locals DEF RefreshReusesDoes, Renewing, OnlyMoves, Same,
         SameRefresh
<1>3. /\ durable' \in BOOLEAN /\ rotates' \in BOOLEAN
      /\ stored' \in Token /\ pc' \in [Thread -> PC]
      /\ first' \in [Thread -> Token] /\ rec' \in [Thread -> Token]
  BY <1>1, GotoType DEF TypeOK, RefreshReuses, PC, Reading, Renewing, modeVars,
         providerVars, historyVars, Goto
<1>4. /\ old' \in [Thread -> Fields] /\ new' \in [Thread -> Fields]
      /\ replaced' \in [Thread -> Serial] /\ renewed' \in [Thread -> BOOLEAN]
  BY <1>1, GotoType DEF TypeOK, RefreshReuses, PC, Reading, Renewing, modeVars,
         providerVars, historyVars, Goto
<1>5. /\ issued' \in Serial /\ live' \in [Serial -> Serial]
      /\ fresh' \subseteq 1..issued' /\ undated' \subseteq 1..issued'
      /\ fresh' \cap undated' = {}
      /\ lost' \subseteq 1..issued' /\ reverted' \subseteq 1..issued'
  BY <1>1, GotoType DEF TypeOK, RefreshReuses, PC, Reading, Renewing, modeVars,
         providerVars, historyVars, Goto
<1>. QED
  BY <1>2, <1>3, <1>4, <1>5 DEF TypeOK

LEMMA RefreshExchangeType ==
    ASSUME IInv, NEW t \in Thread, RefreshExchange(t)
    PROVE  TypeOK'
<1>1. TypeOK
  BY DEF IInv
<1>2. \A u \in Thread :
          /\ new'[u].refresh # 0 <=> pc'[u] \in Renewing
          /\ old'[u].refresh # 0 <=> pc'[u] \in Renewing \cup {"readExpiry", "exchange"}
  BY <1>1, RefreshExchangeFlat, Locals, NewSerial DEF RefreshExchangeDoes, Renewing,
         OnlyMoves, Same, Answers, SameMode
<1>3. /\ durable' \in BOOLEAN /\ rotates' \in BOOLEAN
      /\ stored' \in Token /\ pc' \in [Thread -> PC]
      /\ first' \in [Thread -> Token] /\ rec' \in [Thread -> Token]
  BY <1>1, GotoType, IssueType DEF TypeOK, RefreshExchange, PC, Reading, Renewing, modeVars,
         providerVars, historyVars, ProviderRefreshes, Issue, Fields, Serial
<1>4. /\ old' \in [Thread -> Fields] /\ new' \in [Thread -> Fields]
      /\ replaced' \in [Thread -> Serial] /\ renewed' \in [Thread -> BOOLEAN]
  BY <1>1, GotoType, IssueType, Numbers DEF TypeOK, RefreshExchange, PC, Reading, Renewing,
         modeVars, providerVars, historyVars, ProviderRefreshes, Issue, Fields, Serial
<1>5. /\ issued' \in Serial /\ live' \in [Serial -> Serial]
      /\ fresh' \subseteq 1..issued' /\ undated' \subseteq 1..issued'
      /\ fresh' \cap undated' = {}
      /\ lost' \subseteq 1..issued' /\ reverted' \subseteq 1..issued'
  BY <1>1, GotoType, IssueType DEF TypeOK, RefreshExchange, PC, Reading, Renewing, modeVars,
         providerVars, historyVars, ProviderRefreshes, Issue, Fields, Serial
<1>. QED
  BY <1>2, <1>3, <1>4, <1>5 DEF TypeOK

LEMMA RefreshAnswerLostType ==
    ASSUME IInv, NEW t \in Thread, RefreshAnswerLost(t)
    PROVE  TypeOK'
<1>1. TypeOK
  BY DEF IInv
<1>2. \A u \in Thread :
          /\ new'[u].refresh # 0 <=> pc'[u] \in Renewing
          /\ old'[u].refresh # 0 <=> pc'[u] \in Renewing \cup {"readExpiry", "exchange"}
  BY <1>1, RefreshAnswerLostFlat, Locals DEF RefreshAnswerLostDoes, Renewing, OnlyMoves,
         Same, Blank, Cleared, SameRefresh
<1>3. /\ durable' \in BOOLEAN /\ rotates' \in BOOLEAN
      /\ stored' \in Token /\ pc' \in [Thread -> PC]
      /\ first' \in [Thread -> Token] /\ rec' \in [Thread -> Token]
  BY <1>1, ReturnsType, IssueType, GrantNumbers DEF TypeOK, RefreshAnswerLost, PC, Reading,
         Renewing, modeVars, providerVars, historyVars, ProviderRefreshes, HasRecord
<1>4. /\ old' \in [Thread -> Fields] /\ new' \in [Thread -> Fields]
      /\ replaced' \in [Thread -> Serial] /\ renewed' \in [Thread -> BOOLEAN]
  BY <1>1, ReturnsType, IssueType, GrantNumbers DEF TypeOK, RefreshAnswerLost, PC, Reading,
         Renewing, modeVars, providerVars, historyVars, ProviderRefreshes, HasRecord
<1>5. /\ issued' \in Serial /\ live' \in [Serial -> Serial]
      /\ fresh' \subseteq 1..issued' /\ undated' \subseteq 1..issued'
      /\ fresh' \cap undated' = {}
      /\ lost' \subseteq 1..issued' /\ reverted' \subseteq 1..issued'
  BY <1>1, ReturnsType, IssueType, GrantNumbers DEF TypeOK, RefreshAnswerLost, PC, Reading,
         Renewing, modeVars, providerVars, historyVars, ProviderRefreshes, HasRecord
<1>. QED
  BY <1>2, <1>3, <1>4, <1>5 DEF TypeOK

LEMMA RefreshRefusedType ==
    ASSUME IInv, NEW t \in Thread, RefreshRefused(t)
    PROVE  TypeOK'
<1>1. TypeOK
  BY DEF IInv
<1>2. \A u \in Thread :
          /\ new'[u].refresh # 0 <=> pc'[u] \in Renewing
          /\ old'[u].refresh # 0 <=> pc'[u] \in Renewing \cup {"readExpiry", "exchange"}
  BY <1>1, RefreshRefusedFlat, Locals DEF RefreshRefusedDoes, Renewing, OnlyMoves, Same,
         Blank, Cleared, SameRefresh
<1>3. /\ durable' \in BOOLEAN /\ rotates' \in BOOLEAN
      /\ stored' \in Token /\ pc' \in [Thread -> PC]
      /\ first' \in [Thread -> Token] /\ rec' \in [Thread -> Token]
  BY <1>1, ReturnsType DEF TypeOK, RefreshRefused, PC, Reading, Renewing, modeVars,
         providerVars, historyVars
<1>4. /\ old' \in [Thread -> Fields] /\ new' \in [Thread -> Fields]
      /\ replaced' \in [Thread -> Serial] /\ renewed' \in [Thread -> BOOLEAN]
  BY <1>1, ReturnsType DEF TypeOK, RefreshRefused, PC, Reading, Renewing, modeVars,
         providerVars, historyVars
<1>5. /\ issued' \in Serial /\ live' \in [Serial -> Serial]
      /\ fresh' \subseteq 1..issued' /\ undated' \subseteq 1..issued'
      /\ fresh' \cap undated' = {}
      /\ lost' \subseteq 1..issued' /\ reverted' \subseteq 1..issued'
  BY <1>1, ReturnsType DEF TypeOK, RefreshRefused, PC, Reading, Renewing, modeVars,
         providerVars, historyVars
<1>. QED
  BY <1>2, <1>3, <1>4, <1>5 DEF TypeOK

LEMMA SetAccessType ==
    ASSUME IInv, NEW t \in Thread, SetAccess(t)
    PROVE  TypeOK'
<1>1. TypeOK
  BY DEF IInv
<1>2. \A u \in Thread :
          /\ new'[u].refresh # 0 <=> pc'[u] \in Renewing
          /\ old'[u].refresh # 0 <=> pc'[u] \in Renewing \cup {"readExpiry", "exchange"}
  BY <1>1, SetAccessFlat, Locals DEF SetAccessDoes, Renewing, Assigns, SameCall
<1>3. /\ durable' \in BOOLEAN /\ rotates' \in BOOLEAN
      /\ stored' \in Token /\ pc' \in [Thread -> PC]
      /\ first' \in [Thread -> Token] /\ rec' \in [Thread -> Token]
  BY <1>1, AssignType, GrantNumbers DEF TypeOK, SetAccess, PC, Reading, Renewing, modeVars,
         providerVars, historyVars, Assign, HasRecord
<1>4. /\ old' \in [Thread -> Fields] /\ new' \in [Thread -> Fields]
      /\ replaced' \in [Thread -> Serial] /\ renewed' \in [Thread -> BOOLEAN]
  BY <1>1, AssignType, GrantNumbers DEF TypeOK, SetAccess, PC, Reading, Renewing, modeVars,
         providerVars, historyVars, Assign, HasRecord
<1>5. /\ issued' \in Serial /\ live' \in [Serial -> Serial]
      /\ fresh' \subseteq 1..issued' /\ undated' \subseteq 1..issued'
      /\ fresh' \cap undated' = {}
      /\ lost' \subseteq 1..issued' /\ reverted' \subseteq 1..issued'
  BY <1>1, AssignType, GrantNumbers DEF TypeOK, SetAccess, PC, Reading, Renewing, modeVars,
         providerVars, historyVars, Assign, HasRecord
<1>. QED
  BY <1>2, <1>3, <1>4, <1>5 DEF TypeOK

LEMMA SetRefreshType ==
    ASSUME IInv, NEW t \in Thread, SetRefresh(t)
    PROVE  TypeOK'
<1>1. TypeOK
  BY DEF IInv
<1>2. \A u \in Thread :
          /\ new'[u].refresh # 0 <=> pc'[u] \in Renewing
          /\ old'[u].refresh # 0 <=> pc'[u] \in Renewing \cup {"readExpiry", "exchange"}
  BY <1>1, SetRefreshFlat, Locals DEF SetRefreshDoes, Renewing, Assigns, SameCall
<1>3. /\ durable' \in BOOLEAN /\ rotates' \in BOOLEAN
      /\ stored' \in Token /\ pc' \in [Thread -> PC]
      /\ first' \in [Thread -> Token] /\ rec' \in [Thread -> Token]
  BY <1>1, AssignType, GrantNumbers DEF TypeOK, SetRefresh, PC, Reading, Renewing, modeVars,
         providerVars, historyVars, Assign, HasRecord
<1>4. /\ old' \in [Thread -> Fields] /\ new' \in [Thread -> Fields]
      /\ replaced' \in [Thread -> Serial] /\ renewed' \in [Thread -> BOOLEAN]
  BY <1>1, AssignType, GrantNumbers DEF TypeOK, SetRefresh, PC, Reading, Renewing, modeVars,
         providerVars, historyVars, Assign, HasRecord
<1>5. /\ issued' \in Serial /\ live' \in [Serial -> Serial]
      /\ fresh' \subseteq 1..issued' /\ undated' \subseteq 1..issued'
      /\ fresh' \cap undated' = {}
      /\ lost' \subseteq 1..issued' /\ reverted' \subseteq 1..issued'
  BY <1>1, AssignType, GrantNumbers DEF TypeOK, SetRefresh, PC, Reading, Renewing, modeVars,
         providerVars, historyVars, Assign, HasRecord
<1>. QED
  BY <1>2, <1>3, <1>4, <1>5 DEF TypeOK

LEMMA SetExpiryType ==
    ASSUME IInv, NEW t \in Thread, SetExpiry(t)
    PROVE  TypeOK'
<1>1. TypeOK
  BY DEF IInv
<1>2. \A u \in Thread :
          /\ new'[u].refresh # 0 <=> pc'[u] \in Renewing
          /\ old'[u].refresh # 0 <=> pc'[u] \in Renewing \cup {"readExpiry", "exchange"}
  BY <1>1, SetExpiryFlat, Locals DEF SetExpiryDoes, Renewing, Assigns, SameCall
<1>3. /\ durable' \in BOOLEAN /\ rotates' \in BOOLEAN
      /\ stored' \in Token /\ pc' \in [Thread -> PC]
      /\ first' \in [Thread -> Token] /\ rec' \in [Thread -> Token]
  BY <1>1, AssignType, GrantNumbers DEF TypeOK, SetExpiry, PC, Reading, Renewing, modeVars,
         providerVars, historyVars, Assign, HasRecord
<1>4. /\ old' \in [Thread -> Fields] /\ new' \in [Thread -> Fields]
      /\ replaced' \in [Thread -> Serial] /\ renewed' \in [Thread -> BOOLEAN]
  BY <1>1, AssignType, GrantNumbers DEF TypeOK, SetExpiry, PC, Reading, Renewing, modeVars,
         providerVars, historyVars, Assign, HasRecord
<1>5. /\ issued' \in Serial /\ live' \in [Serial -> Serial]
      /\ fresh' \subseteq 1..issued' /\ undated' \subseteq 1..issued'
      /\ fresh' \cap undated' = {}
      /\ lost' \subseteq 1..issued' /\ reverted' \subseteq 1..issued'
  BY <1>1, AssignType, GrantNumbers DEF TypeOK, SetExpiry, PC, Reading, Renewing, modeVars,
         providerVars, historyVars, Assign, HasRecord
<1>. QED
  BY <1>2, <1>3, <1>4, <1>5 DEF TypeOK

LEMMA RefreshSaveType ==
    ASSUME IInv, NEW t \in Thread, RefreshSave(t)
    PROVE  TypeOK'
<1>1. TypeOK
  BY DEF IInv
<1>2. \A u \in Thread :
          /\ new'[u].refresh # 0 <=> pc'[u] \in Renewing
          /\ old'[u].refresh # 0 <=> pc'[u] \in Renewing \cup {"readExpiry", "exchange"}
  BY <1>1, RefreshSaveFlat, Locals DEF RefreshSaveDoes, Renewing, OnlyMoves, Same, Blank,
         Cleared, SameRefresh
<1>3. /\ durable' \in BOOLEAN /\ rotates' \in BOOLEAN
      /\ stored' \in Token /\ pc' \in [Thread -> PC]
      /\ first' \in [Thread -> Token] /\ rec' \in [Thread -> Token]
  BY <1>1, ReturnsType, GrantNumbers DEF TypeOK, RefreshSave, PC, Reading, Renewing,
         modeVars, providerVars, historyVars, Pending, HasRecord
<1>4. /\ old' \in [Thread -> Fields] /\ new' \in [Thread -> Fields]
      /\ replaced' \in [Thread -> Serial] /\ renewed' \in [Thread -> BOOLEAN]
  BY <1>1, ReturnsType, GrantNumbers DEF TypeOK, RefreshSave, PC, Reading, Renewing,
         modeVars, providerVars, historyVars, Pending, HasRecord
<1>5. /\ issued' \in Serial /\ live' \in [Serial -> Serial]
      /\ fresh' \subseteq 1..issued' /\ undated' \subseteq 1..issued'
      /\ fresh' \cap undated' = {}
      /\ lost' \subseteq 1..issued' /\ reverted' \subseteq 1..issued'
  BY <1>1, ReturnsType, GrantNumbers DEF TypeOK, RefreshSave, PC, Reading, Renewing,
         modeVars, providerVars, historyVars, Pending, HasRecord
<1>. QED
  BY <1>2, <1>3, <1>4, <1>5 DEF TypeOK

LEMMA RefetchType ==
    ASSUME IInv, NEW t \in Thread, Refetch(t)
    PROVE  TypeOK'
<1>1. TypeOK
  BY DEF IInv
<1>2. \A u \in Thread :
          /\ new'[u].refresh # 0 <=> pc'[u] \in Renewing
          /\ old'[u].refresh # 0 <=> pc'[u] \in Renewing \cup {"readExpiry", "exchange"}
  BY <1>1, RefetchFlat, Locals DEF RefetchDoes, Renewing, OnlyMoves, Same
<1>3. /\ durable' \in BOOLEAN /\ rotates' \in BOOLEAN
      /\ stored' \in Token /\ pc' \in [Thread -> PC]
      /\ first' \in [Thread -> Token] /\ rec' \in [Thread -> Token]
  BY <1>1, GotoType DEF TypeOK, Refetch, PC, Reading, Renewing, modeVars, providerVars,
         historyVars
<1>4. /\ old' \in [Thread -> Fields] /\ new' \in [Thread -> Fields]
      /\ replaced' \in [Thread -> Serial] /\ renewed' \in [Thread -> BOOLEAN]
  BY <1>1, GotoType DEF TypeOK, Refetch, PC, Reading, Renewing, modeVars, providerVars,
         historyVars
<1>5. /\ issued' \in Serial /\ live' \in [Serial -> Serial]
      /\ fresh' \subseteq 1..issued' /\ undated' \subseteq 1..issued'
      /\ fresh' \cap undated' = {}
      /\ lost' \subseteq 1..issued' /\ reverted' \subseteq 1..issued'
  BY <1>1, GotoType DEF TypeOK, Refetch, PC, Reading, Renewing, modeVars, providerVars,
         historyVars
<1>. QED
  BY <1>2, <1>3, <1>4, <1>5 DEF TypeOK

LEMMA ServeType ==
    ASSUME IInv, NEW t \in Thread, Serve(t)
    PROVE  TypeOK'
<1>1. TypeOK
  BY DEF IInv
<1>2. \A u \in Thread :
          /\ new'[u].refresh # 0 <=> pc'[u] \in Renewing
          /\ old'[u].refresh # 0 <=> pc'[u] \in Renewing \cup {"readExpiry", "exchange"}
  BY <1>1, ServeFlat, Locals DEF ServeDoes, Renewing, OnlyMoves, Same, Blank, Cleared, Idle
<1>3. /\ durable' \in BOOLEAN /\ rotates' \in BOOLEAN
      /\ stored' \in Token /\ pc' \in [Thread -> PC]
      /\ first' \in [Thread -> Token] /\ rec' \in [Thread -> Token]
  BY <1>1, FinishedType DEF TypeOK, Serve, PC, Reading, Renewing, modeVars, providerVars,
         historyVars
<1>4. /\ old' \in [Thread -> Fields] /\ new' \in [Thread -> Fields]
      /\ replaced' \in [Thread -> Serial] /\ renewed' \in [Thread -> BOOLEAN]
  BY <1>1, FinishedType DEF TypeOK, Serve, PC, Reading, Renewing, modeVars, providerVars,
         historyVars
<1>5. /\ issued' \in Serial /\ live' \in [Serial -> Serial]
      /\ fresh' \subseteq 1..issued' /\ undated' \subseteq 1..issued'
      /\ fresh' \cap undated' = {}
      /\ lost' \subseteq 1..issued' /\ reverted' \subseteq 1..issued'
  BY <1>1, FinishedType DEF TypeOK, Serve, PC, Reading, Renewing, modeVars, providerVars,
         historyVars
<1>. QED
  BY <1>2, <1>3, <1>4, <1>5 DEF TypeOK

LEMMA CallbackSaveType ==
    ASSUME IInv, NEW t \in Thread, CallbackSave(t)
    PROVE  TypeOK'
<1>1. TypeOK
  BY DEF IInv
<1>2. \A u \in Thread :
          /\ new'[u].refresh # 0 <=> pc'[u] \in Renewing
          /\ old'[u].refresh # 0 <=> pc'[u] \in Renewing \cup {"readExpiry", "exchange"}
  BY <1>1, CallbackSaveFlat, Locals DEF CallbackSaveDoes, Renewing, OnlyMoves, Same, Blank,
         Cleared, Idle
<1>3. /\ durable' \in BOOLEAN /\ rotates' \in BOOLEAN
      /\ stored' \in Token /\ pc' \in [Thread -> PC]
      /\ first' \in [Thread -> Token] /\ rec' \in [Thread -> Token]
  BY <1>1, FinishedType DEF TypeOK, CallbackSave, PC, Reading, Renewing, modeVars,
         providerVars, historyVars
<1>4. /\ old' \in [Thread -> Fields] /\ new' \in [Thread -> Fields]
      /\ replaced' \in [Thread -> Serial] /\ renewed' \in [Thread -> BOOLEAN]
  BY <1>1, FinishedType DEF TypeOK, CallbackSave, PC, Reading, Renewing, modeVars,
         providerVars, historyVars
<1>5. /\ issued' \in Serial /\ live' \in [Serial -> Serial]
      /\ fresh' \subseteq 1..issued' /\ undated' \subseteq 1..issued'
      /\ fresh' \cap undated' = {}
      /\ lost' \subseteq 1..issued' /\ reverted' \subseteq 1..issued'
  BY <1>1, FinishedType DEF TypeOK, CallbackSave, PC, Reading, Renewing, modeVars,
         providerVars, historyVars
<1>. QED
  BY <1>2, <1>3, <1>4, <1>5 DEF TypeOK

LEMMA GetUserTokenType ==
    ASSUME IInv, NEW t \in Thread, GetUserToken(t)
    PROVE  TypeOK'
<1>1. TypeOK
  BY DEF IInv
<1>2. \A u \in Thread :
          /\ new'[u].refresh # 0 <=> pc'[u] \in Renewing
          /\ old'[u].refresh # 0 <=> pc'[u] \in Renewing \cup {"readExpiry", "exchange"}
  BY <1>1, GetUserTokenFlat, Locals DEF GetUserTokenDoes, Renewing, OnlyMoves, Same
<1>3. /\ durable' \in BOOLEAN /\ rotates' \in BOOLEAN
      /\ stored' \in Token /\ pc' \in [Thread -> PC]
      /\ first' \in [Thread -> Token] /\ rec' \in [Thread -> Token]
  BY <1>1, GotoType DEF TypeOK, GetUserToken, PC, Reading, Renewing, modeVars, providerVars,
         historyVars
<1>4. /\ old' \in [Thread -> Fields] /\ new' \in [Thread -> Fields]
      /\ replaced' \in [Thread -> Serial] /\ renewed' \in [Thread -> BOOLEAN]
  BY <1>1, GotoType DEF TypeOK, GetUserToken, PC, Reading, Renewing, modeVars, providerVars,
         historyVars
<1>5. /\ issued' \in Serial /\ live' \in [Serial -> Serial]
      /\ fresh' \subseteq 1..issued' /\ undated' \subseteq 1..issued'
      /\ fresh' \cap undated' = {}
      /\ lost' \subseteq 1..issued' /\ reverted' \subseteq 1..issued'
  BY <1>1, GotoType DEF TypeOK, GetUserToken, PC, Reading, Renewing, modeVars, providerVars,
         historyVars
<1>. QED
  BY <1>2, <1>3, <1>4, <1>5 DEF TypeOK

LEMMA HandleCallbackType ==
    ASSUME IInv, NEW t \in Thread, HandleCallback(t)
    PROVE  TypeOK'
<1>1. TypeOK
  BY DEF IInv
<1>2. \A u \in Thread :
          /\ new'[u].refresh # 0 <=> pc'[u] \in Renewing
          /\ old'[u].refresh # 0 <=> pc'[u] \in Renewing \cup {"readExpiry", "exchange"}
  BY <1>1, HandleCallbackFlat, Locals DEF HandleCallbackDoes, Renewing, OnlyMoves, Same,
         SameRefresh
<1>3. /\ durable' \in BOOLEAN /\ rotates' \in BOOLEAN
      /\ stored' \in Token /\ pc' \in [Thread -> PC]
      /\ first' \in [Thread -> Token] /\ rec' \in [Thread -> Token]
  BY <1>1, GotoType, IssueType, TokenTypes DEF TypeOK, HandleCallback, PC, Reading,
         Renewing, modeVars, providerVars, historyVars, Issue, OAuthToken
<1>4. /\ old' \in [Thread -> Fields] /\ new' \in [Thread -> Fields]
      /\ replaced' \in [Thread -> Serial] /\ renewed' \in [Thread -> BOOLEAN]
  BY <1>1, GotoType, IssueType, TokenTypes DEF TypeOK, HandleCallback, PC, Reading,
         Renewing, modeVars, providerVars, historyVars, Issue, OAuthToken
<1>5. /\ issued' \in Serial /\ live' \in [Serial -> Serial]
      /\ fresh' \subseteq 1..issued' /\ undated' \subseteq 1..issued'
      /\ fresh' \cap undated' = {}
      /\ lost' \subseteq 1..issued' /\ reverted' \subseteq 1..issued'
  <2>1. /\ issued' \in Serial /\ issued + 1 \in Serial
        /\ fresh' \subseteq 1..issued' /\ undated' \subseteq 1..issued'
        /\ fresh' \cap undated' = {} /\ 1..issued \subseteq 1..issued'
    BY <1>1, IssueType DEF HandleCallback
  <2>2. live' = [live EXCEPT ![issued + 1] = rec'[t].refresh] /\ rec'[t].refresh \in Serial
    BY <1>1, <2>1, HandleCallbackFlat, TokenTypes DEF HandleCallbackDoes
  <2>3. lost' = lost /\ reverted' = reverted
    BY <1>1, HandleCallbackFlat DEF HandleCallbackDoes, SameHistory
  <2>. QED
    BY <1>1, <2>1, <2>2, <2>3 DEF TypeOK
<1>. QED
  BY <1>2, <1>3, <1>4, <1>5 DEF TypeOK

-----------------------------------------------------------------------------
(* The invariant, action by action: first the type, then the conjuncts.    *)

LEMMA RefreshReadKeeps ==
    ASSUME IInv, NEW t \in Thread, RefreshRead(t)
    PROVE  IInv'
<1>. USE DEF IInv, RefreshReadDoes, OnlyMoves, Same, SameMode, SameProvider, SameHistory, Blank,
        Cleared, SameRefresh
<1>0. RefreshReadDoes(t)
  BY RefreshReadFlat
<1>1. TypeOK'
  BY RefreshReadType
<1>2. NumbersInv'
  BY <1>0, Numbers DEF NumbersInv, Numbered, PhaseInv, HasRecord, HasOld, Exchanged, Renews,
         Renewing, Reading
<1>3. PhaseInv'
  BY <1>0, Locals DEF PhaseInv, HasRecord, HasOld, Renews, Exchanged, Renewing, Reading
<1>4. OwnInv'
  BY <1>0 DEF OwnInv, Renews, Exchanged, Renewing, Reading
<1>5. WholeInv'
  BY <1>0 DEF WholeInv, Whole, Renews, Exchanged, Renewing
<1>6. AnswerInv'
  BY <1>0, Locals DEF AnswerInv, PhaseInv, HidesAccess, HidesRefresh, Renews, Exchanged,
         Renewing
<1>7. CurrentInv'
  BY <1>0 DEF CurrentInv, HidesAccess, HidesRefresh, Renews, Exchanged, Renewing
<1>8. CallbackInv'
  BY <1>0 DEF CallbackInv, PhaseInv, HasRecord, Reading, Renewing, NumbersInv, Numbered
<1>9. OwnerInv'
  <2>1. \A a, g \in Serial : Holds(a, g)' => Holds(a, g)
    BY <1>0 DEF Holds, HasRecord, HasOld, Reading, Renewing
  <2>. QED
    BY <2>1 DEF OwnerInv
<1>10. SurvivalInv'
  BY <1>0 DEF SurvivalInv, Survives, HidesAccess, HidesRefresh, Renews, Exchanged, Renewing
<1>11. ReplacedInv'
  BY <1>0 DEF ReplacedInv, PhaseInv, HidesAccess, HidesRefresh, Renews, Exchanged, Renewing
<1>12. GoneInv'
  BY <1>0 DEF GoneInv, PhaseInv, NumbersInv, Numbered, Renewing
<1>. QED
  BY <1>1, <1>2, <1>3, <1>4, <1>5, <1>6, <1>7, <1>8, <1>9, <1>10, <1>11, <1>12

LEMMA RefreshCheckKeeps ==
    ASSUME IInv, NEW t \in Thread, RefreshCheck(t)
    PROVE  IInv'
<1>. USE DEF IInv, RefreshCheckDoes, OnlyMoves, Same, SameMode, SameProvider, SameHistory, Blank,
        Cleared, SameRefresh
<1>0. RefreshCheckDoes(t)
  BY RefreshCheckFlat
<1>1. TypeOK'
  BY RefreshCheckType
<1>2. NumbersInv'
  BY <1>0, Numbers DEF NumbersInv, Numbered, PhaseInv, HasRecord, HasOld, Exchanged, Renews,
         Renewing, Reading
<1>3. PhaseInv'
  BY <1>0, Locals DEF PhaseInv, HasRecord, HasOld, Renews, Exchanged, Renewing, Reading
<1>4. OwnInv'
  BY <1>0 DEF OwnInv, Renews, Exchanged, Renewing, Reading
<1>5. WholeInv'
  BY <1>0 DEF WholeInv, Whole, Renews, Exchanged, Renewing
<1>6. AnswerInv'
  BY <1>0, Locals DEF AnswerInv, PhaseInv, HidesAccess, HidesRefresh, Renews, Exchanged,
         Renewing
<1>7. CurrentInv'
  BY <1>0 DEF CurrentInv, HidesAccess, HidesRefresh, Renews, Exchanged, Renewing
<1>8. CallbackInv'
  BY <1>0 DEF CallbackInv, PhaseInv, HasRecord, Reading, Renewing, NumbersInv, Numbered
<1>9. OwnerInv'
  <2>1. \A a, g \in Serial : Holds(a, g)' => Holds(a, g)
    BY <1>0 DEF Holds, HasRecord, HasOld, Reading, Renewing
  <2>. QED
    BY <2>1 DEF OwnerInv
<1>10. SurvivalInv'
  BY <1>0 DEF SurvivalInv, Survives, HidesAccess, HidesRefresh, Renews, Exchanged, Renewing
<1>11. ReplacedInv'
  BY <1>0 DEF ReplacedInv, PhaseInv, HidesAccess, HidesRefresh, Renews, Exchanged, Renewing
<1>12. GoneInv'
  BY <1>0 DEF GoneInv, PhaseInv, NumbersInv, Numbered, Renewing
<1>. QED
  BY <1>1, <1>2, <1>3, <1>4, <1>5, <1>6, <1>7, <1>8, <1>9, <1>10, <1>11, <1>12

LEMMA ReadAccessKeeps ==
    ASSUME IInv, NEW t \in Thread, ReadAccess(t)
    PROVE  IInv'
<1>. USE DEF IInv, ReadAccessDoes, Reads, OnlyMoves, Same, SameMode, SameProvider, SameHistory,
        SameRefresh
<1>0. ReadAccessDoes(t)
  BY ReadAccessFlat
<1>1. TypeOK'
  BY ReadAccessType
<1>2. NumbersInv'
  BY <1>0, Numbers DEF NumbersInv, Numbered, PhaseInv, HasRecord, HasOld, Exchanged, Renews,
         Renewing, Reading
<1>3. PhaseInv'
  BY <1>0, Locals, Numbers DEF PhaseInv, HasRecord, HasOld, Renews, Exchanged, Renewing,
         Reading, NumbersInv, Numbered
<1>4. OwnInv'
  BY <1>0 DEF OwnInv, Renews, Exchanged, Renewing, Reading
<1>5. WholeInv'
  BY <1>0 DEF WholeInv, Whole, Renews, Exchanged, Renewing
<1>6. AnswerInv'
  BY <1>0, Locals DEF AnswerInv, PhaseInv, HidesAccess, HidesRefresh, Renews, Exchanged,
         Renewing
<1>7. CurrentInv'
  BY <1>0 DEF CurrentInv, HidesAccess, HidesRefresh, Renews, Exchanged, Renewing
<1>8. CallbackInv'
  BY <1>0 DEF CallbackInv, PhaseInv, HasRecord, Reading, Renewing, NumbersInv, Numbered
<1>9. OwnerInv'
  <2>1. \A a, g \in Serial : Holds(a, g)' => Holds(a, g)
    BY <1>0 DEF Holds, HasRecord, HasOld, Reading, Renewing
  <2>. QED
    BY <2>1 DEF OwnerInv
<1>10. SurvivalInv'
  BY <1>0 DEF SurvivalInv, Survives, HidesAccess, HidesRefresh, Renews, Exchanged, Renewing
<1>11. ReplacedInv'
  BY <1>0 DEF ReplacedInv, PhaseInv, HidesAccess, HidesRefresh, Renews, Exchanged, Renewing
<1>12. GoneInv'
  BY <1>0 DEF GoneInv, PhaseInv, NumbersInv, Numbered, Renewing
<1>. QED
  BY <1>1, <1>2, <1>3, <1>4, <1>5, <1>6, <1>7, <1>8, <1>9, <1>10, <1>11, <1>12

LEMMA ReadRefreshKeeps ==
    ASSUME IInv, NEW t \in Thread, ReadRefresh(t)
    PROVE  IInv'
<1>. USE DEF IInv, ReadRefreshDoes, Reads, OnlyMoves, Same, SameMode, SameProvider, SameHistory,
        SameRefresh
<1>0. ReadRefreshDoes(t)
  BY ReadRefreshFlat
<1>1. TypeOK'
  BY ReadRefreshType
<1>2. NumbersInv'
  BY <1>0, Numbers DEF NumbersInv, Numbered, PhaseInv, HasRecord, HasOld, Exchanged, Renews,
         Renewing, Reading
<1>3. PhaseInv'
  BY <1>0, Locals DEF PhaseInv, HasRecord, HasOld, Renews, Exchanged, Renewing, Reading
<1>4. OwnInv'
  BY <1>0 DEF OwnInv, Renews, Exchanged, Renewing, Reading
<1>5. WholeInv'
  BY <1>0 DEF WholeInv, Whole, Renews, Exchanged, Renewing
<1>6. AnswerInv'
  BY <1>0, Locals DEF AnswerInv, PhaseInv, HidesAccess, HidesRefresh, Renews, Exchanged,
         Renewing
<1>7. CurrentInv'
  BY <1>0 DEF CurrentInv, HidesAccess, HidesRefresh, Renews, Exchanged, Renewing
<1>8. CallbackInv'
  BY <1>0 DEF CallbackInv, PhaseInv, HasRecord, Reading, Renewing, NumbersInv, Numbered
<1>9. OwnerInv'
  <2>1. \A a, g \in Serial : Holds(a, g)' => Holds(a, g)
    BY <1>0 DEF Holds, HasRecord, HasOld, Reading, Renewing
  <2>. QED
    BY <2>1 DEF OwnerInv
<1>10. SurvivalInv'
  BY <1>0 DEF SurvivalInv, Survives, HidesAccess, HidesRefresh, Renews, Exchanged, Renewing
<1>11. ReplacedInv'
  BY <1>0 DEF ReplacedInv, PhaseInv, HidesAccess, HidesRefresh, Renews, Exchanged, Renewing
<1>12. GoneInv'
  BY <1>0 DEF GoneInv, PhaseInv, NumbersInv, Numbered, Renewing
<1>. QED
  BY <1>1, <1>2, <1>3, <1>4, <1>5, <1>6, <1>7, <1>8, <1>9, <1>10, <1>11, <1>12

LEMMA ReadExpiryKeeps ==
    ASSUME IInv, NEW t \in Thread, ReadExpiry(t)
    PROVE  IInv'
<1>. USE DEF IInv, ReadExpiryDoes, Reads, OnlyMoves, Same, SameMode, SameProvider, SameHistory,
        SameRefresh
<1>0. ReadExpiryDoes(t)
  BY ReadExpiryFlat
<1>1. TypeOK'
  BY ReadExpiryType
<1>2. NumbersInv'
  BY <1>0, Numbers DEF NumbersInv, Numbered, PhaseInv, HasRecord, HasOld, Exchanged, Renews,
         Renewing, Reading
<1>3. PhaseInv'
  BY <1>0, Locals DEF PhaseInv, HasRecord, HasOld, Renews, Exchanged, Renewing, Reading
<1>4. OwnInv'
  BY <1>0 DEF OwnInv, Renews, Exchanged, Renewing, Reading
<1>5. WholeInv'
  BY <1>0 DEF WholeInv, Whole, Renews, Exchanged, Renewing
<1>6. AnswerInv'
  BY <1>0, Locals DEF AnswerInv, PhaseInv, HidesAccess, HidesRefresh, Renews, Exchanged,
         Renewing
<1>7. CurrentInv'
  BY <1>0 DEF CurrentInv, HidesAccess, HidesRefresh, Renews, Exchanged, Renewing
<1>8. CallbackInv'
  BY <1>0 DEF CallbackInv, PhaseInv, HasRecord, Reading, Renewing, NumbersInv, Numbered
<1>9. OwnerInv'
  <2>1. \A a, g \in Serial : Holds(a, g)' => Holds(a, g)
    BY <1>0 DEF Holds, HasRecord, HasOld, Reading, Renewing
  <2>. QED
    BY <2>1 DEF OwnerInv
<1>10. SurvivalInv'
  BY <1>0 DEF SurvivalInv, Survives, HidesAccess, HidesRefresh, Renews, Exchanged, Renewing
<1>11. ReplacedInv'
  BY <1>0 DEF ReplacedInv, PhaseInv, HidesAccess, HidesRefresh, Renews, Exchanged, Renewing
<1>12. GoneInv'
  BY <1>0 DEF GoneInv, PhaseInv, NumbersInv, Numbered, Renewing
<1>. QED
  BY <1>1, <1>2, <1>3, <1>4, <1>5, <1>6, <1>7, <1>8, <1>9, <1>10, <1>11, <1>12

LEMMA RefreshReusesKeeps ==
    ASSUME IInv, NEW t \in Thread, RefreshReuses(t)
    PROVE  IInv'
<1>. USE DEF IInv, RefreshReusesDoes, OnlyMoves, Same, SameMode, SameProvider, SameHistory,
        SameRefresh
<1>0. RefreshReusesDoes(t)
  BY RefreshReusesFlat
<1>1. TypeOK'
  BY RefreshReusesType
<1>2. NumbersInv'
  BY <1>0, Numbers DEF NumbersInv, Numbered, PhaseInv, HasRecord, HasOld, Exchanged, Renews,
         Renewing, Reading
<1>3. PhaseInv'
  BY <1>0, Locals DEF PhaseInv, HasRecord, HasOld, Renews, Exchanged, Renewing, Reading
<1>4. OwnInv'
  BY <1>0 DEF OwnInv, Renews, Exchanged, Renewing, Reading
<1>5. WholeInv'
  BY <1>0 DEF WholeInv, Whole, Renews, Exchanged, Renewing
<1>6. AnswerInv'
  BY <1>0, Locals DEF AnswerInv, PhaseInv, HidesAccess, HidesRefresh, Renews, Exchanged,
         Renewing
<1>7. CurrentInv'
  BY <1>0 DEF CurrentInv, HidesAccess, HidesRefresh, Renews, Exchanged, Renewing
<1>8. CallbackInv'
  BY <1>0 DEF CallbackInv, PhaseInv, HasRecord, Reading, Renewing, NumbersInv, Numbered
<1>9. OwnerInv'
  <2>1. \A a, g \in Serial : Holds(a, g)' => Holds(a, g)
    BY <1>0 DEF Holds, HasRecord, HasOld, Reading, Renewing
  <2>. QED
    BY <2>1 DEF OwnerInv
<1>10. SurvivalInv'
  BY <1>0 DEF SurvivalInv, Survives, HidesAccess, HidesRefresh, Renews, Exchanged, Renewing
<1>11. ReplacedInv'
  BY <1>0 DEF ReplacedInv, PhaseInv, HidesAccess, HidesRefresh, Renews, Exchanged, Renewing
<1>12. GoneInv'
  BY <1>0 DEF GoneInv, PhaseInv, NumbersInv, Numbered, Renewing
<1>. QED
  BY <1>1, <1>2, <1>3, <1>4, <1>5, <1>6, <1>7, <1>8, <1>9, <1>10, <1>11, <1>12

LEMMA RefreshExchangeKeeps ==
    ASSUME IInv, NEW t \in Thread, RefreshExchange(t)
    PROVE  IInv'
<1>. USE DEF IInv, RefreshExchangeDoes, OnlyMoves, Same, SameMode, SameHistory, Answers, Rotates
<1>0. RefreshExchangeDoes(t)
  BY RefreshExchangeFlat
<1>1. TypeOK'
  BY RefreshExchangeType
<1>2. NumbersInv'
  BY <1>0, Numbers, NewSerial DEF NumbersInv, Numbered, PhaseInv, HasRecord, HasOld,
         Exchanged, Renews, Renewing, Reading
<1>3. PhaseInv'
  BY <1>0, Locals, NewSerial DEF PhaseInv, HasRecord, HasOld, Renews, Exchanged, Renewing,
         Reading
<1>4. OwnInv'
  BY <1>0, NewSerial DEF OwnInv, Renews, Exchanged, Renewing, Reading
<1>5. WholeInv'
  BY <1>0, NewSerial, Numbers, Locals DEF WholeInv, Whole, Renews, Exchanged, Renewing,
         OwnInv, PhaseInv
<1>6. AnswerInv'
  BY <1>0, Locals, NewSerial DEF AnswerInv, PhaseInv, HidesAccess, HidesRefresh, Renews,
         Exchanged, Renewing
<1>7. CurrentInv'
  BY <1>0, Locals, Numbers DEF CurrentInv, HidesAccess, HidesRefresh, Renews, Exchanged,
         Renewing, AnswerInv
<1>8. CallbackInv'
  <2>1. ASSUME NEW u \in Thread, pc[u] = "callback"
        PROVE  rec[u].grant # rec[t].grant /\ old[t].access # rec[u].access
    <3>1. rec[u].grant # rec[t].grant
      BY <1>0, <2>1 DEF CallbackInv
    <3>2. Holds(old[t].access, rec[t].grant) /\ Holds(rec[u].access, rec[u].grant)
      BY <1>0, <2>1 DEF Holds, HasRecord, HasOld
    <3>. QED
      BY <3>1, <3>2, Numbers DEF OwnerInv
  <2>. QED
    BY <1>0, <2>1, Numbers DEF CallbackInv
<1>9. OwnerInv'
  <2>1. \A a, g \in Serial :
            Holds(a, g)' => Holds(a, g) \/ (a = issued + 1 /\ g = rec[t].grant)
    BY <1>0 DEF Holds, HasRecord, HasOld, Reading, Renewing
  <2>2. \A g \in Serial : ~Holds(issued + 1, g)
    BY <1>0, NewSerial DEF Holds
  <2>. QED
    BY <2>1, <2>2 DEF OwnerInv
<1>10. SurvivalInv'
  <2>1. HidesRefresh(t)' /\ rec'[t].grant = rec[t].grant
    BY <1>0, NewSerial DEF HidesRefresh, Renews, Exchanged, Renewing
  <2>2. \A u \in Thread \ {t} :
            HidesRefresh(u) => HidesRefresh(u)' /\ rec'[u].grant = rec[u].grant
    BY <1>0 DEF HidesRefresh, Renews, Exchanged
  <2>3. ~HidesRefresh(t)
    BY <1>0 DEF HidesRefresh, Renews, Renewing
  <2>4. \A g \in Serial : g # rec[t].grant => live'[g] = live[g]
    BY <1>0, Numbers
  <2>5. ASSUME NEW r, Survives(r), r.grant \in Serial
        PROVE  Survives(r)'
    BY <1>0, <2>1, <2>2, <2>3, <2>4, <2>5 DEF Survives
  <2>. QED
    BY <1>0, <2>5, Numbers DEF SurvivalInv
<1>11. ReplacedInv'
  BY <1>0, NewSerial, Locals DEF ReplacedInv, PhaseInv, HidesAccess, HidesRefresh, Renews,
         Exchanged, Renewing, AnswerInv, OwnInv, WholeInv, Whole
<1>12. GoneInv'
  BY <1>0 DEF GoneInv, PhaseInv, NumbersInv, Numbered, Renewing
<1>. QED
  BY <1>1, <1>2, <1>3, <1>4, <1>5, <1>6, <1>7, <1>8, <1>9, <1>10, <1>11, <1>12

LEMMA RefreshAnswerLostKeeps ==
    ASSUME IInv, NEW t \in Thread, RefreshAnswerLost(t)
    PROVE  IInv'
<1>. USE DEF IInv, RefreshAnswerLostDoes, OnlyMoves, Same, SameMode, Blank, Cleared, SameRefresh,
        Answers, Rotates
<1>0. RefreshAnswerLostDoes(t)
  BY RefreshAnswerLostFlat
<1>1. TypeOK'
  BY RefreshAnswerLostType
<1>2. NumbersInv'
  BY <1>0, Numbers DEF NumbersInv, Numbered, PhaseInv, HasRecord, HasOld, Exchanged, Renews,
         Renewing, Reading
<1>3. PhaseInv'
  BY <1>0, Locals DEF PhaseInv, HasRecord, HasOld, Renews, Exchanged, Renewing, Reading
<1>4. OwnInv'
  BY <1>0, NewSerial DEF OwnInv, Renews, Exchanged, Renewing, Reading
<1>5. WholeInv'
  BY <1>0, NewSerial, Numbers, Locals DEF WholeInv, Whole, Renews, Exchanged, Renewing,
         OwnInv, PhaseInv
<1>6. AnswerInv'
  BY <1>0, Locals DEF AnswerInv, PhaseInv, HidesAccess, HidesRefresh, Renews, Exchanged,
         Renewing
<1>7. CurrentInv'
  BY <1>0, Locals, Numbers DEF CurrentInv, HidesAccess, HidesRefresh, Renews, Exchanged,
         Renewing, AnswerInv
<1>8. CallbackInv'
  BY <1>0 DEF CallbackInv, PhaseInv, HasRecord, Reading, Renewing, NumbersInv, Numbered
<1>9. OwnerInv'
  <2>1. \A a, g \in Serial : Holds(a, g)' => Holds(a, g)
    BY <1>0 DEF Holds, HasRecord, HasOld, Reading, Renewing
  <2>. QED
    BY <2>1 DEF OwnerInv
<1>10. SurvivalInv'
  BY <1>0 DEF SurvivalInv, Survives, HidesAccess, HidesRefresh, Renews, Exchanged, Renewing
<1>11. ReplacedInv'
  BY <1>0, NewSerial DEF ReplacedInv, PhaseInv, HidesAccess, HidesRefresh, Renews,
         Exchanged, Renewing
<1>12. GoneInv'
  BY <1>0 DEF GoneInv, PhaseInv, NumbersInv, Numbered, Renewing
<1>. QED
  BY <1>1, <1>2, <1>3, <1>4, <1>5, <1>6, <1>7, <1>8, <1>9, <1>10, <1>11, <1>12

LEMMA RefreshRefusedKeeps ==
    ASSUME IInv, NEW t \in Thread, RefreshRefused(t)
    PROVE  IInv'
<1>. USE DEF IInv, RefreshRefusedDoes, OnlyMoves, Same, SameMode, SameProvider, SameHistory,
        Blank, Cleared, SameRefresh
<1>0. RefreshRefusedDoes(t)
  BY RefreshRefusedFlat
<1>1. TypeOK'
  BY RefreshRefusedType
<1>2. NumbersInv'
  BY <1>0, Numbers DEF NumbersInv, Numbered, PhaseInv, HasRecord, HasOld, Exchanged, Renews,
         Renewing, Reading
<1>3. PhaseInv'
  BY <1>0, Locals DEF PhaseInv, HasRecord, HasOld, Renews, Exchanged, Renewing, Reading
<1>4. OwnInv'
  BY <1>0 DEF OwnInv, Renews, Exchanged, Renewing, Reading
<1>5. WholeInv'
  BY <1>0 DEF WholeInv, Whole, Renews, Exchanged, Renewing
<1>6. AnswerInv'
  BY <1>0, Locals DEF AnswerInv, PhaseInv, HidesAccess, HidesRefresh, Renews, Exchanged,
         Renewing
<1>7. CurrentInv'
  BY <1>0 DEF CurrentInv, HidesAccess, HidesRefresh, Renews, Exchanged, Renewing
<1>8. CallbackInv'
  BY <1>0 DEF CallbackInv, PhaseInv, HasRecord, Reading, Renewing, NumbersInv, Numbered
<1>9. OwnerInv'
  <2>1. \A a, g \in Serial : Holds(a, g)' => Holds(a, g)
    BY <1>0 DEF Holds, HasRecord, HasOld, Reading, Renewing
  <2>. QED
    BY <2>1 DEF OwnerInv
<1>10. SurvivalInv'
  BY <1>0 DEF SurvivalInv, Survives, HidesAccess, HidesRefresh, Renews, Exchanged, Renewing
<1>11. ReplacedInv'
  BY <1>0 DEF ReplacedInv, PhaseInv, HidesAccess, HidesRefresh, Renews, Exchanged, Renewing
<1>12. GoneInv'
  BY <1>0 DEF GoneInv, PhaseInv, NumbersInv, Numbered, Renewing
<1>. QED
  BY <1>1, <1>2, <1>3, <1>4, <1>5, <1>6, <1>7, <1>8, <1>9, <1>10, <1>11, <1>12

LEMMA SetAccessKeeps ==
    ASSUME IInv, NEW t \in Thread, SetAccess(t)
    PROVE  IInv'
<1>. USE DEF IInv, SetAccessDoes, Assigns, Reverts, SameMode, SameProvider, SameCall,
        SameButAccess, Reached, StoreReached
<1>0. SetAccessDoes(t)
  BY SetAccessFlat
<1>1. TypeOK'
  BY SetAccessType
<1>2. NumbersInv'
  BY <1>0, Numbers DEF NumbersInv, Numbered, PhaseInv, HasRecord, HasOld, Exchanged, Renews,
         Renewing, Reading
<1>3. PhaseInv'
  BY <1>0, Locals DEF PhaseInv, HasRecord, HasOld, Renews, Exchanged, Renewing, Reading
<1>4. OwnInv'
  BY <1>0 DEF OwnInv, Renews, Exchanged, Renewing, Reading
<1>5. WholeInv'
  BY <1>0 DEF WholeInv, Whole, Renews, Exchanged, Renewing, OwnInv
<1>6. AnswerInv'
  BY <1>0, Locals DEF AnswerInv, PhaseInv, HidesAccess, HidesRefresh, Renews, Exchanged,
         Renewing
<1>7. CurrentInv'
  BY <1>0 DEF CurrentInv, HidesAccess, HidesRefresh, Renews, Exchanged, Renewing
<1>8. CallbackInv'
  BY <1>0 DEF CallbackInv, PhaseInv, HasRecord, Reading, Renewing, NumbersInv, Numbered
<1>9. OwnerInv'
  <2>1. \A a, g \in Serial : Holds(a, g)' => Holds(a, g)
    BY <1>0 DEF Holds, HasRecord, HasOld, Reading, Renewing
  <2>. QED
    BY <2>1 DEF OwnerInv
<1>10. SurvivalInv'
  BY <1>0 DEF SurvivalInv, Survives, HidesAccess, HidesRefresh, Renews, Exchanged, Renewing
<1>11. ReplacedInv'
  BY <1>0 DEF ReplacedInv, PhaseInv, HidesAccess, HidesRefresh, Renews, Exchanged, Renewing,
         GoneInv
<1>12. GoneInv'
  <2>1. ASSUME ~durable, NEW u \in Thread \ {t}, replaced[u] # 0, pc[u] # "setAccess"
        PROVE  /\ stored'.access = replaced[u] => stored'.grant \in reverted'
               /\ \A v \in Thread : rec'[v].access = replaced[u] => rec'[v].grant \in reverted'
    BY <1>0, <2>1 DEF GoneInv, ReplacedInv, HidesAccess, Renews, Renewing
  <2>2. ASSUME ~durable, replaced[t] # 0
        PROVE  /\ stored'.access # replaced[t]
               /\ \A v \in Thread : rec'[v].access # replaced[t]
    <3>1. Renews(t) /\ replaced[t] = old[t].access /\ new[t].access # replaced[t]
      BY <1>0, <2>2 DEF PhaseInv, Renews, Renewing, Exchanged
    <3>2. Holds(replaced[t], rec[t].grant)
      BY <1>0, <3>1 DEF Holds, HasRecord, HasOld, Renewing
    <3>3. stored.kind = "oauth" /\ stored.access = replaced[t] => stored.grant = rec[t].grant
      BY <3>2, Numbers DEF Holds, OwnerInv
    <3>4. \A v \in Thread : rec[v].kind = "oauth" /\ rec[v].access = replaced[t]
                               => rec[v].grant = rec[t].grant
      BY <3>2, Numbers DEF Holds, OwnerInv, PhaseInv
    <3>. QED
      BY <1>0, <2>2, <3>1, <3>3, <3>4 DEF NumbersInv, Numbered
  <2>. QED
    BY <1>0, <2>1, <2>2 DEF GoneInv
<1>. QED
  BY <1>1, <1>2, <1>3, <1>4, <1>5, <1>6, <1>7, <1>8, <1>9, <1>10, <1>11, <1>12

LEMMA SetRefreshKeeps ==
    ASSUME IInv, NEW t \in Thread, SetRefresh(t)
    PROVE  IInv'
<1>. USE DEF IInv, SetRefreshDoes, Assigns, Reverts, SameMode, SameProvider, SameCall,
        SameButRefresh, Reached, StoreReached
<1>0. SetRefreshDoes(t)
  BY SetRefreshFlat
<1>1. TypeOK'
  BY SetRefreshType
<1>2. NumbersInv'
  BY <1>0, Numbers DEF NumbersInv, Numbered, PhaseInv, HasRecord, HasOld, Exchanged, Renews,
         Renewing, Reading
<1>3. PhaseInv'
  BY <1>0, Locals DEF PhaseInv, HasRecord, HasOld, Renews, Exchanged, Renewing, Reading
<1>4. OwnInv'
  BY <1>0 DEF OwnInv, Renews, Exchanged, Renewing, Reading
<1>5. WholeInv'
  BY <1>0 DEF WholeInv, Whole, Renews, Exchanged, Renewing, OwnInv
<1>6. AnswerInv'
  BY <1>0, Locals DEF AnswerInv, PhaseInv, HidesAccess, HidesRefresh, Renews, Exchanged,
         Renewing
<1>7. CurrentInv'
  BY <1>0 DEF CurrentInv, HidesAccess, HidesRefresh, Renews, Exchanged, Renewing
<1>8. CallbackInv'
  BY <1>0 DEF CallbackInv, PhaseInv, HasRecord, Reading, Renewing, NumbersInv, Numbered
<1>9. OwnerInv'
  <2>1. \A a, g \in Serial : Holds(a, g)' => Holds(a, g)
    BY <1>0 DEF Holds, HasRecord, HasOld, Reading, Renewing
  <2>. QED
    BY <2>1 DEF OwnerInv
<1>10. SurvivalInv'
  <2>1. \A u \in Thread : /\ rec'[u].grant = rec[u].grant /\ rec'[u].kind = rec[u].kind
                             /\ u # t /\ HidesRefresh(u) => HidesRefresh(u)'
    BY <1>0 DEF HidesRefresh, Renews, Exchanged
  <2>2. CASE durable
    <3>1. HidesRefresh(t) => HidesRefresh(t)'
      BY <1>0, <2>2 DEF HidesRefresh, Renews, Exchanged, Renewing
    <3>. QED
      BY <1>0, <2>1, <2>2, <3>1 DEF SurvivalInv, Survives
  <2>3. CASE ~durable /\ Exchanged(t)
    <3>1. new[t].refresh = live[rec[t].grant]
      BY <1>0, <2>3 DEF CurrentInv, HidesRefresh, Renews, Renewing
    <3>2. Survives(stored)'
      <4>1. CASE stored.grant = rec[t].grant
        BY <1>0, <2>3, <3>1, <4>1 DEF Survives
      <4>2. CASE stored.grant # rec[t].grant
        BY <1>0, <2>1, <2>3, <4>2 DEF Survives, SurvivalInv
      <4>. QED
        BY <4>1, <4>2
    <3>3. ASSUME NEW u \in Thread
          PROVE  Survives(rec[u])'
      <4>1. CASE rec[u].grant = rec[t].grant
        BY <1>0, <2>3, <3>1, <4>1 DEF Survives
      <4>2. CASE rec[u].grant # rec[t].grant
        BY <1>0, <2>1, <2>3, <4>2 DEF Survives, SurvivalInv
      <4>. QED
        BY <4>1, <4>2
    <3>. QED
      BY <3>2, <3>3 DEF SurvivalInv
  <2>4. CASE ~durable /\ ~Exchanged(t)
    <3>1. ~HidesRefresh(t) /\ Survives(rec[t]) /\ rec[t].kind = "oauth"
      BY <1>0, <2>4 DEF HidesRefresh, Renews, SurvivalInv, PhaseInv, HasRecord, Renewing
    <3>. QED
      BY <1>0, <2>1, <2>4, <3>1 DEF SurvivalInv, Survives
  <2>. QED
    BY <2>2, <2>3, <2>4
<1>11. ReplacedInv'
  BY <1>0 DEF ReplacedInv, PhaseInv, HidesAccess, HidesRefresh, Renews, Exchanged, Renewing
<1>12. GoneInv'
  BY <1>0 DEF GoneInv, PhaseInv, NumbersInv, Numbered, Renewing
<1>. QED
  BY <1>1, <1>2, <1>3, <1>4, <1>5, <1>6, <1>7, <1>8, <1>9, <1>10, <1>11, <1>12

LEMMA SetExpiryKeeps ==
    ASSUME IInv, NEW t \in Thread, SetExpiry(t)
    PROVE  IInv'
<1>. USE DEF IInv, SetExpiryDoes, Assigns, Reverts, SameMode, SameProvider, SameCall,
        SameButExpiry, Reached, StoreReached
<1>0. SetExpiryDoes(t)
  BY SetExpiryFlat
<1>1. TypeOK'
  BY SetExpiryType
<1>2. NumbersInv'
  BY <1>0, Numbers DEF NumbersInv, Numbered, PhaseInv, HasRecord, HasOld, Exchanged, Renews,
         Renewing, Reading
<1>3. PhaseInv'
  BY <1>0, Locals DEF PhaseInv, HasRecord, HasOld, Renews, Exchanged, Renewing, Reading
<1>4. OwnInv'
  BY <1>0 DEF OwnInv, Renews, Exchanged, Renewing, Reading
<1>5. WholeInv'
  BY <1>0, Locals DEF WholeInv, Whole, Renews, Exchanged, Renewing, OwnInv, PhaseInv,
         CurrentInv, HidesRefresh
<1>6. AnswerInv'
  BY <1>0, Locals DEF AnswerInv, PhaseInv, HidesAccess, HidesRefresh, Renews, Exchanged,
         Renewing
<1>7. CurrentInv'
  BY <1>0 DEF CurrentInv, HidesAccess, HidesRefresh, Renews, Exchanged, Renewing
<1>8. CallbackInv'
  BY <1>0 DEF CallbackInv, PhaseInv, HasRecord, Reading, Renewing, NumbersInv, Numbered
<1>9. OwnerInv'
  <2>1. \A a, g \in Serial : Holds(a, g)' => Holds(a, g)
    BY <1>0 DEF Holds, HasRecord, HasOld, Reading, Renewing
  <2>. QED
    BY <2>1 DEF OwnerInv
<1>10. SurvivalInv'
  BY <1>0 DEF SurvivalInv, Survives, HidesAccess, HidesRefresh, Renews, Exchanged, Renewing
<1>11. ReplacedInv'
  BY <1>0 DEF ReplacedInv, PhaseInv, HidesAccess, HidesRefresh, Renews, Exchanged, Renewing
<1>12. GoneInv'
  BY <1>0 DEF GoneInv, PhaseInv, NumbersInv, Numbered, Renewing
<1>. QED
  BY <1>1, <1>2, <1>3, <1>4, <1>5, <1>6, <1>7, <1>8, <1>9, <1>10, <1>11, <1>12

LEMMA RefreshSaveKeeps ==
    ASSUME IInv, NEW t \in Thread, RefreshSave(t)
    PROVE  IInv'
<1>. USE DEF IInv, RefreshSaveDoes, OnlyMoves, Same, SameMode, SameProvider, Blank, Cleared,
        SameRefresh
<1>0. RefreshSaveDoes(t)
  BY RefreshSaveFlat
<1>1. TypeOK'
  BY RefreshSaveType
<1>2. NumbersInv'
  BY <1>0, Numbers DEF NumbersInv, Numbered, PhaseInv, HasRecord, HasOld, Exchanged, Renews,
         Renewing, Reading
<1>3. PhaseInv'
  BY <1>0, Locals DEF PhaseInv, HasRecord, HasOld, Renews, Exchanged, Renewing, Reading
<1>4. OwnInv'
  BY <1>0 DEF OwnInv, Renews, Exchanged, Renewing, Reading
<1>5. WholeInv'
  BY <1>0 DEF WholeInv, Whole, Renews, Exchanged, Renewing
<1>6. AnswerInv'
  BY <1>0, Locals DEF AnswerInv, PhaseInv, HidesAccess, HidesRefresh, Renews, Exchanged,
         Renewing
<1>7. CurrentInv'
  BY <1>0 DEF CurrentInv, HidesAccess, HidesRefresh, Renews, Exchanged, Renewing
<1>8. CallbackInv'
  BY <1>0 DEF CallbackInv, PhaseInv, HasRecord, Reading, Renewing, NumbersInv, Numbered
<1>9. OwnerInv'
  <2>1. \A a, g \in Serial : Holds(a, g)' => Holds(a, g)
    BY <1>0 DEF Holds, HasRecord, HasOld, Reading, Renewing
  <2>. QED
    BY <2>1 DEF OwnerInv
<1>10. SurvivalInv'
  BY <1>0, Locals DEF SurvivalInv, Survives, HidesAccess, HidesRefresh, Renews, Exchanged,
         Renewing, OwnInv, WholeInv, Whole, CurrentInv, Pending
<1>11. ReplacedInv'
  BY <1>0, Locals DEF ReplacedInv, PhaseInv, HidesAccess, HidesRefresh, Renews, Exchanged,
         Renewing, OwnInv, WholeInv, Whole
<1>12. GoneInv'
  BY <1>0 DEF GoneInv, PhaseInv, NumbersInv, Numbered, Renewing
<1>. QED
  BY <1>1, <1>2, <1>3, <1>4, <1>5, <1>6, <1>7, <1>8, <1>9, <1>10, <1>11, <1>12

LEMMA RefetchKeeps ==
    ASSUME IInv, NEW t \in Thread, Refetch(t)
    PROVE  IInv'
<1>. USE DEF IInv, RefetchDoes, OnlyMoves, Same, SameMode, SameProvider, SameHistory
<1>0. RefetchDoes(t)
  BY RefetchFlat
<1>1. TypeOK'
  BY RefetchType
<1>2. NumbersInv'
  BY <1>0, Numbers DEF NumbersInv, Numbered, PhaseInv, HasRecord, HasOld, Exchanged, Renews,
         Renewing, Reading
<1>3. PhaseInv'
  BY <1>0, Locals DEF PhaseInv, HasRecord, HasOld, Renews, Exchanged, Renewing, Reading
<1>4. OwnInv'
  BY <1>0 DEF OwnInv, Renews, Exchanged, Renewing, Reading
<1>5. WholeInv'
  BY <1>0 DEF WholeInv, Whole, Renews, Exchanged, Renewing
<1>6. AnswerInv'
  BY <1>0, Locals DEF AnswerInv, PhaseInv, HidesAccess, HidesRefresh, Renews, Exchanged,
         Renewing
<1>7. CurrentInv'
  BY <1>0 DEF CurrentInv, HidesAccess, HidesRefresh, Renews, Exchanged, Renewing
<1>8. CallbackInv'
  BY <1>0 DEF CallbackInv, PhaseInv, HasRecord, Reading, Renewing, NumbersInv, Numbered
<1>9. OwnerInv'
  <2>1. \A a, g \in Serial : Holds(a, g)' => Holds(a, g)
    BY <1>0 DEF Holds, HasRecord, HasOld, Reading, Renewing
  <2>. QED
    BY <2>1 DEF OwnerInv
<1>10. SurvivalInv'
  BY <1>0 DEF SurvivalInv, Survives, HidesAccess, HidesRefresh, Renews, Exchanged, Renewing
<1>11. ReplacedInv'
  BY <1>0 DEF ReplacedInv, PhaseInv, HidesAccess, HidesRefresh, Renews, Exchanged, Renewing,
         GoneInv
<1>12. GoneInv'
  BY <1>0 DEF GoneInv, PhaseInv, NumbersInv, Numbered, Renewing
<1>. QED
  BY <1>1, <1>2, <1>3, <1>4, <1>5, <1>6, <1>7, <1>8, <1>9, <1>10, <1>11, <1>12

LEMMA ServeKeeps ==
    ASSUME IInv, NEW t \in Thread, Serve(t)
    PROVE  IInv'
<1>. USE DEF IInv, ServeDoes, OnlyMoves, Same, SameMode, SameProvider, SameHistory, Blank,
        Cleared, Idle
<1>0. ServeDoes(t)
  BY ServeFlat
<1>1. TypeOK'
  BY ServeType
<1>2. NumbersInv'
  BY <1>0, Numbers DEF NumbersInv, Numbered, PhaseInv, HasRecord, HasOld, Exchanged, Renews,
         Renewing, Reading
<1>3. PhaseInv'
  BY <1>0, Locals DEF PhaseInv, HasRecord, HasOld, Renews, Exchanged, Renewing, Reading
<1>4. OwnInv'
  BY <1>0 DEF OwnInv, Renews, Exchanged, Renewing, Reading
<1>5. WholeInv'
  BY <1>0 DEF WholeInv, Whole, Renews, Exchanged, Renewing
<1>6. AnswerInv'
  BY <1>0, Locals DEF AnswerInv, PhaseInv, HidesAccess, HidesRefresh, Renews, Exchanged,
         Renewing
<1>7. CurrentInv'
  BY <1>0 DEF CurrentInv, HidesAccess, HidesRefresh, Renews, Exchanged, Renewing
<1>8. CallbackInv'
  BY <1>0 DEF CallbackInv, PhaseInv, HasRecord, Reading, Renewing, NumbersInv, Numbered
<1>9. OwnerInv'
  <2>1. \A a, g \in Serial : Holds(a, g)' => Holds(a, g)
    BY <1>0 DEF Holds, HasRecord, HasOld, Reading, Renewing
  <2>. QED
    BY <2>1 DEF OwnerInv
<1>10. SurvivalInv'
  BY <1>0 DEF SurvivalInv, Survives, HidesAccess, HidesRefresh, Renews, Exchanged, Renewing
<1>11. ReplacedInv'
  BY <1>0 DEF ReplacedInv, PhaseInv, HidesAccess, HidesRefresh, Renews, Exchanged, Renewing
<1>12. GoneInv'
  BY <1>0 DEF GoneInv, PhaseInv, NumbersInv, Numbered, Renewing
<1>. QED
  BY <1>1, <1>2, <1>3, <1>4, <1>5, <1>6, <1>7, <1>8, <1>9, <1>10, <1>11, <1>12

LEMMA CallbackSaveKeeps ==
    ASSUME IInv, NEW t \in Thread, CallbackSave(t)
    PROVE  IInv'
<1>. USE DEF IInv, CallbackSaveDoes, OnlyMoves, Same, SameMode, SameProvider, SameHistory, Blank,
        Cleared, Idle
<1>0. CallbackSaveDoes(t)
  BY CallbackSaveFlat
<1>1. TypeOK'
  BY CallbackSaveType
<1>2. NumbersInv'
  BY <1>0, Numbers DEF NumbersInv, Numbered, PhaseInv, HasRecord, HasOld, Exchanged, Renews,
         Renewing, Reading
<1>3. PhaseInv'
  BY <1>0, Locals DEF PhaseInv, HasRecord, HasOld, Renews, Exchanged, Renewing, Reading
<1>4. OwnInv'
  BY <1>0 DEF OwnInv, Renews, Exchanged, Renewing, Reading
<1>5. WholeInv'
  BY <1>0 DEF WholeInv, Whole, Renews, Exchanged, Renewing
<1>6. AnswerInv'
  BY <1>0, Locals DEF AnswerInv, PhaseInv, HidesAccess, HidesRefresh, Renews, Exchanged,
         Renewing
<1>7. CurrentInv'
  BY <1>0 DEF CurrentInv, HidesAccess, HidesRefresh, Renews, Exchanged, Renewing
<1>8. CallbackInv'
  BY <1>0 DEF CallbackInv, PhaseInv, HasRecord, Reading, Renewing, NumbersInv, Numbered
<1>9. OwnerInv'
  <2>1. \A a, g \in Serial : Holds(a, g)' => Holds(a, g)
    BY <1>0 DEF Holds, HasRecord, HasOld, Reading, Renewing
  <2>. QED
    BY <2>1 DEF OwnerInv
<1>10. SurvivalInv'
  BY <1>0 DEF SurvivalInv, Survives, HidesAccess, HidesRefresh, Renews, Exchanged, Renewing,
         CallbackInv
<1>11. ReplacedInv'
  BY <1>0 DEF ReplacedInv, PhaseInv, HidesAccess, HidesRefresh, Renews, Exchanged, Renewing,
         CallbackInv
<1>12. GoneInv'
  BY <1>0 DEF GoneInv, PhaseInv, NumbersInv, Numbered, Renewing
<1>. QED
  BY <1>1, <1>2, <1>3, <1>4, <1>5, <1>6, <1>7, <1>8, <1>9, <1>10, <1>11, <1>12

LEMMA GetUserTokenKeeps ==
    ASSUME IInv, NEW t \in Thread, GetUserToken(t)
    PROVE  IInv'
<1>. USE DEF IInv, GetUserTokenDoes, OnlyMoves, Same, SameMode, SameProvider, SameHistory
<1>0. GetUserTokenDoes(t)
  BY GetUserTokenFlat
<1>1. TypeOK'
  BY GetUserTokenType
<1>2. NumbersInv'
  BY <1>0, Numbers DEF NumbersInv, Numbered, PhaseInv, HasRecord, HasOld, Exchanged, Renews,
         Renewing, Reading
<1>3. PhaseInv'
  BY <1>0, Locals DEF PhaseInv, HasRecord, HasOld, Renews, Exchanged, Renewing, Reading
<1>4. OwnInv'
  BY <1>0 DEF OwnInv, Renews, Exchanged, Renewing, Reading
<1>5. WholeInv'
  BY <1>0 DEF WholeInv, Whole, Renews, Exchanged, Renewing
<1>6. AnswerInv'
  BY <1>0, Locals DEF AnswerInv, PhaseInv, HidesAccess, HidesRefresh, Renews, Exchanged,
         Renewing
<1>7. CurrentInv'
  BY <1>0 DEF CurrentInv, HidesAccess, HidesRefresh, Renews, Exchanged, Renewing
<1>8. CallbackInv'
  BY <1>0 DEF CallbackInv, PhaseInv, HasRecord, Reading, Renewing, NumbersInv, Numbered
<1>9. OwnerInv'
  <2>1. \A a, g \in Serial : Holds(a, g)' => Holds(a, g)
    BY <1>0 DEF Holds, HasRecord, HasOld, Reading, Renewing
  <2>. QED
    BY <2>1 DEF OwnerInv
<1>10. SurvivalInv'
  BY <1>0 DEF SurvivalInv, Survives, HidesAccess, HidesRefresh, Renews, Exchanged, Renewing
<1>11. ReplacedInv'
  BY <1>0 DEF ReplacedInv, PhaseInv, HidesAccess, HidesRefresh, Renews, Exchanged, Renewing
<1>12. GoneInv'
  BY <1>0 DEF GoneInv, PhaseInv, NumbersInv, Numbered, Renewing
<1>. QED
  BY <1>1, <1>2, <1>3, <1>4, <1>5, <1>6, <1>7, <1>8, <1>9, <1>10, <1>11, <1>12

LEMMA HandleCallbackKeeps ==
    ASSUME IInv, NEW t \in Thread, HandleCallback(t)
    PROVE  IInv'
<1>. USE DEF IInv, HandleCallbackDoes, OnlyMoves, Same, SameMode, SameHistory, SameRefresh, Answers
<1>0. HandleCallbackDoes(t)
  BY HandleCallbackFlat
<1>1. TypeOK'
  BY HandleCallbackType
<1>2. NumbersInv'
  BY <1>0, Numbers, NewSerial DEF NumbersInv, Numbered, PhaseInv, HasRecord, HasOld,
         Exchanged, Renews, Renewing, Reading
<1>3. PhaseInv'
  BY <1>0, Locals DEF PhaseInv, HasRecord, HasOld, Renews, Exchanged, Renewing, Reading
<1>4. OwnInv'
  BY <1>0, NewSerial DEF OwnInv, Renews, Exchanged, Renewing, Reading
<1>5. WholeInv'
  BY <1>0, NewSerial, Numbers DEF WholeInv, Whole, Renews, Exchanged, Renewing
<1>6. AnswerInv'
  BY <1>0, Locals, NewSerial, Numbers DEF AnswerInv, PhaseInv, HidesAccess, HidesRefresh,
         Renews, Exchanged, Renewing
<1>7. CurrentInv'
  BY <1>0, NewSerial, Numbers DEF CurrentInv, HidesAccess, HidesRefresh, Renews, Exchanged,
         Renewing
<1>8. CallbackInv'
  BY <1>0, NewSerial, Numbers DEF CallbackInv, PhaseInv, HasRecord, Reading, Renewing,
         NumbersInv, Numbered
<1>9. OwnerInv'
  <2>1. \A a, g \in Serial :
            Holds(a, g)' => Holds(a, g) \/ (a = issued + 1 /\ g = issued + 1)
    BY <1>0 DEF Holds, HasRecord, HasOld, Reading, Renewing
  <2>2. \A g \in Serial : ~Holds(issued + 1, g)
    BY <1>0, NewSerial DEF Holds
  <2>. QED
    BY <2>1, <2>2 DEF OwnerInv
<1>10. SurvivalInv'
  BY <1>0, NewSerial, Numbers DEF SurvivalInv, Survives, HidesAccess, HidesRefresh, Renews,
         Exchanged, Renewing
<1>11. ReplacedInv'
  BY <1>0, NewSerial DEF ReplacedInv, PhaseInv, HidesAccess, HidesRefresh, Renews,
         Exchanged, Renewing
<1>12. GoneInv'
  BY <1>0, NewSerial DEF GoneInv, PhaseInv, NumbersInv, Numbered, Renewing
<1>. QED
  BY <1>1, <1>2, <1>3, <1>4, <1>5, <1>6, <1>7, <1>8, <1>9, <1>10, <1>11, <1>12

-----------------------------------------------------------------------------
(* Crashes, the user's handlers and time.                                  *)

LEMMA CrashType ==
    ASSUME IInv, Crash
    PROVE  TypeOK'
<1>1. TypeOK
  BY DEF IInv
<1>2. \A t \in Thread :
          /\ pc'[t] \notin Renewing \cup {"readExpiry", "exchange"}
          /\ new'[t].refresh = 0 /\ old'[t].refresh = 0
  BY <1>1, CrashFlat DEF CrashDoes, Idle, Cleared, Renewing
<1>3. UNION {Pending(t) : t \in Thread} \subseteq 1..issued
  BY GrantNumbers DEF HasRecord, Pending
<1>4. /\ durable' \in BOOLEAN /\ rotates' \in BOOLEAN /\ stored' \in Token
      /\ issued' \in Serial /\ live' \in [Serial -> Serial]
  BY <1>1, TokenTypes DEF TypeOK, Crash, modeVars, providerVars
<1>5. /\ fresh' \subseteq 1..issued' /\ undated' \subseteq 1..issued'
      /\ fresh' \cap undated' = {}
      /\ lost' \subseteq 1..issued' /\ reverted' \subseteq 1..issued'
  BY <1>1, <1>3 DEF TypeOK, Crash, providerVars
<1>6. /\ pc' \in [Thread -> PC] /\ first' \in [Thread -> Token] /\ rec' \in [Thread -> Token]
      /\ old' \in [Thread -> Fields] /\ new' \in [Thread -> Fields]
      /\ replaced' \in [Thread -> Serial] /\ renewed' \in [Thread -> BOOLEAN]
  BY TokenTypes DEF Crash, PC
<1>. QED
  BY <1>2, <1>4, <1>5, <1>6 DEF TypeOK

LEMMA CrashKeeps ==
    ASSUME IInv, Crash
    PROVE  IInv'
<1>. USE DEF IInv, CrashDoes, SameMode, SameProvider, Blank, Cleared, Idle
<1>0. CrashDoes
  BY CrashFlat
<1>1. TypeOK'
  BY CrashType
<1>2. NumbersInv'
  BY <1>0, Numbers DEF NumbersInv, Numbered
<1>3. PhaseInv'
  BY <1>0 DEF PhaseInv, HasRecord, HasOld, Renews, Reading, Renewing
<1>4. OwnInv'
  BY <1>0 DEF OwnInv, Reading, Renewing
<1>5. WholeInv'
  BY <1>0 DEF WholeInv, Whole
<1>6. AnswerInv'
  BY <1>0 DEF AnswerInv, HidesAccess, HidesRefresh, Renews, Renewing
<1>7. CurrentInv'
  BY <1>0 DEF CurrentInv, HidesRefresh, Renews, Renewing
<1>8. CallbackInv'
  BY <1>0 DEF CallbackInv
<1>9. OwnerInv'
  <2>1. \A a, g \in Serial : Holds(a, g)' => Holds(a, g)
    BY <1>0 DEF Holds, HasRecord, Reading, Renewing
  <2>. QED
    BY <2>1 DEF OwnerInv
<1>10. SurvivalInv'
  BY <1>0 DEF SurvivalInv, Survives, HidesRefresh
<1>11. ReplacedInv'
  BY <1>0 DEF ReplacedInv
<1>12. GoneInv'
  BY <1>0 DEF GoneInv
<1>. QED
  BY <1>1, <1>2, <1>3, <1>4, <1>5, <1>6, <1>7, <1>8, <1>9, <1>10, <1>11, <1>12

\* A manual token, or none, belongs to no grant.
LEMMA UserSetsKeeps ==
    ASSUME IInv, SetToken \/ DeleteUserToken
    PROVE  IInv'
<1>1. /\ UNCHANGED <<modeVars, callVars, providerVars, historyVars>>
      /\ stored' = ManualToken \/ stored' = NoToken
  BY DEF SetToken, DeleteUserToken
<1>2. stored' \in Token
  BY <1>1, TokenTypes
<1>3. Blank(stored')
  BY <1>1 DEF Blank, ManualToken, NoToken, OAuthToken
<1>4. UNCHANGED <<durable, rotates, pc, first, rec, old, new, replaced, renewed,
                  issued, live, fresh, undated, lost, reverted>>
  BY <1>1 DEF modeVars, callVars, providerVars, historyVars
<1>5. TypeOK' /\ PhaseInv' /\ OwnInv' /\ CurrentInv'
  BY <1>2, <1>4 DEF IInv, TypeOK, PhaseInv, OwnInv, HasRecord, HasOld, CurrentInv,
         HidesRefresh, Renews, Exchanged
<1>6. NumbersInv' /\ SurvivalInv'
  BY <1>3, <1>4, Numbers DEF IInv, NumbersInv, Numbered, SurvivalInv, Survives,
         HidesRefresh, Renews, Exchanged, Blank
<1>7. WholeInv'
  BY <1>3, <1>4 DEF IInv, WholeInv, Whole, Renews, Exchanged, Blank
<1>8. AnswerInv'
  BY <1>3, <1>4, Locals DEF IInv, AnswerInv, HidesAccess, HidesRefresh, Renews, Exchanged,
         Blank, PhaseInv
<1>9. CallbackInv'
  BY <1>3, <1>4 DEF IInv, CallbackInv, Blank, PhaseInv, HasRecord, NumbersInv, Numbered
<1>10. OwnerInv'
  <2>1. \A a, g \in Serial : Holds(a, g)' => Holds(a, g)
    BY <1>3, <1>4 DEF Holds, HasRecord, HasOld, Blank
  <2>. QED
    BY <2>1 DEF IInv, OwnerInv
<1>11. ReplacedInv' /\ GoneInv'
  BY <1>3, <1>4 DEF IInv, ReplacedInv, GoneInv, HidesAccess, Renews, Exchanged, Blank
<1>. QED
  BY <1>5, <1>6, <1>7, <1>8, <1>9, <1>10, <1>11 DEF IInv

LEMMA AgeKeeps ==
    ASSUME IInv, NEW n \in Serial, Age(n)
    PROVE  IInv'
<1>1. /\ UNCHANGED <<durable, rotates, stored, pc, first, rec, old, new, replaced, renewed,
                     issued, live, undated, lost, reverted>>
      /\ fresh' \subseteq fresh
  BY DEF Age, modeVars, callVars, historyVars
<1>2. TypeOK'
  BY <1>1 DEF IInv, TypeOK
<1>3. NumbersInv' /\ PhaseInv' /\ OwnInv' /\ WholeInv'
  BY <1>1 DEF IInv, NumbersInv, Numbered, PhaseInv, HasRecord, HasOld, OwnInv, WholeInv,
         Whole, Renews, Exchanged
<1>4. AnswerInv' /\ CurrentInv' /\ CallbackInv' /\ SurvivalInv'
  BY <1>1 DEF IInv, AnswerInv, CurrentInv, CallbackInv, SurvivalInv, Survives, HidesAccess,
         HidesRefresh, Renews, Exchanged
<1>5. OwnerInv'
  BY <1>1 DEF IInv, OwnerInv, Holds, HasRecord, HasOld
<1>6. ReplacedInv' /\ GoneInv'
  BY <1>1 DEF IInv, ReplacedInv, GoneInv, HidesAccess, Renews, Exchanged
<1>. QED
  BY <1>2, <1>3, <1>4, <1>5, <1>6 DEF IInv

LEMMA StutterKeeps ==
    ASSUME IInv, UNCHANGED vars
    PROVE  IInv'
<1>1. UNCHANGED <<durable, rotates, stored, pc, first, rec, old, new, replaced, renewed,
                  issued, live, fresh, undated, lost, reverted>>
  BY DEF vars, modeVars, callVars, providerVars, historyVars
<1>2. TypeOK'
  BY <1>1 DEF IInv, TypeOK
<1>3. NumbersInv' /\ PhaseInv' /\ OwnInv' /\ WholeInv'
  BY <1>1 DEF IInv, NumbersInv, Numbered, PhaseInv, HasRecord, HasOld, OwnInv, WholeInv,
         Whole, Renews, Exchanged
<1>4. AnswerInv' /\ CurrentInv' /\ CallbackInv' /\ SurvivalInv'
  BY <1>1 DEF IInv, AnswerInv, CurrentInv, CallbackInv, SurvivalInv, Survives, HidesAccess,
         HidesRefresh, Renews, Exchanged
<1>5. OwnerInv'
  BY <1>1 DEF IInv, OwnerInv, Holds, HasRecord, HasOld
<1>6. ReplacedInv' /\ GoneInv'
  BY <1>1 DEF IInv, ReplacedInv, GoneInv, HidesAccess, Renews, Exchanged
<1>. QED
  BY <1>2, <1>3, <1>4, <1>5, <1>6 DEF IInv

-----------------------------------------------------------------------------
LEMMA InitIInv == Init => IInv
<1>. SUFFICES ASSUME Init PROVE IInv
  OBVIOUS
<1>1. /\ Blank(stored) /\ issued = 0 /\ live = [g \in Serial |-> 0]
      /\ fresh = {} /\ undated = {} /\ lost = {} /\ reverted = {}
      /\ \A t \in Thread :
            /\ pc[t] = "ready" /\ Blank(rec[t]) /\ replaced[t] = 0 /\ ~renewed[t]
            /\ old[t].access = 0 /\ old[t].refresh = 0 /\ old[t].expiry = 0
            /\ new[t].access = 0 /\ new[t].refresh = 0 /\ new[t].expiry = 0
  BY DEF Init, Blank, NoToken, OAuthToken, Nothing
<1>2. TypeOK
  <2>1. /\ durable \in BOOLEAN /\ rotates \in BOOLEAN /\ stored \in Token
        /\ pc \in [Thread -> PC] /\ first \in [Thread -> Token] /\ rec \in [Thread -> Token]
    BY TokenTypes DEF Init, PC
  <2>2. /\ old \in [Thread -> Fields] /\ new \in [Thread -> Fields]
        /\ replaced \in [Thread -> Serial] /\ renewed \in [Thread -> BOOLEAN]
        /\ issued \in Serial /\ live \in [Serial -> Serial]
    BY TokenTypes DEF Init
  <2>. QED
    BY <1>1, <2>1, <2>2 DEF TypeOK, Renewing
<1>3. NumbersInv /\ PhaseInv /\ OwnInv /\ WholeInv
  BY <1>1 DEF NumbersInv, Numbered, PhaseInv, HasRecord, HasOld, Renews, OwnInv, WholeInv,
         Whole, Reading, Renewing, Blank
<1>4. AnswerInv /\ CurrentInv /\ CallbackInv
  BY <1>1 DEF AnswerInv, CurrentInv, CallbackInv, HidesAccess, HidesRefresh, Renews, Renewing
<1>5. OwnerInv
  BY <1>1 DEF OwnerInv, Holds, HasRecord, Reading, Renewing, Blank
<1>6. SurvivalInv /\ ReplacedInv /\ GoneInv
  BY <1>1 DEF SurvivalInv, Survives, ReplacedInv, GoneInv, Blank
<1>. QED
  BY <1>2, <1>3, <1>4, <1>5, <1>6 DEF IInv

-----------------------------------------------------------------------------
LEMMA Preservation ==
    ASSUME IInv, [Next]_vars
    PROVE  IInv'
<1>1. ASSUME NEW t \in Thread, CallStep(t)
      PROVE  IInv'
  BY <1>1, RefreshReadKeeps, RefreshCheckKeeps, ReadAccessKeeps, ReadRefreshKeeps,
     ReadExpiryKeeps, RefreshReusesKeeps, RefreshExchangeKeeps, RefreshAnswerLostKeeps,
     RefreshRefusedKeeps, SetAccessKeeps, SetRefreshKeeps, SetExpiryKeeps, RefreshSaveKeeps,
     RefetchKeeps, ServeKeeps, CallbackSaveKeeps DEF CallStep
<1>2. ASSUME NEW t \in Thread, GetUserToken(t) \/ HandleCallback(t)
      PROVE  IInv'
  BY <1>2, GetUserTokenKeeps, HandleCallbackKeeps
<1>3. CASE SetToken \/ DeleteUserToken
  BY <1>3, UserSetsKeeps
<1>4. ASSUME NEW n \in Serial, Age(n)
      PROVE  IInv'
  BY <1>4, AgeKeeps
<1>5. CASE Crash
  BY <1>5, CrashKeeps
<1>6. CASE UNCHANGED vars
  BY <1>6, StutterKeeps
<1>. QED
  BY <1>1, <1>2, <1>3, <1>4, <1>5, <1>6 DEF Next

LEMMA Inductive == Spec => []IInv
<1>1. Init => IInv
  BY InitIInv
<1>2. IInv /\ [Next]_vars => IInv'
  BY Preservation
<1>. QED
  BY <1>1, <1>2, PTL DEF Spec

\* The token of one user for one service, the locals of the calls that refresh it and
\* the provider's answers stay within their types: a call has a refresh token to store
\* exactly from the exchange, or the reuse, to the end of its write.
THEOREM TypeCorrect == Spec => []TypeOK
<1>1. IInv => TypeOK
  BY DEF IInv
<1>. QED
  BY <1>1, Inductive, PTL

\* RefreshToken updates the stored token with whatever the provider rotated.  However
\* many calls refresh one token together, exchange it or reuse it, the storage has the
\* refresh token that the provider accepts or a call is about to write it, unless an
\* answer or a write was lost or, in memory only, a call has written back what it had
\* read before another one's answer.
THEOREM ConnectionKept == Spec => []ConnectionSurvives
<1>1. IInv => ConnectionSurvives
  <2>. SUFFICES ASSUME IInv, stored.kind = "oauth", stored.grant \notin lost,
                       durable \/ stored.grant \notin reverted
                PROVE  Connected
    BY DEF ConnectionSurvives
  <2>1. CASE stored.refresh = live[stored.grant]
    BY <2>1 DEF Connected
  <2>2. ASSUME NEW u \in Thread, HidesRefresh(u), rec[u].grant = stored.grant
        PROVE  Connected
    BY <2>2 DEF IInv, CurrentInv, HidesRefresh, Renews, Pending, Connected
  <2>. QED
    BY <2>1, <2>2 DEF IInv, SurvivalInv, Survives
<1>. QED
  BY <1>1, Inductive, PTL

\* GetUserToken re-fetches "the updated token after refresh": with Firestore it never
\* hands out the access token that its own exchange replaced, whatever else happens to
\* the token; in memory it never does unless a call, having read that token before, has
\* written it back over the newer one.
THEOREM RefreshServesNew == Spec => []RefreshedIsServed
<1>1. IInv => RefreshedIsServed
  BY DEF IInv, ReplacedInv, RefreshedIsServed
<1>. QED
  BY <1>1, Inductive, PTL

\* The storage and the records of the calls get their grants from each other, from a
\* new authorisation, or from nowhere.
LEMMA GrantsSpread ==
    ASSUME IInv, [Next]_vars
    PROVE  \/ /\ issued' \in Nat /\ issued <= issued'
              /\ stored'.grant \in {0, stored.grant} \cup {rec[t].grant : t \in Thread}
              /\ \A t \in Thread :
                    rec'[t].grant \in {0, stored.grant, rec[t].grant}
           \/ \E t \in Thread :
                 /\ issued' = issued + 1 /\ stored' = stored /\ rec'[t].grant = issued + 1
                 /\ \A u \in Thread \ {t} : rec'[u].grant = rec[u].grant
<1> USE DEF SameMode, SameProvider, OnlyMoves, Same, Blank, Cleared, Idle, Reads, Answers,
            Assigns, SameButAccess, SameButRefresh, SameButExpiry
<1>0. TypeOK /\ issued \in Nat
  BY Numbers DEF IInv
<1>1. ASSUME NEW t \in Thread, RefreshRead(t) \/ RefreshCheck(t) \/ RefreshRefused(t)
      PROVE  /\ issued' = issued /\ stored' = stored
             /\ \A u \in Thread : rec'[u].grant \in {0, stored.grant, rec[u].grant}
  BY <1>0, <1>1, RefreshReadFlat, RefreshCheckFlat, RefreshRefusedFlat
     DEF RefreshReadDoes, RefreshCheckDoes, RefreshRefusedDoes
<1>2. ASSUME NEW t \in Thread,
             ReadAccess(t) \/ ReadRefresh(t) \/ ReadExpiry(t) \/ RefreshReuses(t)
      PROVE  issued' = issued /\ stored' = stored /\ \A u \in Thread : rec'[u] = rec[u]
  BY <1>0, <1>2, ReadAccessFlat, ReadRefreshFlat, ReadExpiryFlat, RefreshReusesFlat
     DEF ReadAccessDoes, ReadRefreshDoes, ReadExpiryDoes, RefreshReusesDoes
<1>3. ASSUME NEW t \in Thread, RefreshExchange(t) \/ RefreshAnswerLost(t)
      PROVE  /\ issued' = issued + 1 /\ stored' = stored
             /\ \A u \in Thread : rec'[u].grant \in {0, rec[u].grant}
  BY <1>0, <1>3, RefreshExchangeFlat, RefreshAnswerLostFlat
     DEF RefreshExchangeDoes, RefreshAnswerLostDoes
<1>4. ASSUME NEW t \in Thread, SetAccess(t) \/ SetRefresh(t) \/ SetExpiry(t)
      PROVE  /\ issued' = issued /\ stored'.grant = stored.grant
             /\ \A u \in Thread : rec'[u].grant = rec[u].grant
  BY <1>0, <1>4, SetAccessFlat, SetRefreshFlat, SetExpiryFlat
     DEF SetAccessDoes, SetRefreshDoes, SetExpiryDoes
<1>5. ASSUME NEW t \in Thread, RefreshSave(t) \/ CallbackSave(t)
      PROVE  /\ issued' = issued /\ stored' \in {stored, rec[t]}
             /\ \A u \in Thread : rec'[u].grant \in {0, rec[u].grant}
  BY <1>0, <1>5, RefreshSaveFlat, CallbackSaveFlat DEF RefreshSaveDoes, CallbackSaveDoes
<1>6. ASSUME NEW t \in Thread, Refetch(t) \/ Serve(t) \/ GetUserToken(t)
      PROVE  /\ issued' = issued /\ stored' = stored
             /\ \A u \in Thread : rec'[u].grant \in {0, rec[u].grant}
  BY <1>0, <1>6, RefetchFlat, ServeFlat, GetUserTokenFlat
     DEF RefetchDoes, ServeDoes, GetUserTokenDoes
<1>7. ASSUME NEW t \in Thread, HandleCallback(t)
      PROVE  /\ issued' = issued + 1 /\ stored' = stored /\ rec'[t].grant = issued + 1
             /\ \A u \in Thread \ {t} : rec'[u].grant = rec[u].grant
  BY <1>0, <1>7, HandleCallbackFlat DEF HandleCallbackDoes
<1>8. CASE SetToken \/ DeleteUserToken
  <2>1. stored'.grant = 0 /\ issued' = issued /\ rec' = rec
    BY <1>8 DEF SetToken, DeleteUserToken, ManualToken, NoToken, OAuthToken, callVars,
       providerVars
  <2> QED BY <1>0, <2>1
<1>9. ASSUME NEW n \in Serial, Age(n)
      PROVE  issued' = issued /\ stored' = stored /\ rec' = rec
  BY <1>9 DEF Age, callVars
<1>10. CASE Crash
  <2>1. /\ issued' = issued /\ (stored' = stored \/ stored'.grant = 0)
        /\ \A t \in Thread : rec'[t].grant = 0
    BY <1>0, <1>10, CrashFlat DEF CrashDoes
  <2> QED BY <1>0, <2>1
<1>11. CASE UNCHANGED vars
  BY <1>0, <1>11 DEF vars, callVars, providerVars
<1> QED
  BY <1>0, <1>1, <1>2, <1>3, <1>4, <1>5, <1>6, <1>7, <1>8, <1>9, <1>10, <1>11
     DEF Next, CallStep

\* A grant that the user has deleted or replaced, and that no refresh holds any more,
\* never comes back to the storage.
THEOREM ForgottenGrantsStayOut == Spec => ForgottenForGood
<1>1. IInv /\ [Next]_vars => \A g \in Serial : Gone(g) => Gone(g)'
  <2> SUFFICES ASSUME IInv, [Next]_vars, NEW g \in Serial, Gone(g)
               PROVE  Gone(g)'
    OBVIOUS
  <2>1. /\ g \in Nat /\ g >= 1 /\ g <= issued /\ issued \in Nat
        /\ stored.grant # g /\ \A t \in Thread : rec[t].grant # g
    BY Numbers DEF Gone, IInv, Serial
  <2>2. /\ issued' \in Nat /\ g <= issued' /\ stored'.grant # g
        /\ \A t \in Thread : rec'[t].grant # g
    BY <2>1, GrantsSpread
  <2> QED BY <2>1, <2>2 DEF Gone
<1>2. IInv /\ [Next]_vars => [\A g \in Serial : Gone(g) => Gone(g)']_vars
  BY <1>1
<1> QED
  BY <1>2, Inductive, PTL DEF Spec, ForgottenForGood
=============================================================================
