--------------------------- MODULE OAuthFlowProofs ---------------------------
(***************************************************************************)
(* Proofs about OAuthFlow, for any number of requests, clients, users and  *)
(* codes, and any authorize requests.                                      *)
(*                                                                         *)
(* That a code is exchanged once rests on who has it (CodeInv): the one    *)
(* request about to store its grant, the storage, or the one request that  *)
(* consumed it.  That an exchange gives what a user agreed to rests on     *)
(* every copy of a grant being one of those a user agreed to (GrantInv).   *)
(***************************************************************************)
EXTENDS OAuthFlow, TLAPS

\* Who has a code.
CodeInv ==
    /\ \A c \in Code : grants[c] # None => c \in minted \ spent
    /\ \A c \in delivered \ spent : grants[c] # None
    /\ \A c \in Code \ spent : pairs[c] = 0
    /\ \A t \in Thread : pc[t] = "store" =>
          at[t].code \in minted \ delivered /\ grants[at[t].code] = None
    /\ \A t \in Thread : pc[t] = "exchange" => at[t].code \in spent /\ pairs[at[t].code] = 0
    /\ \A t, u \in Thread :
          pc[t] # "ready" /\ pc[u] # "ready" /\ at[t].code = at[u].code => t = u

\* Where a grant comes from, and that the user behind it was let in.
GrantInv ==
    /\ \A g \in authorized : validateAccess(g.user)
    /\ consents \subseteq authorized
    /\ \A c \in Code : grants[c] # None => grants[c] \in authorized
    /\ \A t \in Thread : pc[t] # "ready" => at[t].grant \in authorized

\* Every token goes back to an exchange.
TokenInv ==
    \A k \in access \cup refresh : \E r \in redeemed : r.claims = k

IInv ==
    /\ TypeOK
    /\ CodeInv /\ CodeOnce
    /\ GrantInv /\ RedeemedByRequester /\ TokenInv

-----------------------------------------------------------------------------
USE FlowAssumption

LEMMA Initially == Init => IInv
BY DEF Init, IInv, TypeOK, CodeInv, CodeOnce, GrantInv, RedeemedByRequester, TokenInv,
       Storing, Exchanging

LEMMA TypeStep ==
    ASSUME IInv, [Next]_vars
    PROVE  TypeOK'
<1>. USE DEF IInv, TypeOK, Storing, Exchanging, vars, storageVars, modeVars, signedVars, threadVars, historyVars, Goto, Answered
<1>1. ASSUME NEW c \in Client, Register(c)
      PROVE  TypeOK'
  BY <1>1 DEF Register
<1>2. ASSUME NEW q \in AuthorizeRequest, Authorize(q)
      PROVE  TypeOK'
  BY <1>2 DEF Authorize
<1>3. CASE BrowserLogin
  BY <1>3 DEF BrowserLogin
<1>4. CASE BrowserCallback
  BY <1>4 DEF BrowserCallback
<1>5. ASSUME NEW t \in Thread, ClientCallback(t)
      PROVE  TypeOK'
  BY <1>5 DEF ClientCallback, IssueCode, Grant
<1>6. ASSUME NEW t \in Thread, CompleteOAuth(t)
      PROVE  TypeOK'
  BY <1>6 DEF CompleteOAuth, IssueCode
<1>7. ASSUME NEW t \in Thread, StoreGrant(t)
      PROVE  TypeOK'
  BY <1>7 DEF StoreGrant, CodeInv
<1>8. ASSUME NEW t \in Thread, ConsumeGrant(t)
      PROVE  TypeOK'
  BY <1>8 DEF ConsumeGrant, CodeInv
<1>9. ASSUME NEW t \in Thread, ExchangeCode(t)
      PROVE  TypeOK'
  BY <1>9 DEF ExchangeCode, IssueTokenPair, ClaimsOf, Claims, Grant, Params, ValidateAuthorizeRequest
<1>10. ASSUME NEW t \in Thread, ExchangeRefused(t)
      PROVE  TypeOK'
  BY <1>10 DEF ExchangeRefused
<1>11. CASE ConsumeGrantFails
  BY <1>11 DEF ConsumeGrantFails
<1>12. ASSUME NEW k \in access \cup refresh, RefreshTokens(k)
      PROVE  TypeOK'
  BY <1>12 DEF RefreshTokens, IssueTokenPair
<1>13. ASSUME NEW k \in refresh, ExpireRefresh(k)
      PROVE  TypeOK'
  BY <1>13 DEF ExpireRefresh
<1>14. ASSUME NEW k \in access, ExpireAccess(k)
      PROVE  TypeOK'
  BY <1>14 DEF ExpireAccess
<1>15. ASSUME NEW c \in Code, ExpireCode(c)
      PROVE  TypeOK'
  BY <1>15 DEF ExpireCode
<1>16. CASE Restart
  BY <1>16 DEF Restart, CodeInv
<1>17. CASE UNCHANGED vars
  BY <1>17
<1>. QED
  BY <1>1, <1>2, <1>3, <1>4, <1>5, <1>6, <1>7, <1>8, <1>9, <1>10, <1>11, <1>12, <1>13, <1>14, <1>15, <1>16, <1>17 DEF Next, ThreadStep

LEMMA CodeStep ==
    ASSUME IInv, [Next]_vars
    PROVE  CodeInv' /\ CodeOnce'
<1>. USE DEF IInv, TypeOK, CodeInv, CodeOnce, Storing, Exchanging, vars, storageVars, modeVars, signedVars, threadVars, historyVars, Goto, Answered
<1>1. ASSUME NEW c \in Client, Register(c)
      PROVE  CodeInv' /\ CodeOnce'
  BY <1>1 DEF Register
<1>2. ASSUME NEW q \in AuthorizeRequest, Authorize(q)
      PROVE  CodeInv' /\ CodeOnce'
  BY <1>2 DEF Authorize
<1>3. CASE BrowserLogin
  BY <1>3 DEF BrowserLogin
<1>4. CASE BrowserCallback
  BY <1>4 DEF BrowserCallback
<1>5. ASSUME NEW t \in Thread, ClientCallback(t)
      PROVE  CodeInv' /\ CodeOnce'
  BY <1>5 DEF ClientCallback, IssueCode
<1>6. ASSUME NEW t \in Thread, CompleteOAuth(t)
      PROVE  CodeInv' /\ CodeOnce'
  BY <1>6 DEF CompleteOAuth, IssueCode
<1>7. ASSUME NEW t \in Thread, StoreGrant(t)
      PROVE  CodeInv' /\ CodeOnce'
  BY <1>7 DEF StoreGrant, Grant
<1>8. ASSUME NEW t \in Thread, ConsumeGrant(t)
      PROVE  CodeInv' /\ CodeOnce'
  BY <1>8 DEF ConsumeGrant
<1>9. ASSUME NEW t \in Thread, ExchangeCode(t)
      PROVE  CodeInv' /\ CodeOnce'
  BY <1>9 DEF ExchangeCode, IssueTokenPair
<1>10. ASSUME NEW t \in Thread, ExchangeRefused(t)
      PROVE  CodeInv' /\ CodeOnce'
  BY <1>10 DEF ExchangeRefused
<1>11. CASE ConsumeGrantFails
  BY <1>11 DEF ConsumeGrantFails
<1>12. ASSUME NEW k \in access \cup refresh, RefreshTokens(k)
      PROVE  CodeInv' /\ CodeOnce'
  BY <1>12 DEF RefreshTokens, IssueTokenPair
<1>13. ASSUME NEW k \in refresh, ExpireRefresh(k)
      PROVE  CodeInv' /\ CodeOnce'
  BY <1>13 DEF ExpireRefresh
<1>14. ASSUME NEW k \in access, ExpireAccess(k)
      PROVE  CodeInv' /\ CodeOnce'
  BY <1>14 DEF ExpireAccess
<1>15. ASSUME NEW c \in Code, ExpireCode(c)
      PROVE  CodeInv' /\ CodeOnce'
  BY <1>15 DEF ExpireCode
<1>16. CASE Restart
  BY <1>16 DEF Restart
<1>17. CASE UNCHANGED vars
  BY <1>17
<1>. QED
  BY <1>1, <1>2, <1>3, <1>4, <1>5, <1>6, <1>7, <1>8, <1>9, <1>10, <1>11, <1>12, <1>13, <1>14, <1>15, <1>16, <1>17 DEF Next, ThreadStep

LEMMA GrantStep ==
    ASSUME IInv, [Next]_vars
    PROVE  GrantInv' /\ RedeemedByRequester' /\ TokenInv'
<1>. USE DEF IInv, TypeOK, GrantInv, RedeemedByRequester, TokenInv, Storing, Exchanging, vars, storageVars, modeVars, signedVars, threadVars, historyVars, Goto, Answered
<1>1. ASSUME NEW c \in Client, Register(c)
      PROVE  GrantInv' /\ RedeemedByRequester' /\ TokenInv'
  BY <1>1 DEF Register
<1>2. ASSUME NEW q \in AuthorizeRequest, Authorize(q)
      PROVE  GrantInv' /\ RedeemedByRequester' /\ TokenInv'
  BY <1>2 DEF Authorize
<1>3. CASE BrowserLogin
  BY <1>3 DEF BrowserLogin
<1>4. CASE BrowserCallback
  BY <1>4 DEF BrowserCallback
<1>5. ASSUME NEW t \in Thread, ClientCallback(t)
      PROVE  GrantInv' /\ RedeemedByRequester' /\ TokenInv'
  BY <1>5 DEF ClientCallback, IssueCode
<1>6. ASSUME NEW t \in Thread, CompleteOAuth(t)
      PROVE  GrantInv' /\ RedeemedByRequester' /\ TokenInv'
  BY <1>6 DEF CompleteOAuth, IssueCode
<1>7. ASSUME NEW t \in Thread, StoreGrant(t)
      PROVE  GrantInv' /\ RedeemedByRequester' /\ TokenInv'
  BY <1>7 DEF StoreGrant
<1>8. ASSUME NEW t \in Thread, ConsumeGrant(t)
      PROVE  GrantInv' /\ RedeemedByRequester' /\ TokenInv'
  BY <1>8 DEF ConsumeGrant
<1>9. ASSUME NEW t \in Thread, ExchangeCode(t)
      PROVE  GrantInv' /\ RedeemedByRequester' /\ TokenInv'
  <2>1. at[t].grant \in authorized /\ at[t].grant.params \in Params
    BY <1>9 DEF ExchangeCode, Grant
  <2>2. PICK uri \in AllowedURI, verifier \in Challenge, secretOK \in BOOLEAN :
            /\ ExchangeChecks(t, uri, verifier, secretOK)
            /\ redeemed' = redeemed \cup {[code |-> at[t].code, client |-> at[t].client,
                  uri |-> uri, verifier |-> verifier, claims |-> ClaimsOf(at[t].grant)]}
    BY <1>9 DEF ExchangeCode
  <2>3. at[t].client \in Public => verifier # None
    BY <2>1, <2>2 DEF ExchangeChecks, Params, ValidateAuthorizeRequest
  <2>4. RedeemedByRequester'
    <3>1. authorized' = authorized
      BY <1>9 DEF ExchangeCode
    <3>2. ASSUME NEW r \in redeemed'
          PROVE  \E g \in authorized :
                    /\ validateAccess(g.user)
                    /\ r.claims = ClaimsOf(g)
                    /\ r.client = g.params.client /\ r.uri = g.params.uri
                    /\ r.client \in Public => r.verifier # None
                    /\ g.params.challenge \in {None, r.verifier}
      <4>1. CASE r \in redeemed
        BY <4>1
      <4>2. CASE r \notin redeemed
        <5>1. /\ validateAccess(at[t].grant.user)
              /\ r.claims = ClaimsOf(at[t].grant)
              /\ r.client = at[t].grant.params.client /\ r.uri = at[t].grant.params.uri
              /\ r.client \in Public => r.verifier # None
              /\ at[t].grant.params.challenge \in {None, r.verifier}
          BY <4>2, <2>1, <2>2, <2>3 DEF ExchangeChecks
        <5>. QED
          BY <5>1, <2>1
      <4>. QED
        BY <4>1, <4>2
    <3>. QED
      BY <3>1, <3>2 DEF validateAccess, ClaimsOf
  <2>5. GrantInv'
    BY <1>9 DEF ExchangeCode
  <2>6. TokenInv'
    <3>1. \E r \in redeemed' : r.claims = ClaimsOf(at[t].grant)
      <4>. DEFINE rec == [code |-> at[t].code, client |-> at[t].client, uri |-> uri,
                          verifier |-> verifier, claims |-> ClaimsOf(at[t].grant)]
      <4>1. rec \in redeemed'
        BY <2>2, Zenon
      <4>2. rec.claims = ClaimsOf(at[t].grant)
        OBVIOUS
      <4>. HIDE DEF rec
      <4>. QED
        BY <4>1, <4>2, Zenon
    <3>2. access' \cup refresh' \subseteq access \cup refresh \cup {ClaimsOf(at[t].grant)}
      BY <1>9 DEF ExchangeCode, IssueTokenPair
    <3>3. redeemed \subseteq redeemed'
      BY <2>2
    <3>. QED
      BY <3>1, <3>2, <3>3
  <2>. QED
    BY <2>4, <2>5, <2>6
<1>10. ASSUME NEW t \in Thread, ExchangeRefused(t)
      PROVE  GrantInv' /\ RedeemedByRequester' /\ TokenInv'
  BY <1>10 DEF ExchangeRefused
<1>11. CASE ConsumeGrantFails
  BY <1>11 DEF ConsumeGrantFails
<1>12. ASSUME NEW k \in access \cup refresh, RefreshTokens(k)
      PROVE  GrantInv' /\ RedeemedByRequester' /\ TokenInv'
  BY <1>12 DEF RefreshTokens, IssueTokenPair
<1>13. ASSUME NEW k \in refresh, ExpireRefresh(k)
      PROVE  GrantInv' /\ RedeemedByRequester' /\ TokenInv'
  BY <1>13 DEF ExpireRefresh
<1>14. ASSUME NEW k \in access, ExpireAccess(k)
      PROVE  GrantInv' /\ RedeemedByRequester' /\ TokenInv'
  BY <1>14 DEF ExpireAccess
<1>15. ASSUME NEW c \in Code, ExpireCode(c)
      PROVE  GrantInv' /\ RedeemedByRequester' /\ TokenInv'
  BY <1>15 DEF ExpireCode
<1>16. CASE Restart
  BY <1>16 DEF Restart
<1>17. CASE UNCHANGED vars
  BY <1>17
<1>. QED
  BY <1>1, <1>2, <1>3, <1>4, <1>5, <1>6, <1>7, <1>8, <1>9, <1>10, <1>11, <1>12, <1>13, <1>14, <1>15, <1>16, <1>17 DEF Next, ThreadStep

LEMMA Inductive == Spec => []IInv
<1>1. IInv /\ [Next]_vars => IInv'
  BY TypeStep, CodeStep, GrantStep DEF IInv
<1>. QED
  BY Initially, <1>1, PTL DEF Spec

-----------------------------------------------------------------------------
(* The theorems                                                            *)

\* The state of the OAuth server keeps its types: only validated requests are
\* signed, only codes that were generated are stored.
THEOREM TypeCorrect == Spec => []TypeOK
BY Inductive, PTL DEF IInv

\* A code is exchanged for one token pair at most, whatever fails or restarts.
THEOREM CodeUsedOnce == Spec => []CodeOnce
BY Inductive, PTL DEF IInv

\* A code that a client holds is in the storage until it is consumed, and not after.
THEOREM CodeStays == Spec => []CodeKept
<1>1. IInv => CodeKept
  BY DEF IInv, TypeOK, CodeInv, CodeKept
<1>. QED
  BY Inductive, <1>1, PTL

\* An exchange that succeeds matches what a user agreed to.
THEOREM ExchangeMatchesConsent == Spec => []RedeemedByRequester
BY Inductive, PTL DEF IInv

\* Who is let through to a service has been authorised for it.
THEOREM AdmittedAuthorized == Spec => []AdmittedWasAuthorized
<1>1. IInv => AdmittedWasAuthorized
  <2>. SUFFICES ASSUME IInv, NEW k \in access \cup refresh, NEW s \in Service, Admits(k, s)
                PROVE  \E r \in redeemed : \E g \in authorized :
                          /\ r.claims = k /\ ClaimsOf(g) = k
                          /\ s \in g.params.audience \/ (AcceptIssuer /\ Issuer \in g.params.audience)
    BY DEF AdmittedWasAuthorized
  <2>1. PICK r \in redeemed : r.claims = k
    BY DEF IInv, TokenInv
  <2>2. PICK g \in authorized : ClaimsOf(g) = k
    BY <2>1 DEF IInv, RedeemedByRequester
  <2>3. g.params.audience = k.audience
    BY <2>2 DEF ClaimsOf
  <2>. QED
    BY <2>1, <2>2, <2>3 DEF Admits
<1>. QED
  BY Inductive, <1>1, PTL

\* Every token that is out, let through or not and however often refreshed, stands for
\* what an accepted user agreed to, in a request with a redirect URI of its client.
THEOREM TokensTraceBack ==
    Spec => [](\A k \in access \cup refresh : \E g \in authorized :
                  /\ ClaimsOf(g) = k
                  /\ validateAccess(g.user) /\ ValidateRequestedRedirectURI(g.params))
<1>1. IInv => \A k \in access \cup refresh : \E g \in authorized :
                  /\ ClaimsOf(g) = k
                  /\ validateAccess(g.user) /\ ValidateRequestedRedirectURI(g.params)
  <2>. SUFFICES ASSUME IInv, NEW k \in access \cup refresh
                PROVE  \E g \in authorized :
                          /\ ClaimsOf(g) = k
                          /\ validateAccess(g.user) /\ ValidateRequestedRedirectURI(g.params)
    OBVIOUS
  <2>1. PICK r \in redeemed : r.claims = k
    BY DEF IInv, TokenInv
  <2>2. PICK g \in authorized : ClaimsOf(g) = k /\ validateAccess(g.user)
    BY <2>1 DEF IInv, RedeemedByRequester
  <2>3. g.params \in Params
    BY DEF IInv, TypeOK, Grant
  <2>. QED
    BY <2>2, <2>3 DEF Params
<1>. QED
  BY Inductive, <1>1, PTL
-----------------------------------------------------------------------------
(* The refinement: each code goes through the statuses of SingleUseCode.   *)

\* What the status of a code says about the storage, the requests and the history.
StatusInv ==
    /\ CodeStatus = [c \in Code |-> CodeStatus[c]]
    /\ \A c \in Code :
          /\ CodeStatus[c] \in SUC!Status
          /\ CodeStatus[c] = "unused" <=> c \notin minted
          /\ CodeStatus[c] = "redeemed" <=> pairs[c] > 0
          /\ CodeStatus[c] = "taken" <=> Works(c, "exchange")
          /\ CodeStatus[c] = "live" <=> grants[c] # None \/ Works(c, "store")

LEMMA StatusMeans == IInv => StatusInv
<1>. SUFFICES ASSUME IInv PROVE StatusInv
  OBVIOUS
<1>1. CodeStatus = [c \in Code |-> CodeStatus[c]]
  BY DEF CodeStatus
<1>2. ASSUME NEW c \in Code
      PROVE  /\ c \notin minted => pairs[c] = 0 /\ grants[c] = None /\ ~Works(c, "exchange") /\ ~Works(c, "store")
             /\ pairs[c] > 0 => grants[c] = None /\ ~Works(c, "exchange") /\ ~Works(c, "store")
             /\ Works(c, "exchange") => grants[c] = None /\ ~Works(c, "store")
             /\ pairs[c] \in Nat
  BY DEF IInv, TypeOK, CodeInv, Works
<1>3. ASSUME NEW c \in Code
      PROVE  /\ CodeStatus[c] \in SUC!Status
             /\ CodeStatus[c] = "unused" <=> c \notin minted
             /\ CodeStatus[c] = "redeemed" <=> pairs[c] > 0
             /\ CodeStatus[c] = "taken" <=> Works(c, "exchange")
             /\ CodeStatus[c] = "live" <=> grants[c] # None \/ Works(c, "store")
  BY <1>2 DEF CodeStatus, SUC!Status
<1>. QED
  BY <1>1, <1>3 DEF StatusInv

LEMMA InitRefined == Init => SUC!Init
BY DEF Init, SUC!Init, CodeStatus

\* A step in which codes come to nothing, or nothing happens to codes.
LEMMA VoidStep ==
    ASSUME StatusInv, StatusInv', UNCHANGED <<pairs, fresh>>,
           \A c \in Code : \/ CodeStatus'[c] = CodeStatus[c]
                           \/ CodeStatus[c] \in {"live", "taken"} /\ CodeStatus'[c] = "void"
    PROVE  SUC!Next
<1>. DEFINE C == {c \in Code : CodeStatus'[c] # CodeStatus[c]}
<1>1. C \in SUBSET {c \in Code : CodeStatus[c] \in {"live", "taken"}}
  OBVIOUS
<1>2. CodeStatus' = [c \in Code |-> IF c \in C THEN "void" ELSE CodeStatus[c]]
  BY DEF StatusInv
<1>3. SUC!Void
  BY <1>1, <1>2 DEF SUC!Void
<1>. QED
  BY <1>3 DEF SUC!Next

\* A step in which one code moves on.
LEMMA MoveStep ==
    ASSUME StatusInv, StatusInv', NEW c \in Code, NEW to \in SUC!Status,
           CodeStatus'[c] = to,
           \A d \in Code \ {c} : CodeStatus'[d] = CodeStatus[d]
    PROVE  CodeStatus' = [CodeStatus EXCEPT ![c] = to]
BY DEF StatusInv

\* What decides the status of a code, c apart, is as before.
Others(c) ==
    \A d \in Code \ {c} :
        /\ d \in minted' <=> d \in minted
        /\ pairs'[d] = pairs[d]
        /\ grants'[d] = grants[d]
        /\ Works(d, "store")' <=> Works(d, "store")
        /\ Works(d, "exchange")' <=> Works(d, "exchange")

LEMMA OthersKeep ==
    ASSUME StatusInv, StatusInv', NEW c, Others(c)
    PROVE  \A d \in Code \ {c} : CodeStatus'[d] = CodeStatus[d]
BY DEF StatusInv, Others, SUC!Status

LEMMA QuietStep ==
    ASSUME UNCHANGED <<minted, pairs, grants, threadVars, fresh>>
    PROVE  UNCHANGED SUC!vars
BY DEF SUC!vars, CodeStatus, Works, threadVars

LEMMA IssueStep ==
    ASSUME IInv, StatusInv, StatusInv', NEW t \in Thread, pc[t] = "ready",
           NEW g, IssueCode(t, g), UNCHANGED <<grants, pairs>>
    PROVE  SUC!Next
<1>. USE DEF IInv, TypeOK
<1>1. PICK c \in Code \ minted :
          /\ minted' = minted \cup {c}
          /\ fresh' = fresh \cup {c}
          /\ Goto(t, "store", [code |-> c, grant |-> g])
  BY DEF IssueCode
<1>2. Works(c, "store")'
  BY <1>1 DEF Goto, Works
<1>3. Others(c)
  BY <1>1 DEF Others, Works, Goto
<1>4. CodeStatus[c] = "unused" /\ CodeStatus'[c] = "live"
  BY <1>1, <1>2 DEF StatusInv
<1>5. CodeStatus' = [CodeStatus EXCEPT ![c] = "live"]
  BY <1>3, <1>4, OthersKeep, MoveStep DEF SUC!Status
<1>6. SUC!Issue(c)
  BY <1>1, <1>4, <1>5 DEF SUC!Issue, SUC!Move
<1>. QED
  BY <1>6 DEF SUC!Next

\* The request that works on a code is answered: no other works on it.
LEMMA AnsweredFrame ==
    ASSUME IInv, NEW t \in Thread, pc[t] # "ready", Answered(t),
           NEW c, c = at[t].code, NEW l \in {"store", "exchange"}
    PROVE  /\ ~Works(c, l)'
           /\ \A d \in Code \ {c} : Works(d, l)' <=> Works(d, l)
<1>. USE DEF IInv, TypeOK
<1>1. pc'[t] = "ready" /\ \A u \in Thread \ {t} : pc'[u] = pc[u] /\ at'[u] = at[u]
  BY DEF Answered, Goto
<1>2. \A u \in Thread \ {t} : pc[u] # "ready" => at[u].code # c
  BY DEF CodeInv
<1>3. ~Works(c, l)'
  BY <1>1, <1>2 DEF Works
<1>4. ASSUME NEW d \in Code \ {c}
      PROVE  Works(d, l)' <=> Works(d, l)
  BY <1>1 DEF Works
<1>. QED
  BY <1>3, <1>4

LEMMA StoreStep ==
    ASSUME IInv, StatusInv, StatusInv', NEW t \in Thread, StoreGrant(t)
    PROVE  SUC!Next
<1>. USE DEF IInv, TypeOK
<1>. PICK c \in Code : c = at[t].code
  BY DEF StoreGrant, Storing
<1>1. Works(c, "store")
  BY DEF StoreGrant, Works
<1>2. Others(c)
  BY <1>1, AnsweredFrame DEF Others, StoreGrant, Storing
<1>3. CodeStatus[c] = "live"
  BY <1>1 DEF StatusInv
<1>4. CodeStatus'[c] \in {"live", "void"}
  <2>1. minted' = minted /\ pairs' = pairs
    BY DEF StoreGrant
  <2>2. ~Works(c, "exchange")'
    BY AnsweredFrame DEF StoreGrant
  <2>. QED
    BY <1>1, <1>3, <2>1, <2>2 DEF StatusInv, SUC!Status
<1>. QED
  BY <1>1, <1>2, <1>3, <1>4, OthersKeep, VoidStep DEF StoreGrant, signedVars

LEMMA TakeStep ==
    ASSUME IInv, StatusInv, StatusInv', NEW t \in Thread, ConsumeGrant(t)
    PROVE  SUC!Next
<1>. USE DEF IInv, TypeOK
<1>1. PICK k \in clients, c \in delivered :
          /\ grants[c] # None
          /\ grants' = [grants EXCEPT ![c] = None]
          /\ Goto(t, "exchange", [code |-> c, client |-> k, grant |-> grants[c]])
  BY DEF ConsumeGrant
<1>2. c \in Code
  OBVIOUS
<1>3. Works(c, "exchange")'
  BY <1>1 DEF Goto, Works
<1>4. Others(c)
  BY <1>1 DEF Others, Works, Goto, ConsumeGrant
<1>5. CodeStatus[c] = "live" /\ CodeStatus'[c] = "taken"
  BY <1>1, <1>2, <1>3 DEF StatusInv
<1>6. CodeStatus' = [CodeStatus EXCEPT ![c] = "taken"]
  BY <1>2, <1>4, <1>5, OthersKeep, MoveStep DEF SUC!Status
<1>7. SUC!Take(c)
  BY <1>5, <1>6 DEF SUC!Take, SUC!Move, ConsumeGrant, signedVars
<1>. QED
  BY <1>2, <1>7 DEF SUC!Next

LEMMA RedeemStep ==
    ASSUME IInv, StatusInv, StatusInv', NEW t \in Thread, ExchangeCode(t)
    PROVE  SUC!Next
<1>. USE DEF IInv, TypeOK
<1>. PICK c \in Code : c = at[t].code
  BY DEF ExchangeCode, Exchanging
<1>1. Works(c, "exchange")
  BY DEF ExchangeCode, Works
<1>2. Others(c)
  <2>1. \A d \in Code \ {c} : pairs'[d] = pairs[d]
    BY DEF ExchangeCode
  <2>2. minted' = minted /\ grants' = grants
    BY DEF ExchangeCode, storageVars
  <2>. QED
    BY <2>1, <2>2, AnsweredFrame DEF Others, ExchangeCode
<1>3. pairs' = [pairs EXCEPT ![c] = @ + 1]
  BY DEF ExchangeCode
<1>4. CodeStatus[c] = "taken" /\ CodeStatus'[c] = "redeemed"
  BY <1>1, <1>3 DEF StatusInv
<1>5. CodeStatus' = [CodeStatus EXCEPT ![c] = "redeemed"]
  BY <1>1, <1>2, <1>4, OthersKeep, MoveStep DEF SUC!Status
<1>6. c \in fresh /\ fresh' = fresh
  BY DEF ExchangeCode, ExchangeChecks
<1>7. SUC!Redeem(c)
  BY <1>3, <1>4, <1>5, <1>6 DEF SUC!Redeem, SUC!Move
<1>. QED
  BY <1>1, <1>7 DEF SUC!Next

LEMMA RefuseStep ==
    ASSUME IInv, IInv', StatusInv, StatusInv', NEW t \in Thread, ExchangeRefused(t)
    PROVE  SUC!Next
<1>. USE DEF IInv, TypeOK
<1>. PICK c \in Code : c = at[t].code
  BY DEF ExchangeRefused, Exchanging
<1>1. Works(c, "exchange")
  BY DEF ExchangeRefused, Works
<1>2. Others(c)
  BY <1>1, AnsweredFrame DEF Others, ExchangeRefused, storageVars, historyVars
<1>3. CodeStatus[c] = "taken"
  BY <1>1 DEF StatusInv
<1>4. CodeStatus'[c] = "void"
  <2>1. minted' = minted /\ pairs' = pairs /\ grants' = grants
    BY DEF ExchangeRefused, storageVars, historyVars
  <2>2. ~Works(c, "exchange")' /\ ~Works(c, "store")'
    BY AnsweredFrame DEF ExchangeRefused
  <2>3. grants[c] = None
    BY DEF ExchangeRefused, CodeInv
  <2>. QED
    BY <1>1, <1>3, <2>1, <2>2, <2>3 DEF StatusInv, SUC!Status
<1>. QED
  BY <1>1, <1>2, <1>3, <1>4, OthersKeep, VoidStep
     DEF ExchangeRefused, signedVars, historyVars

LEMMA LostStep ==
    ASSUME IInv, IInv', StatusInv, StatusInv', ConsumeGrantFails \/ Restart
    PROVE  SUC!Next
<1>. USE DEF IInv, TypeOK
<1>1. UNCHANGED <<minted, pairs, fresh>>
  BY DEF ConsumeGrantFails, Restart, signedVars
<1>2. ASSUME NEW c \in Code
      PROVE  /\ grants'[c] \in {grants[c], None}
             /\ Works(c, "store")' => Works(c, "store")
             /\ Works(c, "exchange")' => Works(c, "exchange")
  <2>1. CASE ConsumeGrantFails
    BY <2>1 DEF ConsumeGrantFails, threadVars, Works
  <2>2. CASE Restart
    BY <2>2 DEF Restart, Works
  <2>. QED
    BY <2>1, <2>2
<1>3. ASSUME NEW c \in Code
      PROVE  \/ CodeStatus'[c] = CodeStatus[c]
             \/ CodeStatus[c] \in {"live", "taken"} /\ CodeStatus'[c] = "void"
  BY <1>1, <1>2 DEF StatusInv, SUC!Status
<1>. QED
  BY <1>1, <1>3, VoidStep

LEMMA StepRefined ==
    ASSUME IInv, IInv', StatusInv, StatusInv', [Next]_vars
    PROVE  [SUC!Next]_SUC!vars
<1>. USE DEF vars, storageVars, signedVars, threadVars, historyVars
<1>1. ASSUME NEW t \in Thread, ClientCallback(t)
      PROVE  SUC!Next \/ UNCHANGED SUC!vars
  <2>1. CASE Answered(t) /\ UNCHANGED <<fresh, minted>>
    <3>1. UNCHANGED <<minted, pairs, grants, threadVars, fresh>>
      BY <1>1, <2>1 DEF ClientCallback, Answered, Goto, IInv, TypeOK
    <3>. QED
      BY <3>1, QuietStep
  <2>2. CASE \E g : IssueCode(t, g)
    BY <1>1, <2>2, IssueStep DEF ClientCallback
  <2>. QED
    BY <1>1, <2>1, <2>2 DEF ClientCallback
<1>2. ASSUME NEW t \in Thread, CompleteOAuth(t)
      PROVE  SUC!Next
  BY <1>2, IssueStep DEF CompleteOAuth
<1>3. ASSUME NEW t \in Thread, StoreGrant(t) \/ ConsumeGrant(t) \/ ExchangeCode(t) \/ ExchangeRefused(t)
      PROVE  SUC!Next
  BY <1>3, StoreStep, TakeStep, RedeemStep, RefuseStep
<1>4. CASE ConsumeGrantFails \/ Restart
  BY <1>4, LostStep
<1>5. ASSUME \/ \E c \in Client : Register(c)
             \/ \E q \in AuthorizeRequest : Authorize(q)
             \/ BrowserLogin \/ BrowserCallback
             \/ \E k \in access \cup refresh : RefreshTokens(k)
             \/ \E k \in refresh : ExpireRefresh(k)
             \/ \E k \in access : ExpireAccess(k)
             \/ UNCHANGED vars
      PROVE  UNCHANGED SUC!vars
  <2>1. UNCHANGED <<minted, pairs, grants, threadVars, fresh>>
    BY <1>5 DEF Register, Authorize, BrowserLogin, BrowserCallback, RefreshTokens,
                ExpireRefresh, ExpireAccess
  <2>. QED
    BY <2>1, QuietStep
<1>6. ASSUME NEW c \in Code, ExpireCode(c)
      PROVE  SUC!Next
  <2>1. UNCHANGED CodeStatus /\ UNCHANGED pairs
    BY <1>6 DEF ExpireCode, CodeStatus, Works
  <2>2. SUC!Expire(c)
    BY <1>6, <2>1 DEF ExpireCode, SUC!Expire
  <2>. QED
    BY <2>2 DEF SUC!Next
<1>. QED
  BY <1>1, <1>2, <1>3, <1>4, <1>5, <1>6 DEF Next, ThreadStep

\* What happens to codes, in the storage, at the token endpoint, in failures and
\* restarts, is what SingleUseCode lets happen to them.
THEOREM CodesRefine == Spec => ImplementsSingleUse
<1>1. IInv /\ StatusInv /\ IInv' /\ StatusInv' /\ [Next]_vars => [SUC!Next]_SUC!vars
  BY StepRefined
<1>2. Spec => [][SUC!Next]_SUC!vars
  BY Inductive, StatusMeans, <1>1, PTL DEF Spec
<1>. QED
  BY <1>2, InitRefined, PTL DEF Spec, ImplementsSingleUse, SUC!Spec

\* A code whose grant a request took, /token or a failure or the memory's loss, is not
\* in the storage again, nor on its way there.
THEOREM CodesStayConsumed ==
    Spec => \A c \in Code :
        [](CodeStatus[c] \in SUC!Consumed => [](CodeStatus[c] \notin {"unused", "live"}))
<1>. HIDE FlowAssumption
<1>1. \A c \in Code : SUC!Spec =>
        [](CodeStatus[c] \in SUC!Consumed => [](CodeStatus[c] \notin {"unused", "live"}))
  BY SUC!TakenForGood
<1>2. Spec => SUC!Spec
  BY CodesRefine DEF ImplementsSingleUse
<1>. QED
  BY <1>1, <1>2

\* The time of a code is checked after its grant was consumed: when it is over, before
\* or after that, the code brings no tokens any more, and no failure or restart renews it.
THEOREM CodesExpireForGood ==
    Spec => \A c \in Code, n \in Nat :
        [](/\ CodeStatus[c] # "unused" /\ c \notin fresh /\ pairs[c] = n
           => [](c \notin fresh /\ pairs[c] = n))
<1>. HIDE FlowAssumption
<1>1. \A c \in Code, n \in Nat : SUC!Spec =>
        [](/\ CodeStatus[c] # "unused" /\ c \notin fresh /\ pairs[c] = n
           => [](c \notin fresh /\ pairs[c] = n))
  BY SUC!ExpiredForGood
<1>2. Spec => SUC!Spec
  BY CodesRefine DEF ImplementsSingleUse
<1>. QED
  BY <1>1, <1>2
=============================================================================
