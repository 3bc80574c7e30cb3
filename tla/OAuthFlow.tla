------------------------------ MODULE OAuthFlow ------------------------------
(***************************************************************************)
(* The OAuth authorization server: internal/server/auth_handlers.go and    *)
(* internal/oauth over the clients and grants of internal/storage, with    *)
(* the browser login of internal/server/middleware.go.                     *)
(*                                                                         *)
(* A step is an access to the storage with what a handler computes before  *)
(* or after it; a request that is between two such steps is a thread.      *)
(* A request that is refused before it changes anything is no step.        *)
(*                                                                         *)
(* What is signed or encrypted (states, tokens, the session cookie) is not *)
(* stored; a variable holds the contents of each kind that were signed.    *)
(* Such a thing verifies until its time to live is over.  A state or       *)
(* cookie that is too old is refused, which leaves no trace, so the model  *)
(* need not take it out of its set.  A token that expired is taken out,    *)
(* until one with the same claims is issued.                               *)
(*                                                                         *)
(* One key signs both kinds of tokens, whose fields have the same names,   *)
(* and Verify looks at signature and time only: either kind is taken for   *)
(* the other.  The kinds of states share a key as well but no field name:  *)
(* one taken for another reads as empty, and a code for it is for no       *)
(* client, so the model leaves that out.                                   *)
(***************************************************************************)
EXTENDS Naturals

CONSTANTS
    Thread,             \* requests in progress, in all instances of the program
    Client, Public,     \* client ids, and those registered without a secret
    RedirectURIs,       \* the redirect URIs each client registers
    AllowedURI,         \* the URIs that ValidateRedirectURIPolicy lets through
    Verifier,           \* PKCE verifiers; the challenge of v is written v
    Service, Issuer,    \* resources below the issuer, and the issuer itself
    User,               \* identities: records with fields domain, mail and orgs
    AllowedDomains, AllowedOrgs, ReservedDomain,
    AcceptIssuer,       \* config: DangerouslyAcceptIssuerAudience
    AuthorizeRequest,   \* the queries /authorize is called with (a bound)
    Code,               \* codes GenerateSecureToken may return (a bound)
    Browser, None       \* the state of a browser login; no challenge or verifier

Resource == Service \cup {Issuer}
Challenge == Verifier \cup {None}

ValidateRequestedRedirectURI(q) ==
    /\ q.uri \in RedirectURIs[q.client]
    /\ q.uri \in AllowedURI

ValidateAuthorizeRequest(q) ==
    /\ q.client \in Public => q.challenge # None
    /\ q.audience # {}
    /\ q.audience \subseteq Resource

\* AuthorizeParams.  offline: the scopes ask for a refresh token, as far as
\* RefreshTokenScopes demands that.
Params == {q \in AuthorizeRequest : ValidateRequestedRedirectURI(q) /\ ValidateAuthorizeRequest(q)}
Grant == [params : Params, user : User]     \* also UpstreamOAuthState
Claims == [client : Client, user : User, audience : SUBSET Resource, offline : BOOLEAN]

\* What a request works on while it stores a grant, or has consumed one.
Storing == [code : Code, grant : Grant]
Exchanging == [code : Code, client : Client, grant : Grant]

ASSUME FlowAssumption ==
    /\ Public \subseteq Client
    /\ DOMAIN RedirectURIs = Client
    /\ \A q \in AuthorizeRequest : q.client \in Client /\ q.offline \in BOOLEAN
    /\ Browser \notin AuthorizeRequest
    /\ None \notin Grant
    /\ AcceptIssuer \in BOOLEAN

VARIABLES
    durable,      \* the storage is Firestore, not memory (never changes)
    needsServiceAuth,  \* some server wants the user's own connection (never changes)
    clients,      \* storage: the clients it knows
    grants,       \* storage: the grant of each code, or None
    states,       \* signed: AuthorizeParams, and Browser
    consents,     \* signed: UpstreamOAuthState
    cookies,      \* encrypted: the users with a valid browser session
    access, refresh,   \* signed: claims of access and refresh tokens
    fresh,        \* the codes whose grant has not expired
    pc, at,       \* each thread's step, and what it works on
    registered,   \* history: client ids that were given out
    minted, delivered,   \* history: codes generated, codes sent to a client
    spent,        \* history: codes consumed, or gone with the memory
    pairs,        \* history: how many token pairs each code was exchanged for
    authorized,   \* history: what users agreed to at the identity provider
    redeemed      \* history: exchanges that succeeded, with what was presented

modeVars == <<durable, needsServiceAuth>>
storageVars == <<modeVars, clients, grants>>
signedVars == <<states, consents, cookies, access, refresh, fresh>>
threadVars == <<pc, at>>
historyVars == <<registered, minted, delivered, spent, pairs, authorized, redeemed>>
vars == <<storageVars, signedVars, threadVars, historyVars>>

TypeOK ==
    /\ durable \in BOOLEAN /\ needsServiceAuth \in BOOLEAN
    /\ clients \subseteq registered /\ registered \subseteq Client
    /\ grants \in [Code -> Grant \cup {None}]
    /\ states \subseteq Params \cup {Browser}
    /\ consents \subseteq Grant
    /\ cookies \subseteq User
    /\ access \subseteq Claims /\ refresh \subseteq Claims
    /\ fresh \subseteq minted /\ delivered \subseteq minted /\ spent \subseteq delivered
    /\ minted \subseteq Code
    /\ pairs \in [Code -> Nat]
    /\ authorized \subseteq Grant
    /\ pc \in [Thread -> {"ready", "store", "exchange"}]
    /\ at \in [Thread -> {None} \cup Storing \cup Exchanging]
    /\ \A t \in Thread :
          /\ pc[t] = "ready" => at[t] = None
          /\ pc[t] = "store" => at[t] \in Storing
          /\ pc[t] = "exchange" => at[t] \in Exchanging

Init ==
    /\ durable \in BOOLEAN /\ needsServiceAuth \in BOOLEAN
    /\ clients = {} /\ registered = {}
    /\ grants = [c \in Code |-> None]
    /\ states = {} /\ consents = {} /\ cookies = {}
    /\ access = {} /\ refresh = {} /\ fresh = {}
    /\ pc = [t \in Thread |-> "ready"] /\ at = [t \in Thread |-> None]
    /\ minted = {} /\ delivered = {} /\ spent = {}
    /\ pairs = [c \in Code |-> 0]
    /\ authorized = {} /\ redeemed = {}

Goto(t, label, value) ==
    /\ pc' = [pc EXCEPT ![t] = label]
    /\ at' = [at EXCEPT ![t] = value]

\* The request is answered.
Answered(t) == Goto(t, "ready", None)

StorageFails == durable

-----------------------------------------------------------------------------
(* /register and /authorize                                                *)

\* RegisterHandler: a fresh client id; ParseClientRegistration wants some URI, and
\* each one within the policy.
Register(c) ==
    /\ c \notin registered
    /\ RedirectURIs[c] # {} /\ RedirectURIs[c] \subseteq AllowedURI
    /\ clients' = clients \cup {c}
    /\ registered' = registered \cup {c}
    /\ UNCHANGED <<modeVars, grants, signedVars, threadVars, minted, delivered, spent, pairs,
                   authorized, redeemed>>

AuthorizeUnvalidated(q) ==
    /\ q.client \in clients
    /\ ValidateRequestedRedirectURI(q)
    /\ states' = states \cup {q}
    /\ UNCHANGED <<storageVars, consents, cookies, access, refresh, fresh, threadVars,
                   historyVars>>
\* AuthorizeHandler sends the browser to the identity provider with the signed request.
Authorize(q) ==
    /\ q.client \in clients
    /\ q \in Params
    /\ states' = states \cup {q}
    /\ UNCHANGED <<storageVars, consents, cookies, access, refresh, fresh, threadVars,
                   historyVars>>

\* BrowserSSOMiddleware finds no valid cookie and sends the browser to the provider.
BrowserLogin ==
    /\ states' = states \cup {Browser}
    /\ UNCHANGED <<storageVars, consents, cookies, access, refresh, fresh, threadVars,
                   historyVars>>

-----------------------------------------------------------------------------
(* /oauth/callback, /oauth/complete                                        *)

validateAccess(u) ==
    /\ u.domain # ReservedDomain
    /\ AllowedDomains # {} => u.domain \in AllowedDomains
    /\ AllowedOrgs # {} => u.orgs \cap AllowedOrgs # {}

\* IDPCallbackHandler for a browser, handleBrowserCallback.
BrowserCallback ==
    /\ Browser \in states
    /\ \E u \in User : validateAccess(u) /\ cookies' = cookies \cup {u}
    /\ UNCHANGED <<storageVars, states, consents, access, refresh, fresh, threadVars, historyVars>>

\* IssueCode: t has a grant with a new code, not stored yet.
IssueCode(t, g) ==
    \E c \in Code \ minted :
        /\ minted' = minted \cup {c}
        /\ fresh' = fresh \cup {c}
        /\ Goto(t, "store", [code |-> c, grant |-> g])

\* IDPCallbackHandler for a client, handleOAuthClientCallback.
ClientCallback(t) ==
    /\ pc[t] = "ready"
    /\ \E s \in states \ {Browser}, u \in User :
          LET g == [params |-> s, user |-> u]
          IN  /\ validateAccess(u)
              /\ authorized' = authorized \cup {g}
              /\ IF needsServiceAuth
                 THEN consents' = consents \cup {g} /\ Answered(t) /\ UNCHANGED <<fresh, minted>>
                 ELSE IssueCode(t, g) /\ UNCHANGED consents
    /\ UNCHANGED <<storageVars, states, cookies, access, refresh, registered, delivered, spent,
                   pairs, redeemed>>

\* CompleteOAuthHandler, behind BrowserSSOMiddleware: any valid session will do.
CompleteOAuth(t) ==
    /\ pc[t] = "ready"
    /\ cookies # {}
    /\ \E g \in consents : IssueCode(t, g)
    /\ UNCHANGED <<storageVars, states, consents, cookies, access, refresh, registered, delivered,
                   spent, pairs, authorized, redeemed>>

StoreGrantUnchecked(t) ==
    /\ pc[t] = "store"
    /\ \/ grants' = [grants EXCEPT ![at[t].code] = at[t].grant]
       \/ StorageFails /\ UNCHANGED grants
    /\ delivered' = delivered \cup {at[t].code}
    /\ Answered(t)
    /\ UNCHANGED <<modeVars, clients, signedVars, registered, minted, spent, pairs, authorized,
                   redeemed>>
\* The client is redirected with the code only if the storage reported no error; an
\* error may come after the write was done.
StoreGrant(t) ==
    /\ pc[t] = "store"
    /\ \/ /\ grants' = [grants EXCEPT ![at[t].code] = at[t].grant]
          /\ delivered' = delivered \cup {at[t].code}
       \/ /\ StorageFails
          /\ grants' \in {grants, [grants EXCEPT ![at[t].code] = at[t].grant]}
          /\ UNCHANGED delivered
    /\ Answered(t)
    /\ UNCHANGED <<modeVars, clients, signedVars, registered, minted, spent, pairs, authorized,
                   redeemed>>

-----------------------------------------------------------------------------
(* /token                                                                  *)

ConsumeGrantKept(t) ==
    /\ pc[t] = "ready"
    /\ \E k \in clients, c \in delivered :
          /\ grants[c] # None
          /\ spent' = spent \cup {c}
          /\ Goto(t, "exchange", [code |-> c, client |-> k, grant |-> grants[c]])
    /\ UNCHANGED <<storageVars, signedVars, registered, minted, delivered, pairs, authorized,
                   redeemed>>
\* TokenHandler has found the client; any client may present any code that was sent.
\* Read and delete are one critical section, or one Firestore transaction.
ConsumeGrant(t) ==
    /\ pc[t] = "ready"
    /\ \E k \in clients, c \in delivered :
          /\ grants[c] # None
          /\ grants' = [grants EXCEPT ![c] = None]
          /\ spent' = spent \cup {c}
          /\ Goto(t, "exchange", [code |-> c, client |-> k, grant |-> grants[c]])
    /\ UNCHANGED <<modeVars, clients, signedVars, registered, minted, delivered, pairs, authorized,
                   redeemed>>

\* The transaction is committed and the answer is an error all the same.
ConsumeGrantFails ==
    /\ StorageFails
    /\ clients # {}
    /\ \E c \in delivered :
          /\ grants[c] # None
          /\ grants' = [grants EXCEPT ![c] = None]
          /\ spent' = spent \cup {c}
    /\ UNCHANGED <<modeVars, clients, signedVars, threadVars, registered, minted, delivered, pairs,
                   authorized, redeemed>>

ClaimsOf(g) == [client |-> g.params.client, user |-> g.user, audience |-> g.params.audience,
                offline |-> g.params.offline]

\* issueTokenPair; shouldIssueRefreshToken decides on the second token.
IssueTokenPair(claims) ==
    /\ access' = access \cup {claims}
    /\ refresh' = IF claims.offline THEN refresh \cup {claims} ELSE refresh

ChecksWithoutPKCE(t, uri, verifier, secretOK) ==
    /\ at[t].code \in fresh
    /\ at[t].grant.params.client = at[t].client
    /\ at[t].grant.params.uri = uri
    /\ at[t].client \notin Public => secretOK
ChecksWithoutExpiry(t, uri, verifier, secretOK) ==
    /\ at[t].grant.params.client = at[t].client
    /\ at[t].grant.params.uri = uri
    /\ at[t].client \notin Public => secretOK
    /\ at[t].grant.params.challenge \in {None, verifier}
\* What ExchangeCode demands of the request for the grant that t has consumed.
ExchangeChecks(t, uri, verifier, secretOK) ==
    /\ at[t].code \in fresh
    /\ at[t].grant.params.client = at[t].client
    /\ at[t].grant.params.uri = uri
    /\ at[t].client \notin Public => secretOK
    /\ at[t].grant.params.challenge \in {None, verifier}

ExchangeCode(t) ==
    /\ pc[t] = "exchange"
    /\ \E uri \in AllowedURI, verifier \in Challenge, secretOK \in BOOLEAN :
          /\ ExchangeChecks(t, uri, verifier, secretOK)
          /\ redeemed' = redeemed \cup {[code |-> at[t].code, client |-> at[t].client, uri |-> uri,
                verifier |-> verifier, claims |-> ClaimsOf(at[t].grant)]}
    /\ IssueTokenPair(ClaimsOf(at[t].grant))
    /\ pairs' = [pairs EXCEPT ![at[t].code] = @ + 1]
    /\ Answered(t)
    /\ UNCHANGED <<storageVars, states, consents, cookies, fresh, registered, minted, delivered,
                   spent, authorized>>

\* The code is gone then, as well.
ExchangeRefused(t) ==
    /\ pc[t] = "exchange"
    /\ \E uri \in AllowedURI, verifier \in Challenge, secretOK \in BOOLEAN :
          ~ExchangeChecks(t, uri, verifier, secretOK)
    /\ Answered(t)
    /\ UNCHANGED <<storageVars, signedVars, historyVars>>

\* RefreshTokens, for the client the token was issued to: the storage has to know
\* it, while the token itself is checked by its signature only.
RefreshTokens(claims) ==
    /\ claims \in access \cup refresh
    /\ claims.client \in clients
    /\ IssueTokenPair(claims)
    /\ UNCHANGED <<storageVars, states, consents, cookies, fresh, threadVars, historyVars>>

-----------------------------------------------------------------------------
(* Time, and restarts                                                      *)

ExpireCode(c) ==
    /\ c \in fresh
    /\ fresh' = fresh \ {c}
    /\ UNCHANGED <<storageVars, states, consents, cookies, access, refresh, threadVars, historyVars>>

ExpireAccess(claims) ==
    /\ access' = access \ {claims}
    /\ UNCHANGED <<storageVars, states, consents, cookies, refresh, fresh, threadVars, historyVars>>

ExpireRefresh(claims) ==
    /\ refresh' = refresh \ {claims}
    /\ UNCHANGED <<storageVars, states, consents, cookies, access, fresh, threadVars, historyVars>>

\* An instance stops and starts again, the only one when the storage is memory.
\* jwtSecret and encryptionKey come from the configuration, so that what was signed
\* before still verifies.
Restart ==
    /\ clients' = IF durable THEN clients ELSE {}
    /\ grants' = IF durable THEN grants ELSE [c \in Code |-> None]
    /\ spent' = IF durable THEN spent ELSE delivered
    /\ \E T \in IF durable THEN SUBSET Thread ELSE {Thread} :
          /\ pc' = [t \in Thread |-> IF t \in T THEN "ready" ELSE pc[t]]
          /\ at' = [t \in Thread |-> IF t \in T THEN None ELSE at[t]]
    /\ UNCHANGED <<modeVars, signedVars, registered, minted, delivered, pairs, authorized, redeemed>>

-----------------------------------------------------------------------------
ThreadStep(t) ==
    \/ ClientCallback(t) \/ CompleteOAuth(t) \/ StoreGrant(t)
    \/ ConsumeGrant(t) \/ ExchangeCode(t) \/ ExchangeRefused(t)

Next ==
    \/ \E c \in Client : Register(c)
    \/ \E q \in AuthorizeRequest : Authorize(q)
    \/ BrowserLogin \/ BrowserCallback
    \/ \E t \in Thread : ThreadStep(t)
    \/ ConsumeGrantFails
    \/ \E k \in access \cup refresh : RefreshTokens(k)
    \/ \E k \in refresh : ExpireRefresh(k)
    \/ \E k \in access : ExpireAccess(k)
    \/ \E c \in Code : ExpireCode(c)
    \/ Restart

Spec == Init /\ [][Next]_vars

-----------------------------------------------------------------------------
(* Properties                                                              *)

\* ConsumeGrant hands a code out once: however many requests present it, over
\* failures of the storage and restarts, it yields at most one token pair.
CodeOnce == \A c \in Code : pairs[c] <= 1

\* A client is redirected with a code only after StoreGrant: a code that it holds is
\* in the storage until a request consumes it, and never again after that.
CodeKept == \A c \in delivered : grants[c] # None <=> c \notin spent

\* What an exchange is given, a user has agreed to at the identity provider, in an
\* authorize request of the same client, redirect URI and challenge: nothing is mixed
\* up between requests on the way through the state, the consent page and the grant.
RedeemedByRequester ==
    \A r \in redeemed : \E g \in authorized :
        /\ validateAccess(g.user)
        /\ r.claims = ClaimsOf(g)
        /\ r.client = g.params.client /\ r.uri = g.params.uri
        /\ r.client \in Public => r.verifier # None
        /\ g.params.challenge \in {None, r.verifier}

\* ValidateTokenMiddleware lets the bearer of these claims through to a service.
AdmitsAnyAudience(claims, service) == claims.user.mail # ReservedDomain
Admits(claims, service) ==
    /\ \/ service \in claims.audience
       \/ AcceptIssuer /\ Issuer \in claims.audience
    /\ claims.user.mail # ReservedDomain

\* A token lets its bearer through only to a service that an accepted user has
\* authorised for that client, however often it was refreshed.
AdmittedWasAuthorized ==
    \A k \in access \cup refresh, s \in Service : Admits(k, s) =>
        \E r \in redeemed : \E g \in authorized :
            /\ r.claims = k /\ ClaimsOf(g) = k
            /\ s \in g.params.audience \/ (AcceptIssuer /\ Issuer \in g.params.audience)

-----------------------------------------------------------------------------
(* Codes implement SingleUseCode                                           *)

Works(c, label) == \E t \in Thread : pc[t] = label /\ at[t].code = c

CodeStatus == [c \in Code |->
    IF c \notin minted THEN "unused"
    ELSE IF pairs[c] > 0 THEN "redeemed"
    ELSE IF Works(c, "exchange") THEN "taken"
    ELSE IF grants[c] # None \/ Works(c, "store") THEN "live"
    ELSE "void"]

SUC == INSTANCE SingleUseCode WITH status <- CodeStatus
ImplementsSingleUse == SUC!Spec
=============================================================================
