# Verification of mcp-front

mcp-front is an authenticating proxy in front of MCP servers. It is an OAuth
authorization server for its clients, keeps per-user tokens for the services
behind it, and starts or connects to those services on behalf of users. This
directory holds TLA+ models of the parts of it where several goroutines,
failures and time meet, the TLC runs that check them on small instances, and
TLAPS proofs that hold for every instance.

Paths below are relative to the repository root (`src/` in `PROJECT.json`).

## The system

| Part | State | Operations | Interacts with |
|---|---|---|---|
| stdio session manager, `internal/client/session_manager.go` | map from session key to subprocess, last access, cancelled contexts, singleflight calls | GetOrCreateSession, GetSession, RemoveSession, Shutdown, cleanup goroutine | called by the MCP handler, the session hooks and the application's shutdown |
| aggregate server, `internal/aggregate/server.go` | pool of backend connections per user and backend, closed flag, cache of discovered tools | getOrCreateConn, evictConn, idle cleanup, getTools, Shutdown | user tokens, MCP backends |
| user tokens, `internal/auth/service_oauth.go`, `internal/server/user_token_service.go`, `token_handlers.go`, `service_auth_handlers.go` | one token per user and service in the storage | GetUserToken, RefreshToken, HandleCallback, set, delete, disconnect | storage, the services' OAuth providers |
| storage, `internal/storage` | clients, grants, user tokens, sessions; memory or Firestore | get, set, delete, consume | everybody |
| OAuth server, `internal/oauth`, `internal/server/auth_handlers.go` | grants (authorization codes), registered clients, signed states and tokens | authorize, IdP callback, service selection, completion, token, register | storage, identity providers |
| middleware, `internal/server/middleware.go` | none | service auth, bearer token with audience, final gate, browser SSO | OAuth server |
| MCP handling, `internal/server/mcp_handler.go`, `session_handler.go`, `internal/client/client.go` | per SSE session: registered tools, tracked session | SSE request, message, register, unregister | session manager, user tokens, storage |
| configuration, `internal/config` | the file, then the resolved configuration | ValidateFile (`-validate`), Load | read once by the application |
| application, `internal/mcpfront.go`, `cmd` | the handlers it has built | load, construction, run, shutdown | all |
| inline servers, identity providers, crypto, JSON, logging | none between calls | | |

What makes it hard: request handlers run concurrently and call out (start a
subprocess, a handshake, a token exchange, a storage write) between reading
shared state and writing it; background goroutines reap what handlers are using;
Shutdown runs while handlers are still inside a call; clients disconnect while the
hooks of their session still run; singleflight ties callers to each other's outcome; Firestore calls fail and several instances share one
Firestore; a process may stop between a provider's answer and the write of it.

What would make each part correct:

* session manager: no subprocess is lost (started, not closed, unreachable), none
  is closed twice, nobody is stranded, idle ones are reaped, Shutdown ends, the
  per-user limit holds as far as the code lets it;
* aggregate connections: the same, and after Shutdown nothing is left; a broken
  connection is never handed out again and a working replacement never evicted;
* tool discovery: the cache holds what the backends answered, for a bounded time;
* user tokens: the refresh token the provider accepts is never dropped, a
  refreshed call does not serve the old token, a disconnected service stays so;
* OAuth server: a code is used once, by its client, with its verifier, before it
  expires, and yields only tokens for the audience it was issued for;
* sessions: a message reaches the subprocess of the user who sent it, with that user's
  token; subprocess and session record go when the stream goes, and when the process goes;
* application: a signal ends the process, whatever clients do;
* configuration: what the validator passes, the program starts with; what it starts
  with cannot mix up tools, identities or users later.

## Modules

| Module | What it is |
|---|---|
| `ResourcePool` | the abstract specification of a keyed pool: a resource is started once, published under a free key, retired by whoever takes it out, closed once; with the theorems that every such pool inherits |
| `SessionManager` | the stdio session manager in full; `ImplementsPool` is its refinement of `ResourcePool` |
| `MCSessionManager` | its TLC instances |
| `SessionManagerProofs` | the inductive invariant and the theorems |
| `AggregateConns` | the connection pool of the aggregate server; also refines `ResourcePool` |
| `MCAggregateConns` | its TLC instance |
| `UserTokens` | one user's token for one service, over both storages, with the provider |
| `MCUserTokens` | its TLC instances |
| `UserTokensProofs` | the inductive invariant and the theorems |
| `SingleUseCode` | the abstract specification of authorization codes: issued once, taken by one request, redeemed at most once and within its lifetime, never back; with the theorems that follow for every server that keeps to it |
| `OAuthFlow` | the OAuth server with its handlers, the browser login and its storage; `ImplementsSingleUse` is its refinement of `SingleUseCode` |
| `MCOAuthFlow` | its TLC instance |
| `OAuthFlowProofs` | the inductive invariant, the theorems, and the refinement |
| `AggregateConnsProofs` | the inductive invariant, the theorems, and the refinement |
| `GatewayProofs` | the inductive invariant and the theorems |
| `ConfigFileProofs` | lemmas and theorems about the two readers and about names, which `GatewayProofs` uses |
| `ToolNames` | names of servers and tools as sequences of characters: prefixing, parsing, validity |
| `ConfigFile` | the two readers of a configuration file, as predicates on files |
| `AuthMiddleware` | the authentication in front of an MCP endpoint, as a function of configuration and credentials |
| `Gateway` | one process from its start to its exit: composes the three modules above with streams, messages, discovery and shutdown |
| `MCGateway` | its TLC instances: the files |

### SessionManager

A goroutine is a process with a program counter `pc`. One step is one critical
section of `sm.mu`, one atomic access (`lastAccessed`, a context's Done channel),
or one call out. `flight` is `sm.group`: `GetOrCreateSession` makes the caller the
leader for a key, `GetOrCreateSessionJoin` makes it wait, `Finish` gives the
leader's result to all. The leader's steps are the body of the function singleflight
runs: `Lookup`, `TouchFound`, `CheckAlive`, `CheckUserLimits`, `CreateClient`,
`StoreSession`. `RemoveLocked`, `RemoveCancel` and `RemoveClose` are RemoveSession,
whoever calls it: a handler, GetSession on a dead session, or Shutdown. `cleaner` and
`doomed` are the cleanup goroutine, `snapshot` is Shutdown's list of keys.

Time is abstracted to `idle`, the set of sessions whose last access lies more than
the timeout back. A session becomes idle at any time, except between a goroutine's
store of `lastAccessed` and the check right after it. `exited` records subprocesses
that ended by themselves; no code reads it, which is what `session_dead_process`
is about. The configuration, user token and names of a session do not matter to
the pool and are left out.

### AggregateConns

The same layout for `connMu`. It differs from the session manager where the code
does: `conns` cannot be added to once `shut` is set (the new transport is closed
instead), Shutdown takes all entries out in one critical section, eviction compares
the entry with the connection that failed, and there is no aliveness check.
`UseConn`, `UseSucceeds` and `UseFails` stand for CallTool in a tool call and
ListTools in discovery, which both evict on failure. A tool call stores
`lastAccessed` once more before it uses the connection, discovery does not.

### UserTokens

One key (user and service). A step is one storage call, one exchange with the
provider, or one read of or assignment to a field of the token record. `durable` chooses
Firestore (calls may fail, every read is a fresh copy, the token survives a crash)
or memory (calls do not fail, records of one grant are one shared object, a crash
loses it). `rotates` chooses a provider whose refresh tokens are accepted once. Both
are fixed in the initial state, so one run covers the four combinations.

RefreshToken is `RefreshRead` (its storage read), `RefreshCheck` (the early returns at
lines 226 and 230), `ReadAccess`, `ReadRefresh` and `ReadExpiry` (the fields of
`oldToken`, one by one), then what `Token()` does, the assignments `SetAccess`,
`SetRefresh` and `SetExpiry`, and `RefreshSave`. In memory, `Assign` makes
each assignment visible in the storage and in every other goroutine's record at once,
which is what the shared `OAuthData` does, and a field is read as it is by then.

`Token()` on ReuseTokenSourceWithExpiry has four outcomes. When `oldToken` is `Valid`, as far
from its expiry as `TokenRefreshThreshold` or without one, it comes back as it is and
nobody is asked (`RefreshReuses`); the assignments then write back what was read.
Otherwise the provider answers (`RefreshExchange`), or its answer is lost
(`RefreshAnswerLost`), or it refuses or cannot be reached (`RefreshRefused`, at any time, which also
covers a user who withdraws the authorisation at the provider). The library fills in the
offered refresh token when an answer has none.

The provider is external. Its answers are numbered and bring tokens with that number; `fresh`
holds the answers that are further than the threshold from their expiry, `undated` those
that have none (the zero time, which RefreshToken's own check takes for expired and
the library for valid). Three variables are history: `replaced`, the access token that a
goroutine's exchange has replaced, `lost`, the grants whose newest refresh token went
missing through a lost answer, a failed write or a crash, and `reverted`, the grants of which a
call has overwritten newer tokens with what it had read before. The
last two are the conditions of `ConnectionSurvives` and `RefreshedIsServed`, `reverted` in
memory only: with Firestore both hold whatever calls overlap.

### OAuthFlow

A step is one access to the storage with what the handler computes around it. Two
kinds of request take two steps and are threads: one that issues a code and then
stores its grant (`ClientCallback` or `CompleteOAuth`, then `StoreGrant`), and one that
consumes a grant and then checks what was presented (`ConsumeGrant`, then
`ExchangeCode` or `ExchangeRefused`).
`Register`, `Authorize`, `BrowserLogin`, `BrowserCallback` and `RefreshTokens` are one
step each. A request that is refused before it changes anything is no step.

What the server only signs or encrypts is held in one set for each kind: `states` and
`consents` (the parameters of an authorize request, before and after the identity
provider), `cookies`, `access` and `refresh`. States and cookies that are too old are
refused without a trace, so they stay in their sets and the handler may or may not
use them; tokens are taken out when they expire. `fresh` holds the codes whose grant has
not expired. One key signs access and refresh tokens and both have the same fields,
so either verifies as the other, and the model accepts either in both places.

`durable` (Firestore or memory) and `needsServiceAuth` (whether the consent page comes
between) are fixed in the initial state. `Restart` ends the requests of one instance;
with memory, of the only one, and its clients and grants are gone, while what was
signed still verifies, because both keys come from the configuration (which requires
them). With Firestore a write or a transaction may take effect and report an error.

The identity provider answers with any user of `User`. `AuthorizeRequest` is the set
of queries /authorize is called with, refused ones included. `minted`, `delivered`,
`spent`, `pairs`, `authorized`, `redeemed` and `registered` are history: what was
generated, sent to a client, consumed or lost, exchanged, agreed to, presented, given
out. Properties speak about them, and no guard does, except that a random value
is new (`Code \ minted`, `c \notin registered`) and that only a client that was sent
a code presents it (`delivered`).

### ConfigFile, ToolNames and AuthMiddleware

These have no state. A configuration file is a record; a setting has one of the values
the rules tell apart: how it is written (a string, a reference to the environment, a
reference to the user's token, nothing, something else) and whether it resolves to
something long enough. A duration is one of four points in the order that the rules
compare, or malformed. Server names, delimiters and the names of service entries are sequences
of characters, since the questions about them are where one ends and which ones fold
together.

`Passes` is `ValidateFile` with the exit status of `-validate`, `Loads` is `Load`: the
raw checks, the parsers of `unmarshal.go`, `ResolveDefaults` and `ValidateConfig`. Both are
conjunctions with one operator per function of the source, because every error rejects the
file, in whatever order the rules are applied. `Unlinted` lists what `Passes` leaves
to `Loads`; `LintPredictsLoad` says that the list is complete.

`Authenticate` is what `buildAuthMiddlewares` assembles: service credentials first,
an OAuth token for what they did not recognise, then the gate. Its value is the
set of contexts the handler may see, empty for 401.

### Gateway

A behaviour starts with one file of `Files`. `LoadConfig` accepts or rejects it,
`NewMCPFront` builds the handlers or fails, and from then on one server of the file is
followed; the file itself is dropped, so that equal configurations meet. `main` is the
main goroutine. `stream[s]` is the program counter of the request that holds an SSE stream:
the register hook runs in it (`GetRegistrationToken`, `CreateSession`, `DiscoverCapabilities`,
`TrackSession` for a stdio server, `RegisterAggregate` for an aggregate), then the stream is
`open` until its client is `gone`, then the unregister hook runs (`UnregisterSession`,
`RevokeSession`). A client may go at any time, also while the register hook runs;
its context is then done, which Firestore and the backends' calls notice and memory
storage does not. `msg` is one message: `PostMessage` or `ForwardRequest` authenticates and
looks the session up, `DispatchMessage` runs the handler of the tool or prompt.

The discovery is one at a time (`flight` is the stream whose hook leads it); `result` has
one entry for each backend, `late` is its timeout. `cache` is a set of at most one record;
`ExpireCache` may empty it at any time, which stands for its TTL.

What the session manager does inside a call is `SessionManager`; here `CreateSession`
succeeds or fails and `Reap` may take any session out at any time. In the same way the calls of a
backend are `AggregateConns`, and `ChangeToken` stands for `UserTokens`.

## Runs

| Run | Shows | Size |
|---|---|---|
| `session_safety` | types, no orphan, one closer, bounded overshoot, sessions stay with their key, refinement of `ResourcePool` | 2 handlers, 3 keys of one user, 3 sessions, limit 1, Shutdown |
| `session_live` | Shutdown has taken out all it found, handlers leave each step of a creation and joiners return, retired sessions are closed, idle ones reaped, Shutdown returns | 2 handlers, 1 key, 2 sessions, one of which may end by itself |
| `session_reap_race` | GetSession hands out a session that cleanup is closing | 1 handler |
| `session_shutdown_orphan` | a creation that ends during Shutdown leaves a subprocess | 1 handler |
| `session_dead_process` | a dead subprocess is handed out as alive | 1 handler |
| `aggregate_conns` | types, final shutdown, bounded overshoot, refinement of `ResourcePool`, a broken connection does not come back | 2 callers, 3 keys (three backends of one user), 3 connections, limit 1 |
| `user_tokens` | unless an answer or a write was lost or, in memory, newer tokens were overwritten with what a call had read before: the provider's current refresh token is not dropped, a refreshed call serves a new token; an authorisation that nobody holds does not come back | 2 goroutines, 3 answers, all four modes |
| `token_torn_read` | two refreshes of one record in memory lose the rotated refresh token | 2 goroutines, 2 answers |
| `token_disconnect` | a refresh in flight undoes a disconnect | 1 goroutine |
| `oauth_flow` | a code gives one token pair at most, within its lifetime, and is there until it is consumed, an exchange gives what a user agreed to for that client, URI and challenge, a token admits only where it was authorised, refinement of `SingleUseCode` | 2 requests, 2 codes, a public and a confidential client, 6 queries of which 3 are refused, 2 users of which 1 is refused, all four modes |
| `gateway` | the validator predicts the loader; names round-trip and identities differ in every accepted file; under six running configurations: every identity was shown to this server, messages reach their owner, tokens reach the process, processes and records end with their stream, the shared discovery is fair to all who wait for it, shutdown ends and is clean | 3987 files, 2 streams, 1 message, 3 users and 2 service entries, 2 backends |
| `gateway_prompts` | a prompt is answered by another user's subprocess | 2 users, 1 stream each |

Bounds. The files of `gateway` are six that become running configurations (no
authentication, service entries only, user tokens with a service that brings its own,
Firestore, a remote server that accepts the issuer as audience, an aggregate of two backends)
and every file that differs from an accepted one in one setting, or in two of the
same object; a rule of either reader looks at two settings at most. Two streams are the
fewest for which one can lead a discovery that the other waits for, or get the other's
message; messages do not touch each other, so one in progress is enough. Its
subprocesses offer tools only: prompts are shared between streams, which
`gateway_prompts` is about.

Two handlers are the fewest that race, and cleanup and Shutdown are two
more actors beside them. Three keys with a limit of one let both handlers pass
the limit check while a third session is in the map. Three sessions let a session
be removed and replaced while the removed one is still being closed. In
`user_tokens` three answers are a connection and two refreshes, or two connections
and a refresh between them, which one call may read half of while another writes it. In `oauth_flow` two codes let two flows mix, or one flow end
while another begins; two requests are the fewest that present one code at the
same time. The three accepted queries differ in every field that must not get mixed up.
Symmetry (handlers, sessions, requests, codes, and keys when they have
one user) is used in safety runs only. Deadlock is checked in all runs, as handlers
may always start another call, except those of `Gateway`, where the process exits.

Fairness in `session_live`: the Go scheduler runs every goroutine that is inside a
call; `createClient` and `Close` return; the cleanup ticker fires. Nobody has to make
a call, take a result, or shut down. Cleanup's own exit is fair as well: a select
with both cases ready takes either, so it does not ignore `stopCleanup` for ever.

Fairness in `gateway`: the 30 seconds of the shutdown pass and its steps are taken;
the hooks of an aggregate's streams run; backends that are up or refuse connections answer,
and the discovery timeout fires. Nothing is assumed of clients, of subprocesses and of a
backend that hangs: `ShutdownEnds` holds although clients keep their streams, and
`RegistrationReturns` although a backend never answers. A backend that hangs does so in
`Initialize` or `ListTools`, which the timeout reaches. It does not reach `transport.Start`,
whose context is a background one for the sake of the SSE stream (server.go:498): that
`Start` returns is assumed of the transport, which is external.

### What the code does not do

Six runs end in a violation. Each states what a comment or a document of the
repository says; the quotations are in `PROJECT.json`.

* `session_reap_race`: cleanup's single lock is said to prevent a session being
  accessed between scan and removal. It does not cover GetSession, which reads the map
  under the lock and stores `lastAccessed` after it.
* `session_shutdown_orphan`: creation is said to prevent orphaned subprocesses. The
  session manager has no closed flag; the aggregate server has one and
  `ShutdownIsFinal` holds there. `ShutdownTakesAll` is what holds here: what the map had
  when Shutdown looked is gone when it returns.
* `session_dead_process`: "Process died, need to create new". The context tested is
  cancelled only by code that has already removed the session from the map.
* `token_disconnect`: Disconnect "revokes OAuth access". A concurrent refresh stores
  the record it read before.
  The same step overwrites a newer authorisation with the older one it was refreshing.
  `ForgottenForGood` is what holds instead: once neither the storage nor a call in progress
  has a grant, it never comes back.
* `token_torn_read`: "OAuth tokens refresh automatically." With memory storage a call can
  read the old access and refresh token of a record, then the new expiry that another call
  has just assigned. The library takes the old tokens for fresh ones, and they are written
  over the rotated ones and saved; the other call's re-fetch may serve the access token
  that it has just replaced. `ConnectionSurvives` and `RefreshedIsServed` are what holds.
* `gateway_prompts`: "each user gets an isolated subprocess". Tools are registered for
  each session, but prompts, resources and resource templates on the server that all
  sessions share, with handlers that keep the subprocess of the last session.

Other differences came up while modelling. The models have the code's behaviour, and
the properties are stated so that they hold:

* "`maxPerUser` limits concurrent sessions per user" (configuration.md), but
  checkUserLimits and the store are separate critical sections, so concurrent creations
  exceed the limit; `BoundedOvershoot` says by how much;
* a server that requires user tokens may have service entries. The validator demands
  `"userToken": {"$userToken": ..}` of them, which the loader refuses; what the loader
  accepts, the validator refuses (first clause of `Unlinted`);
* a service client that brings its own token has it in its subprocess
  (`ServiceTokenReachesProcess`), but the check before a tool call looks only at
  what is stored under its identity (`TokenPresent`) and asks it to store one;
* the unregister hook revokes the session record with the context of the request that has
  just ended, so with Firestore the record stays; hence the condition in `NothingOutlivesStream`;
* with memory storage the encryption key is said to be optional, and the loader
  accepts a file without it, but `NewMCPFront` fails (`KeysOK`);
* a discovery waits for the slowest backend or the timeout, though the documentation of
  aggregates says healthy backends are not held up; hence the timeout in
  `HealthyDiscoverySucceeds` and `CacheReflectsBackends`;
* a delimiter of several characters may overlap the end of a backend's name (backend
  `b_`, delimiter `__`), so `NamesRoundTrip` is about delimiters of one character;
* servers whose names differ only in case share the prefix of their service identities;
  hence the last condition of `IdentitiesDistinct`.

## Proofs

`SessionManagerProofs` proves, for any sets of keys, handlers and sessions and any
limit (the assumptions are `ConstantsAssumption`, that the kinds of values are
distinct, and, for the overshoot only, `HandlersFinite`):

* `TypeCorrect`, `NothingOrphaned`, `OneCloserEach`, `OvershootBounded`: the
  invariants of `session_safety`;
* `SessionsStayWithTheirKey`, `NobodyStranded`: a session stays with its key (checked by `session_safety`), and whoever
  waits has somebody to wait for (`WaitersHaveLeader`, an invariant that is only proved);
* `ShutdownComplete`: the temporal safety property `ShutdownTakesAll` of `session_live`;
* `JoinersServed`: `Spec /\ HandlersMove => JoinersReturn`;
* `Refinement`: every behaviour of the session manager is one of `ResourcePool`;
* `RetiredStaysOut`: what left the map is never in it again.

`NoOrphan` is not inductive: StoreSession would overwrite an entry if the creator's
lookup had gone stale. The inductive invariant `IInv` therefore says

* `FlightInv`: the goroutine inside the singleflight function of a key is the one
  recorded there, so no two are inside for one key;
* `LookupInv`: what that goroutine has learnt about its key still holds: the key is
  free from the limit check to the store;
* `PoolInv`: the map offers started and uncancelled sessions, each under one key.
  This is why the dead-session branch never meets a session that is still in the map;
* `HolderInv`, `CleanerInv`: who holds a session to store or close it holds it alone;
* `OwnedInv`: every started and unclosed session is in the map or held.

`Preservation` has one case per action; the store, the release of joiners and the
cleanup scan, where several processes or entries change together, are lemmas of
their own. `Refinement` maps a step to Start, Publish, Retire, Close or a stutter.
`OvershootBounded` counts: a step either shrinks the user's entries and creators,
passes the check with fewer entries than the limit, or turns one creator into one
entry.

Three results use an invariant on top of `IInv`. `CallInv` is `SessionOfOneKey` with
`ResultInv` (whoever has a session is inside a call for a key, or has its result) and
`LeaderInv` (singleflight knows only handlers that are inside the function, and a joiner
finds one of them), which `WaitersHaveLeader` follows from. `Taken(s)` follows one session
that the map had when Shutdown took its snapshot: nobody will store it again, and while an
entry still has it, Shutdown has that entry's key before it. It holds from the snapshot on,
whatever handlers remove and create under the same keys, and says at the end of Shutdown
what `ShutdownTakesAll` promises.

Liveness is proved as far as it does not depend on fairness. A joiner is served by another
handler's steps: `AwaitedGoesOn` shows that the leader it waits for stays tied to it, takes
no step but the next one of the creation, whatever all others do, and takes the joiner along
when it leaves. `JoinersServed` concludes that every joiner returns if no handler stays for
ever at one step of a creation. That condition is `HandlersMove`, the half of
`JoinersReturn` that rests on the fairness of the Go scheduler; `session_live` checks both halves.

`ResourcePool` has theorems of its own, about any pool: `PlacesSeparate` (a resource has one
owner at a time and one key) and `RetiredForGood` (what was retired or closed is never
published again). Both pools get `RetiredStaysOut` from the latter through their `Refinement`.

`OAuthFlowProofs` proves, for any clients, users, queries, codes and number of requests
(under `FlowAssumption`, which says how the constants fit together):

* `TypeCorrect`, `CodeUsedOnce`, `CodeStays`, `ExchangeMatchesConsent`,
  `AdmittedAuthorized`: the invariants of `oauth_flow`;
* `TokensTraceBack`: every token, let through or not, goes back to what an accepted user
  agreed to;
* `CodesRefine`: what happens to codes is a behaviour of `SingleUseCode`;
* `CodesStayConsumed`, `CodesExpireForGood`: what `SingleUseCode` itself promises (its theorems
  `OnePair`, `TakenForGood`, `EndedForGood` and `ExpiredForGood`), carried over by the
  refinement: a code that was taken is not in the storage again, and one whose time is over
  brings no tokens any more, although ConsumeGrant still hands its grant out.

`CodeOnce` is not inductive: nothing in it says that a second request cannot hold the
same grant. The inductive invariant adds `CodeInv` (a code is with the one request that
will store it, in the storage, or with the one request that consumed it, and was
redeemed only after it was consumed), `GrantInv` (every copy of a grant, on the
consent page, in a request or in the storage, is one that an accepted user agreed to)
and `TokenInv` (every token goes back to an exchange, however often it was
refreshed). For the refinement, `StatusInv` reads each code's status off these
variables; a step then either moves one code on (`MoveStep`), or voids some (`VoidStep`), or
ends one's lifetime. A code is redeemed only while it is `fresh`, which `ExchangeChecks` demands.

`AggregateConnsProofs` proves, for any keys, callers, connections and limit (under the
assumptions on constants, and `ThreadsFinite` for the overshoot only), every property of
`aggregate_conns`: `TypeCorrect`, `ShutdownFinal`, `BrokenStaysOut`, `Refinement`
and `OvershootBounded`; and besides `ConnsStayWithTheirKey`, `NobodyStranded`,
`RetiredStaysOut` and `JoinersServed`, which no run checks. `JoinersServed` has the condition
`CallersMove`: `Initialize` ends by the discovery timeout, but for `Start` and `Close` the
condition rests on the transport, as the code gives `Start` a background context.
The inductive invariant has the layout of the session manager's.
It adds `UseInv` (a caller uses a connection that was published, under its own key if it
is still in the pool, so that eviction compares with something that is or was there) and
`ShutInv` (cleanup has exited before Shutdown takes the pool, and the pool stays empty once
it is shut), and `HolderInv` covers every remover that holds a connection alone: an
evicting caller and a creator whose connection was refused or never came about. `CallInv`
is layered on it as in the session manager.

`ConfigFileProofs` is about operators only. `PassesLoads` shows, rule by rule and for any
file, that what `Passes` demands, together with the values in `Settings` and without the
reasons of `Unlinted`, is what `Loads` demands. `PrefixParses` shows that parsing undoes
prefixing, because the first separator in a prefixed name is the one that
`PrefixToolName` put there; `Separation` is the same argument for service identities.

`GatewayProofs` proves, for any set of files, credentials and streams, every invariant
that `gateway` checks. `GatewayAssumption` says what the JSON parser guarantees of a file
(`IsFile`: a name stands for one server, names are strings). `TokenStreamsHaveUser` has an
assumption of its own: every account that is let in has an address. `validateAccess`
(auth_handlers.go:640-652) sees to that: the loader requires `allowedDomains` or
`idp.allowedOrgs`, the former refuses an account whose domain is empty for want of an address,
and the latter every account that comes without organizations, which only the GitHub provider
lists, and that one fails without a verified address. The assumption fails only where `allowedDomains` itself lists the empty string. The inductive
invariant `IInv` says

* `FileInv`: what `Load` has said of the file; with the lemmas of `ConfigFileProofs` it
  gives `LintPredicts`, `NamesLeadBack` and `IdentitiesApart`;
* `ProcInv`: a subprocess runs only between its creation and the end of its stream, and
  then the session manager has it, so that the unregister hook or the shutdown finds it;
* `RecordInv`, `KindInv`, `BootInv`: where a stream can be that has a record, that belongs
  to a kind of server, or that has not begun;
* `MessageInv`, `ServiceInv`: a stream's token is its owner's, a forwarded message has been
  matched with the owner of its stream, and a stream's owner never changes;
* `ResultInv`: what a running discovery has noted of a backend is so, up to the timeout;
* `StoppedInv`: after an HTTP shutdown in time no stream is left.

There is one lemma per action: first the parts that it does not touch, then each of the others.

`IdentitiesAreEarned` ties the streams and messages back to the middlewares: whatever
`Authenticate` lets through, service credentials or a token, was shown to this server
(`Earned`), and a stream's owner never changes afterwards. `OneIdentity` says that `Authenticate`
leaves no choice: a request that is let through has one identity. `StreamsLetGo` is the
conditional liveness of the shared discovery: every registration returns, whichever client
leads the discovery and whether that one stays, if no step of a registration and no
discovery lasts for ever. That condition is `RegistrationMoves`, the half of
`RegistrationReturns` that rests on fairness; `gateway` checks both, with a backend that hangs.

`UserTokensProofs` proves, for any number of goroutines and of answers of the provider, for
both storages and both kinds of provider, the properties of `user_tokens`: `TypeCorrect`,
`ConnectionKept`, `RefreshServesNew` and `ForgottenGrantsStayOut`. The first two have the
condition of their properties: in memory they are about grants that are not `reverted`, with
Firestore about all. `ConnectionSurvives` is not inductive: it does not
say that a record that is about to be saved is still current, or that an answer on its way
to the storage is the newest. The argument is that an answer is in one
place until it is written where others can read it, with Firestore when the record is
saved, in memory as soon as the field is assigned (`HidesAccess`, `HidesRefresh`). Hence

* `AnswerInv`: until then nobody else has read or offered what the answer brought;
* `CurrentInv`: whoever is about to write a refresh token that an exchange brought has the
  one that the provider accepts, because nobody could refresh in between;
* `CallbackInv`: the same for a new grant between `HandleCallback`'s exchange and its save;
* `OwnInv`, `WholeInv`: with Firestore nobody else changes a record that a call has read, so
  what `oldToken` takes from it is of one answer. If it is reused without an
  exchange, that answer has no expiry, and as such a token is never exchanged, nothing newer
  can be overwritten with it. In memory this fails, which is `token_torn_read`;
* `OwnerInv`: an access token is of one grant, wherever it is held (`Holds`), so a record
  that has got another goroutine's token is of that goroutine's grant;
* `GoneInv`: in memory, the assignment of a new access token takes the replaced one out of
  the storage and all records of the grant, unless it is reverted;
* `SurvivalInv`, `ReplacedInv`: the two properties, for every record that may be saved;
* `NumbersInv`, `PhaseInv`: tokens are answers that were given, and what the locals hold at
  each step of RefreshToken.

Each action has a lemma that says what it does goroutine by goroutine (`...Flat`), from which
the lemmas that it keeps types (`...Type`) and the invariant (`...Keeps`) follow, the latter one
conjunct at a time.

`ForgottenGrantsStayOut` needs one more lemma, `GrantsSpread`: in one step the storage gets a
grant from a record or none, a record from the storage, and only an authorisation brings a
new one.

Only model-checked: `HandlersMove` and `RegistrationMoves` (what is left of `JoinersReturn` and
  `RegistrationReturns`, see above), `ShutdownReturns`, `ShutdownEnds`, `RetiredAreClosed` and
  `IdleAreReaped`: that a fair step is taken at last needs ENABLED, which this prover
  does not reason about. `ShutdownReturns` and `RetiredAreClosed` need an induction over the
  keys or sessions left to close besides.

## Not modelled

* Inline servers run one command per call and keep nothing between calls; identity
  providers are one request to an external service each. `Gateway` has their
  construction fail where it can.
* Reading and writing bytes: the SSE and streamable proxies, JSON, JSON-RPC, logging; of the
  proxies only whose identity and token a request carries is modelled.
* The ping task of a client, whose failures are only logged, and the transports.
* In the modelled parts: the contents of tool lists and tool filters, error texts, the form
  checks of the token pages, the signed state of a service's OAuth flow; the OAuth
  metadata, the list of tokens and the service selection page, which only read; the
  records of users, which nothing reads back; CORS and recovery from panics; the
  comparison of URIs, hashes and secrets, which is equality in the model; and states of one
  kind presented as another, which read as empty and whose codes belong to no client.
* Of a configuration: settings that no rule of either reader looks at, and the JSON
  syntax.
