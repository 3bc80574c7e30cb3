------------------------------ MODULE Gateway ------------------------------
(***************************************************************************)
(* One process of mcp-front from its start to its exit: cmd/mcp-front and  *)
(* internal/mcpfront.go load the configuration, build the handlers and     *)
(* shut down; internal/server and internal/client carry the streams and    *)
(* the messages of a stdio server; internal/aggregate registers the        *)
(* streams of an aggregate server, which share one tool discovery.         *)
(*                                                                         *)
(* A behaviour follows one server of its file.  What its pools do inside   *)
(* is in SessionManager and AggregateConns: here the creation of a session *)
(* succeeds or fails, and cleanup may remove a session at any time.        *)
(***************************************************************************)
EXTENDS ConfigFile, AuthMiddleware

CONSTANTS Files,       \* the configuration files to start with
          Followed,    \* the names of servers whose requests are followed
          Dev,         \* MCP_FRONT_ENV=development
          Credential,  \* Authorization headers: [scheme, username, secret]
          Stream,      \* client streams, one session id each (a bound)
          Offers,      \* what a subprocess offers: "tool", and perhaps "prompt"
          None

ASSUME GatewayAssumption ==
    /\ \A f \in Files : IsFile(f)
    /\ Dev \in BOOLEAN /\ Domain \in STRING /\ None \notin Stream /\ Offers \subseteq {"tool", "prompt"}

VARIABLES
    main,     \* the main goroutine
    file,     \* the configuration file
    conf,     \* what the followed server was built from
    backend,  \* per backend of an aggregate: "tools", "empty", "down", "hangs"
    stream,   \* per stream: idle, a step of its hooks, "open", "done"
    owner,    \* the identity that opened it
    gone,     \* streams whose client has disconnected: their context is done
    tools,    \* the servers whose tools the stream's session offers
    token,    \* the user token in the stream's configuration, {} for none
    proc,     \* the stream's subprocess
    pooled,   \* streams with an entry in the session manager
    tracked,  \* streams with a record in storage
    shared,   \* the stream whose client the shared prompts and resources use
    tokens,   \* identities with a stored token for the followed server
    msg,      \* the message in progress
    cache,    \* the aggregate's tool cache while it is fresh
    flight,   \* discoveryGroup: the stream whose hook runs the discovery
    result,   \* per backend: what the running discovery has learned
    late,     \* the discovery timeout has passed
    got,      \* what getTools returned to a stream's hook
    expired   \* the 30 seconds of the shutdown are over

bootVars == <<file, conf, backend>>
stdioVars == <<token, proc, pooled, tracked, shared>>
discoveryVars == <<cache, flight, result, late, got>>
streamVars == <<stream, owner, gone, tools>>
vars == <<main, bootVars, stdioVars, discoveryVars, streamVars, tokens, msg, expired>>

NoMessage == [pc |-> "idle", stream |-> None, from |-> <<>>, what |-> None,
              target |-> None, as |-> <<>>, token |-> {}]

Nothing == [error |-> FALSE, late |-> FALSE, tools |-> {}]

Hook == {"token", "create", "discover", "track", "cache", "flight", "waiting", "publish"}

\* When main returns, every goroutine stops where it is.
At(s, label) == main # "exited" /\ stream[s] = label

TypeOK ==
    /\ main \in {"start", "loaded", "rejected", "failed", "serving", "stopping",
                 "aggregates", "sessions", "closed", "exited"}
    /\ stream \in [Stream -> Hook \cup {"idle", "open", "revoke", "done"}]
    /\ gone \subseteq {s \in Stream : stream[s] # "idle"}
    /\ proc \in [Stream -> {"none", "running", "closed"}]
    /\ pooled \subseteq {s \in Stream : proc[s] = "running"}
    /\ tracked \subseteq Stream
    /\ shared \in Stream \cup {None}
    /\ flight \in Stream \cup {None}
    /\ flight # None => stream[flight] = "waiting"
    /\ msg.pc \in {"idle", "forwarded", "called"}
    /\ late \in BOOLEAN /\ expired \in BOOLEAN

Init ==
    /\ main = "start"
    /\ file \in Files
    /\ conf = None /\ backend = None
    /\ stream = [s \in Stream |-> "idle"]
    /\ owner = [s \in Stream |-> <<>>]
    /\ gone = {}
    /\ tools = [s \in Stream |-> {}]
    /\ token = [s \in Stream |-> {}]
    /\ proc = [s \in Stream |-> "none"]
    /\ pooled = {} /\ tracked = {} /\ shared = None /\ tokens = {}
    /\ msg = NoMessage
    /\ cache = {} /\ flight = None /\ result = None /\ late = FALSE
    /\ got = [s \in Stream |-> Nothing]
    /\ expired = FALSE

-----------------------------------------------------------------------------
(* Start                                                                   *)

LoadConfig ==
    /\ main = "start"
    /\ main' = IF Loads(file, Dev) THEN "loaded" ELSE "rejected"
    /\ UNCHANGED <<bootVars, stdioVars, discoveryVars, streamVars, tokens, msg, expired>>

\* setupStorage and setupAuthentication: the keys they make ciphers from
KeysOK(f) == \A a \in AuthOf(f) : NonEmpty(a.encryptionKey)

\* buildInlineHandler
InlinesOK(f) == \A e \in Servers(f) :
    ~IsAggregate(e[2]) /\ e[2].transportType = "inline" => e[2].inline = "object"

\* Firestore, and the OIDC discovery documents of Azure and generic providers
NeedsRemote(f) == \E a \in AuthOf(f) :
    \/ a.storage = "firestore"
    \/ \E i \in a.idp :
          \/ i.provider = "oidc" /\ NonEmpty(i.discoveryUrl)
          \/ /\ i.provider = "azure"
             /\ ~ \A e \in DOMAIN i.endpoints : NonEmpty(i.endpoints[e])

Entry(a) == [type |-> a.type, name |-> Lower(EntryName(a)), username |-> a.username,
             tokens |-> IF a.tokens = {} THEN <<>> ELSE CHOOSE l \in a.tokens : TRUE,
             userToken |-> NonEmpty(a.userToken)]

Kind(s) == IF IsAggregate(s) THEN "aggregate"
           ELSE IF s.transportType = "stdio" THEN "stdio" ELSE "proxy"

RuntimeConf(f, n) ==
    LET s == Server(f, n)
    IN  [server |-> n, kind |-> Kind(s),
         oauth |-> AuthOf(f) # {},
         acceptIssuer |-> \E a \in AuthOf(f) : a.acceptIssuer,
         firestore |-> \E a \in AuthOf(f) : a.storage = "firestore",
         entries |-> [i \in DOMAIN s.serviceAuths |-> Entry(s.serviceAuths[i])],
         requiresUserToken |-> s.requiresUserToken,
         backends |-> IF IsAggregate(s) THEN Backends(f, s) ELSE {}]

NewMCPFrontFails ==
    /\ main = "loaded"
    /\ ~KeysOK(file) \/ ~InlinesOK(file) \/ NeedsRemote(file)
    /\ main' = "failed"
    /\ UNCHANGED <<bootVars, stdioVars, discoveryVars, streamVars, tokens, msg, expired>>

NewMCPFront ==
    /\ main = "loaded"
    /\ KeysOK(file) /\ InlinesOK(file)
    /\ main' = "serving"
    /\ file' = None
    /\ \E e \in Servers(file) :
          /\ e[1] \in Followed
          /\ IsAggregate(e[2]) \/ e[2].transportType # "inline"
          /\ conf' = RuntimeConf(file, e[1])
          /\ backend' \in [RuntimeConf(file, e[1]).backends -> {"tools", "empty", "down", "hangs"}]
    /\ UNCHANGED <<stdioVars, discoveryVars, streamVars, tokens, msg, expired>>

-----------------------------------------------------------------------------
(* Streams                                                                 *)

RequestTokenStoredOnly(ctx) ==
    IF conf.requiresUserToken /\ ctx.user \in tokens THEN {ctx.user} ELSE {}

\* MCPHandler.ServeHTTP: a token that the service brings comes before the store.
RequestToken(ctx) ==
    IF conf.requiresUserToken /\ ctx.user # <<>> /\ (ctx.token \/ ctx.user \in tokens)
    THEN {ctx.user} ELSE {}

Goto(s, label) == stream' = [stream EXCEPT ![s] = label]

\* GET /<server>/sse; the register hook runs in the goroutine of the request.
OpenStream(s) ==
    /\ main = "serving" /\ conf.kind # "proxy"
    /\ stream[s] = "idle"
    /\ \E cred \in Credential : \E ctx \in Authenticate(conf, cred) :
          IF conf.kind = "aggregate"
          THEN /\ owner' = [owner EXCEPT ![s] = IF ctx.user = <<>> THEN <<"anonymous">>
                                                ELSE ctx.user]
               /\ Goto(s, "cache")
               /\ UNCHANGED token
          ELSE /\ owner' = [owner EXCEPT ![s] = ctx.user]
               /\ token' = [token EXCEPT ![s] = RequestToken(ctx)]
               /\ Goto(s, IF conf.requiresUserToken /\ ctx.user # <<>> THEN "token"
                          ELSE "create")
    /\ UNCHANGED <<main, bootVars, gone, tools, proc, pooled, tracked, shared,
                   discoveryVars, tokens, msg, expired>>

Disconnect(s) ==
    /\ main # "exited"
    /\ stream[s] \notin {"idle", "done"}
    /\ gone' = gone \cup {s}
    /\ UNCHANGED <<main, bootVars, stdioVars, discoveryVars, stream, owner, tools,
                   tokens, msg, expired>>

\* Firestore fails when the context of the request is done; memory ignores it.
StoreAnswers(s) == conf.firestore => s \notin gone

\* HandleSessionRegistration.  ApplyUserToken replaces the placeholders once.
GetRegistrationToken(s) ==
    /\ At(s, "token")
    /\ token' = [token EXCEPT ![s] =
                    IF @ = {} /\ owner[s] \in tokens /\ StoreAnswers(s)
                    THEN {owner[s]} ELSE @]
    /\ Goto(s, "create")
    /\ UNCHANGED <<main, bootVars, owner, gone, tools, proc, pooled, tracked, shared,
                   discoveryVars, tokens, msg, expired>>

CreateSession(s) ==
    /\ At(s, "create")
    /\ \/ /\ proc' = [proc EXCEPT ![s] = "running"]
          /\ pooled' = pooled \cup {s}
          /\ Goto(s, "discover")
       \/ /\ Goto(s, "open")
          /\ UNCHANGED <<proc, pooled>>
    /\ UNCHANGED <<main, bootVars, owner, gone, tools, token, tracked, shared,
                   discoveryVars, tokens, msg, expired>>

RemovedFromUse(s) ==
    /\ pooled' = pooled
    /\ proc' = [proc EXCEPT ![s] = IF s \in pooled THEN "closed" ELSE @]

Removed(s) ==
    /\ pooled' = pooled \ {s}
    /\ proc' = [proc EXCEPT ![s] = IF s \in pooled THEN "closed" ELSE @]

\* DiscoverAndRegisterCapabilities.  Only tools must be listed; prompts and
\* resources, when there are any, go to the server that all streams share.
DiscoverCapabilities(s) ==
    /\ At(s, "discover")
    /\ \/ /\ proc[s] = "running" /\ s \notin gone
          /\ tools' = [tools EXCEPT ![s] = {conf.server}]
          /\ shared' = IF "prompt" \in Offers THEN s ELSE shared
          /\ Goto(s, "track")
          /\ UNCHANGED <<proc, pooled>>
       \/ /\ Removed(s)
          /\ Goto(s, "open")
          /\ UNCHANGED <<tools, shared>>
    /\ UNCHANGED <<main, bootVars, owner, gone, token, tracked, discoveryVars,
                   tokens, msg, expired>>

TrackSession(s) ==
    /\ At(s, "track")
    /\ tracked' = IF owner[s] # <<>> /\ StoreAnswers(s) THEN tracked \cup {s} ELSE tracked
    /\ Goto(s, "open")
    /\ UNCHANGED <<main, bootVars, owner, gone, tools, token, proc, pooled, shared,
                   discoveryVars, tokens, msg, expired>>

UnregisterSessionOnly(s) ==
    /\ At(s, "open") /\ s \in gone /\ conf.kind = "stdio"
    /\ Goto(s, "revoke")
    /\ UNCHANGED <<main, bootVars, owner, gone, tools, token, proc, pooled, tracked, shared,
                   discoveryVars, tokens, msg, expired>>

\* The unregister hook runs when the stream's request ends.
UnregisterSession(s) ==
    /\ At(s, "open") /\ s \in gone /\ conf.kind = "stdio"
    /\ Removed(s)
    /\ Goto(s, "revoke")
    /\ UNCHANGED <<main, bootVars, owner, gone, tools, token, tracked, shared,
                   discoveryVars, tokens, msg, expired>>

RevokeSession(s) ==
    /\ At(s, "revoke")
    /\ tracked' = IF StoreAnswers(s) THEN tracked \ {s} ELSE tracked
    /\ Goto(s, "done")
    /\ UNCHANGED <<main, bootVars, owner, gone, tools, token, proc, pooled, shared,
                   discoveryVars, tokens, msg, expired>>

\* Aggregate servers have no unregister hook.
CloseAggregateStream(s) ==
    /\ At(s, "open") /\ s \in gone /\ conf.kind = "aggregate"
    /\ Goto(s, "done")
    /\ UNCHANGED <<main, bootVars, stdioVars, owner, gone, tools, discoveryVars,
                   tokens, msg, expired>>

\* cleanupTimedOutSessions, until Shutdown stops the cleanup
Reap(s) ==
    /\ main \notin {"closed", "exited"}
    /\ s \in pooled
    /\ Removed(s)
    /\ UNCHANGED <<main, bootVars, streamVars, token, tracked, shared, discoveryVars,
                   tokens, msg, expired>>

\* SetTokenHandler and DeleteTokenHandler, for a user of the service
ChangeToken(s) ==
    /\ main = "serving" /\ conf.kind = "stdio" /\ conf.requiresUserToken
    /\ owner[s] # <<>> /\ ~Reserved(owner[s])
    /\ tokens' = IF owner[s] \in tokens THEN tokens \ {owner[s]} ELSE tokens \cup {owner[s]}
    /\ UNCHANGED <<main, bootVars, stdioVars, discoveryVars, streamVars, msg, expired>>

-----------------------------------------------------------------------------
(* Messages                                                                *)

FindSessionById(s, user) == s \in pooled

\* SessionKey: a session is looked up by its id together with the user.
FindSession(s, user) == s \in pooled /\ owner[s] = user

\* POST /<server>/message?sessionId=s.  What it asks for is a tool call or a
\* prompt, which stands for resources and their templates, too.
PostMessage(s) ==
    /\ main = "serving" /\ conf.kind = "stdio"
    /\ msg.pc = "idle"
    /\ \E cred \in Credential : \E ctx \in Authenticate(conf, cred) :
          /\ FindSession(s, ctx.user)
          /\ \E what \in Offers :
                msg' = [NoMessage EXCEPT !.pc = "forwarded", !.stream = s,
                                         !.from = ctx.user, !.what = what]
    /\ UNCHANGED <<main, bootVars, stdioVars, discoveryVars, streamVars, tokens, expired>>

\* wrapToolHandler looks the token up under the identity of the stream.
TokenPresent(s) == conf.requiresUserToken => owner[s] # <<>> /\ owner[s] \in tokens

CallTarget(s, what) == IF what = "tool" THEN s ELSE shared

Callable(s, what) ==
    IF what = "tool" THEN tools[s] # {} /\ TokenPresent(s) ELSE shared # None

\* The MCP server finds the session in its own map and runs the handler; any
\* of its refusals ends the message.
DispatchMessage ==
    /\ main # "exited" /\ msg.pc = "forwarded"
    /\ LET s == msg.stream
           t == CallTarget(s, msg.what)
       IN  msg' = IF stream[s] # "done" /\ Callable(s, msg.what)
                  THEN [msg EXCEPT !.pc = "called", !.target = t,
                                   !.as = owner[t], !.token = token[t]]
                  ELSE NoMessage
    /\ UNCHANGED <<main, bootVars, stdioVars, discoveryVars, streamVars, tokens, expired>>

\* forwardMessageToBackend, forwardSSEToBackend, forwardStreamablePostToBackend
ForwardRequest ==
    /\ main = "serving" /\ conf.kind = "proxy"
    /\ msg.pc = "idle"
    /\ \E cred \in Credential : \E ctx \in Authenticate(conf, cred) :
          msg' = [NoMessage EXCEPT !.pc = "called", !.from = ctx.user, !.what = "tool",
                                   !.as = ctx.user, !.token = RequestToken(ctx)]
    /\ UNCHANGED <<main, bootVars, stdioVars, discoveryVars, streamVars, tokens, expired>>

FinishMessage ==
    /\ main # "exited" /\ msg.pc = "called"
    /\ msg' = NoMessage
    /\ UNCHANGED <<main, bootVars, stdioVars, discoveryVars, streamVars, tokens, expired>>

-----------------------------------------------------------------------------
(* Registration of an aggregate's streams: onRegisterSession and getTools  *)

Cached == [error |-> FALSE, late |-> \E c \in cache : c.late,
           tools |-> UNION {c.tools : c \in cache}]

LookupCache(s) ==
    /\ At(s, "cache")
    /\ IF cache # {}
       THEN got' = [got EXCEPT ![s] = Cached] /\ Goto(s, "publish")
       ELSE Goto(s, "flight") /\ UNCHANGED got
    /\ UNCHANGED <<main, bootVars, stdioVars, owner, gone, tools, cache, flight, result,
                   late, tokens, msg, expired>>

\* discoveryGroup.Do: one caller looks at the cache again and leads, the
\* callers that arrive meanwhile wait for its result.
JoinDiscovery(s) ==
    /\ At(s, "flight")
    /\ \/ /\ flight = None /\ cache # {}
          /\ got' = [got EXCEPT ![s] = Cached]
          /\ Goto(s, "publish")
          /\ UNCHANGED <<flight, result, late>>
       \/ /\ flight = None /\ cache = {}
          /\ flight' = s
          /\ result' = [b \in DOMAIN backend |-> "pending"]
          /\ late' = FALSE
          /\ Goto(s, "waiting")
          /\ UNCHANGED got
       \/ /\ flight # None
          /\ Goto(s, "waiting")
          /\ UNCHANGED <<flight, result, late, got>>
    /\ UNCHANGED <<main, bootVars, stdioVars, owner, gone, tools, cache, tokens, msg, expired>>

ContextDoneOfLeader == late \/ flight \in gone

\* context.WithoutCancel, then WithTimeout: the leader's client may leave.
ContextDone == late

\* discoverBackendTools
BackendAnswers(b) ==
    /\ main # "exited" /\ flight # None
    /\ result[b] = "pending"
    /\ \/ /\ backend[b] \in {"tools", "empty"} /\ ~ContextDone
          /\ result' = [result EXCEPT ![b] = backend[b]]
       \/ /\ backend[b] = "down" \/ ContextDone
          /\ result' = [result EXCEPT ![b] = "failed"]
    /\ UNCHANGED <<main, bootVars, stdioVars, streamVars, cache, flight, late, got,
                   tokens, msg, expired>>

DiscoveryTimeout ==
    /\ main # "exited" /\ flight # None /\ ~late
    /\ late' = TRUE
    /\ UNCHANGED <<main, bootVars, stdioVars, streamVars, cache, flight, result, got,
                   tokens, msg, expired>>

Answered(kind) == {b \in DOMAIN result : result[b] = kind}

NeverFailed == FALSE

DiscoveryFailed == Answered("tools") = {} /\ Answered("failed") # {}

LeaderWaiting == {flight}

Waiting == {s \in Stream : stream[s] = "waiting"}

\* discoverAllTools waits for every backend, whatever their number; then the
\* group hands the one result to all who wait.
FinishDiscovery ==
    /\ main # "exited" /\ flight # None
    /\ Answered("pending") = {}
    /\ cache' = IF DiscoveryFailed THEN cache
                ELSE {[failed |-> Answered("failed"), tools |-> Answered("tools"), late |-> late]}
    /\ got' = [s \in Stream |->
                  IF s \in Waiting
                  THEN [error |-> DiscoveryFailed, late |-> late, tools |-> Answered("tools")]
                  ELSE got[s]]
    /\ stream' = [s \in Stream |-> IF s \in Waiting THEN "publish" ELSE stream[s]]
    /\ flight' = None /\ result' = None /\ late' = FALSE
    /\ UNCHANGED <<main, bootVars, stdioVars, owner, gone, tools, tokens, msg, expired>>

PublishTools(s) ==
    /\ At(s, "publish")
    /\ tools' = [tools EXCEPT ![s] = IF got[s].error THEN {} ELSE got[s].tools]
    /\ got' = [got EXCEPT ![s] = Nothing]
    /\ Goto(s, "open")
    /\ UNCHANGED <<main, bootVars, stdioVars, owner, gone, cache, flight, result, late,
                   tokens, msg, expired>>

\* time.Now().Before(s.cache.expires)
ExpireCache ==
    /\ main # "exited" /\ cache # {}
    /\ cache' = {}
    /\ UNCHANGED <<main, bootVars, stdioVars, streamVars, flight, result, late, got,
                   tokens, msg, expired>>

-----------------------------------------------------------------------------
(* Shutdown: MCPFront.Run                                                  *)

Signal ==
    /\ main = "serving"
    /\ main' = "stopping"
    /\ UNCHANGED <<bootVars, stdioVars, discoveryVars, streamVars, tokens, msg, expired>>

\* shutdownCtx, 30 seconds for everything
Deadline ==
    /\ main = "stopping" /\ ~expired
    /\ expired' = TRUE
    /\ UNCHANGED <<main, bootVars, stdioVars, discoveryVars, streamVars, tokens, msg>>

MessagesDone == msg.pc = "idle"

RequestsDone == (\A s \in Stream : stream[s] \in {"idle", "done"}) /\ msg.pc = "idle"

StopReturnsWhenDone == RequestsDone

\* http.Server.Shutdown waits for the requests and does not cancel them.
StopReturns == expired \/ RequestsDone

StopHTTP ==
    /\ main = "stopping" /\ StopReturns
    /\ main' = "aggregates"
    /\ UNCHANGED <<bootVars, stdioVars, discoveryVars, streamVars, tokens, msg, expired>>

\* The transports were never started, so their Shutdown returns at once; what
\* it does to connections is in AggregateConns.
ShutdownAggregates ==
    /\ main = "aggregates"
    /\ main' = "sessions"
    /\ UNCHANGED <<bootVars, stdioVars, discoveryVars, streamVars, tokens, msg, expired>>

ShutdownSessions ==
    /\ main = "sessions"
    /\ main' = "closed"
    /\ proc' = [s \in Stream |-> IF s \in pooled THEN "closed" ELSE proc[s]]
    /\ pooled' = {}
    /\ UNCHANGED <<bootVars, token, tracked, shared, discoveryVars, streamVars, tokens,
                   msg, expired>>

Exit ==
    /\ main = "closed"
    /\ main' = "exited"
    /\ UNCHANGED <<bootVars, stdioVars, discoveryVars, streamVars, tokens, msg, expired>>

-----------------------------------------------------------------------------
Discovery ==
    \/ \E b \in UNION {DOMAIN r : r \in {result} \ {None}} : BackendAnswers(b)
    \/ DiscoveryTimeout
    \/ FinishDiscovery

RegisterAggregate(s) == LookupCache(s) \/ JoinDiscovery(s) \/ PublishTools(s)

Next ==
    \/ LoadConfig \/ NewMCPFrontFails \/ NewMCPFront
    \/ \E s \in Stream :
          \/ OpenStream(s) \/ Disconnect(s)
          \/ GetRegistrationToken(s) \/ CreateSession(s) \/ DiscoverCapabilities(s)
          \/ TrackSession(s) \/ UnregisterSession(s) \/ RevokeSession(s)
          \/ CloseAggregateStream(s) \/ Reap(s) \/ ChangeToken(s)
          \/ PostMessage(s) \/ RegisterAggregate(s)
    \/ DispatchMessage \/ ForwardRequest \/ FinishMessage
    \/ Discovery \/ ExpireCache
    \/ Signal \/ Deadline \/ StopHTTP \/ ShutdownAggregates \/ ShutdownSessions \/ Exit

\* The runtime schedules every goroutine that can run, timers fire, and a
\* backend that is up or refuses connections answers.  Nothing is assumed of
\* clients, of subprocesses and of a backend that hangs in Initialize or ListTools, which
\* the timeout ends; transport.Start, which it does not reach, is taken to return.
Fairness ==
    /\ WF_vars(Deadline) /\ WF_vars(StopHTTP) /\ WF_vars(ShutdownAggregates)
    /\ WF_vars(ShutdownSessions) /\ WF_vars(Exit)
    /\ WF_vars(Discovery)
    /\ \A s \in Stream : WF_vars(RegisterAggregate(s))

Spec == Init /\ [][Next]_vars /\ Fairness

-----------------------------------------------------------------------------
(* Properties: configuration                                               *)

\* What -validate passes, Load accepts, up to the reasons Unlinted lists.
LintPredictsLoad == main = "rejected" => ~Passes(file) \/ Unlinted(file)

ToolName == {<<"a">>, <<"a", ".", "b">>, <<"_", "a">>}

\* Every tool of every backend of an accepted aggregate gets its name back, so
\* that a call reaches the tool and the backend it was listed for.  A delimiter
\* of several characters may overlap the end of a backend's name.
NamesRoundTrip ==
    main = "loaded" => \A e \in Servers(file) :
        LET d == Delimiter(e[2])
        IN  IsAggregate(e[2]) /\ Len(d) = 1 =>
                \A b \in Backends(file, e[2]), t \in ToolName :
                    ParseToolName(PrefixToolName(b, t, d), d) = {<<b, t>>}

Identities(f) == UNION {{<<n, i>> : i \in DOMAIN Server(f, n).serviceAuths} : n \in ServerNames(f)}

IdentityOf(f, x) ==
    ServiceIdentity(x[1], Lower(EntryName(Server(f, x[1]).serviceAuths[x[2]])))

\* Tokens and limits are kept per identity: two entries of an accepted file that
\* act under one identity belong to servers whose names differ only in case.
IdentitiesDistinct ==
    main = "loaded" => \A x, y \in Identities(file) :
        IdentityOf(file, x) = IdentityOf(file, y) =>
            x = y \/ (x[1] # y[1] /\ Lower(x[1]) = Lower(y[1]))

-----------------------------------------------------------------------------
(* Properties: sessions and messages                                       *)

\* user has shown the followed server that it may act as what it is: nobody asks, an
\* entry of serviceAuths names it, or a token for this server does.
Earned(user) ==
    \/ user = <<>> /\ ~conf.oauth /\ conf.entries = <<>>
    \/ \E i \in DOMAIN conf.entries :
          user = ServiceIdentity(conf.server, conf.entries[i].name)
    \/ /\ conf.oauth /\ ~Reserved(user)
       /\ \E t \in DOMAIN Claims :
             /\ Claims[t].email = user
             /\ AudienceOK(conf.server, conf.acceptIssuer, Claims[t].audience)

\* buildAuthMiddlewares: whatever the kind of the server and whichever streams and
\* messages come together, each goes on under an identity that was shown to this
\* server.  Nobody is anonymous where anything is asked for, and neither a token for
\* another server nor one in the name of a service counts.
IdentityEarned ==
    /\ \A s \in Stream : stream[s] # "idle" =>
          \E user \in {owner[s], <<>>} :
              /\ user = owner[s] \/ (conf.kind = "aggregate" /\ owner[s] = <<"anonymous">>)
              /\ Earned(user)
    /\ msg.pc # "idle" => Earned(msg.from)

\* wrapToolHandler's comment on a missing identity: "This shouldn't happen with
\* proper config validation".  An accepted configuration keeps it from happening.
TokenCheckHasUser ==
    main # "start" /\ conf # None => (conf.requiresUserToken =>
        \A s \in Stream : stream[s] # "idle" => owner[s] # <<>>)

\* A tool call runs in a subprocess of the user who sent it, however the message,
\* the removal of its session and other users' sessions interleave; and the user
\* token it runs with is the sender's.
MessageReachesOwner ==
    msg.pc = "called" /\ msg.what = "tool" =>
        msg.as = msg.from /\ msg.token \subseteq {msg.from}

\* A service whose entry brings a user token has it in its subprocess, although
\* nothing is stored under its identity.
ServiceTokenReachesProcess ==
    \A s \in Stream :
        proc[s] = "running" /\ conf.requiresUserToken /\ Reserved(owner[s])
        /\ (\A i \in DOMAIN conf.entries : conf.entries[i].userToken)
        => token[s] = {owner[s]}

\* buildStdioSSEServer's hooks: a stream that is over leaves no subprocess, even
\* if its client went away while the session was being created, and no session
\* record, as long as the store ignores the context of the request that has ended.
NothingOutlivesStream ==
    \A s \in Stream : stream[s] = "done" =>
        /\ proc[s] # "running"
        /\ s \in tracked => conf.firestore

\* A prompt is answered by a subprocess of the user's own.
PromptReachesOwnProcess ==
    msg.pc = "called" /\ msg.what = "prompt" => msg.target = msg.stream

-----------------------------------------------------------------------------
(* Properties: discovery                                                   *)

Offering == {b \in DOMAIN backend : backend[b] = "tools"}

\* What is cached is what all backends offered, unless the timeout cut the
\* discovery short; a discovery that only failed is not cached.
CacheReflectsBackends ==
    \A c \in cache : /\ c.late \/ c.tools = Offering
                     /\ c.tools = {} => c.failed = {}

\* A stream is refused tools only for a reason that is the backends' or the
\* timeout's, never because the client that led the discovery went away.
HealthyDiscoverySucceeds ==
    \A s \in Stream : got[s].error => got[s].late \/ Offering = {}

\* No registration stays for ever at a step of its own, and no discovery runs for
\* ever, as long as the program does: a backend that hangs once started meets the timeout.
StepEnds(s, l) == stream[s] = l => <>(~(stream[s] = l) \/ main = "exited")
FlightEnds(s) == flight = s => <>(~(flight = s) \/ main = "exited")
AllStepsEnd == \A s \in Stream : /\ \A l \in {"cache", "flight", "publish"} : StepEnds(s, l)
                                 /\ FlightEnds(s)
RegistrationMoves == []AllStepsEnd

\* Every stream of an aggregate that waits for the shared discovery is let go, because
\* the registrations and the discovery that it waits for come to their end.
RegistrationReturns ==
    /\ RegistrationMoves
    /\ \A s \in Stream : stream[s] \in {"cache", "flight", "waiting"}
                             ~> stream[s] \in {"open", "done"} \/ main = "exited"

-----------------------------------------------------------------------------
(* Properties: shutdown                                                    *)

\* A shutdown within its 30 seconds leaves no subprocess behind.
CleanExit == main = "exited" /\ ~expired => \A s \in Stream : proc[s] # "running"

\* The process exits after a signal, although clients may keep streams open.
ShutdownEnds == main = "stopping" ~> main = "exited"
=============================================================================
