----------------------------- MODULE ConfigFile -----------------------------
(***************************************************************************)
(* internal/config: the two readers of a configuration file.  ValidateFile *)
(* (the -validate flag) looks at the JSON and needs no environment; Load   *)
(* resolves the references and checks the result.  Any error rejects the   *)
(* file, so each reader is the conjunction of its rules.                   *)
(*                                                                         *)
(* A file is a record.  An object that may be missing is a set of at most  *)
(* one record, a value that is a string or a reference is one of Value,    *)
(* and other JSON has the type that its reader expects.                    *)
(***************************************************************************)
EXTENDS Naturals, Sequences, FiniteSets, ToolNames

(* Values: what is written for a setting that ParseConfigValue reads.      *)
(*   text    a plain string, 32 characters long where length matters       *)
(*   bash    a plain string that contains $VAR                             *)
(*   env     {"$env": ..} to a variable whose value is 32 characters long  *)
(*   short   the same, to a shorter value                                  *)
(*   quotes  the same, to a pair of quotes with nothing in between         *)
(*   unset   the same, to a variable that is not set                       *)
(*   token   {"$userToken": ..}                                            *)
(*   object, number   other JSON                                           *)
Text == {"text", "empty", "bash"}
EnvRef == {"env", "short", "quotes", "unset"}
Value == Text \cup EnvRef \cup {"absent", "token", "object", "number"}

Present(v) == v # "absent"

\* ParseConfigValue, for a setting that is present
Parses(v) == v \in Text \cup {"env", "short", "quotes", "token"}

\* The parsed string is not empty; a setting that is absent parses to "".
NonEmpty(v) == v \in {"text", "bash", "env", "short", "token"}

\* A setting that may be left out but is never a user token reference
Plain(v) == Present(v) => Parses(v) /\ v # "token"

\* Lists of strings: "mixed" has an item that is no string, "bad" is no list.
IsStrings(l) == l \in {"absent", "empty", "some"}

\* Durations, by their order; time.ParseDuration fails on "malformed".
Duration == {"absent", "malformed", "minus", "zero", "short", "long"}
Minutes == [minus |-> 0, zero |-> 1, short |-> 2, long |-> 6]
Timed(d) == d \in DOMAIN Minutes
Positive(d) == Timed(d) => Minutes[d] > Minutes.zero

Kinds == {"stdio", "sse", "streamable-http", "inline"}

AuthOf(f) == UNION {p.auth : p \in f.proxy}
SessionsOf(f) == UNION {p.sessions : p \in f.proxy}
HasOAuth(f) == \E a \in AuthOf(f) : a.kind = "oauth"

\* The entries of mcpServers, as pairs of a name and a server
Servers(f) == UNION {{<<n, m[n]>> : n \in DOMAIN m} : m \in f.mcpServers}
ServerNames(f) == UNION {DOMAIN m : m \in f.mcpServers}
Server(f, n) == CHOOSE s \in {m[n] : m \in f.mcpServers} : TRUE
IsAggregate(s) == s.type = "aggregate"

\* What the JSON parser can make of a file: a name stands for one server, names
\* are strings, and what is written is there.
IsFile(f) == \A e \in Servers(f) :
    /\ Server(f, e[1]) = e[2]
    /\ "absent" \notin e[2].values
    /\ e[1] \in Seq(STRING) /\ e[2].delimiter \subseteq Seq(STRING)
    /\ \A i \in DOMAIN e[2].serviceAuths :
           {e[2].serviceAuths[i].name, e[2].serviceAuths[i].username} \subseteq Seq(STRING)

\* The name under which an entry of serviceAuths acts
EntryName(a) == IF a.name = <<>> /\ a.type = "basic" THEN a.username ELSE a.name

EntriesDistinctByCase(auths) ==
    \A i, j \in DOMAIN auths : i # j => EntryName(auths[i]) # EntryName(auths[j])

\* No two entries share an identity or a basic user name.
EntriesDistinct(auths) ==
    \A i, j \in DOMAIN auths : i # j =>
        /\ Lower(EntryName(auths[i])) # Lower(EntryName(auths[j]))
        /\ auths[i].type = "basic" /\ auths[j].type = "basic"
              => auths[i].username # auths[j].username

-----------------------------------------------------------------------------
(* ValidateFile                                                            *)

LintIDP(i) ==
    /\ i.provider \in {"google", "github", "azure", "oidc"}
    /\ Present(i.clientId) /\ Present(i.clientSecret) /\ Present(i.redirectUri)
    /\ i.provider = "azure" => Present(i.tenantId)
    /\ i.provider = "oidc" =>
          Present(i.discoveryUrl) \/ \A e \in DOMAIN i.endpoints : Present(i.endpoints[e])

\* allowedRedirectUriHosts: "paths" has an entry that is no bare origin.
LintRedirectHosts(a) ==
    /\ a.redirectHosts \in {"absent", "empty", "some"}
    /\ ~(a.redirectHosts = "some" /\ a.allowAnyHost)

WarnRedirectHosts(a) == a.redirectHosts \in {"absent", "empty"} /\ ~a.allowAnyHost

LintAuth(a) ==
    /\ a.kind = "oauth"
    /\ Present(a.issuer) /\ Present(a.jwtSecret) /\ Present(a.encryptionKey)
    /\ a.idp # {} /\ \A i \in a.idp : LintIDP(i)
    /\ a.allowedOrigins \in {"some", "mixed"}
    /\ LintRedirectHosts(a)

LintProxy(f) ==
    /\ f.proxy # {}
    /\ \A p \in f.proxy : Present(p.baseURL) /\ Present(p.addr)
    /\ \A a \in AuthOf(f) : LintAuth(a)

WarnSessions(s) ==
    Timed(s.timeout) /\ Timed(s.cleanup) /\ Minutes[s.cleanup] > Minutes[s.timeout]

\* userAuthentication: urls is whether both endpoint addresses are given.
LintUserAuth(u) ==
    \/ /\ u.type = "oauth"
       /\ Present(u.clientId) /\ u.urls
       /\ u.scopes \in {"some", "mixed"}
       /\ u.clientSecret \in EnvRef
    \/ u.type = "manual" /\ u.displayName /\ u.instructions

LintServiceAuth(a, requiresUserToken) ==
    /\ \/ a.type = "basic" /\ a.username # <<>> /\ a.password \in EnvRef
       \/ a.type = "bearer" /\ (\E l \in a.tokens : l # <<>>) /\ a.name # <<>>
    /\ ValidName(EntryName(a))
    /\ requiresUserToken => a.userToken = "token"

LintServiceAuths(s) ==
    /\ \A i \in DOMAIN s.serviceAuths :
           LintServiceAuth(s.serviceAuths[i], s.requiresUserToken)
    /\ EntriesDistinct(s.serviceAuths)

LintToolFilter(t) ==
    /\ t.mode = "absent" => ~t.listed
    /\ t.mode \in {"absent", "allow", "block"}

LintDirect(f, s) ==
    /\ s.transportType \in Kinds
    /\ s.transportType = "stdio" => Present(s.command)
    /\ s.transportType \in {"sse", "streamable-http"} => Present(s.url)
    /\ s.transportType = "inline" => Present(s.inline)
    /\ s.requiresUserToken =>
          /\ HasOAuth(f)
          /\ s.userAuth # {} /\ \A u \in s.userAuth : LintUserAuth(u)
    /\ LintServiceAuths(s)
    /\ \A t \in s.toolFilter : LintToolFilter(t)

LintReferencesDangling(f, n, refs) ==
    \A i, j \in DOMAIN refs : refs[i] = refs[j] => i = j

LintReferences(f, n, refs) ==
    /\ \A i, j \in DOMAIN refs : refs[i] = refs[j] => i = j
    /\ \A r \in Elements(refs) :
          /\ r # n /\ r \in ServerNames(f)
          /\ ~IsAggregate(Server(f, r)) /\ Server(f, r).transportType # "inline"

LintDiscovery(d) ==
    /\ d.timeout # "malformed" /\ Positive(d.timeout)
    /\ d.cacheTtl # "malformed" /\ Positive(d.cacheTtl)
    /\ d.maxConns # "negative"

WarnDiscovery(d) ==
    Timed(d.timeout) /\ Timed(d.cacheTtl) /\ Minutes[d.timeout] >= Minutes[d.cacheTtl]

LintAggregate(f, n, s) ==
    /\ s.values = {} /\ s.timeout = "absent" /\ ~s.requiresUserToken /\ s.userAuth = {}
    /\ ~Present(s.command) /\ ~Present(s.url) /\ ~Present(s.inline)
    /\ s.transportType \in {"absent", "sse", "streamable-http"}
    /\ \A d \in s.delimiter : d # <<>> /\ Elements(d) \subseteq ToolChar
    /\ \A refs \in s.servers : LintReferences(f, n, refs)
    /\ \A d \in s.discovery : LintDiscovery(d)

LintServers(f) ==
    /\ f.mcpServers # {}
    /\ \A e \in Servers(f) :
          /\ ValidName(e[1])
          /\ IF IsAggregate(e[2]) THEN LintAggregate(f, e[1], e[2]) ELSE LintDirect(f, e[2])

\* Every string or reference of the file
IDPValues(i) == {i.clientId, i.clientSecret, i.redirectUri, i.discoveryUrl, i.tenantId}
                    \cup {i.endpoints[e] : e \in DOMAIN i.endpoints}
AuthValues(a) == {a.issuer, a.jwtSecret, a.encryptionKey, a.gcpProject}
                    \cup UNION {IDPValues(i) : i \in a.idp}
ServiceAuthValues(s) == {a.password : a \in Elements(s.serviceAuths)}
                    \cup {a.userToken : a \in Elements(s.serviceAuths)}
ServerValues(s) == {s.command, s.url} \cup s.values \cup ServiceAuthValues(s)
                    \cup UNION {{u.clientId, u.clientSecret} : u \in s.userAuth}
Settings(f) == UNION ({{p.baseURL, p.addr} : p \in f.proxy}
                         \cup {AuthValues(a) : a \in AuthOf(f)}
                         \cup {ServerValues(e[2]) : e \in Servers(f)})

\* checkBashStyleSyntax looks at every string of the file.
BashStyle(f) == "bash" \in Settings(f)

Warnings(f) ==
    \/ BashStyle(f)
    \/ \E a \in AuthOf(f) : a.kind = "oauth" /\ WarnRedirectHosts(a)
    \/ \E s \in SessionsOf(f) : WarnSessions(s)
    \/ \E e \in Servers(f) : IsAggregate(e[2]) /\ \E d \in e[2].discovery : WarnDiscovery(d)

\* The exit status of -validate is 0 only without errors and without warnings.
Passes(f) == f.versionOK /\ LintProxy(f) /\ LintServers(f) /\ ~Warnings(f)

-----------------------------------------------------------------------------
(* Load                                                                    *)

\* validateRawConfig: secrets are written as environment references.
RawSecret(v) == v \in EnvRef \cup {"absent", "number"}

RawConfigOK(f) == \A a \in AuthOf(f) : a.kind = "oauth" =>
    /\ RawSecret(a.jwtSecret) /\ RawSecret(a.encryptionKey)
    /\ a.encryptionKey = "absent" => a.storage \in {"absent", "memory"}
    /\ \A i \in a.idp : RawSecret(i.clientSecret)

IDPOK(i) ==
    /\ \A v \in IDPValues(i) : Plain(v)
    /\ NonEmpty(i.clientId) /\ NonEmpty(i.clientSecret) /\ NonEmpty(i.redirectUri)
    /\ i.provider \in {"google", "github", "azure", "oidc"}
    /\ i.provider = "azure" => NonEmpty(i.tenantId)
    /\ i.provider = "oidc" =>
          NonEmpty(i.discoveryUrl) \/ \A e \in DOMAIN i.endpoints : NonEmpty(i.endpoints[e])

\* In development the policy may be left open; entries are checked in any case.
RedirectHostsOK(a, dev) ==
    /\ a.redirectHosts \in {"absent", "empty", "some"}
    /\ ~(a.redirectHosts = "some" /\ a.allowAnyHost)
    /\ dev \/ a.redirectHosts = "some" \/ a.allowAnyHost

\* Keys are 32 bytes long or, without Firestore, empty.
KeyOK(a) ==
    /\ Plain(a.encryptionKey) /\ a.encryptionKey # "short"
    /\ a.storage \notin {"absent", "memory"} => NonEmpty(a.encryptionKey)

OAuthOK(a, dev) ==
    /\ a.kind = "oauth"
    /\ Plain(a.issuer) /\ NonEmpty(a.issuer)
    /\ Plain(a.gcpProject) /\ (a.storage = "firestore" => NonEmpty(a.gcpProject))
    /\ a.idp # {} /\ \A i \in a.idp : IDPOK(i)
    /\ Plain(a.jwtSecret) /\ NonEmpty(a.jwtSecret) /\ a.jwtSecret # "short"
    /\ KeyOK(a)
    /\ IsStrings(a.allowedOrigins) /\ IsStrings(a.allowedDomains)
    /\ \A i \in a.idp : IsStrings(i.allowedOrgs)
    /\ a.allowedDomains = "some" \/ \E i \in a.idp : i.allowedOrgs = "some"
    /\ RedirectHostsOK(a, dev)
    /\ \A d \in {a.tokenTtl, a.refreshTtl} : d # "malformed" /\ Positive(d)

SessionsOK(s) ==
    /\ \A d \in {s.timeout, s.cleanup} : d \notin {"malformed", "minus"}
    /\ s.maxPerUser # "negative"

ProxyOK(f, dev) == \E p \in f.proxy :
    /\ Plain(p.baseURL) /\ NonEmpty(p.baseURL)
    /\ Plain(p.addr) /\ NonEmpty(p.addr)
    /\ \A a \in p.auth : OAuthOK(a, dev)
    /\ \A s \in p.sessions : SessionsOK(s)

ServiceAuthOK(a) ==
    /\ Plain(a.password) /\ (Present(a.password) => NonEmpty(a.password))
    /\ Plain(a.userToken)
    /\ \/ a.type = "basic" /\ a.username # <<>> /\ Present(a.password)
       \/ /\ a.type = "bearer" /\ a.name # <<>>
          /\ \E l \in a.tokens : l # <<>> /\ "" \notin Elements(l)
    /\ ValidName(EntryName(a))

\* regexOK: a validation expression, if there is one, compiles.
UserAuthOK(u) ==
    \/ /\ u.type = "oauth" /\ u.scopes \in {"absent", "empty", "some"}
       /\ \A v \in {u.clientId, u.clientSecret} : Present(v) => Parses(v)
    \/ u.type = "manual" /\ u.regexOK /\ IsStrings(u.scopes)

ToolFilterOK(t) ==
    /\ t.mode \in {"absent", "empty"} => ~t.listed
    /\ t.mode \in {"absent", "empty", "allow", "block", "ALLOW"}

DirectOK(s) ==
    /\ s.transportType \in Kinds /\ s.timeout # "malformed"
    /\ Plain(s.command) /\ (Present(s.url) => Parses(s.url))
    /\ \A v \in s.values : Parses(v)
    /\ s.audience => NonEmpty(s.url)
    /\ s.transportType = "stdio" => NonEmpty(s.command) /\ ~NonEmpty(s.url)
    /\ s.transportType \in {"sse", "streamable-http"} => NonEmpty(s.url) /\ ~NonEmpty(s.command)
    /\ s.transportType = "inline" =>
          Present(s.inline) /\ ~NonEmpty(s.command) /\ ~NonEmpty(s.url)
    /\ s.requiresUserToken => s.userAuth # {}
    /\ \A t \in s.toolFilter : ToolFilterOK(t)

DiscoveryOK(d) ==
    /\ \A t \in {d.timeout, d.cacheTtl} : t # "malformed" /\ Positive(t)
    /\ d.maxConns # "negative"

\* ResolveDefaults: without a list, every direct server that has a network.
Eligible(f) == {n \in ServerNames(f) :
    ~IsAggregate(Server(f, n)) /\ Server(f, n).transportType # "inline"}
Backends(f, s) == UNION ({Elements(l) : l \in s.servers}
                            \cup (IF s.servers = {} THEN {Eligible(f)} ELSE {}))

\* An empty delimiter means DefaultAggregateDelimiter.
Delimiter(s) == IF s.delimiter \subseteq {<<>>} THEN <<".">> ELSE CHOOSE d \in s.delimiter : TRUE

BackendNameUnchecked(b, delimiter) == TRUE
BackendNameOK(b, delimiter) == ~Contains(b, delimiter)

AggregateOK(f, n, s) ==
    /\ s.transportType \in {"absent", "sse", "streamable-http"}
    /\ \A d \in s.discovery : DiscoveryOK(d)
    /\ Backends(f, s) # {}
    /\ \A l \in s.servers : \A i, j \in DOMAIN l : l[i] = l[j] => i = j
    /\ Backends(f, s) \subseteq Eligible(f) \ {n}
    /\ \A b \in Backends(f, s) : BackendNameOK(b, Delimiter(s))

\* The last check of ValidateConfig, and of validateMCPServer
TokenUnchecked(f, s) == TRUE
TokenOK(f, s) == s.requiresUserToken => AuthOf(f) # {}

ServerOK(f, n, s) ==
    /\ ValidName(n)
    /\ \A i \in DOMAIN s.serviceAuths : ServiceAuthOK(s.serviceAuths[i])
    /\ EntriesDistinct(s.serviceAuths)
    /\ \A u \in s.userAuth : UserAuthOK(u)
    /\ IF IsAggregate(s) THEN AggregateOK(f, n, s) ELSE DirectOK(s)
    /\ TokenOK(f, s)

Loads(f, dev) ==
    /\ f.versionOK /\ RawConfigOK(f) /\ ProxyOK(f, dev)
    /\ \A e \in Servers(f) : ServerOK(f, e[1], e[2])
-----------------------------------------------------------------------------
(* What ValidateFile leaves to Load: a file that passes may still be         *)
(* refused for one of these reasons.                                         *)

UnlintedAuth(a) ==
    \/ {a.jwtSecret, a.encryptionKey} \cup {i.clientSecret : i \in a.idp} # {"env"}
    \/ a.allowedOrigins # "some"
    \/ a.allowedDomains # "some" /\ \A i \in a.idp : i.allowedOrgs # "some"
    \/ ~IsStrings(a.allowedDomains) \/ \E i \in a.idp : ~IsStrings(i.allowedOrgs)
    \/ a.storage = "firestore" /\ ~Present(a.gcpProject)
    \/ {a.tokenTtl, a.refreshTtl} \cap {"malformed", "minus", "zero"} # {}

UnlintedSessions(s) ==
    {s.timeout, s.cleanup} \cap {"malformed", "minus"} # {} \/ s.maxPerUser = "negative"

\* Blank tokens, scopes that are no strings, a validation expression that is none
UnlintedEntries(s) ==
    \/ \E a \in Elements(s.serviceAuths) : \E l \in a.tokens : "" \in Elements(l)
    \/ \E u \in s.userAuth : ~IsStrings(u.scopes) \/ ~u.regexOK

\* Settings of another transport, and one that needs a URL
UnlintedDirect(s) ==
    \/ Present(s.url) /\ s.transportType \in {"stdio", "inline"}
    \/ Present(s.command) /\ s.transportType # "stdio"
    \/ s.audience /\ ~Present(s.url)
    \/ s.timeout = "malformed"
    \/ s.userAuth # {} /\ ~s.requiresUserToken

\* An aggregate's entries and its backends once defaults are resolved
UnlintedAggregate(f, s) ==
    \/ s.serviceAuths # <<>>
    \/ Backends(f, s) = {}
    \/ \E b \in Backends(f, s) : ~BackendNameOK(b, Delimiter(s))

\* First of all, values: ValidateFile reads no environment, takes any JSON for a
\* value, and demands a user token of service entries that Load then refuses.
Unlinted(f) ==
    \/ ~(Settings(f) \subseteq {"absent", "text", "env"})
    \/ \E a \in AuthOf(f) : UnlintedAuth(a)
    \/ \E s \in SessionsOf(f) : UnlintedSessions(s)
    \/ \E e \in Servers(f) :
          \/ UnlintedEntries(e[2])
          \/ IF IsAggregate(e[2]) THEN UnlintedAggregate(f, e[2]) ELSE UnlintedDirect(e[2])
=============================================================================
