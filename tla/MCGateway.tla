----------------------------- MODULE MCGateway -----------------------------
(***************************************************************************)
(* Instances of Gateway for TLC: a few files that become the running       *)
(* configurations, and around them every file that differs from one of     *)
(* these in one or two settings.                                           *)
(***************************************************************************)
EXTENDS Gateway, TLC

IDP == [provider |-> "google", clientId |-> "text", clientSecret |-> "env",
        redirectUri |-> "text", tenantId |-> "absent", discoveryUrl |-> "absent",
        endpoints |-> [e \in {"authorization", "token", "userinfo"} |-> "absent"],
        allowedOrgs |-> "absent"]

Auth == [kind |-> "oauth", issuer |-> "text", jwtSecret |-> "env", encryptionKey |-> "env",
         gcpProject |-> "absent", idp |-> {IDP}, allowedOrigins |-> "some",
         allowedDomains |-> "some", redirectHosts |-> "some", allowAnyHost |-> FALSE,
         storage |-> "absent", tokenTtl |-> "absent", refreshTtl |-> "short",
         acceptIssuer |-> FALSE]

Sessions == [timeout |-> "long", cleanup |-> "short", maxPerUser |-> "some"]

Proxy == [baseURL |-> "text", addr |-> "env", auth |-> {Auth}, sessions |-> {Sessions}]

UserAuth == [type |-> "manual", clientId |-> "absent", clientSecret |-> "absent",
             urls |-> FALSE, scopes |-> "absent", displayName |-> TRUE,
             instructions |-> TRUE, regexOK |-> TRUE]

Stdio == [type |-> "direct", transportType |-> "stdio", command |-> "text", url |-> "absent",
          inline |-> "absent", values |-> {"text"}, timeout |-> "absent", audience |-> FALSE,
          requiresUserToken |-> FALSE, userAuth |-> {}, serviceAuths |-> <<>>,
          toolFilter |-> {}, servers |-> {}, delimiter |-> {}, discovery |-> {}]

Remote == [Stdio EXCEPT !.transportType = "sse", !.command = "absent", !.url = "text"]

Inline == [Stdio EXCEPT !.transportType = "inline", !.command = "absent", !.inline = "object"]

Discovery1 == [timeout |-> "short", cacheTtl |-> "long", maxConns |-> "some"]

Aggregate == [Stdio EXCEPT !.type = "aggregate", !.transportType = "absent",
                           !.command = "absent", !.values = {}, !.servers = {<<<<"b">>, <<"a", "b">>>>},
                           !.discovery = {Discovery1}]

Bearer(name) == [type |-> "bearer", name |-> name, username |-> <<>>, password |-> "absent",
                 tokens |-> {<<"key">>}, userToken |-> "absent"]
Basic(username) == [type |-> "basic", name |-> <<>>, username |-> username,
                    password |-> "env", tokens |-> {}, userToken |-> "absent"]
Bringing(entry) == [entry EXCEPT !.userToken = "env"]

File(p, m) == [versionOK |-> TRUE, proxy |-> {p}, mcpServers |-> {m}]
Open == [Proxy EXCEPT !.auth = {}, !.sessions = {}]
With(a) == [Proxy EXCEPT !.auth = {a}]

TokenServer == [Stdio EXCEPT !.requiresUserToken = TRUE, !.userAuth = {UserAuth}]

-----------------------------------------------------------------------------
(* The running configurations                                              *)

N == <<"a">>

Anonymous == File(Open, N :> Stdio)
Services == File(Open, N :> [Stdio EXCEPT !.serviceAuths = <<Bearer(<<"b">>), Basic(<<"A">>)>>])
Tokens == File(Proxy, N :> [TokenServer EXCEPT !.serviceAuths = <<Bringing(Bearer(<<"b">>))>>])
Firestored == File(With([Auth EXCEPT !.storage = "firestore", !.gcpProject = "text"]), N :> Stdio)
Proxied == File(With([Auth EXCEPT !.acceptIssuer = TRUE]),
                N :> [Remote EXCEPT !.requiresUserToken = TRUE, !.userAuth = {UserAuth}])
Aggregated == File(Proxy, N :> Aggregate @@ <<"b">> :> Remote @@ <<"a", "b">> :> Remote)
Running == {Anonymous, Services, Tokens, Firestored, Proxied, Aggregated}

-----------------------------------------------------------------------------
(* Files that differ from an accepted one in one or two settings           *)

Vary(r, fields, values) == UNION {{[r EXCEPT ![k] = v] : v \in values} : k \in fields}
Twice(r, Variant(_)) == UNION {Variant(x) : x \in Variant(r)}

Written == {"absent", "empty", "text", "bash", "env", "short", "quotes", "unset", "token", "object"}
Few == {"absent", "empty", "text", "env", "token"}
Lists == {"absent", "empty", "some", "mixed"}

AuthVariant(a) ==
    Vary(a, {"jwtSecret", "encryptionKey"}, Written)
    \cup Vary(a, {"issuer", "gcpProject"}, Few)
    \cup Vary(a, {"allowedOrigins", "allowedDomains"}, Lists)
    \cup Vary(a, {"redirectHosts"}, {"absent", "some", "paths"})
    \cup Vary(a, {"allowAnyHost"}, {TRUE})
    \cup Vary(a, {"storage"}, {"memory", "firestore", "redis"})
    \cup Vary(a, {"tokenTtl", "refreshTtl"}, {"malformed", "zero", "long"})
    \cup Vary(a, {"kind"}, {"other"}) \cup Vary(a, {"idp"}, {{}})

IDPVariant(i) ==
    Vary(i, {"provider"}, {"azure", "oidc", "github", "other"})
    \cup Vary(i, {"clientId", "clientSecret", "redirectUri", "tenantId", "discoveryUrl"}, Few)
    \cup Vary(i, {"allowedOrgs"}, Lists)
    \cup Vary(i, {"endpoints"}, {[i.endpoints EXCEPT !["token"] = "text"],
                                 [e \in DOMAIN i.endpoints |-> "text"]})

SessionsVariant(s) ==
    Vary(s, {"timeout", "cleanup"}, {"absent", "malformed", "minus", "zero", "short", "long"})
    \cup Vary(s, {"maxPerUser"}, {"absent", "negative", "zero"})

OAuthUser == [UserAuth EXCEPT !.type = "oauth", !.clientId = "env", !.clientSecret = "env",
                              !.urls = TRUE, !.scopes = "some"]
UserAuths == {{}} \cup {{u} : u \in {UserAuth, OAuthUser, [UserAuth EXCEPT !.regexOK = FALSE],
                 [UserAuth EXCEPT !.displayName = FALSE], [OAuthUser EXCEPT !.scopes = "mixed"],
                 [OAuthUser EXCEPT !.urls = FALSE], [OAuthUser EXCEPT !.type = "other"]}}

ServiceAuthVariant(a) ==
    Vary(a, {"name", "username"}, {<<>>, <<"a">>, <<"A">>, <<"a", ".">>})
    \cup Vary(a, {"password", "userToken"}, Few)
    \cup Vary(a, {"tokens"}, {{}, {<<>>}, {<<"key">>}, {<<"", "key">>}})
ServiceAuthLists ==
    {<<x>> : x \in Twice(Bearer(<<"b">>), ServiceAuthVariant)}
    \cup {<<x, y>> : x, y \in ServiceAuthVariant(Basic(<<"a">>)) \cup {Bearer(<<"A">>)}}

ServerVariant(s) ==
    Vary(s, {"transportType"}, {"stdio", "streamable-http", "inline", "other"})
    \cup Vary(s, {"command", "url"}, Few)
    \cup Vary(s, {"inline"}, {"absent", "text"}) \cup Vary(s, {"timeout"}, {"malformed"})
    \cup Vary(s, {"audience", "requiresUserToken"}, BOOLEAN)
    \cup Vary(s, {"userAuth"}, UserAuths) \cup Vary(s, {"values"}, {{"token"}, {"object"}})
    \cup Vary(s, {"toolFilter"}, {{[mode |-> x, listed |-> TRUE]} :
                                  x \in {"absent", "empty", "allow", "ALLOW", "other"}})

B == <<"b">>
AB == <<"a", "_", "b">>
AggregateVariant(s) ==
    Vary(s, {"transportType"}, {"sse", "stdio"})
    \cup Vary(s, {"servers"}, {{}, {<<>>}, {<<AB>>}, {<<N>>}, {<<N, N>>}, {<<B>>}, {<<<<"-">>>>}})
    \cup Vary(s, {"delimiter"}, {{}, {<<>>}, {<<"_">>}, {<<"_", "_">>}, {<<"/">>}, {<<"b">>}})
    \cup Vary(s, {"discovery"}, {{}} \cup {{d} : d \in
             Vary(Discovery1, {"timeout", "cacheTtl"}, {"malformed", "zero", "long"})
             \cup Vary(Discovery1, {"maxConns"}, {"negative", "zero"})})
    \cup Vary(s, {"serviceAuths"}, {<<Bearer(<<"b">>)>>, <<Basic(<<"-">>)>>})
    \cup Vary(s, {"url"}, {"text"}) \cup Vary(s, {"requiresUserToken"}, {TRUE})

BesideRemote(n, s) == N :> Remote @@ n :> s
Varied ==
    {File(With(a), N :> Remote) : a \in Twice(Auth, AuthVariant)}
    \cup {File(With([Auth EXCEPT !.idp = {i}]), N :> Remote) : i \in Twice(IDP, IDPVariant)}
    \cup {File([Proxy EXCEPT !.sessions = {s}], N :> Remote) : s \in Twice(Sessions, SessionsVariant)}
    \cup {File(p, N :> Remote) : p \in Vary(Proxy, {"baseURL", "addr"}, Written)}
    \cup {File(Proxy, BesideRemote(B, s)) : s \in Twice(Stdio, ServerVariant)
                                             \cup Twice(Remote, ServerVariant) \cup Twice(Inline, ServerVariant)}
    \cup {File(p, BesideRemote(B, [s EXCEPT !.serviceAuths = l])) :
             p \in {Proxy}, s \in {Stdio, TokenServer}, l \in ServiceAuthLists}
    \cup {File(Proxy, BesideRemote(AB, Remote) @@ (B :> s)) :
             s \in Twice([Aggregate EXCEPT !.servers = {<<N, AB>>}], AggregateVariant)}
    \cup {File(Open, BesideRemote(n, s)) : n \in {<<"A">>, <<"-">>, <<"b", ".">>},
             s \in {[Stdio EXCEPT !.serviceAuths = <<Bearer(<<"b">>)>>], TokenServer}}
    \cup {[f EXCEPT !.versionOK = FALSE] : f \in Running}
    \cup {[f EXCEPT !.proxy = {}] : f \in Running} \cup {[f EXCEPT !.mcpServers = {}] : f \in Running}
    \cup {File(Open, N :> TokenServer)}

MCFiles == Running \cup Varied

MCIssuer == <<"issuer">>
MCClaims == ("ta" :> [email |-> <<"ann">>, audience |-> N])
         @@ ("tb" :> [email |-> <<"bob">>, audience |-> B])
         @@ ("tc" :> [email |-> <<"cem">>, audience |-> MCIssuer])
MCCredential ==
    {[scheme |-> "Bearer", username |-> <<>>, secret |-> x] : x \in {"ta", "tb", "tc", "key"}}
    \cup {[scheme |-> "Basic", username |-> <<"A">>, secret |-> x] : x \in {"password", "key"}}
MCFollowed == {N}

\* Two users of a stdio server that needs no user token
Shared == {File(Proxy, N :> Stdio)}
MCUsers == ("ta" :> [email |-> <<"ann">>, audience |-> N])
        @@ ("tb" :> [email |-> <<"bob">>, audience |-> N])
=============================================================================
