--------------------------- MODULE AuthMiddleware ---------------------------
(***************************************************************************)
(* The authentication in front of every MCP endpoint: the chain that       *)
(* buildAuthMiddlewares (internal/mcpfront.go) assembles from the service  *)
(* authentication, the validation of OAuth tokens and the final gate.      *)
(*                                                                         *)
(* An identity is a sequence: <<>> is the empty e-mail address, and the    *)
(* reserved domain of service identities is its last element, Domain.      *)
(* The result of authenticating a request is the set of the contexts that  *)
(* the handler may see: empty when the gate answers 401.                   *)
(***************************************************************************)
EXTENDS ToolNames

CONSTANTS Claims,  \* the OAuth tokens that verify: token -> [email, audience]
          Issuer,  \* an audience that is the bare issuer
          Domain   \* serviceauth.mcpfront.alt

\* <server>.<name>@serviceauth.mcpfront.alt
ServiceIdentity(server, name) == Lower(server) \o <<".">> \o name \o <<Domain>>

Reserved(email) == email # <<>> /\ email[Len(email)] = Domain

\* The context after a successful step: the identity, and whether the entry
\* of serviceAuths brings a user token of its own.
Context(user, token) == [user |-> user, token |-> token]

First(I) == {i \in I : \A j \in I : i <= j}

BearerEntry(entries, cred) ==
    First({i \in DOMAIN entries : /\ entries[i].type = "bearer"
                                  /\ cred.secret \in Elements(entries[i].tokens)})

BasicEntry(entries, cred) ==
    {i \in First({j \in DOMAIN entries : /\ entries[j].type = "basic"
                                         /\ entries[j].username = cred.username}) :
        cred.secret = "password"}

ServiceAuth(server, entries, cred) ==
    {Context(ServiceIdentity(server, entries[i].name), entries[i].userToken) :
        i \in IF cred.scheme = "Bearer" THEN BearerEntry(entries, cred)
              ELSE IF cred.scheme = "Basic" THEN BasicEntry(entries, cred)
              ELSE {}}

AudienceOK(server, acceptIssuer, audience) ==
    audience = server \/ (acceptIssuer /\ audience = Issuer)

ValidateAnyAudience(server, acceptIssuer, cred) ==
    {Context(Claims[t].email, FALSE) :
        t \in {u \in DOMAIN Claims : /\ cred.scheme = "Bearer" /\ cred.secret = u
                                     /\ ~Reserved(Claims[u].email)}}

ValidateToken(server, acceptIssuer, cred) ==
    {Context(Claims[t].email, FALSE) :
        t \in {u \in DOMAIN Claims : /\ cred.scheme = "Bearer" /\ cred.secret = u
                                     /\ AudienceOK(server, acceptIssuer, Claims[u].audience)
                                     /\ ~Reserved(Claims[u].email)}}

\* ServiceAuth first, OAuth only for what it did not recognise, then the gate.
Authenticate(conf, cred) ==
    LET service == ServiceAuth(conf.server, conf.entries, cred)
    IN  IF ~conf.oauth /\ conf.entries = <<>> THEN {Context(<<>>, FALSE)}
        ELSE IF service # {} THEN service
        ELSE IF conf.oauth THEN ValidateToken(conf.server, conf.acceptIssuer, cred)
        ELSE {}
=============================================================================
