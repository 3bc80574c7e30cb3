---------------------------- MODULE GatewayProofs ----------------------------
(***************************************************************************)
(* What Gateway promises, for any files, credentials and streams: the      *)
(* inductive invariant IInv and the theorems that follow from it.          *)
(***************************************************************************)
EXTENDS Gateway, ConfigFileProofs, TLAPS

\* The functions on Stream that TypeOK says nothing of
Domains == DOMAIN owner = Stream /\ DOMAIN token = Stream /\ DOMAIN got = Stream

Booting == main \in {"start", "loaded", "rejected", "failed"}

\* What Load has said of the file, until the handlers are built
FileInv ==
    /\ main \in {"start", "loaded", "rejected"} => file \in Files
    /\ main = "loaded" => Loads(file, Dev)
    /\ main = "rejected" => ~Loads(file, Dev)

\* Before the handlers are built nothing has happened yet.
BootInv ==
    Booting => /\ \A s \in Stream : stream[s] = "idle" /\ proc[s] = "none" /\ ~got[s].error
               /\ tracked = {} /\ cache = {} /\ flight = None /\ msg.pc = "idle"

\* A subprocess runs only while its stream is registered or open, and then the
\* session manager has it.
ProcInv ==
    \A s \in Stream : proc[s] = "running" =>
        /\ stream[s] \in {"discover", "track", "open"}
        /\ s \in pooled
        /\ conf.kind # "aggregate"

\* Which steps belong to which kind of server
KindInv ==
    \A s \in Stream :
        stream[s] \in {"token", "create", "discover", "track", "revoke"} => conf.kind # "aggregate"

RecordInv ==
    \A s \in tracked :
        /\ stream[s] \in {"open", "revoke", "done"}
        /\ conf.kind # "aggregate"
        /\ stream[s] = "done" => conf.firestore

\* A stream's token is its owner's, and a message in progress is its owner's.
MessageInv ==
    /\ \A s \in Stream : /\ token[s] \subseteq {owner[s]}
                         /\ stream[s] = "idle" => token[s] = {}
    /\ msg.pc = "forwarded" =>
          /\ msg.stream \in Stream /\ stream[msg.stream] # "idle"
          /\ owner[msg.stream] = msg.from
    /\ MessageReachesOwner

ServiceInv ==
    \A s \in Stream :
        stream[s] # "idle" /\ conf.kind # "aggregate"
        /\ conf.requiresUserToken /\ Reserved(owner[s])
        /\ (\A i \in DOMAIN conf.entries : conf.entries[i].userToken)
        => token[s] = {owner[s]}

\* What the running discovery has learned is so, unless the timeout has passed.
ResultInv ==
    flight # None =>
        /\ DOMAIN result = DOMAIN backend
        /\ \A b \in DOMAIN backend :
              /\ result[b] \in {"pending", "tools", "empty", "failed"}
              /\ result[b] = "tools" => backend[b] = "tools"
              /\ ~late => /\ result[b] = "empty" => backend[b] = "empty"
                          /\ result[b] = "failed" => backend[b] = "down"

\* Once the HTTP server has stopped in time, no stream is left.
StoppedInv ==
    main \in {"aggregates", "sessions", "closed", "exited"} /\ ~expired =>
        \A s \in Stream : stream[s] \in {"idle", "done"}

IInv ==
    /\ TypeOK /\ Domains
    /\ FileInv /\ BootInv /\ ProcInv /\ KindInv /\ RecordInv
    /\ MessageInv /\ ServiceInv
    /\ ResultInv /\ CacheReflectsBackends /\ HealthyDiscoverySucceeds
    /\ StoppedInv

-----------------------------------------------------------------------------
(* What authentication gives a request                                     *)

LEMMA RequestTokenOfUser ==
    ASSUME NEW ctx
    PROVE  RequestToken(ctx) \subseteq {ctx.user}
BY DEF RequestToken

\* A reserved identity comes from an entry of serviceAuths, never from a token.
LEMMA ServiceContext ==
    ASSUME NEW cred, NEW ctx \in Authenticate(conf, cred), Reserved(ctx.user),
           \A i \in DOMAIN conf.entries : conf.entries[i].userToken = TRUE
    PROVE  ctx.token = TRUE
<1>1. CASE ctx = Context(<<>>, FALSE)
    BY <1>1 DEF Context, Reserved
<1>2. CASE ctx \in ServiceAuth(conf.server, conf.entries, cred)
    <2>1. PICK i \in DOMAIN conf.entries :
              ctx = Context(ServiceIdentity(conf.server, conf.entries[i].name),
                            conf.entries[i].userToken)
        BY <1>2 DEF ServiceAuth, BearerEntry, BasicEntry, First
    <2> QED
        BY <2>1 DEF Context
<1>3. CASE ctx \in ValidateToken(conf.server, conf.acceptIssuer, cred)
    BY <1>3 DEF ValidateToken, Context
<1> QED
    BY <1>1, <1>2, <1>3 DEF Authenticate

-----------------------------------------------------------------------------
(* Every action keeps the invariant: first what it does not touch, then the rest *)

LEMMA LoadConfigKeeps ==
    ASSUME IInv, LoadConfig
    PROVE  IInv'
<1>1. /\ Domains' /\ ProcInv' /\ KindInv' /\ RecordInv' /\ MessageInv'
      /\ ServiceInv' /\ ResultInv' /\ CacheReflectsBackends' /\ HealthyDiscoverySucceeds'
    BY DEF IInv, LoadConfig, bootVars, stdioVars, discoveryVars, streamVars, Domains,
           ProcInv, KindInv, RecordInv, MessageInv, MessageReachesOwner, ServiceInv,
           ResultInv, CacheReflectsBackends, Offering, HealthyDiscoverySucceeds
<1>2. TypeOK'
    BY DEF IInv, LoadConfig, stdioVars, discoveryVars, streamVars, TypeOK
<1>3. FileInv'
    BY DEF IInv, LoadConfig, bootVars, FileInv
<1>4. BootInv'
    BY DEF IInv, LoadConfig, stdioVars, discoveryVars, streamVars, BootInv, Booting
<1>5. StoppedInv'
    BY DEF LoadConfig, StoppedInv
<1> QED
    BY <1>1, <1>2, <1>3, <1>4, <1>5 DEF IInv

LEMMA NewMCPFrontFailsKeeps ==
    ASSUME IInv, NewMCPFrontFails
    PROVE  IInv'
<1>1. /\ Domains' /\ ProcInv' /\ KindInv' /\ RecordInv' /\ MessageInv'
      /\ ServiceInv' /\ ResultInv' /\ CacheReflectsBackends' /\ HealthyDiscoverySucceeds'
    BY DEF IInv, NewMCPFrontFails, bootVars, stdioVars, discoveryVars, streamVars, Domains,
           ProcInv, KindInv, RecordInv, MessageInv, MessageReachesOwner, ServiceInv,
           ResultInv, CacheReflectsBackends, Offering, HealthyDiscoverySucceeds
<1>2. TypeOK'
    BY DEF IInv, NewMCPFrontFails, stdioVars, discoveryVars, streamVars, TypeOK
<1>3. FileInv'
    BY DEF NewMCPFrontFails, FileInv
<1>4. BootInv'
    BY DEF IInv, NewMCPFrontFails, stdioVars, discoveryVars, streamVars, BootInv, Booting
<1>5. StoppedInv'
    BY DEF NewMCPFrontFails, StoppedInv
<1> QED
    BY <1>1, <1>2, <1>3, <1>4, <1>5 DEF IInv

LEMMA NewMCPFrontKeeps ==
    ASSUME IInv, NewMCPFront
    PROVE  IInv'
<1>1. Domains' /\ MessageInv'
    BY DEF IInv, NewMCPFront, stdioVars, discoveryVars, streamVars, Domains, MessageInv,
           MessageReachesOwner
<1>2. TypeOK'
    BY DEF IInv, NewMCPFront, stdioVars, discoveryVars, streamVars, TypeOK
<1>3. FileInv'
    BY DEF NewMCPFront, FileInv
<1>4. BootInv'
    BY DEF NewMCPFront, BootInv, Booting
<1>5. ProcInv'
    BY DEF IInv, NewMCPFront, stdioVars, BootInv, Booting, ProcInv
<1>6. KindInv'
    BY DEF IInv, NewMCPFront, streamVars, BootInv, Booting, KindInv
<1>7. RecordInv'
    BY DEF IInv, NewMCPFront, stdioVars, BootInv, Booting, RecordInv
<1>8. ServiceInv'
    BY DEF IInv, NewMCPFront, streamVars, BootInv, Booting, ServiceInv
<1>9. ResultInv'
    BY DEF IInv, NewMCPFront, discoveryVars, BootInv, Booting, ResultInv
<1>10. CacheReflectsBackends'
    BY DEF IInv, NewMCPFront, discoveryVars, BootInv, Booting, CacheReflectsBackends
<1>11. HealthyDiscoverySucceeds'
    BY DEF IInv, NewMCPFront, discoveryVars, BootInv, Booting, HealthyDiscoverySucceeds
<1>12. StoppedInv'
    BY DEF NewMCPFront, StoppedInv
<1> QED
    BY <1>1, <1>2, <1>3, <1>4, <1>5, <1>6, <1>7, <1>8, <1>9, <1>10, <1>11, <1>12 DEF IInv

LEMMA OpenStreamKeeps ==
    ASSUME IInv, NEW s \in Stream, OpenStream(s)
    PROVE  IInv'
<1>0. stream[s] = "idle"
    BY DEF OpenStream
<1>1. FileInv' /\ ResultInv' /\ CacheReflectsBackends' /\ HealthyDiscoverySucceeds'
    BY DEF IInv, OpenStream, bootVars, discoveryVars, FileInv, ResultInv,
           CacheReflectsBackends, Offering, HealthyDiscoverySucceeds
<1>2. TypeOK'
    BY DEF IInv, OpenStream, Goto, discoveryVars, TypeOK, Hook
<1>3. Domains'
    BY DEF IInv, OpenStream, discoveryVars, Domains
<1>4. BootInv'
    BY DEF OpenStream, BootInv, Booting
<1>5. ProcInv'
    BY DEF IInv, OpenStream, Goto, bootVars, TypeOK, ProcInv
<1>6. KindInv'
    BY DEF IInv, OpenStream, Goto, bootVars, TypeOK, KindInv
<1>7. RecordInv'
    BY DEF IInv, OpenStream, Goto, bootVars, TypeOK, RecordInv
<1>8. MessageInv'
    <2>1. CASE conf.kind = "aggregate"
        <3>1. PICK u : owner' = [owner EXCEPT ![s] = u]
            BY <2>1 DEF OpenStream
        <3>2. stream' = [stream EXCEPT ![s] = "cache"] /\ UNCHANGED <<token, conf, msg>>
            BY <2>1 DEF OpenStream, Goto, bootVars
        <3> QED
            BY <1>0, <2>1, <3>1, <3>2 DEF IInv, TypeOK, Domains, MessageInv, MessageReachesOwner
    <2>2. CASE conf.kind # "aggregate"
        <3>1. PICK cred \in Credential : \E ctx \in Authenticate(conf, cred) :
                  /\ owner' = [owner EXCEPT ![s] = ctx.user]
                  /\ token' = [token EXCEPT ![s] = RequestToken(ctx)]
            BY <2>2 DEF OpenStream
        <3>2. PICK ctx \in Authenticate(conf, cred) :
                  /\ owner' = [owner EXCEPT ![s] = ctx.user]
                  /\ token' = [token EXCEPT ![s] = RequestToken(ctx)]
            BY <3>1
        <3>3. \E l \in {"token", "create"} : stream' = [stream EXCEPT ![s] = l]
            BY <2>2 DEF OpenStream, Goto
        <3>4. UNCHANGED <<conf, msg>>
            BY DEF OpenStream, bootVars
        <3>5. RequestToken(ctx) \subseteq {ctx.user}
            BY RequestTokenOfUser
        <3> QED
            BY <1>0, <3>2, <3>3, <3>4, <3>5 DEF IInv, TypeOK, Domains,
                 MessageInv, MessageReachesOwner
    <2> QED
        BY <2>1, <2>2
<1>9. ServiceInv'
    <2>1. CASE conf.kind = "aggregate"
        <3>1. PICK u : owner' = [owner EXCEPT ![s] = u]
            BY <2>1 DEF OpenStream
        <3>2. stream' = [stream EXCEPT ![s] = "cache"] /\ UNCHANGED <<token, conf, msg>>
            BY <2>1 DEF OpenStream, Goto, bootVars
        <3> QED
            BY <1>0, <2>1, <3>1, <3>2 DEF IInv, TypeOK, Domains, ServiceInv
    <2>2. CASE conf.kind # "aggregate"
        <3>1. PICK cred \in Credential : \E ctx \in Authenticate(conf, cred) :
                  /\ owner' = [owner EXCEPT ![s] = ctx.user]
                  /\ token' = [token EXCEPT ![s] = RequestToken(ctx)]
            BY <2>2 DEF OpenStream
        <3>2. PICK ctx \in Authenticate(conf, cred) :
                  /\ owner' = [owner EXCEPT ![s] = ctx.user]
                  /\ token' = [token EXCEPT ![s] = RequestToken(ctx)]
            BY <3>1
        <3>3. \E l \in {"token", "create"} : stream' = [stream EXCEPT ![s] = l]
            BY <2>2 DEF OpenStream, Goto
        <3>4. UNCHANGED <<conf, msg>>
            BY DEF OpenStream, bootVars
        <3>5. ASSUME conf.requiresUserToken, Reserved(ctx.user),
                     \A i \in DOMAIN conf.entries : conf.entries[i].userToken
              PROVE  RequestToken(ctx) = {ctx.user}
            BY <3>5, ServiceContext DEF RequestToken, Reserved
        <3> QED
            BY <1>0, <3>2, <3>3, <3>4, <3>5 DEF IInv, TypeOK, Domains, ServiceInv
    <2> QED
        BY <2>1, <2>2
<1>10. StoppedInv'
    BY DEF OpenStream, StoppedInv
<1> QED
    BY <1>1, <1>2, <1>3, <1>4, <1>5, <1>6, <1>7, <1>8, <1>9, <1>10 DEF IInv

LEMMA DisconnectKeeps ==
    ASSUME IInv, NEW s \in Stream, Disconnect(s)
    PROVE  IInv'
<1>1. /\ Domains' /\ FileInv' /\ BootInv' /\ ProcInv' /\ KindInv' /\ RecordInv'
      /\ MessageInv' /\ ServiceInv' /\ ResultInv' /\ CacheReflectsBackends'
      /\ HealthyDiscoverySucceeds' /\ StoppedInv'
    BY DEF IInv, Disconnect, bootVars, stdioVars, discoveryVars, Domains, FileInv, BootInv,
           Booting, ProcInv, KindInv, RecordInv, MessageInv, MessageReachesOwner,
           ServiceInv, ResultInv, CacheReflectsBackends, Offering,
           HealthyDiscoverySucceeds, StoppedInv
<1>2. TypeOK'
    BY DEF IInv, Disconnect, stdioVars, discoveryVars, TypeOK
<1> QED
    BY <1>1, <1>2 DEF IInv

LEMMA GetRegistrationTokenKeeps ==
    ASSUME IInv, NEW s \in Stream, GetRegistrationToken(s)
    PROVE  IInv'
<1>1. FileInv' /\ ResultInv' /\ CacheReflectsBackends' /\ HealthyDiscoverySucceeds'
    BY DEF IInv, GetRegistrationToken, bootVars, discoveryVars, FileInv, ResultInv,
           CacheReflectsBackends, Offering, HealthyDiscoverySucceeds
<1>2. TypeOK'
    BY DEF IInv, GetRegistrationToken, At, Goto, discoveryVars, TypeOK, Hook
<1>3. Domains'
    BY DEF IInv, GetRegistrationToken, discoveryVars, Domains
<1>4. BootInv'
    BY DEF IInv, GetRegistrationToken, At, BootInv, Booting
<1>5. ProcInv'
    BY DEF IInv, GetRegistrationToken, At, Goto, bootVars, ProcInv
<1>6. KindInv'
    BY DEF IInv, GetRegistrationToken, At, bootVars, KindInv
<1>7. RecordInv'
    BY DEF IInv, GetRegistrationToken, At, Goto, bootVars, RecordInv
<1>8. MessageInv'
    BY DEF IInv, GetRegistrationToken, At, Goto, MessageInv, MessageReachesOwner
<1>9. ServiceInv'
    BY DEF IInv, GetRegistrationToken, At, Goto, bootVars, ServiceInv
<1>10. StoppedInv'
    BY DEF IInv, GetRegistrationToken, At, StoppedInv
<1> QED
    BY <1>1, <1>2, <1>3, <1>4, <1>5, <1>6, <1>7, <1>8, <1>9, <1>10 DEF IInv

LEMMA CreateSessionKeeps ==
    ASSUME IInv, NEW s \in Stream, CreateSession(s)
    PROVE  IInv'
<1>1. /\ Domains' /\ FileInv' /\ ResultInv'
      /\ CacheReflectsBackends' /\ HealthyDiscoverySucceeds'
    BY DEF IInv, CreateSession, bootVars, discoveryVars, Domains, FileInv, ResultInv,
           CacheReflectsBackends, Offering, HealthyDiscoverySucceeds
<1>2. TypeOK'
    BY DEF IInv, CreateSession, At, Goto, discoveryVars, TypeOK, Hook
<1>3. BootInv'
    BY DEF IInv, CreateSession, At, BootInv, Booting
<1>4. ProcInv'
    BY DEF IInv, CreateSession, At, Goto, bootVars, TypeOK, ProcInv, KindInv
<1>5. KindInv'
    BY DEF IInv, CreateSession, At, bootVars, KindInv
<1>6. RecordInv'
    BY DEF IInv, CreateSession, At, Goto, bootVars, TypeOK, RecordInv
<1>7. MessageInv'
    BY DEF IInv, CreateSession, Goto, TypeOK, MessageInv, MessageReachesOwner
<1>8. ServiceInv'
    BY DEF IInv, CreateSession, At, Goto, bootVars, TypeOK, ServiceInv
<1>9. StoppedInv'
    BY DEF IInv, CreateSession, At, StoppedInv
<1> QED
    BY <1>1, <1>2, <1>3, <1>4, <1>5, <1>6, <1>7, <1>8, <1>9 DEF IInv

LEMMA DiscoverCapabilitiesKeeps ==
    ASSUME IInv, NEW s \in Stream, DiscoverCapabilities(s)
    PROVE  IInv'
<1>1. /\ Domains' /\ FileInv' /\ ResultInv'
      /\ CacheReflectsBackends' /\ HealthyDiscoverySucceeds'
    BY DEF IInv, DiscoverCapabilities, bootVars, discoveryVars, Domains, FileInv,
           ResultInv, CacheReflectsBackends, Offering, HealthyDiscoverySucceeds
<1>2. TypeOK'
    BY DEF IInv, DiscoverCapabilities, At, Goto, Removed, discoveryVars, TypeOK, Hook
<1>3. BootInv'
    BY DEF IInv, DiscoverCapabilities, At, BootInv, Booting
<1>4. ProcInv'
    BY DEF IInv, DiscoverCapabilities, Goto, Removed, bootVars, TypeOK, ProcInv
<1>5. KindInv'
    BY DEF IInv, DiscoverCapabilities, At, bootVars, KindInv
<1>6. RecordInv'
    BY DEF IInv, DiscoverCapabilities, At, Goto, bootVars, TypeOK, RecordInv
<1>7. MessageInv'
    BY DEF IInv, DiscoverCapabilities, Goto, TypeOK, MessageInv, MessageReachesOwner
<1>8. ServiceInv'
    BY DEF IInv, DiscoverCapabilities, At, Goto, bootVars, TypeOK, ServiceInv
<1>9. StoppedInv'
    BY DEF IInv, DiscoverCapabilities, At, StoppedInv
<1> QED
    BY <1>1, <1>2, <1>3, <1>4, <1>5, <1>6, <1>7, <1>8, <1>9 DEF IInv

LEMMA TrackSessionKeeps ==
    ASSUME IInv, NEW s \in Stream, TrackSession(s)
    PROVE  IInv'
<1>1. /\ Domains' /\ FileInv' /\ ResultInv'
      /\ CacheReflectsBackends' /\ HealthyDiscoverySucceeds'
    BY DEF IInv, TrackSession, bootVars, discoveryVars, Domains, FileInv, ResultInv,
           CacheReflectsBackends, Offering, HealthyDiscoverySucceeds
<1>2. TypeOK'
    BY DEF IInv, TrackSession, At, Goto, discoveryVars, TypeOK
<1>3. BootInv'
    BY DEF IInv, TrackSession, At, BootInv, Booting
<1>4. ProcInv'
    BY DEF IInv, TrackSession, Goto, bootVars, ProcInv
<1>5. KindInv'
    BY DEF IInv, TrackSession, At, bootVars, KindInv
<1>6. RecordInv'
    BY DEF IInv, TrackSession, At, Goto, bootVars, TypeOK, KindInv, RecordInv
<1>7. MessageInv'
    BY DEF IInv, TrackSession, Goto, MessageInv, MessageReachesOwner
<1>8. ServiceInv'
    BY DEF IInv, TrackSession, At, Goto, bootVars, ServiceInv
<1>9. StoppedInv'
    BY DEF IInv, TrackSession, At, StoppedInv
<1> QED
    BY <1>1, <1>2, <1>3, <1>4, <1>5, <1>6, <1>7, <1>8, <1>9 DEF IInv

LEMMA UnregisterSessionKeeps ==
    ASSUME IInv, NEW s \in Stream, UnregisterSession(s)
    PROVE  IInv'
<1>1. /\ Domains' /\ FileInv' /\ ResultInv'
      /\ CacheReflectsBackends' /\ HealthyDiscoverySucceeds'
    BY DEF IInv, UnregisterSession, bootVars, discoveryVars, Domains, FileInv, ResultInv,
           CacheReflectsBackends, Offering, HealthyDiscoverySucceeds
<1>2. TypeOK'
    BY DEF IInv, UnregisterSession, At, Goto, Removed, discoveryVars, TypeOK
<1>3. BootInv'
    BY DEF IInv, UnregisterSession, At, BootInv, Booting
<1>4. ProcInv'
    BY DEF IInv, UnregisterSession, Goto, Removed, bootVars, TypeOK, ProcInv
<1>5. KindInv'
    BY DEF UnregisterSession, bootVars, KindInv
<1>6. RecordInv'
    BY DEF IInv, UnregisterSession, Goto, bootVars, RecordInv
<1>7. MessageInv'
    BY DEF IInv, UnregisterSession, Goto, MessageInv, MessageReachesOwner
<1>8. ServiceInv'
    BY DEF IInv, UnregisterSession, At, Goto, bootVars, ServiceInv
<1>9. StoppedInv'
    BY DEF IInv, UnregisterSession, At, StoppedInv
<1> QED
    BY <1>1, <1>2, <1>3, <1>4, <1>5, <1>6, <1>7, <1>8, <1>9 DEF IInv

LEMMA RevokeSessionKeeps ==
    ASSUME IInv, NEW s \in Stream, RevokeSession(s)
    PROVE  IInv'
<1>1. /\ Domains' /\ FileInv' /\ ResultInv'
      /\ CacheReflectsBackends' /\ HealthyDiscoverySucceeds'
    BY DEF IInv, RevokeSession, bootVars, discoveryVars, Domains, FileInv, ResultInv,
           CacheReflectsBackends, Offering, HealthyDiscoverySucceeds
<1>2. TypeOK'
    BY DEF IInv, RevokeSession, At, Goto, discoveryVars, TypeOK
<1>3. BootInv'
    BY DEF IInv, RevokeSession, At, BootInv, Booting
<1>4. ProcInv'
    BY DEF IInv, RevokeSession, At, Goto, bootVars, ProcInv
<1>5. KindInv'
    BY DEF IInv, RevokeSession, At, bootVars, KindInv
<1>6. RecordInv'
    BY DEF IInv, RevokeSession, Goto, StoreAnswers, bootVars, RecordInv
<1>7. MessageInv'
    BY DEF IInv, RevokeSession, Goto, MessageInv, MessageReachesOwner
<1>8. ServiceInv'
    BY DEF IInv, RevokeSession, At, Goto, bootVars, ServiceInv
<1>9. StoppedInv'
    BY DEF IInv, RevokeSession, At, StoppedInv
<1> QED
    BY <1>1, <1>2, <1>3, <1>4, <1>5, <1>6, <1>7, <1>8, <1>9 DEF IInv

LEMMA CloseAggregateStreamKeeps ==
    ASSUME IInv, NEW s \in Stream, CloseAggregateStream(s)
    PROVE  IInv'
<1>1. /\ Domains' /\ FileInv' /\ ResultInv'
      /\ CacheReflectsBackends' /\ HealthyDiscoverySucceeds'
    BY DEF IInv, CloseAggregateStream, bootVars, stdioVars, discoveryVars, Domains,
           FileInv, ResultInv, CacheReflectsBackends, Offering, HealthyDiscoverySucceeds
<1>2. TypeOK'
    BY DEF IInv, CloseAggregateStream, At, Goto, stdioVars, discoveryVars, TypeOK
<1>3. BootInv'
    BY DEF IInv, CloseAggregateStream, At, BootInv, Booting
<1>4. ProcInv'
    BY DEF IInv, CloseAggregateStream, stdioVars, ProcInv
<1>5. KindInv'
    BY DEF IInv, CloseAggregateStream, Goto, KindInv
<1>6. RecordInv'
    BY DEF IInv, CloseAggregateStream, stdioVars, RecordInv
<1>7. MessageInv'
    BY DEF IInv, CloseAggregateStream, Goto, stdioVars, MessageInv, MessageReachesOwner
<1>8. ServiceInv'
    BY DEF CloseAggregateStream, bootVars, ServiceInv
<1>9. StoppedInv'
    BY DEF IInv, CloseAggregateStream, At, StoppedInv
<1> QED
    BY <1>1, <1>2, <1>3, <1>4, <1>5, <1>6, <1>7, <1>8, <1>9 DEF IInv

LEMMA ReapKeeps ==
    ASSUME IInv, NEW s \in Stream, Reap(s)
    PROVE  IInv'
<1>1. /\ Domains' /\ FileInv' /\ KindInv' /\ RecordInv' /\ MessageInv'
      /\ ServiceInv' /\ ResultInv' /\ CacheReflectsBackends'
      /\ HealthyDiscoverySucceeds' /\ StoppedInv'
    BY DEF IInv, Reap, bootVars, discoveryVars, streamVars, Domains, FileInv, KindInv,
           RecordInv, MessageInv, MessageReachesOwner, ServiceInv, ResultInv,
           CacheReflectsBackends, Offering, HealthyDiscoverySucceeds, StoppedInv
<1>2. TypeOK'
    BY DEF IInv, Reap, Removed, discoveryVars, streamVars, TypeOK
<1>3. BootInv'
    BY DEF IInv, Reap, TypeOK, BootInv, Booting
<1>4. ProcInv'
    BY DEF IInv, Reap, Removed, bootVars, streamVars, TypeOK, ProcInv
<1> QED
    BY <1>1, <1>2, <1>3, <1>4 DEF IInv

LEMMA ChangeTokenKeeps ==
    ASSUME IInv, NEW s \in Stream, ChangeToken(s)
    PROVE  IInv'
<1>1. /\ TypeOK' /\ Domains' /\ FileInv' /\ BootInv' /\ ProcInv' /\ KindInv' /\ RecordInv'
      /\ MessageInv' /\ ServiceInv' /\ ResultInv' /\ CacheReflectsBackends'
      /\ HealthyDiscoverySucceeds' /\ StoppedInv'
    BY DEF IInv, ChangeToken, bootVars, stdioVars, discoveryVars, streamVars, TypeOK,
           Domains, FileInv, BootInv, Booting, ProcInv, KindInv, RecordInv, MessageInv,
           MessageReachesOwner, ServiceInv, ResultInv, CacheReflectsBackends, Offering,
           HealthyDiscoverySucceeds, StoppedInv
<1> QED
    BY <1>1 DEF IInv

LEMMA PostMessageKeeps ==
    ASSUME IInv, NEW s \in Stream, PostMessage(s)
    PROVE  IInv'
<1>1. /\ Domains' /\ FileInv' /\ ProcInv' /\ KindInv' /\ RecordInv'
      /\ ServiceInv' /\ ResultInv' /\ CacheReflectsBackends'
      /\ HealthyDiscoverySucceeds' /\ StoppedInv'
    BY DEF IInv, PostMessage, bootVars, stdioVars, discoveryVars, streamVars, Domains,
           FileInv, ProcInv, KindInv, RecordInv, ServiceInv, ResultInv,
           CacheReflectsBackends, Offering, HealthyDiscoverySucceeds, StoppedInv
<1>2. TypeOK'
    BY DEF IInv, PostMessage, stdioVars, discoveryVars, streamVars, TypeOK
<1>3. BootInv'
    BY DEF PostMessage, BootInv, Booting
<1>4. MessageInv'
    BY DEF IInv, PostMessage, FindSession, stdioVars, streamVars, TypeOK, ProcInv,
           MessageInv, MessageReachesOwner
<1> QED
    BY <1>1, <1>2, <1>3, <1>4 DEF IInv

LEMMA LookupCacheKeeps ==
    ASSUME IInv, NEW s \in Stream, LookupCache(s)
    PROVE  IInv'
<1>1. FileInv' /\ ResultInv' /\ CacheReflectsBackends'
    BY DEF IInv, LookupCache, bootVars, FileInv, ResultInv, CacheReflectsBackends, Offering
<1>2. TypeOK'
    BY DEF IInv, LookupCache, At, Goto, stdioVars, TypeOK, Hook
<1>3. Domains'
    BY DEF IInv, LookupCache, stdioVars, Domains
<1>4. BootInv'
    BY DEF IInv, LookupCache, At, BootInv, Booting
<1>5. ProcInv'
    BY DEF IInv, LookupCache, At, Goto, bootVars, stdioVars, TypeOK, ProcInv
<1>6. KindInv'
    BY DEF IInv, LookupCache, Goto, bootVars, TypeOK, KindInv
<1>7. RecordInv'
    BY DEF IInv, LookupCache, At, Goto, bootVars, stdioVars, TypeOK, RecordInv
<1>8. MessageInv'
    BY DEF IInv, LookupCache, Goto, stdioVars, TypeOK, MessageInv, MessageReachesOwner
<1>9. ServiceInv'
    BY DEF IInv, LookupCache, At, Goto, bootVars, stdioVars, TypeOK, ServiceInv
<1>10. HealthyDiscoverySucceeds'
    BY DEF IInv, LookupCache, Cached, bootVars, Domains, HealthyDiscoverySucceeds, Offering
<1>11. StoppedInv'
    BY DEF IInv, LookupCache, At, StoppedInv
<1> QED
    BY <1>1, <1>2, <1>3, <1>4, <1>5, <1>6, <1>7, <1>8, <1>9, <1>10, <1>11 DEF IInv

LEMMA JoinDiscoveryKeeps ==
    ASSUME IInv, NEW s \in Stream, JoinDiscovery(s)
    PROVE  IInv'
<1>1. FileInv' /\ CacheReflectsBackends'
    BY DEF IInv, JoinDiscovery, bootVars, FileInv, CacheReflectsBackends, Offering
<1>2. TypeOK'
    BY DEF IInv, JoinDiscovery, At, Goto, Cached, stdioVars, TypeOK, Hook
<1>3. Domains'
    BY DEF IInv, JoinDiscovery, stdioVars, Domains
<1>4. BootInv'
    BY DEF IInv, JoinDiscovery, At, BootInv, Booting
<1>5. ProcInv'
    BY DEF IInv, JoinDiscovery, At, Goto, bootVars, stdioVars, TypeOK, ProcInv
<1>6. KindInv'
    BY DEF IInv, JoinDiscovery, Goto, bootVars, TypeOK, KindInv
<1>7. RecordInv'
    BY DEF IInv, JoinDiscovery, At, Goto, bootVars, stdioVars, TypeOK, RecordInv
<1>8. MessageInv'
    BY DEF IInv, JoinDiscovery, Goto, stdioVars, TypeOK, MessageInv, MessageReachesOwner
<1>9. ServiceInv'
    BY DEF IInv, JoinDiscovery, At, Goto, bootVars, stdioVars, TypeOK, ServiceInv
<1>10. ResultInv'
    BY DEF IInv, JoinDiscovery, bootVars, ResultInv
<1>11. HealthyDiscoverySucceeds'
    BY DEF IInv, JoinDiscovery, Cached, bootVars, Domains, HealthyDiscoverySucceeds,
           Offering
<1>12. StoppedInv'
    BY DEF IInv, JoinDiscovery, At, StoppedInv
<1> QED
    BY <1>1, <1>2, <1>3, <1>4, <1>5, <1>6, <1>7, <1>8, <1>9, <1>10, <1>11, <1>12 DEF IInv

LEMMA PublishToolsKeeps ==
    ASSUME IInv, NEW s \in Stream, PublishTools(s)
    PROVE  IInv'
<1>1. FileInv' /\ ResultInv' /\ CacheReflectsBackends'
    BY DEF IInv, PublishTools, bootVars, FileInv, ResultInv, CacheReflectsBackends,
           Offering
<1>2. TypeOK'
    BY DEF IInv, PublishTools, At, Goto, stdioVars, TypeOK
<1>3. Domains'
    BY DEF IInv, PublishTools, stdioVars, Domains
<1>4. BootInv'
    BY DEF IInv, PublishTools, At, BootInv, Booting
<1>5. ProcInv'
    BY DEF IInv, PublishTools, Goto, bootVars, stdioVars, ProcInv
<1>6. KindInv'
    BY DEF IInv, PublishTools, Goto, bootVars, KindInv
<1>7. RecordInv'
    BY DEF IInv, PublishTools, Goto, bootVars, stdioVars, RecordInv
<1>8. MessageInv'
    BY DEF IInv, PublishTools, Goto, stdioVars, MessageInv, MessageReachesOwner
<1>9. ServiceInv'
    BY DEF IInv, PublishTools, At, Goto, bootVars, stdioVars, ServiceInv
<1>10. HealthyDiscoverySucceeds'
    BY DEF IInv, PublishTools, Nothing, bootVars, HealthyDiscoverySucceeds, Offering
<1>11. StoppedInv'
    BY DEF IInv, PublishTools, At, StoppedInv
<1> QED
    BY <1>1, <1>2, <1>3, <1>4, <1>5, <1>6, <1>7, <1>8, <1>9, <1>10, <1>11 DEF IInv

LEMMA DispatchMessageKeeps ==
    ASSUME IInv, DispatchMessage
    PROVE  IInv'
<1>1. /\ Domains' /\ FileInv' /\ ProcInv' /\ KindInv' /\ RecordInv'
      /\ ServiceInv' /\ ResultInv' /\ CacheReflectsBackends'
      /\ HealthyDiscoverySucceeds' /\ StoppedInv'
    BY DEF IInv, DispatchMessage, bootVars, stdioVars, discoveryVars, streamVars, Domains,
           FileInv, ProcInv, KindInv, RecordInv, ServiceInv, ResultInv,
           CacheReflectsBackends, Offering, HealthyDiscoverySucceeds, StoppedInv
<1>2. TypeOK'
    BY DEF IInv, DispatchMessage, NoMessage, stdioVars, discoveryVars, streamVars, TypeOK
<1>3. BootInv'
    BY DEF IInv, DispatchMessage, BootInv, Booting
<1>4. MessageInv'
    BY DEF IInv, DispatchMessage, NoMessage, CallTarget, stdioVars, streamVars, MessageInv,
           MessageReachesOwner
<1> QED
    BY <1>1, <1>2, <1>3, <1>4 DEF IInv

LEMMA ForwardRequestKeeps ==
    ASSUME IInv, ForwardRequest
    PROVE  IInv'
<1>1. /\ Domains' /\ FileInv' /\ ProcInv' /\ KindInv' /\ RecordInv'
      /\ ServiceInv' /\ ResultInv' /\ CacheReflectsBackends'
      /\ HealthyDiscoverySucceeds' /\ StoppedInv'
    BY DEF IInv, ForwardRequest, bootVars, stdioVars, discoveryVars, streamVars, Domains,
           FileInv, ProcInv, KindInv, RecordInv, ServiceInv, ResultInv,
           CacheReflectsBackends, Offering, HealthyDiscoverySucceeds, StoppedInv
<1>2. TypeOK'
    BY DEF IInv, ForwardRequest, stdioVars, discoveryVars, streamVars, TypeOK
<1>3. BootInv'
    BY DEF ForwardRequest, BootInv, Booting
<1>4. MessageInv'
    BY DEF IInv, ForwardRequest, RequestToken, stdioVars, streamVars, MessageInv,
           MessageReachesOwner
<1> QED
    BY <1>1, <1>2, <1>3, <1>4 DEF IInv

LEMMA FinishMessageKeeps ==
    ASSUME IInv, FinishMessage
    PROVE  IInv'
<1>1. /\ Domains' /\ FileInv' /\ ProcInv' /\ KindInv' /\ RecordInv'
      /\ ServiceInv' /\ ResultInv' /\ CacheReflectsBackends'
      /\ HealthyDiscoverySucceeds' /\ StoppedInv'
    BY DEF IInv, FinishMessage, bootVars, stdioVars, discoveryVars, streamVars, Domains,
           FileInv, ProcInv, KindInv, RecordInv, ServiceInv, ResultInv,
           CacheReflectsBackends, Offering, HealthyDiscoverySucceeds, StoppedInv
<1>2. TypeOK'
    BY DEF IInv, FinishMessage, NoMessage, stdioVars, discoveryVars, streamVars, TypeOK
<1>3. BootInv'
    BY DEF IInv, FinishMessage, BootInv, Booting
<1>4. MessageInv'
    BY DEF IInv, FinishMessage, NoMessage, stdioVars, streamVars, MessageInv,
           MessageReachesOwner
<1> QED
    BY <1>1, <1>2, <1>3, <1>4 DEF IInv

LEMMA BackendAnswersKeeps ==
    ASSUME IInv, NEW b \in DOMAIN result, BackendAnswers(b)
    PROVE  IInv'
<1>1. /\ TypeOK' /\ Domains' /\ FileInv' /\ BootInv' /\ ProcInv' /\ KindInv'
      /\ RecordInv' /\ MessageInv' /\ ServiceInv'
      /\ CacheReflectsBackends' /\ HealthyDiscoverySucceeds' /\ StoppedInv'
    BY DEF IInv, BackendAnswers, bootVars, stdioVars, streamVars, TypeOK, Domains, FileInv,
           BootInv, Booting, ProcInv, KindInv, RecordInv, MessageInv, MessageReachesOwner,
           ServiceInv, CacheReflectsBackends, Offering, HealthyDiscoverySucceeds,
           StoppedInv
<1>2. ResultInv'
    BY DEF IInv, BackendAnswers, ContextDone, bootVars, ResultInv
<1> QED
    BY <1>1, <1>2 DEF IInv

LEMMA DiscoveryTimeoutKeeps ==
    ASSUME IInv, DiscoveryTimeout
    PROVE  IInv'
<1>1. /\ Domains' /\ FileInv' /\ BootInv' /\ ProcInv' /\ KindInv' /\ RecordInv'
      /\ MessageInv' /\ ServiceInv' /\ CacheReflectsBackends'
      /\ HealthyDiscoverySucceeds' /\ StoppedInv'
    BY DEF IInv, DiscoveryTimeout, bootVars, stdioVars, streamVars, Domains, FileInv,
           BootInv, Booting, ProcInv, KindInv, RecordInv, MessageInv, MessageReachesOwner,
           ServiceInv, CacheReflectsBackends, Offering, HealthyDiscoverySucceeds,
           StoppedInv
<1>2. TypeOK'
    BY DEF IInv, DiscoveryTimeout, stdioVars, streamVars, TypeOK
<1>3. ResultInv'
    BY DEF IInv, DiscoveryTimeout, bootVars, ResultInv
<1> QED
    BY <1>1, <1>2, <1>3 DEF IInv

LEMMA FinishDiscoveryKeeps ==
    ASSUME IInv, FinishDiscovery
    PROVE  IInv'
<1>1. FileInv'
    BY DEF IInv, FinishDiscovery, bootVars, FileInv
<1>2. TypeOK'
    BY DEF IInv, FinishDiscovery, Answered, DiscoveryFailed, Waiting, stdioVars, TypeOK,
           Hook
<1>3. Domains'
    BY DEF IInv, FinishDiscovery, stdioVars, Domains
<1>4. BootInv'
    BY DEF IInv, FinishDiscovery, BootInv, Booting
<1>5. ProcInv'
    BY DEF IInv, FinishDiscovery, Waiting, bootVars, stdioVars, ProcInv
<1>6. KindInv'
    BY DEF IInv, FinishDiscovery, bootVars, KindInv
<1>7. RecordInv'
    BY DEF IInv, FinishDiscovery, Waiting, bootVars, stdioVars, TypeOK, RecordInv
<1>8. MessageInv'
    BY DEF IInv, FinishDiscovery, stdioVars, MessageInv, MessageReachesOwner
<1>9. ServiceInv'
    BY DEF IInv, FinishDiscovery, Waiting, bootVars, stdioVars, ServiceInv
<1>10. ResultInv'
    BY DEF FinishDiscovery, ResultInv
<1>11. CacheReflectsBackends'
    BY DEF IInv, FinishDiscovery, Answered, DiscoveryFailed, bootVars, ResultInv,
           CacheReflectsBackends, Offering
<1>12. HealthyDiscoverySucceeds'
    BY DEF IInv, FinishDiscovery, Answered, DiscoveryFailed, bootVars, TypeOK, ResultInv,
           HealthyDiscoverySucceeds, Offering
<1>13. StoppedInv'
    BY DEF IInv, FinishDiscovery, Waiting, StoppedInv
<1> QED
    BY <1>1, <1>2, <1>3, <1>4, <1>5, <1>6, <1>7, <1>8, <1>9, <1>10, <1>11, <1>12, <1>13 DEF IInv

LEMMA ExpireCacheKeeps ==
    ASSUME IInv, ExpireCache
    PROVE  IInv'
<1>1. /\ TypeOK' /\ Domains' /\ FileInv' /\ ProcInv' /\ KindInv' /\ RecordInv'
      /\ MessageInv' /\ ServiceInv' /\ ResultInv' /\ HealthyDiscoverySucceeds' /\ StoppedInv'
    BY DEF IInv, ExpireCache, bootVars, stdioVars, streamVars, TypeOK, Domains, FileInv,
           ProcInv, KindInv, RecordInv, MessageInv, MessageReachesOwner, ServiceInv,
           ResultInv, HealthyDiscoverySucceeds, Offering, StoppedInv
<1>2. BootInv'
    BY DEF IInv, ExpireCache, BootInv, Booting
<1>3. CacheReflectsBackends'
    BY DEF ExpireCache, CacheReflectsBackends
<1> QED
    BY <1>1, <1>2, <1>3 DEF IInv

LEMMA SignalKeeps ==
    ASSUME IInv, Signal
    PROVE  IInv'
<1>1. /\ Domains' /\ ProcInv' /\ KindInv' /\ RecordInv' /\ MessageInv'
      /\ ServiceInv' /\ ResultInv' /\ CacheReflectsBackends' /\ HealthyDiscoverySucceeds'
    BY DEF IInv, Signal, bootVars, stdioVars, discoveryVars, streamVars, Domains, ProcInv,
           KindInv, RecordInv, MessageInv, MessageReachesOwner, ServiceInv, ResultInv,
           CacheReflectsBackends, Offering, HealthyDiscoverySucceeds
<1>2. TypeOK'
    BY DEF IInv, Signal, stdioVars, discoveryVars, streamVars, TypeOK
<1>3. FileInv'
    BY DEF Signal, FileInv
<1>4. BootInv'
    BY DEF Signal, BootInv, Booting
<1>5. StoppedInv'
    BY DEF Signal, StoppedInv
<1> QED
    BY <1>1, <1>2, <1>3, <1>4, <1>5 DEF IInv

LEMMA DeadlineKeeps ==
    ASSUME IInv, Deadline
    PROVE  IInv'
<1>1. /\ Domains' /\ FileInv' /\ BootInv' /\ ProcInv' /\ KindInv' /\ RecordInv'
      /\ MessageInv' /\ ServiceInv' /\ ResultInv'
      /\ CacheReflectsBackends' /\ HealthyDiscoverySucceeds'
    BY DEF IInv, Deadline, bootVars, stdioVars, discoveryVars, streamVars, Domains,
           FileInv, BootInv, Booting, ProcInv, KindInv, RecordInv, MessageInv,
           MessageReachesOwner, ServiceInv, ResultInv, CacheReflectsBackends, Offering,
           HealthyDiscoverySucceeds
<1>2. TypeOK'
    BY DEF IInv, Deadline, stdioVars, discoveryVars, streamVars, TypeOK
<1>3. StoppedInv'
    BY DEF Deadline, StoppedInv
<1> QED
    BY <1>1, <1>2, <1>3 DEF IInv

LEMMA StopHTTPKeeps ==
    ASSUME IInv, StopHTTP
    PROVE  IInv'
<1>1. /\ Domains' /\ ProcInv' /\ KindInv' /\ RecordInv' /\ MessageInv'
      /\ ServiceInv' /\ ResultInv' /\ CacheReflectsBackends' /\ HealthyDiscoverySucceeds'
    BY DEF IInv, StopHTTP, bootVars, stdioVars, discoveryVars, streamVars, Domains,
           ProcInv, KindInv, RecordInv, MessageInv, MessageReachesOwner, ServiceInv,
           ResultInv, CacheReflectsBackends, Offering, HealthyDiscoverySucceeds
<1>2. TypeOK'
    BY DEF IInv, StopHTTP, stdioVars, discoveryVars, streamVars, TypeOK
<1>3. FileInv'
    BY DEF StopHTTP, FileInv
<1>4. BootInv'
    BY DEF StopHTTP, BootInv, Booting
<1>5. StoppedInv'
    BY DEF StopHTTP, StopReturns, RequestsDone, streamVars, StoppedInv
<1> QED
    BY <1>1, <1>2, <1>3, <1>4, <1>5 DEF IInv

LEMMA ShutdownAggregatesKeeps ==
    ASSUME IInv, ShutdownAggregates
    PROVE  IInv'
<1>1. /\ Domains' /\ ProcInv' /\ KindInv' /\ RecordInv' /\ MessageInv'
      /\ ServiceInv' /\ ResultInv' /\ CacheReflectsBackends' /\ HealthyDiscoverySucceeds'
    BY DEF IInv, ShutdownAggregates, bootVars, stdioVars, discoveryVars, streamVars,
           Domains, ProcInv, KindInv, RecordInv, MessageInv, MessageReachesOwner,
           ServiceInv, ResultInv, CacheReflectsBackends, Offering, HealthyDiscoverySucceeds
<1>2. TypeOK'
    BY DEF IInv, ShutdownAggregates, stdioVars, discoveryVars, streamVars, TypeOK
<1>3. FileInv'
    BY DEF ShutdownAggregates, FileInv
<1>4. BootInv'
    BY DEF ShutdownAggregates, BootInv, Booting
<1>5. StoppedInv'
    BY DEF IInv, ShutdownAggregates, streamVars, StoppedInv
<1> QED
    BY <1>1, <1>2, <1>3, <1>4, <1>5 DEF IInv

LEMMA ShutdownSessionsKeeps ==
    ASSUME IInv, ShutdownSessions
    PROVE  IInv'
<1>1. /\ Domains' /\ KindInv' /\ RecordInv' /\ MessageInv'
      /\ ServiceInv' /\ ResultInv' /\ CacheReflectsBackends' /\ HealthyDiscoverySucceeds'
    BY DEF IInv, ShutdownSessions, bootVars, discoveryVars, streamVars, Domains, KindInv,
           RecordInv, MessageInv, MessageReachesOwner, ServiceInv, ResultInv,
           CacheReflectsBackends, Offering, HealthyDiscoverySucceeds
<1>2. TypeOK'
    BY DEF IInv, ShutdownSessions, discoveryVars, streamVars, TypeOK
<1>3. FileInv'
    BY DEF ShutdownSessions, FileInv
<1>4. BootInv'
    BY DEF ShutdownSessions, BootInv, Booting
<1>5. ProcInv'
    BY DEF IInv, ShutdownSessions, ProcInv
<1>6. StoppedInv'
    BY DEF IInv, ShutdownSessions, streamVars, StoppedInv
<1> QED
    BY <1>1, <1>2, <1>3, <1>4, <1>5, <1>6 DEF IInv

LEMMA ExitKeeps ==
    ASSUME IInv, Exit
    PROVE  IInv'
<1>1. /\ Domains' /\ ProcInv' /\ KindInv' /\ RecordInv' /\ MessageInv'
      /\ ServiceInv' /\ ResultInv' /\ CacheReflectsBackends' /\ HealthyDiscoverySucceeds'
    BY DEF IInv, Exit, bootVars, stdioVars, discoveryVars, streamVars, Domains, ProcInv,
           KindInv, RecordInv, MessageInv, MessageReachesOwner, ServiceInv, ResultInv,
           CacheReflectsBackends, Offering, HealthyDiscoverySucceeds
<1>2. TypeOK'
    BY DEF IInv, Exit, stdioVars, discoveryVars, streamVars, TypeOK
<1>3. FileInv'
    BY DEF Exit, FileInv
<1>4. BootInv'
    BY DEF Exit, BootInv, Booting
<1>5. StoppedInv'
    BY DEF IInv, Exit, streamVars, StoppedInv
<1> QED
    BY <1>1, <1>2, <1>3, <1>4, <1>5 DEF IInv

-----------------------------------------------------------------------------
(* The invariant holds                                                     *)

LEMMA InitHolds == Init => IInv
<1> SUFFICES ASSUME Init PROVE IInv
    OBVIOUS
<1>1. TypeOK
    BY GatewayAssumption DEF Init, TypeOK, NoMessage
<1>2. Domains
    BY DEF Init, Domains
<1>3. FileInv /\ StoppedInv
    BY DEF Init, FileInv, StoppedInv
<1>4. BootInv /\ ResultInv
    BY DEF Init, BootInv, Nothing, NoMessage, ResultInv
<1>5. ProcInv /\ KindInv /\ RecordInv
    BY DEF Init, ProcInv, KindInv, RecordInv
<1>6. MessageInv /\ ServiceInv
    BY DEF Init, MessageInv, MessageReachesOwner, NoMessage, ServiceInv
<1>7. CacheReflectsBackends /\ HealthyDiscoverySucceeds
    BY DEF Init, CacheReflectsBackends, HealthyDiscoverySucceeds, Nothing
<1> QED
    BY <1>1, <1>2, <1>3, <1>4, <1>5, <1>6, <1>7 DEF IInv

LEMMA StutterKeeps ==
    ASSUME IInv, UNCHANGED vars
    PROVE  IInv'
<1>1. TypeOK' /\ Domains' /\ FileInv' /\ StoppedInv'
    BY DEF IInv, TypeOK, Domains, FileInv, StoppedInv, vars, bootVars, stdioVars,
           discoveryVars, streamVars
<1>2. BootInv' /\ ProcInv' /\ KindInv' /\ RecordInv'
    BY DEF IInv, BootInv, Booting, ProcInv, KindInv, RecordInv, vars, bootVars, stdioVars,
           discoveryVars, streamVars
<1>3. MessageInv' /\ ServiceInv'
    BY DEF IInv, MessageInv, MessageReachesOwner, ServiceInv, vars, bootVars, stdioVars,
           discoveryVars, streamVars
<1>4. ResultInv' /\ CacheReflectsBackends' /\ HealthyDiscoverySucceeds'
    BY DEF IInv, ResultInv, CacheReflectsBackends, HealthyDiscoverySucceeds, Offering, vars,
           bootVars, stdioVars, discoveryVars, streamVars
<1> QED
    BY <1>1, <1>2, <1>3, <1>4 DEF IInv

LEMMA StreamStepKeeps ==
    ASSUME IInv, NEW s \in Stream,
           \/ OpenStream(s) \/ Disconnect(s)
           \/ GetRegistrationToken(s) \/ CreateSession(s) \/ DiscoverCapabilities(s)
           \/ TrackSession(s) \/ UnregisterSession(s) \/ RevokeSession(s)
           \/ CloseAggregateStream(s) \/ Reap(s) \/ ChangeToken(s)
           \/ PostMessage(s) \/ RegisterAggregate(s)
    PROVE  IInv'
<1> HIDE DEF IInv
<1> QED
    BY OpenStreamKeeps, DisconnectKeeps, GetRegistrationTokenKeeps, CreateSessionKeeps,
       DiscoverCapabilitiesKeeps, TrackSessionKeeps, UnregisterSessionKeeps,
       RevokeSessionKeeps, CloseAggregateStreamKeeps, ReapKeeps, ChangeTokenKeeps,
       PostMessageKeeps, LookupCacheKeeps, JoinDiscoveryKeeps, PublishToolsKeeps
    DEF RegisterAggregate

LEMMA DiscoveryKeeps ==
    ASSUME IInv, Discovery
    PROVE  IInv'
<1>1. CASE \E b \in UNION {DOMAIN r : r \in {result} \ {None}} : BackendAnswers(b)
    <2>1. PICK b \in DOMAIN result : BackendAnswers(b)
        BY <1>1
    <2> QED
        BY <2>1, BackendAnswersKeeps
<1>2. CASE DiscoveryTimeout
    BY <1>2, DiscoveryTimeoutKeeps
<1>3. CASE FinishDiscovery
    BY <1>3, FinishDiscoveryKeeps
<1> QED
    BY <1>1, <1>2, <1>3 DEF Discovery

LEMMA NextKeeps == IInv /\ [Next]_vars => IInv'
<1> SUFFICES ASSUME IInv, [Next]_vars PROVE IInv'
    OBVIOUS
<1>1. CASE LoadConfig \/ NewMCPFrontFails \/ NewMCPFront
    BY <1>1, LoadConfigKeeps, NewMCPFrontFailsKeeps, NewMCPFrontKeeps
<1>2. CASE DispatchMessage \/ ForwardRequest \/ FinishMessage
    BY <1>2, DispatchMessageKeeps, ForwardRequestKeeps, FinishMessageKeeps
<1>3. CASE Discovery
    BY <1>3, DiscoveryKeeps
<1>4. CASE ExpireCache
    BY <1>4, ExpireCacheKeeps
<1>5. CASE Signal \/ Deadline \/ StopHTTP
    BY <1>5, SignalKeeps, DeadlineKeeps, StopHTTPKeeps
<1>6. CASE ShutdownAggregates \/ ShutdownSessions \/ Exit
    BY <1>6, ShutdownAggregatesKeeps, ShutdownSessionsKeeps, ExitKeeps
<1>7. CASE UNCHANGED vars
    BY <1>7, StutterKeeps
<1>8. ASSUME NEW s \in Stream,
             \/ OpenStream(s) \/ Disconnect(s)
             \/ GetRegistrationToken(s) \/ CreateSession(s) \/ DiscoverCapabilities(s)
             \/ TrackSession(s) \/ UnregisterSession(s) \/ RevokeSession(s)
             \/ CloseAggregateStream(s) \/ Reap(s) \/ ChangeToken(s)
             \/ PostMessage(s) \/ RegisterAggregate(s)
      PROVE  IInv'
    BY <1>8, StreamStepKeeps
<1> QED
    BY <1>1, <1>2, <1>3, <1>4, <1>5, <1>6, <1>7, <1>8 DEF Next

LEMMA Invariance == Spec => []IInv
<1> QED
    BY InitHolds, NextKeeps, PTL DEF Spec

-----------------------------------------------------------------------------
(* Names and identities of a loaded file                                   *)

\* An entry of mcpServers by its name
LEMMA NamedServer ==
    ASSUME NEW f, IsFile(f), NEW n \in ServerNames(f)
    PROVE  n \in Strings /\ <<n, Server(f, n)>> \in Servers(f)
<1>1. PICK m \in f.mcpServers : n \in DOMAIN m
    BY DEF ServerNames
<1>2. PICK e : e = <<n, m[n]>>
    OBVIOUS
<1>3. e \in Servers(f)
    BY <1>1, <1>2 DEF Servers
<1>4. Server(f, e[1]) = e[2] /\ e[1] \in Seq(STRING)
    BY <1>3 DEF IsFile
<1> QED
    BY <1>2, <1>3, <1>4, Written

LEMMA TwoLetters ==
    ASSUME NEW a \in Letter, NEW b \in Letter
    PROVE  <<a, b>> \in Strings
<1>1. <<a, b>> \in [1 .. 2 -> Letter]
    OBVIOUS
<1>2. PICK x : x = <<a, b>>
    OBVIOUS
<1>3. x \in Seq(Letter)
    BY <1>1, <1>2
<1> QED
    BY <1>2, <1>3 DEF Strings

LEMMA ThreeLetters ==
    ASSUME NEW a \in Letter, NEW b \in Letter, NEW c \in Letter
    PROVE  <<a, b, c>> \in Strings
<1>1. <<a, b, c>> \in [1 .. 3 -> Letter]
    OBVIOUS
<1>2. PICK x : x = <<a, b, c>>
    OBVIOUS
<1>3. x \in Seq(Letter)
    BY <1>1, <1>2
<1> QED
    BY <1>2, <1>3 DEF Strings

LEMMA ToolNameStrings == ToolName \subseteq Strings
<1>1. {"a", ".", "b", "_"} \subseteq Letter
    BY DEF Letter
<1>2. <<"a">> \in Strings
    BY <1>1, Character
<1>3. <<"_", "a">> \in Strings
    BY <1>1, TwoLetters
<1>4. <<"a", ".", "b">> \in Strings
    BY <1>1, ThreeLetters
<1> QED
    BY <1>2, <1>3, <1>4 DEF ToolName

\* namespace.go, validateAggregateServer: what NamesRoundTrip says of a loaded file.
LEMMA LoadedNames ==
    ASSUME NEW f, IsFile(f), Loads(f, Dev), NEW e \in Servers(f),
           IsAggregate(e[2]), Len(Delimiter(e[2])) = 1,
           NEW b \in Backends(f, e[2]), NEW t \in ToolName
    PROVE  ParseToolName(PrefixToolName(b, t, Delimiter(e[2])), Delimiter(e[2])) = {<<b, t>>}
<1>1. ServerOK(f, e[1], e[2])
    BY DEF Loads
<1>2. Delimiter(e[2]) \in Strings /\ b \in Strings /\ ~Contains(b, Delimiter(e[2]))
    BY <1>1, AggregateNames
<1>3. t \in Strings
    BY ToolNameStrings
<1> QED
    BY <1>2, <1>3, PrefixParses

LEMMA EntryNames ==
    ASSUME NEW f, IsFile(f), NEW n \in ServerNames(f),
           NEW i \in DOMAIN Server(f, n).serviceAuths
    PROVE  Lower(EntryName(Server(f, n).serviceAuths[i])) \in Strings
<1> DEFINE a == Server(f, n).serviceAuths[i]
<1>1. <<n, Server(f, n)>> \in Servers(f)
    BY NamedServer
<1>2. {a.name, a.username} \subseteq Seq(STRING)
    BY <1>1 DEF IsFile
<1>3. EntryName(a) \in Strings
    BY <1>2, Written DEF EntryName
<1> QED
    BY <1>3, LowerName

\* ServiceIdentity can be taken apart: the first separator ends the server's name,
\* which has none, and the domain is one character.
LEMMA IdentityParts ==
    ASSUME NEW m \in Strings, NEW n \in Strings, ValidName(m), ValidName(n),
           NEW p \in Strings, NEW q \in Strings,
           ServiceIdentity(m, p) = ServiceIdentity(n, q)
    PROVE  Lower(m) = Lower(n) /\ p = q
<1>1. Domain \in Letter /\ "." \in Letter
    BY GatewayAssumption DEF Letter
<1>2. PICK d, e : d = <<".">> /\ e = <<Domain>>
    OBVIOUS
<1>3. d \in Strings /\ e \in Strings /\ Len(d) = 1 /\ Len(e) = 1 /\ d[1] = "."
    BY <1>1, <1>2, Character
<1>4. Lower(m) \in Strings /\ Lower(n) \in Strings
    BY LowerName
<1>5. PICK a, b : a = Lower(m) /\ b = Lower(n)
    OBVIOUS
<1>6. a \in Strings /\ b \in Strings
    BY <1>4, <1>5
<1>7. Avoids(a, d) /\ Avoids(b, d)
    BY <1>3, <1>5, LowerHasNoSeparator DEF Avoids
<1>8. (a \o d \o p) \in Strings /\ (b \o d \o q) \in Strings
    <2>1. a \o d \in Strings /\ b \o d \in Strings
        BY <1>3, <1>6, ConcatProperties DEF Strings
    <2> QED
        BY <2>1, ConcatProperties DEF Strings
<1>9. (a \o d \o p) \o e = (b \o d \o q) \o e
    BY <1>2, <1>5 DEF ServiceIdentity
<1>10. a \o d \o p = b \o d \o q
    BY <1>3, <1>8, <1>9, DropLast
<1>11. a = b /\ p = q
    BY <1>3, <1>6, <1>7, <1>10, Separation
<1> QED
    BY <1>5, <1>11

\* internal/config/validation.go: what IdentitiesDistinct says of a loaded file.
LEMMA LoadedIdentities ==
    ASSUME NEW f, IsFile(f), Loads(f, Dev), NEW x \in Identities(f), NEW y \in Identities(f),
           IdentityOf(f, x) = IdentityOf(f, y)
    PROVE  x = y \/ (x[1] # y[1] /\ Lower(x[1]) = Lower(y[1]))
<1> DEFINE Auths(n) == Server(f, n).serviceAuths
<1>a. PICK m \in ServerNames(f) : \E i \in DOMAIN Auths(m) : x = <<m, i>>
    BY DEF Identities
<1>b. PICK n \in ServerNames(f) : \E j \in DOMAIN Auths(n) : y = <<n, j>>
    BY DEF Identities
<1>1. PICK i \in DOMAIN Auths(m) : x = <<m, i>>
    BY <1>a
<1>2. PICK j \in DOMAIN Auths(n) : y = <<n, j>>
    BY <1>b
<1>3. /\ m \in Strings /\ <<m, Server(f, m)>> \in Servers(f)
      /\ n \in Strings /\ <<n, Server(f, n)>> \in Servers(f)
    BY NamedServer
<1>4. ServerOK(f, m, Server(f, m)) /\ ServerOK(f, n, Server(f, n))
    BY <1>3 DEF Loads
<1>5. /\ Lower(EntryName(Auths(m)[i])) \in Strings
      /\ Lower(EntryName(Auths(n)[j])) \in Strings
    BY EntryNames
<1>6. ServiceIdentity(m, Lower(EntryName(Auths(m)[i])))
          = ServiceIdentity(n, Lower(EntryName(Auths(n)[j])))
    BY <1>1, <1>2 DEF IdentityOf
<1>7. Lower(m) = Lower(n) /\ Lower(EntryName(Auths(m)[i])) = Lower(EntryName(Auths(n)[j]))
    BY <1>3, <1>4, <1>5, <1>6, IdentityParts DEF ServerOK
<1>8. ASSUME m = n PROVE i = j
    BY <1>4, <1>7, <1>8 DEF ServerOK, EntriesDistinct
<1> QED
    BY <1>1, <1>2, <1>7, <1>8

-----------------------------------------------------------------------------
(* Streams of a server that requires user tokens have a user               *)

\* What RuntimeConf takes from a loaded file
ConfInv ==
    conf # None =>
        /\ conf.requiresUserToken => conf.oauth
        /\ conf.server \in Strings
        /\ \A i \in DOMAIN conf.entries : conf.entries[i].name \in Strings

UserInv ==
    conf # None /\ conf.requiresUserToken =>
        \A s \in Stream : stream[s] # "idle" => owner[s] # <<>>

\* No server is built, no stream is opened and none changes its owner.
Steady ==
    /\ UNCHANGED <<conf, owner>>
    /\ \A t \in Stream : stream[t] = "idle" => stream'[t] = "idle"

LEMMA StreamStepSteady ==
    ASSUME TypeOK, NEW s \in Stream,
           \/ Disconnect(s)
           \/ GetRegistrationToken(s) \/ CreateSession(s) \/ DiscoverCapabilities(s)
           \/ TrackSession(s) \/ UnregisterSession(s) \/ RevokeSession(s)
           \/ CloseAggregateStream(s) \/ Reap(s) \/ ChangeToken(s)
           \/ PostMessage(s) \/ RegisterAggregate(s)
    PROVE  Steady
<1>1. CASE Disconnect(s) \/ Reap(s) \/ ChangeToken(s) \/ PostMessage(s)
    BY <1>1 DEF Disconnect, Reap, ChangeToken, PostMessage, Steady, bootVars, streamVars
<1>2. CASE \/ GetRegistrationToken(s) \/ CreateSession(s) \/ DiscoverCapabilities(s)
           \/ TrackSession(s) \/ UnregisterSession(s) \/ RevokeSession(s)
           \/ CloseAggregateStream(s)
    BY <1>2 DEF GetRegistrationToken, CreateSession, DiscoverCapabilities, TrackSession,
                UnregisterSession, RevokeSession, CloseAggregateStream, At, Goto, Steady,
                TypeOK, bootVars
<1>3. CASE RegisterAggregate(s)
    BY <1>3 DEF RegisterAggregate, LookupCache, JoinDiscovery, PublishTools, At, Goto, Steady,
                TypeOK, bootVars
<1> QED
    BY <1>1, <1>2, <1>3

LEMMA OtherStepSteady ==
    ASSUME TypeOK,
           \/ LoadConfig \/ NewMCPFrontFails
           \/ DispatchMessage \/ ForwardRequest \/ FinishMessage
           \/ Discovery \/ ExpireCache
           \/ Signal \/ Deadline \/ StopHTTP \/ ShutdownAggregates \/ ShutdownSessions \/ Exit
           \/ UNCHANGED vars
    PROVE  Steady
<1>1. CASE LoadConfig \/ NewMCPFrontFails \/ ExpireCache \/ UNCHANGED vars
    BY <1>1 DEF LoadConfig, NewMCPFrontFails, ExpireCache, Steady, vars, bootVars, streamVars
<1>2. CASE DispatchMessage \/ ForwardRequest \/ FinishMessage
    BY <1>2 DEF DispatchMessage, ForwardRequest, FinishMessage, Steady, bootVars, streamVars
<1>3. CASE Discovery
    <2>1. CASE FinishDiscovery
        BY <2>1 DEF FinishDiscovery, Waiting, Steady, bootVars
    <2>2. CASE \/ DiscoveryTimeout
               \/ \E b \in UNION {DOMAIN r : r \in {result} \ {None}} : BackendAnswers(b)
        BY <2>2 DEF DiscoveryTimeout, BackendAnswers, Steady, bootVars, streamVars
    <2> QED
        BY <1>3, <2>1, <2>2 DEF Discovery
<1>4. CASE Signal \/ Deadline \/ StopHTTP \/ ShutdownAggregates \/ ShutdownSessions \/ Exit
    BY <1>4 DEF Signal, Deadline, StopHTTP, ShutdownAggregates, ShutdownSessions, Exit,
                Steady, bootVars, streamVars
<1> QED
    BY <1>1, <1>2, <1>3, <1>4

\* Who passes a server that has OAuth has an identity, if every account has an address.
LEMMA AuthenticatedHasUser ==
    ASSUME \A t \in DOMAIN Claims : Claims[t].email # <<>>,
           ConfInv, conf # None, conf.oauth, NEW cred, NEW ctx \in Authenticate(conf, cred)
    PROVE  ctx.user # <<>>
<1>1. CASE ctx \in ServiceAuth(conf.server, conf.entries, cred)
    <2>1. PICK i \in DOMAIN conf.entries :
              ctx.user = ServiceIdentity(conf.server, conf.entries[i].name)
        BY <1>1 DEF ServiceAuth, BearerEntry, BasicEntry, First, Context
    <2>2. PICK n, d, e : n = Lower(conf.server) /\ d = <<".">> /\ e = <<Domain>>
        OBVIOUS
    <2>3. Domain \in Letter /\ "." \in Letter
        BY GatewayAssumption DEF Letter
    <2>4. n \in Strings /\ d \in Strings /\ e \in Strings /\ Len(e) = 1
        BY <2>2, <2>3, LowerName, Character DEF ConfInv
    <2>5. n \o d \in Strings
        BY <2>4, ConcatProperties DEF Strings
    <2>6. n \o d \o conf.entries[i].name \in Strings
        BY <2>5, ConcatProperties DEF Strings, ConfInv
    <2>7. e # <<>>
        BY <2>2
    <2>8. (n \o d \o conf.entries[i].name) \o e # <<>>
        BY <2>4, <2>6, <2>7, ConcatEqualIffEmpty DEF Strings
    <2> QED
        BY <2>1, <2>2, <2>8 DEF ServiceIdentity
<1>2. CASE ctx \in ValidateToken(conf.server, conf.acceptIssuer, cred)
    BY <1>2 DEF ValidateToken, Context
<1> QED
    BY <1>1, <1>2 DEF Authenticate

\* NewMCPFront: the file has been loaded, so TokenOK holds of the followed server.
LEMMA ConfBuilt ==
    ASSUME IInv, NewMCPFront
    PROVE  ConfInv'
<1>1. IsFile(file) /\ Loads(file, Dev)
    BY GatewayAssumption DEF IInv, FileInv, NewMCPFront
<1>2. PICK e \in Servers(file) : conf' = RuntimeConf(file, e[1])
    BY DEF NewMCPFront
<1>3. PICK s : s = e[2]
    OBVIOUS
<1>4. /\ Server(file, e[1]) = s /\ e[1] \in Strings
      /\ \A i \in DOMAIN s.serviceAuths :
             {s.serviceAuths[i].name, s.serviceAuths[i].username} \subseteq Strings
    BY <1>1, <1>3, Written DEF IsFile
<1>5. s.requiresUserToken => AuthOf(file) # {}
    BY <1>1, <1>3 DEF Loads, ServerOK, TokenOK
<1>6. \A i \in DOMAIN s.serviceAuths : Entry(s.serviceAuths[i]).name \in Strings
    BY <1>4, LowerName DEF Entry, EntryName
<1>7. /\ conf'.requiresUserToken = s.requiresUserToken
      /\ conf'.oauth = (AuthOf(file) # {})
      /\ conf'.server = e[1]
      /\ conf'.entries = [i \in DOMAIN s.serviceAuths |-> Entry(s.serviceAuths[i])]
    BY <1>2, <1>4 DEF RuntimeConf
<1> QED
    BY <1>4, <1>5, <1>6, <1>7 DEF ConfInv

LEMMA NextKeepsUsers ==
    ASSUME \A t \in DOMAIN Claims : Claims[t].email # <<>>
    PROVE  IInv /\ ConfInv /\ UserInv /\ [Next]_vars => ConfInv' /\ UserInv'
<1> SUFFICES ASSUME IInv, ConfInv, UserInv, [Next]_vars PROVE ConfInv' /\ UserInv'
    OBVIOUS
<1>1. TypeOK
    BY DEF IInv
<1>2. CASE Steady
    BY <1>2 DEF Steady, ConfInv, UserInv
<1>3. CASE NewMCPFront
    <2>1. \A s \in Stream : stream'[s] = "idle"
        BY <1>3 DEF IInv, BootInv, Booting, NewMCPFront, streamVars
    <2> QED
        BY <1>3, <2>1, ConfBuilt DEF UserInv
<1>4. ASSUME NEW s \in Stream, OpenStream(s) PROVE ConfInv' /\ UserInv'
    <2>1. UNCHANGED conf
        BY <1>4 DEF OpenStream, bootVars
    <2>2. ConfInv'
        BY <2>1 DEF ConfInv
    <2>3. ASSUME conf # None, conf.requiresUserToken PROVE owner'[s] # <<>>
        <3>1. conf.oauth
            BY <2>3 DEF ConfInv
        <3>2. PICK cred \in Credential : \E ctx \in Authenticate(conf, cred) :
                  owner' = [owner EXCEPT ![s] = ctx.user]
                  \/ owner' = [owner EXCEPT ![s] = IF ctx.user = <<>> THEN <<"anonymous">>
                                                   ELSE ctx.user]
            BY <1>4 DEF OpenStream
        <3>3. PICK ctx \in Authenticate(conf, cred) :
                  owner' = [owner EXCEPT ![s] = ctx.user]
                  \/ owner' = [owner EXCEPT ![s] = IF ctx.user = <<>> THEN <<"anonymous">>
                                                   ELSE ctx.user]
            BY <3>2
        <3>4. ctx.user # <<>>
            BY <2>3, <3>1, <3>3, AuthenticatedHasUser
        <3> QED
            BY <3>3, <3>4 DEF IInv, Domains
    <2>4. \A t \in Stream \ {s} : owner'[t] = owner[t] /\ stream'[t] = stream[t]
        BY <1>1, <1>4 DEF OpenStream, Goto, IInv, Domains, TypeOK
    <2> QED
        BY <2>1, <2>2, <2>3, <2>4 DEF UserInv
<1> QED
    BY <1>1, <1>2, <1>3, <1>4, StreamStepSteady, OtherStepSteady DEF Next

-----------------------------------------------------------------------------
(* Whom the middlewares let through                                        *)

LEMMA AuthenticatedEarned ==
    ASSUME NEW cred, NEW ctx \in Authenticate(conf, cred)
    PROVE  Earned(ctx.user)
<1>1. CASE ~conf.oauth /\ conf.entries = <<>> /\ ctx = Context(<<>>, FALSE)
    BY <1>1 DEF Earned, Context
<1>2. CASE ctx \in ServiceAuth(conf.server, conf.entries, cred)
    <2>1. PICK i \in DOMAIN conf.entries :
              ctx = Context(ServiceIdentity(conf.server, conf.entries[i].name),
                            conf.entries[i].userToken)
        BY <1>2 DEF ServiceAuth, BearerEntry, BasicEntry, First
    <2> QED
        BY <2>1 DEF Earned, Context
<1>3. CASE conf.oauth /\ ctx \in ValidateToken(conf.server, conf.acceptIssuer, cred)
    <2>1. PICK t \in DOMAIN Claims :
              /\ AudienceOK(conf.server, conf.acceptIssuer, Claims[t].audience)
              /\ ~Reserved(Claims[t].email)
              /\ ctx = Context(Claims[t].email, FALSE)
        BY <1>3 DEF ValidateToken
    <2> QED
        BY <1>3, <2>1 DEF Earned, Context
<1> QED
    BY <1>1, <1>2, <1>3 DEF Authenticate

\* s is idle, or the identity it acts under was earned.
Owned(s) ==
    stream[s] # "idle" =>
        \/ Earned(owner[s])
        \/ conf.kind = "aggregate" /\ owner[s] = <<"anonymous">> /\ Earned(<<>>)

LEMMA OpenStreamEarned ==
    ASSUME IInv, IdentityEarned, NEW s \in Stream, OpenStream(s)
    PROVE  IdentityEarned'
<1>1. UNCHANGED <<conf, msg>>
    BY DEF OpenStream, bootVars
<1>2. \A u : Earned(u)' <=> Earned(u)
    BY <1>1 DEF Earned
<1>3. PICK cred \in Credential : \E ctx \in Authenticate(conf, cred) :
          owner' = [owner EXCEPT ![s] = IF conf.kind = "aggregate" /\ ctx.user = <<>>
                                        THEN <<"anonymous">> ELSE ctx.user]
    BY DEF OpenStream
<1>4. PICK ctx \in Authenticate(conf, cred) :
          owner' = [owner EXCEPT ![s] = IF conf.kind = "aggregate" /\ ctx.user = <<>>
                                        THEN <<"anonymous">> ELSE ctx.user]
    BY <1>3
<1>5. Earned(ctx.user)
    BY AuthenticatedEarned
<1>6. Owned(s)'
    BY <1>1, <1>2, <1>4, <1>5 DEF Owned, IInv, Domains
<1>7. \A t \in Stream \ {s} : owner'[t] = owner[t] /\ stream'[t] = stream[t]
    BY DEF OpenStream, Goto, IInv, Domains, TypeOK
<1>8. \A t \in Stream \ {s} : Owned(t)'
    BY <1>1, <1>2, <1>7 DEF Owned, IdentityEarned
<1>9. \A t \in Stream : Owned(t)'
    BY <1>6, <1>8
<1> QED
    BY <1>1, <1>2, <1>9 DEF Owned, IdentityEarned

\* Steps that open no stream leave it at the messages.
LEMMA SteadyEarned ==
    ASSUME IdentityEarned, Steady, msg'.pc # "idle" => Earned(msg'.from)
    PROVE  IdentityEarned'
<1>1. \A u : Earned(u)' <=> Earned(u)
    BY DEF Earned, Steady
<1>2. \A s \in Stream : stream'[s] # "idle" => stream[s] # "idle"
    BY DEF Steady
<1> QED
    BY <1>1, <1>2 DEF IdentityEarned, Steady

LEMMA MessagesEarned ==
    ASSUME IInv, IdentityEarned,
           \/ \E s \in Stream : PostMessage(s)
           \/ DispatchMessage \/ ForwardRequest \/ FinishMessage
    PROVE  msg'.pc # "idle" => Earned(msg'.from)
<1>1. ASSUME NEW s \in Stream, PostMessage(s) PROVE msg'.pc # "idle" => Earned(msg'.from)
    <2>1. PICK cred \in Credential : \E ctx \in Authenticate(conf, cred), what \in Offers :
              msg' = [NoMessage EXCEPT !.pc = "forwarded", !.stream = s,
                                       !.from = ctx.user, !.what = what]
        BY <1>1 DEF PostMessage
    <2>2. PICK ctx \in Authenticate(conf, cred) : msg'.from = ctx.user
        BY <2>1 DEF NoMessage
    <2> QED
        BY <2>2, AuthenticatedEarned
<1>2. CASE DispatchMessage
    <2>1. msg' = NoMessage \/ (msg'.from = msg.from /\ msg.pc # "idle")
        BY <1>2 DEF DispatchMessage, IInv, TypeOK
    <2> QED
        BY <2>1 DEF IdentityEarned, NoMessage
<1>3. CASE ForwardRequest
    <2>1. PICK cred \in Credential : \E ctx \in Authenticate(conf, cred) :
              msg' = [NoMessage EXCEPT !.pc = "called", !.from = ctx.user, !.what = "tool",
                                       !.as = ctx.user, !.token = RequestToken(ctx)]
        BY <1>3 DEF ForwardRequest
    <2>2. PICK ctx \in Authenticate(conf, cred) : msg'.from = ctx.user
        BY <2>1 DEF NoMessage
    <2> QED
        BY <2>2, AuthenticatedEarned
<1>4. CASE FinishMessage
    BY <1>4 DEF FinishMessage, NoMessage
<1> QED
    BY <1>1, <1>2, <1>3, <1>4

LEMMA NextKeepsEarned == IInv /\ IdentityEarned /\ [Next]_vars => IdentityEarned'
<1> SUFFICES ASSUME IInv, IdentityEarned, [Next]_vars PROVE IdentityEarned'
    OBVIOUS
<1>1. TypeOK
    BY DEF IInv
<1>2. CASE NewMCPFront
    BY <1>2 DEF IInv, BootInv, Booting, NewMCPFront, streamVars, IdentityEarned
<1>3. CASE \E s \in Stream : OpenStream(s)
    BY <1>3, OpenStreamEarned
<1>4. CASE \/ \E s \in Stream : PostMessage(s)
           \/ DispatchMessage \/ ForwardRequest \/ FinishMessage
    BY <1>1, <1>4, MessagesEarned, StreamStepSteady, OtherStepSteady, SteadyEarned
<1>5. ASSUME Steady, msg' = msg PROVE IdentityEarned'
    BY <1>5, SteadyEarned DEF IdentityEarned
<1>6. ASSUME NEW s \in Stream,
             \/ Disconnect(s)
             \/ GetRegistrationToken(s) \/ CreateSession(s) \/ DiscoverCapabilities(s)
             \/ TrackSession(s) \/ UnregisterSession(s) \/ RevokeSession(s)
             \/ CloseAggregateStream(s) \/ Reap(s) \/ ChangeToken(s) \/ RegisterAggregate(s)
      PROVE  IdentityEarned'
    <2>1. msg' = msg
        BY <1>6 DEF Disconnect, GetRegistrationToken, CreateSession, DiscoverCapabilities,
                TrackSession, UnregisterSession, RevokeSession, CloseAggregateStream, Reap,
                ChangeToken, RegisterAggregate, LookupCache, JoinDiscovery, PublishTools
    <2> QED
        BY <1>1, <1>5, <1>6, <2>1, StreamStepSteady
<1>7. CASE \/ LoadConfig \/ NewMCPFrontFails \/ Discovery \/ ExpireCache
           \/ Signal \/ Deadline \/ StopHTTP \/ ShutdownAggregates \/ ShutdownSessions \/ Exit
           \/ UNCHANGED vars
    <2>1. msg' = msg
        BY <1>7 DEF LoadConfig, NewMCPFrontFails, Discovery, BackendAnswers, DiscoveryTimeout,
                FinishDiscovery, ExpireCache, Signal, Deadline, StopHTTP, ShutdownAggregates,
                ShutdownSessions, Exit, vars
    <2> QED
        BY <1>1, <1>5, <1>7, <2>1, OtherStepSteady
<1> QED
    BY <1>2, <1>3, <1>4, <1>6, <1>7 DEF Next

-----------------------------------------------------------------------------
(* Every stream that registers with an aggregate is let go                 *)

\* Whoever waits for a discovery waits for one that runs.
LedInv == \A s \in Stream : stream[s] = "waiting" => flight # None

\* Where a registration can go from where it is; the discovery u leads takes it along.
RegistersOn(s, u) ==
    /\ stream[s] = "cache" => (stream[s] = "cache")' \/ (stream[s] = "flight")'
                              \/ (stream[s] = "publish")'
    /\ stream[s] = "flight" => (stream[s] = "flight")' \/ (stream[s] = "waiting")'
                               \/ (stream[s] = "publish")'
    /\ stream[s] = "waiting" /\ flight = u =>
          ((stream[s] = "waiting")' /\ (flight = u)') \/ (stream[s] = "publish")'
    /\ stream[s] = "publish" => (stream[s] = "publish")' \/ (stream[s] = "open")'

\* A step of another stream, or of nobody's, that leaves the discovery alone.
SameRegistration(s) ==
    stream[s] \in {"cache", "flight", "waiting", "publish"} \/ stream'[s] = "waiting"
        => stream'[s] = stream[s]

LEMMA RegistrationSteps ==
    ASSUME TypeOK, LedInv, [Next]_vars
    PROVE  LedInv' /\ \A s, u \in Stream : RegistersOn(s, u)
<1>1. ASSUME flight' = flight, \A s \in Stream : SameRegistration(s)
      PROVE  LedInv' /\ \A s, u \in Stream : RegistersOn(s, u)
    BY <1>1 DEF LedInv, RegistersOn, SameRegistration
<1>2. CASE \/ LoadConfig \/ NewMCPFrontFails \/ NewMCPFront
           \/ DispatchMessage \/ ForwardRequest \/ FinishMessage
           \/ ExpireCache \/ DiscoveryTimeout
           \/ \E b \in UNION {DOMAIN r : r \in {result} \ {None}} : BackendAnswers(b)
           \/ Signal \/ Deadline \/ StopHTTP \/ ShutdownAggregates \/ ShutdownSessions \/ Exit
           \/ UNCHANGED vars
    <2>1. flight' = flight /\ stream' = stream
        BY <1>2 DEF LoadConfig, NewMCPFrontFails, NewMCPFront, DispatchMessage,
                ForwardRequest, FinishMessage, ExpireCache, DiscoveryTimeout, BackendAnswers,
                Signal, Deadline, StopHTTP, ShutdownAggregates, ShutdownSessions, Exit, vars,
                discoveryVars, streamVars
    <2> QED
        BY <1>1, <2>1 DEF SameRegistration
<1>3. ASSUME NEW t \in Stream,
             \/ OpenStream(t) \/ Disconnect(t)
             \/ GetRegistrationToken(t) \/ CreateSession(t) \/ DiscoverCapabilities(t)
             \/ TrackSession(t) \/ UnregisterSession(t) \/ RevokeSession(t)
             \/ CloseAggregateStream(t) \/ Reap(t) \/ ChangeToken(t) \/ PostMessage(t)
      PROVE  LedInv' /\ \A s, u \in Stream : RegistersOn(s, u)
    <2>1. CASE Disconnect(t) \/ Reap(t) \/ ChangeToken(t) \/ PostMessage(t)
        BY <1>1, <2>1 DEF Disconnect, Reap, ChangeToken, PostMessage, discoveryVars,
                streamVars, SameRegistration
    <2>2. CASE OpenStream(t)
        BY <1>1, <2>2 DEF OpenStream, Goto, discoveryVars, SameRegistration, TypeOK
    <2>3. CASE \/ GetRegistrationToken(t) \/ CreateSession(t) \/ DiscoverCapabilities(t)
               \/ TrackSession(t) \/ UnregisterSession(t) \/ RevokeSession(t)
               \/ CloseAggregateStream(t)
        BY <1>1, <2>3 DEF GetRegistrationToken, CreateSession, DiscoverCapabilities,
                TrackSession, UnregisterSession, RevokeSession, CloseAggregateStream, At, Goto,
                discoveryVars, SameRegistration, TypeOK
    <2> QED
        BY <1>3, <2>1, <2>2, <2>3
<1>4. ASSUME NEW t \in Stream, RegisterAggregate(t)
      PROVE  LedInv' /\ \A s, u \in Stream : RegistersOn(s, u)
    <2>1. CASE LookupCache(t)
        BY <2>1 DEF LookupCache, At, Goto, TypeOK, LedInv, RegistersOn
    <2>2. CASE JoinDiscovery(t)
        BY <2>2, GatewayAssumption DEF JoinDiscovery, At, Goto, TypeOK, LedInv, RegistersOn
    <2>3. CASE PublishTools(t)
        BY <2>3 DEF PublishTools, At, Goto, TypeOK, LedInv, RegistersOn
    <2> QED
        BY <1>4, <2>1, <2>2, <2>3 DEF RegisterAggregate
<1>5. CASE FinishDiscovery
    <2>1. \A s \in Stream : stream'[s] = IF stream[s] = "waiting" THEN "publish" ELSE stream[s]
        BY <1>5 DEF FinishDiscovery, Waiting
    <2> QED
        BY <2>1 DEF LedInv, RegistersOn
<1> QED
    BY <1>2, <1>3, <1>4, <1>5 DEF Next, Discovery

LEMMA RegistersAgain ==
    ASSUME NEW s \in Stream, NEW u \in Stream
    PROVE  IInv /\ LedInv /\ [Next]_vars => RegistersOn(s, u)
BY RegistrationSteps DEF IInv

LEMMA LedInvariance == Spec => []LedInv
<1>1. Init => LedInv
    BY DEF Init, LedInv
<1>2. IInv /\ LedInv /\ [Next]_vars => LedInv'
    BY RegistrationSteps DEF IInv
<1> QED
    BY <1>1, <1>2, Invariance, PTL DEF Spec

-----------------------------------------------------------------------------
(* Theorems                                                                *)

\* The types of the variables: the threads, streams and messages of mcp-front.
THEOREM TypeCorrect == Spec => []TypeOK
<1>1. IInv => TypeOK
    BY DEF IInv
<1> QED
    BY <1>1, Invariance, PTL

\* ValidateFile and Load: whatever the file, one that -validate passes is accepted, up
\* to the reasons of Unlinted.
THEOREM LintPredicts == Spec => []LintPredictsLoad
<1>1. IInv => LintPredictsLoad
    <2> SUFFICES ASSUME IInv, main = "rejected", Passes(file), ~Unlinted(file) PROVE FALSE
        BY DEF LintPredictsLoad
    <2>1. file \in Files /\ ~Loads(file, Dev)
        BY DEF IInv, FileInv
    <2>2. IsFile(file)
        BY <2>1, GatewayAssumption
    <2> QED
        BY <2>1, <2>2, PassesLoads
<1> QED
    BY <1>1, Invariance, PTL

\* namespace.go: in every file that Load accepts, the name of every tool leads back to
\* the backend and the tool, if the delimiter is one character long.
THEOREM NamesLeadBack == Spec => []NamesRoundTrip
<1>1. IInv => NamesRoundTrip
    <2> SUFFICES ASSUME IInv, main = "loaded", NEW e \in Servers(file),
                        IsAggregate(e[2]), Len(Delimiter(e[2])) = 1,
                        NEW b \in Backends(file, e[2]), NEW t \in ToolName
                 PROVE  ParseToolName(PrefixToolName(b, t, Delimiter(e[2])), Delimiter(e[2]))
                            = {<<b, t>>}
        BY DEF NamesRoundTrip
    <2>1. file \in Files /\ Loads(file, Dev)
        BY DEF IInv, FileInv
    <2>2. IsFile(file)
        BY <2>1, GatewayAssumption
    <2> QED
        BY <2>1, <2>2, LoadedNames
<1> QED
    BY <1>1, Invariance, PTL

\* serviceAuths: in every file that Load accepts, two entries act under one identity
\* only if their servers' names differ in nothing but case.
THEOREM IdentitiesApart == Spec => []IdentitiesDistinct
<1>1. IInv => IdentitiesDistinct
    <2> SUFFICES ASSUME IInv, main = "loaded",
                        NEW x \in Identities(file), NEW y \in Identities(file),
                        IdentityOf(file, x) = IdentityOf(file, y)
                 PROVE  x = y \/ (x[1] # y[1] /\ Lower(x[1]) = Lower(y[1]))
        BY DEF IdentitiesDistinct
    <2>1. file \in Files /\ Loads(file, Dev)
        BY DEF IInv, FileInv
    <2>2. IsFile(file)
        BY <2>1, GatewayAssumption
    <2> QED
        BY <2>1, <2>2, LoadedIdentities
<1> QED
    BY <1>1, Invariance, PTL

\* mcp_handler.go: a tool call runs in a subprocess of its sender, with the sender's
\* token or none, whoever else connects, disconnects or posts meanwhile.
THEOREM CallsStayWithTheirUser == Spec => []MessageReachesOwner
<1>1. IInv => MessageReachesOwner
    BY DEF IInv, MessageInv
<1> QED
    BY <1>1, Invariance, PTL

\* mcp_handler.go: the token that an entry of serviceAuths brings reaches the
\* subprocess of its service.
THEOREM ServicesHaveTheirToken == Spec => []ServiceTokenReachesProcess
<1>1. IInv => ServiceTokenReachesProcess
    <2> SUFFICES ASSUME IInv, NEW s \in Stream, proc[s] = "running",
                        conf.requiresUserToken, Reserved(owner[s]),
                        \A i \in DOMAIN conf.entries : conf.entries[i].userToken
                 PROVE  token[s] = {owner[s]}
        BY DEF ServiceTokenReachesProcess
    <2>1. stream[s] # "idle" /\ conf.kind # "aggregate"
        BY DEF IInv, ProcInv
    <2> QED
        BY <2>1 DEF IInv, ServiceInv
<1> QED
    BY <1>1, Invariance, PTL

\* buildStdioSSEServer, session tracking: a stream that is over has left no subprocess,
\* nor a record, unless the store needs the request's context.
THEOREM StreamsLeaveNothing == Spec => []NothingOutlivesStream
<1>1. IInv => NothingOutlivesStream
    BY DEF IInv, TypeOK, ProcInv, RecordInv, NothingOutlivesStream
<1> QED
    BY <1>1, Invariance, PTL

\* discoverAllTools and getTools: what is cached is what the backends offered.
THEOREM CacheIsTrue == Spec => []CacheReflectsBackends
<1>1. IInv => CacheReflectsBackends
    BY DEF IInv
<1> QED
    BY <1>1, Invariance, PTL

\* discoveryGroup: no stream loses its tools to the departure of another client.
THEOREM DiscoveryFailsForAReason == Spec => []HealthyDiscoverySucceeds
<1>1. IInv => HealthyDiscoverySucceeds
    BY DEF IInv
<1> QED
    BY <1>1, Invariance, PTL

\* MCPFront.Run: a shutdown in time leaves no subprocess behind.
THEOREM ShutdownIsClean == Spec => []CleanExit
<1>1. IInv => CleanExit
    <2> SUFFICES ASSUME IInv, main = "exited", ~expired, NEW s \in Stream
                 PROVE  proc[s] # "running"
        BY DEF CleanExit
    <2>1. stream[s] \in {"idle", "done"}
        BY DEF IInv, StoppedInv
    <2> QED
        BY <2>1 DEF IInv, ProcInv
<1> QED
    BY <1>1, Invariance, PTL

\* wrapToolHandler: whoever has a stream to a server that requires user tokens has an
\* identity, if every account that validateAccess lets in has an address.  The loader wants
\* allowedDomains or allowedOrgs; the former refuses a domain that is empty because there
\* is no address, unless it lists the empty string, and the latter every account that comes
\* without organizations.
THEOREM TokenStreamsHaveUser ==
    ASSUME \A t \in DOMAIN Claims : Claims[t].email # <<>>
    PROVE  Spec => []TokenCheckHasUser
<1>1. Init => ConfInv /\ UserInv
    BY DEF Init, ConfInv, UserInv
<1>2. IInv /\ ConfInv /\ UserInv /\ [Next]_vars => ConfInv' /\ UserInv'
    BY NextKeepsUsers
<1>3. UserInv => TokenCheckHasUser
    BY DEF UserInv, TokenCheckHasUser
<1> QED
    BY <1>1, <1>2, <1>3, Invariance, PTL DEF Spec

\* buildAuthMiddlewares: every stream and every message acts under an identity that was
\* shown to this server, for any tokens, entries and credentials.
THEOREM IdentitiesAreEarned == Spec => []IdentityEarned
<1>1. Init => IdentityEarned
    BY DEF Init, IdentityEarned, NoMessage
<1> QED
    BY <1>1, NextKeepsEarned, Invariance, PTL DEF Spec

\* The chain of middlewares decides: a request has one identity, or it is refused.
THEOREM OneIdentity ==
    ASSUME NEW c, NEW cred, DOMAIN c.entries \subseteq Nat,
           NEW x \in Authenticate(c, cred), NEW y \in Authenticate(c, cred)
    PROVE  x = y
<1>1. \A I : I \subseteq Nat => \A i, j \in First(I) : i = j
    BY DEF First
<1>2. \A i, j \in BearerEntry(c.entries, cred) : i = j
    BY <1>1 DEF BearerEntry
<1>3. \A i, j \in BasicEntry(c.entries, cred) : i = j
    BY <1>1 DEF BasicEntry
<1>4. \A a, b \in ServiceAuth(c.server, c.entries, cred) : a = b
    BY <1>2, <1>3 DEF ServiceAuth
<1>5. \A a, b \in ValidateToken(c.server, c.acceptIssuer, cred) : a = b
    BY DEF ValidateToken
<1> QED
    BY <1>4, <1>5 DEF Authenticate

\* onRegisterSession: a stream that waits for the shared discovery is let go, whichever
\* client leads it and whether that one stays, if steps and discoveries end.
THEOREM StreamsLetGo == Spec /\ RegistrationMoves => RegistrationReturns
<1>1. ASSUME NEW s \in Stream, []IInv, []LedInv, [][Next]_vars, []AllStepsEnd
      PROVE  stream[s] \in {"cache", "flight", "waiting"}
                 ~> stream[s] \in {"open", "done"} \/ main = "exited"
    <2>1. AllStepsEnd
        BY <1>1, PTL
    <2>2. StepEnds(s, "cache") /\ StepEnds(s, "flight") /\ StepEnds(s, "publish")
        BY <2>1 DEF AllStepsEnd
    <2>3. /\ stream[s] = "cache" => <>(~(stream[s] = "cache") \/ main = "exited")
          /\ stream[s] = "flight" => <>(~(stream[s] = "flight") \/ main = "exited")
          /\ stream[s] = "publish" => <>(~(stream[s] = "publish") \/ main = "exited")
        BY <2>2 DEF StepEnds
    <2>4. ASSUME NEW u \in Stream
          PROVE  stream[s] = "waiting" /\ flight = u
                     => <>(stream[s] = "publish" \/ main = "exited")
        <3>1. FlightEnds(u)
            BY <2>1 DEF AllStepsEnd
        <3>2. flight = u => <>(~(flight = u) \/ main = "exited")
            BY <3>1 DEF FlightEnds
        <3>3. IInv /\ LedInv /\ [Next]_vars => RegistersOn(s, u)
            BY RegistersAgain
        <3> QED
            BY <1>1, <3>2, <3>3, PTL DEF RegistersOn
    <2>5. \A u \in Stream : stream[s] = "waiting" /\ flight = u
                                => <>(stream[s] = "publish" \/ main = "exited")
        BY <2>4
    <2>6. (\E u \in Stream : stream[s] = "waiting" /\ flight = u)
              => <>(stream[s] = "publish" \/ main = "exited")
        BY <2>5
    <2>7. IInv /\ LedInv /\ stream[s] = "waiting"
              => \E u \in Stream : stream[s] = "waiting" /\ flight = u
        BY DEF IInv, TypeOK, LedInv
    <2>8. IInv /\ LedInv /\ [Next]_vars => RegistersOn(s, s)
        BY RegistersAgain
    <2>9. stream[s] \in {"cache", "flight", "waiting"}
              => stream[s] = "cache" \/ stream[s] = "flight" \/ stream[s] = "waiting"
        OBVIOUS
    <2>10. stream[s] = "open" => stream[s] \in {"open", "done"}
        OBVIOUS
    <2> QED
        BY <1>1, <2>3, <2>6, <2>7, <2>8, <2>9, <2>10, PTL DEF RegistersOn
<1>2. []IInv /\ []LedInv /\ [][Next]_vars /\ []AllStepsEnd
          => \A s \in Stream : stream[s] \in {"cache", "flight", "waiting"}
                                   ~> stream[s] \in {"open", "done"} \/ main = "exited"
    BY <1>1
<1>3. Spec /\ RegistrationMoves => []IInv /\ []LedInv /\ [][Next]_vars /\ []AllStepsEnd
    BY Invariance, LedInvariance, PTL DEF Spec, RegistrationMoves
<1> QED
    BY <1>2, <1>3 DEF RegistrationReturns
=============================================================================
