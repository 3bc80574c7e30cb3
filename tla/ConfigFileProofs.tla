-------------------------- MODULE ConfigFileProofs --------------------------
(***************************************************************************)
(* What the two readers of a configuration file promise of any file: the   *)
(* rules of ValidateFile imply those of Load, except for what Unlinted     *)
(* lists; and the names that an accepted file leads to can be told apart.  *)
(***************************************************************************)
EXTENDS ConfigFile, SequenceTheorems, TLAPS

\* The values with which ValidateFile and Load agree about a setting.
Agreed == {"absent", "text", "env"}

-----------------------------------------------------------------------------
(* ValidateFile and Load, one lemma for each part of the file              *)

LEMMA IDPLint ==
    ASSUME NEW i, LintIDP(i), IDPValues(i) \subseteq Agreed
    PROVE  IDPOK(i)
BY DEF LintIDP, IDPValues, Agreed, IDPOK, Plain, Present, Parses, NonEmpty, Text

LEMMA AuthLint ==
    ASSUME NEW a, NEW dev, LintAuth(a), ~WarnRedirectHosts(a), ~UnlintedAuth(a),
           AuthValues(a) \subseteq Agreed
    PROVE  OAuthOK(a, dev)
<1>1. \A i \in a.idp : IDPOK(i)
    BY IDPLint DEF LintAuth, AuthValues
<1>2. a.jwtSecret = "env" /\ a.encryptionKey = "env"
    BY DEF UnlintedAuth
<1>3. KeyOK(a)
    BY <1>2 DEF KeyOK, Plain, Present, Parses, NonEmpty
<1>4. RedirectHostsOK(a, dev)
    BY DEF LintAuth, LintRedirectHosts, WarnRedirectHosts, RedirectHostsOK
<1>5. \A d \in {a.tokenTtl, a.refreshTtl} : d # "malformed" /\ Positive(d)
    <2>1. \A d \in {a.tokenTtl, a.refreshTtl} : d \notin {"malformed", "minus", "zero"}
        BY DEF UnlintedAuth
    <2> QED
        BY <2>1 DEF Positive, Timed, Minutes
<1>6. /\ Plain(a.issuer) /\ NonEmpty(a.issuer)
      /\ Plain(a.gcpProject) /\ (a.storage = "firestore" => NonEmpty(a.gcpProject))
      /\ Plain(a.jwtSecret) /\ NonEmpty(a.jwtSecret) /\ a.jwtSecret # "short"
    BY <1>2 DEF LintAuth, UnlintedAuth, AuthValues, Agreed, Plain, Present, Parses, NonEmpty, Text
<1>7. /\ IsStrings(a.allowedOrigins) /\ IsStrings(a.allowedDomains)
      /\ \A i \in a.idp : IsStrings(i.allowedOrgs)
      /\ a.allowedDomains = "some" \/ \E i \in a.idp : i.allowedOrgs = "some"
    BY DEF UnlintedAuth, IsStrings
<1> QED
    BY <1>1, <1>3, <1>4, <1>5, <1>6, <1>7 DEF OAuthOK, LintAuth

LEMMA RawConfigLint ==
    ASSUME NEW f, \A a \in AuthOf(f) : ~UnlintedAuth(a)
    PROVE  RawConfigOK(f)
BY DEF RawConfigOK, RawSecret, UnlintedAuth, EnvRef

LEMMA SessionsLint ==
    ASSUME NEW s, ~UnlintedSessions(s)
    PROVE  SessionsOK(s)
BY DEF UnlintedSessions, SessionsOK

LEMMA ProxyLint ==
    ASSUME NEW f, NEW dev, LintProxy(f), ~Warnings(f), ~Unlinted(f)
    PROVE  ProxyOK(f, dev)
<1>1. Settings(f) \subseteq Agreed
    BY DEF Unlinted, Agreed
<1>2. \A p \in f.proxy : Plain(p.baseURL) /\ NonEmpty(p.baseURL) /\ Plain(p.addr) /\ NonEmpty(p.addr)
    <2> SUFFICES ASSUME NEW p \in f.proxy
                 PROVE  Plain(p.baseURL) /\ NonEmpty(p.baseURL) /\ Plain(p.addr) /\ NonEmpty(p.addr)
        OBVIOUS
    <2>1. p.baseURL \in Agreed /\ p.addr \in Agreed
        <3>1. {p.baseURL, p.addr} \subseteq Settings(f)
            BY DEF Settings
        <3> QED
            BY <1>1, <3>1
    <2> QED
        BY <2>1 DEF LintProxy, Agreed, Plain, Present, Parses, NonEmpty, Text
<1>3. \A a \in AuthOf(f) : OAuthOK(a, dev)
    <2> SUFFICES ASSUME NEW a \in AuthOf(f) PROVE OAuthOK(a, dev)
        OBVIOUS
    <2>1. LintAuth(a)
        BY DEF LintProxy
    <2>2. ~WarnRedirectHosts(a)
        BY <2>1 DEF Warnings, LintAuth
    <2>3. ~UnlintedAuth(a)
        BY DEF Unlinted
    <2>4. AuthValues(a) \subseteq Agreed
        <3>1. AuthValues(a) \subseteq Settings(f)
            BY DEF Settings
        <3> QED
            BY <1>1, <3>1
    <2> QED
        BY <2>1, <2>2, <2>3, <2>4, AuthLint
<1>4. \A s \in SessionsOf(f) : SessionsOK(s)
    BY SessionsLint DEF Unlinted
<1>5. PICK p \in f.proxy : TRUE
    BY DEF LintProxy
<1>6. (\A a \in p.auth : OAuthOK(a, dev)) /\ \A s \in p.sessions : SessionsOK(s)
    BY <1>3, <1>4 DEF AuthOf, SessionsOf
<1> QED
    BY <1>2, <1>5, <1>6 DEF ProxyOK

LEMMA ServiceAuthLint ==
    ASSUME NEW a, NEW r, LintServiceAuth(a, r),
           a.password \in Agreed, a.userToken \in Agreed, \A l \in a.tokens : "" \notin Elements(l)
    PROVE  ServiceAuthOK(a)
BY DEF LintServiceAuth, ServiceAuthOK, Agreed, Plain, Present, Parses, NonEmpty, Text, EnvRef

LEMMA UserAuthLint ==
    ASSUME NEW u, LintUserAuth(u), u.clientId \in Agreed, u.clientSecret \in Agreed,
           IsStrings(u.scopes), u.regexOK
    PROVE  UserAuthOK(u)
BY DEF LintUserAuth, UserAuthOK, Agreed, Present, Parses, Text, IsStrings

LEMMA ToolFilterLint ==
    ASSUME NEW t, LintToolFilter(t)
    PROVE  ToolFilterOK(t)
BY DEF LintToolFilter, ToolFilterOK

LEMMA DirectLint ==
    ASSUME NEW f, NEW s, LintDirect(f, s), ~UnlintedDirect(s),
           ServerValues(s) \subseteq Agreed, "absent" \notin s.values
    PROVE  DirectOK(s)
<1>1. s.command \in Agreed /\ s.url \in Agreed /\ s.values \subseteq Agreed \ {"absent"}
    BY DEF ServerValues
<1>2. \A v \in s.values : Parses(v)
    BY <1>1 DEF Agreed, Parses, Text
<1>3. \A t \in s.toolFilter : ToolFilterOK(t)
    BY ToolFilterLint DEF LintDirect
<1>4. s.transportType \in Kinds /\ s.timeout # "malformed" /\ (s.requiresUserToken => s.userAuth # {})
    BY DEF LintDirect, UnlintedDirect
<1>5. Plain(s.command) /\ (Present(s.url) => Parses(s.url))
    BY <1>1 DEF Agreed, Plain, Present, Parses, Text
<1>6. /\ s.audience => NonEmpty(s.url)
      /\ s.transportType = "stdio" => NonEmpty(s.command) /\ ~NonEmpty(s.url)
      /\ s.transportType \in {"sse", "streamable-http"} => NonEmpty(s.url) /\ ~NonEmpty(s.command)
      /\ s.transportType = "inline" =>
            Present(s.inline) /\ ~NonEmpty(s.command) /\ ~NonEmpty(s.url)
    BY <1>1 DEF LintDirect, UnlintedDirect, Agreed, Present, NonEmpty, Text
<1> QED
    BY <1>2, <1>3, <1>4, <1>5, <1>6 DEF DirectOK

LEMMA AggregateLint ==
    ASSUME NEW f, NEW n, NEW s, LintAggregate(f, n, s), ~UnlintedAggregate(f, s),
           IsAggregate(s), Server(f, n) = s
    PROVE  AggregateOK(f, n, s)
<1>1. \A d \in s.discovery : DiscoveryOK(d)
    BY DEF LintAggregate, LintDiscovery, DiscoveryOK
<1>2. Backends(f, s) \subseteq Eligible(f) \ {n}
    <2>1. CASE s.servers = {}
        BY <2>1 DEF Backends, Eligible
    <2>2. CASE s.servers # {}
        <3>1. \A l \in s.servers : Elements(l) \subseteq Eligible(f) \ {n}
            BY DEF LintAggregate, LintReferences, Eligible
        <3> QED
            BY <2>2, <3>1 DEF Backends
    <2> QED
        BY <2>1, <2>2
<1>3. \A l \in s.servers : \A i, j \in DOMAIN l : l[i] = l[j] => i = j
    BY DEF LintAggregate, LintReferences
<1>4. s.transportType \in {"absent", "sse", "streamable-http"}
    BY DEF LintAggregate
<1>5. Backends(f, s) # {} /\ \A b \in Backends(f, s) : BackendNameOK(b, Delimiter(s))
    BY DEF UnlintedAggregate
<1> QED
    BY <1>1, <1>2, <1>3, <1>4, <1>5 DEF AggregateOK

LEMMA ServerLint ==
    ASSUME NEW f, LintServers(f), ~Unlinted(f), IsFile(f), NEW e \in Servers(f)
    PROVE  ServerOK(f, e[1], e[2])
<1> DEFINE s == e[2]
<1>1. /\ ValidName(e[1])
      /\ IsAggregate(s) => LintAggregate(f, e[1], s)
      /\ ~IsAggregate(s) => LintDirect(f, s)
    BY DEF LintServers
<1>2. ServerValues(s) \subseteq Agreed
    <2>1. ServerValues(s) \subseteq Settings(f)
        BY DEF Settings
    <2> QED
        BY <2>1 DEF Unlinted, Agreed
<1>3. /\ ~UnlintedEntries(s)
      /\ IsAggregate(s) => ~UnlintedAggregate(f, s)
      /\ ~IsAggregate(s) => ~UnlintedDirect(s)
    BY DEF Unlinted
<1>4. Server(f, e[1]) = s /\ "absent" \notin s.values
    BY DEF IsFile
<1>5. CASE IsAggregate(s)
    <2>1. AggregateOK(f, e[1], s)
        BY <1>1, <1>3, <1>4, <1>5, AggregateLint
    <2>2. s.serviceAuths = <<>> /\ s.userAuth = {} /\ ~s.requiresUserToken
        BY <1>1, <1>3, <1>5 DEF LintAggregate, UnlintedAggregate
    <2> QED
        BY <1>1, <1>5, <2>1, <2>2 DEF ServerOK, EntriesDistinct, TokenOK
<1>6. CASE ~IsAggregate(s)
    <2>1. DirectOK(s)
        BY <1>1, <1>2, <1>3, <1>4, <1>6, DirectLint
    <2>2. LintServiceAuths(s)
        BY <1>1, <1>6 DEF LintDirect
    <2>3. \A i \in DOMAIN s.serviceAuths : ServiceAuthOK(s.serviceAuths[i])
        <3> SUFFICES ASSUME NEW i \in DOMAIN s.serviceAuths
                     PROVE  ServiceAuthOK(s.serviceAuths[i])
            OBVIOUS
        <3> DEFINE a == s.serviceAuths[i]
        <3>1. a \in Elements(s.serviceAuths)
            BY DEF Elements
        <3>2. a.password \in Agreed /\ a.userToken \in Agreed
            BY <1>2, <3>1 DEF ServerValues, ServiceAuthValues
        <3>3. \A l \in a.tokens : "" \notin Elements(l)
            BY <1>3, <3>1 DEF UnlintedEntries
        <3>4. LintServiceAuth(a, s.requiresUserToken)
            BY <2>2 DEF LintServiceAuths
        <3> QED
            BY <3>2, <3>3, <3>4, ServiceAuthLint
    <2>4. \A u \in s.userAuth : UserAuthOK(u)
        <3> SUFFICES ASSUME NEW u \in s.userAuth PROVE UserAuthOK(u)
            OBVIOUS
        <3>1. LintUserAuth(u)
            BY <1>1, <1>3, <1>6 DEF LintDirect, UnlintedDirect
        <3>2. u.clientId \in Agreed /\ u.clientSecret \in Agreed
            BY <1>2 DEF ServerValues
        <3>3. IsStrings(u.scopes) /\ u.regexOK
            BY <1>3 DEF UnlintedEntries
        <3> QED
            BY <3>1, <3>2, <3>3, UserAuthLint
    <2>5. TokenOK(f, s)
        BY <1>1, <1>6 DEF LintDirect, TokenOK, HasOAuth
    <2> QED
        BY <1>1, <1>6, <2>1, <2>2, <2>3, <2>4, <2>5 DEF ServerOK, LintServiceAuths
<1> QED
    BY <1>5, <1>6

\* A file that the validator passes is accepted by the loader, in production as in
\* development, unless one of the reasons of Unlinted applies: ValidateFile and Load.
THEOREM PassesLoads ==
    ASSUME NEW f, NEW dev, IsFile(f), Passes(f), ~Unlinted(f)
    PROVE  Loads(f, dev)
<1>1. RawConfigOK(f)
    BY RawConfigLint DEF Unlinted
<1>2. ProxyOK(f, dev)
    BY ProxyLint DEF Passes
<1>3. \A e \in Servers(f) : ServerOK(f, e[1], e[2])
    BY ServerLint DEF Passes
<1> QED
    BY <1>1, <1>2, <1>3 DEF Passes, Loads

-----------------------------------------------------------------------------
(* Names                                                                   *)

\* What names are made of; the provers do not know that literals are in STRING.
Letter == STRING \cup {"a", "b", "_", "."}
Strings == Seq(Letter)

LEMMA Written == Seq(STRING) \subseteq Strings
BY SeqMonotonic DEF Strings, Letter

\* For a delimiter of one character, an occurrence is a position of it.
LEMMA Positions ==
    ASSUME NEW s \in Strings, NEW d \in Strings, Len(d) = 1
    PROVE  Occurrences(s, d) = {i \in 1 .. Len(s) : s[i] = d[1]}
<1>1. Len(s) \in Nat
    BY DEF Strings
<1>2. \A i \in 1 .. Len(s) : /\ i + Len(d) <= Len(s) + 1
                             /\ \A j \in 1 .. Len(d) : j = 1 /\ i + j - 1 = i
    BY <1>1
<1>3. \A i \in 1 .. Len(s) : (\A j \in 1 .. Len(d) : s[i + j - 1] = d[j]) <=> s[i] = d[1]
    <2>1. 1 \in 1 .. Len(d)
        OBVIOUS
    <2> QED
        BY <1>2, <2>1
<1> QED
    BY <1>2, <1>3 DEF Occurrences

\* x is t after s.
Joins(x, s, t) ==
    /\ x \in Strings /\ Len(x) = Len(s) + Len(t)
    /\ \A i \in 1 .. Len(s) : x[i] = s[i]
    /\ \A i \in 1 .. Len(t) : x[Len(s) + i] = t[i]

LEMMA Concatenation ==
    ASSUME NEW s \in Strings, NEW t \in Strings
    PROVE  Joins(s \o t, s, t)
BY DEF Strings, Joins

\* A name without the one-character delimiter is found again: the delimiter that
\* PrefixToolName puts after it is the first one.
LEMMA FirstOccurrence ==
    ASSUME NEW b \in Strings, NEW t \in Strings, NEW d \in Strings, Len(d) = 1,
           ~Contains(b, d), NEW x, x = PrefixToolName(b, t, d)
    PROVE  /\ x \in Strings /\ Len(x) = Len(b) + 1 + Len(t)
           /\ \A i \in 1 .. Len(b) : x[i] = b[i]
           /\ \A i \in 1 .. Len(t) : x[Len(b) + 1 + i] = t[i]
           /\ Len(b) + 1 \in Occurrences(x, d)
           /\ \A i \in Occurrences(x, d) : Len(b) + 1 <= i
<1>1. Len(b) \in Nat /\ Len(t) \in Nat
    BY DEF Strings
<1>2. PICK y : y = b \o d
    OBVIOUS
<1>3. Joins(y, b, d)
    BY <1>2, Concatenation
<1>4. x = y \o t
    BY <1>2 DEF PrefixToolName
<1>5. Joins(x, y, t)
    <2>1. y \in Strings
        BY <1>3 DEF Joins
    <2> QED
        BY <1>4, <2>1, Concatenation
<1>6. /\ Len(x) = Len(b) + 1 + Len(t)
      /\ \A i \in 1 .. Len(b) : x[i] = b[i]
      /\ \A i \in 1 .. Len(t) : x[Len(b) + 1 + i] = t[i]
      /\ x[Len(b) + 1] = d[1] /\ x \in Strings
    BY <1>1, <1>3, <1>5 DEF Joins
<1>7. \A i \in 1 .. Len(b) : b[i] # d[1]
    BY Positions DEF Contains
<1>8. Occurrences(x, d) = {i \in 1 .. Len(x) : x[i] = d[1]}
    BY <1>6, Positions
<1>9. Len(b) + 1 \in Occurrences(x, d)
    BY <1>1, <1>6, <1>8
<1>10. ASSUME NEW i \in Occurrences(x, d) PROVE Len(b) + 1 <= i
    <2>1. i \in 1 .. Len(x) /\ x[i] = d[1]
        BY <1>8
    <2>2. Len(x) \in Nat
        BY <1>1, <1>6
    <2>3. i \notin 1 .. Len(b)
        BY <1>6, <1>7, <2>1
    <2> QED
        BY <1>1, <2>1, <2>2, <2>3
<1> QED
    BY <1>6, <1>9, <1>10

\* namespace.go: ParseToolName undoes PrefixToolName for a backend whose name does
\* not contain the one-character delimiter, whatever the tool is called.
THEOREM PrefixParses ==
    ASSUME NEW b \in Strings, NEW t \in Strings, NEW d \in Strings, Len(d) = 1,
           ~Contains(b, d)
    PROVE  ParseToolName(PrefixToolName(b, t, d), d) = {<<b, t>>}
<1>1. PICK x : x = PrefixToolName(b, t, d)
    OBVIOUS
<1>2. PICK O : O = Occurrences(x, d)
    OBVIOUS
<1>3. /\ x \in Strings /\ Len(x) = Len(b) + 1 + Len(t)
      /\ \A i \in 1 .. Len(b) : x[i] = b[i]
      /\ \A i \in 1 .. Len(t) : x[Len(b) + 1 + i] = t[i]
      /\ Len(b) + 1 \in O /\ \A i \in O : Len(b) + 1 <= i
    BY <1>1, <1>2, FirstOccurrence
<1>4. Len(b) \in Nat /\ Len(t) \in Nat /\ Len(x) \in Nat
    BY <1>3 DEF Strings
<1>5. O \subseteq Nat
    BY <1>2, <1>3, <1>4, Positions
<1>6. {k \in O : \A l \in O : k <= l} = {Len(b) + 1}
    <2>1. \A k \in O : (\A l \in O : k <= l) => k = Len(b) + 1
        BY <1>3, <1>4, <1>5
    <2> QED
        BY <1>3, <2>1
<1>7. SubSeq(x, 1, Len(b)) = b
    <2>1. \A i \in 1 .. Len(b) : x[i] \in Letter
        BY <1>3 DEF Strings
    <2>2. /\ SubSeq(x, 1, Len(b)) \in Seq(Letter)
          /\ Len(SubSeq(x, 1, Len(b))) = Len(b)
          /\ \A i \in 1 .. Len(b) : SubSeq(x, 1, Len(b))[i] = x[i]
        BY <1>4, <2>1, SubSeqProperties
    <2> QED
        BY <1>3, <2>2, SeqEqual DEF Strings
<1>8. SubSeq(x, Len(b) + 2, Len(x)) = t
    <2>1. \A i \in Len(b) + 2 .. Len(x) : x[i] \in Letter
        BY <1>3, <1>4 DEF Strings
    <2>2. /\ SubSeq(x, Len(b) + 2, Len(x)) \in Seq(Letter)
          /\ Len(SubSeq(x, Len(b) + 2, Len(x))) = Len(t)
          /\ \A i \in 1 .. Len(t) : SubSeq(x, Len(b) + 2, Len(x))[i] = x[Len(b) + 1 + i]
        BY <1>3, <1>4, <2>1, SubSeqProperties
    <2> QED
        BY <1>3, <2>2, SeqEqual DEF Strings
<1>9. (Len(b) + 1) - 1 = Len(b) /\ (Len(b) + 1) + 1 = Len(b) + 2
    BY <1>4
<1>10. ParseToolName(x, d) = {<<SubSeq(x, 1, i - 1), SubSeq(x, i + 1, Len(x))>> : i \in {Len(b) + 1}}
    BY <1>2, <1>6 DEF ParseToolName
<1> QED
    BY <1>1, <1>7, <1>8, <1>9, <1>10

LEMMA JoinsTwice ==
    ASSUME NEW a \in Strings, NEW d \in Strings, Len(d) = 1, NEW p \in Strings, NEW y, NEW x,
           Joins(y, a, d), Joins(x, y, p)
    PROVE  /\ Len(x) = Len(a) + 1 + Len(p) /\ x[Len(a) + 1] = d[1]
           /\ \A i \in 1 .. Len(a) : x[i] = a[i]
           /\ \A i \in 1 .. Len(p) : x[Len(a) + 1 + i] = p[i]
<1>1. Len(a) \in Nat /\ Len(p) \in Nat
    BY DEF Strings
<1>2. Len(y) = Len(a) + 1 /\ y[Len(a) + 1] = d[1] /\ \A i \in 1 .. Len(a) : y[i] = a[i]
    BY <1>1 DEF Joins
<1>3. /\ Len(x) = Len(y) + Len(p) /\ \A i \in 1 .. Len(y) : x[i] = y[i]
      /\ \A i \in 1 .. Len(p) : x[Len(y) + i] = p[i]
    BY DEF Joins
<1> QED
    BY <1>1, <1>2, <1>3

\* s has no separator d in it.
Avoids(s, d) == \A i \in 1 .. Len(s) : s[i] # d[1]

\* Where two concatenations with a separator are equal, so are their parts, if the
\* separator does not occur in the first ones.
LEMMA Separation ==
    ASSUME NEW a \in Strings, NEW b \in Strings, NEW p \in Strings, NEW q \in Strings,
           NEW d \in Strings, Len(d) = 1,
           Avoids(a, d), Avoids(b, d),
           a \o d \o p = b \o d \o q
    PROVE  a = b /\ p = q
<1>1. /\ Len(a) \in Nat /\ Len(b) \in Nat /\ Len(p) \in Nat /\ Len(q) \in Nat
    BY DEF Strings
<1>2. PICK y, z : y = a \o d /\ z = b \o d
    OBVIOUS
<1>3. PICK x : x = y \o p
    OBVIOUS
<1>4. Joins(y, a, d) /\ Joins(z, b, d)
    BY <1>2, Concatenation
<1>5. Joins(x, y, p) /\ Joins(x, z, q)
    <2>1. y \in Strings /\ z \in Strings
        BY <1>4 DEF Joins
    <2>2. x = z \o q
        BY <1>2, <1>3
    <2> QED
        BY <1>3, <2>1, <2>2, Concatenation
<1>6. /\ Len(x) = Len(a) + 1 + Len(p) /\ Len(x) = Len(b) + 1 + Len(q)
      /\ x[Len(a) + 1] = d[1] /\ x[Len(b) + 1] = d[1]
      /\ \A i \in 1 .. Len(a) : x[i] = a[i]
      /\ \A i \in 1 .. Len(b) : x[i] = b[i]
      /\ \A i \in 1 .. Len(p) : x[Len(a) + 1 + i] = p[i]
      /\ \A i \in 1 .. Len(q) : x[Len(b) + 1 + i] = q[i]
    BY <1>4, <1>5, JoinsTwice
<1>7. Len(a) = Len(b)
    <2>1. ASSUME Len(a) < Len(b) PROVE FALSE
        <3>1. Len(a) + 1 \in 1 .. Len(b)
            BY <1>1, <2>1
        <3> QED
            BY <1>6, <3>1 DEF Avoids
    <2>2. ASSUME Len(b) < Len(a) PROVE FALSE
        <3>1. Len(b) + 1 \in 1 .. Len(a)
            BY <1>1, <2>2
        <3> QED
            BY <1>6, <3>1 DEF Avoids
    <2> QED
        BY <1>1, <2>1, <2>2
<1>8. a = b
    <2>1. \A i \in 1 .. Len(a) : a[i] = b[i]
        BY <1>6, <1>7
    <2> QED
        BY <1>7, <2>1, SeqEqual DEF Strings
<1>9. p = q
    <2>1. Len(p) = Len(q)
        BY <1>1, <1>6, <1>7
    <2>2. \A i \in 1 .. Len(p) : p[i] = q[i]
        BY <1>6, <1>7, <2>1
    <2> QED
        BY <2>1, <2>2, SeqEqual DEF Strings
<1> QED
    BY <1>8, <1>9

\* Two sequences that one character completes to the same
LEMMA DropLast ==
    ASSUME NEW p \in Strings, NEW q \in Strings, NEW d \in Strings, Len(d) = 1,
           p \o d = q \o d
    PROVE  p = q
<1>1. Len(p) \in Nat /\ Len(q) \in Nat
    BY DEF Strings
<1>2. PICK x : x = p \o d
    OBVIOUS
<1>3. Joins(x, p, d) /\ Joins(x, q, d)
    BY <1>2, Concatenation
<1>4. Len(p) = Len(q) /\ \A i \in 1 .. Len(p) : p[i] = q[i]
    BY <1>1, <1>3 DEF Joins
<1> QED
    BY <1>4, SeqEqual DEF Strings

\* A character is a sequence of its own.
LEMMA Character ==
    ASSUME NEW c \in Letter
    PROVE  <<c>> \in Strings /\ Len(<<c>>) = 1 /\ <<c>>[1] = c
<1>1. <<>> \in Strings
    BY EmptySeq DEF Strings
<1>2. Append(<<>>, c) \in Strings
    BY <1>1, AppendProperties DEF Strings
<1>3. Append(<<>>, c) = <<c>>
    OBVIOUS
<1> QED
    BY <1>2, <1>3

\* Lowering a name keeps it a name, and brings no separator into it.
LEMMA LowerName ==
    ASSUME NEW n \in Strings
    PROVE  Lower(n) \in Strings /\ Len(Lower(n)) = Len(n)
<1>1. /\ Len(n) \in Nat /\ DOMAIN n = 1 .. Len(n)
      /\ \A i \in 1 .. Len(n) : n[i] \in Letter
    BY DEF Strings
<1>2. Lower(n) \in [1 .. Len(n) -> Letter]
    BY <1>1 DEF Lower, Letter
<1>3. PICK m : m = Lower(n)
    OBVIOUS
<1>4. m \in Seq(Letter) /\ Len(m) = Len(n)
    BY <1>1, <1>2, <1>3
<1> QED
    BY <1>3, <1>4 DEF Strings

LEMMA LowerHasNoSeparator ==
    ASSUME NEW n \in Strings, ValidName(n)
    PROVE  \A i \in 1 .. Len(Lower(n)) : Lower(n)[i] # "."
<1>1. DOMAIN n = 1 .. Len(n)
    BY DEF Strings
<1>2. \A i \in 1 .. Len(n) : n[i] \in NameChar
    BY <1>1 DEF ValidName, Elements
<1> QED
    BY <1>1, <1>2, LowerName DEF Lower, NameChar, AlphaNum

\* The separator of a loaded aggregate, and the names that its backends have.
LEMMA AggregateNames ==
    ASSUME NEW f, IsFile(f), NEW e \in Servers(f), IsAggregate(e[2]), ServerOK(f, e[1], e[2])
    PROVE  /\ Delimiter(e[2]) \in Strings
           /\ \A b \in Backends(f, e[2]) : b \in Strings /\ ~Contains(b, Delimiter(e[2]))
<1>1. e[2].delimiter \subseteq Strings
    BY Written DEF IsFile
<1>2. Delimiter(e[2]) \in Strings
    <2>1. CASE e[2].delimiter \subseteq {<<>>}
        <3>1. "." \in Letter
            BY DEF Letter
        <3>2. <<".">> \in Strings
            BY <3>1, Character
        <3> QED
            BY <2>1, <3>2 DEF Delimiter
    <2>2. CASE ~(e[2].delimiter \subseteq {<<>>})
        <3>1. \E d \in e[2].delimiter : TRUE
            BY <2>2
        <3> QED
            BY <1>1, <2>2, <3>1 DEF Delimiter
    <2> QED
        BY <2>1, <2>2
<1>3. AggregateOK(f, e[1], e[2])
    BY DEF ServerOK
<1>4. ASSUME NEW b \in Backends(f, e[2])
      PROVE  b \in Strings /\ ~Contains(b, Delimiter(e[2]))
    <2>1. b \in ServerNames(f) /\ BackendNameOK(b, Delimiter(e[2]))
        BY <1>3 DEF AggregateOK, Eligible
    <2>2. PICK m \in f.mcpServers : b \in DOMAIN m
        BY <2>1 DEF ServerNames
    <2>3. <<b, m[b]>> \in Servers(f)
        BY <2>2 DEF Servers
    <2>4. <<b, m[b]>>[1] \in Seq(STRING)
        BY <2>3 DEF IsFile
    <2> QED
        BY <2>1, <2>4, Written DEF BackendNameOK
<1> QED
    BY <1>2, <1>4
=============================================================================
