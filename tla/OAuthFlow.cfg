\* Two requests at a time, two codes, both storages, with and without a consent page.
SPECIFICATION Spec
CONSTANTS
    Thread = {t1, t2}
    Client = {public, confidential}
    Public = {public}
    public = public
    confidential = confidential
    uriA = uriA
    uriB = uriB
    verifierA = verifierA
    verifierB = verifierB
    alpha = alpha
    beta = beta
    elsewhere = elsewhere
    RedirectURIs <- MCRedirectURIs
    AllowedURI = {uriA, uriB}
    Verifier = {verifierA, verifierB}
    Service = {alpha, beta}
    Issuer = Issuer
    User <- MCUser
    AllowedDomains = {"corp"}
    AllowedOrgs = {"team"}
    ReservedDomain = "serviceauth"
    AcceptIssuer = TRUE
    AuthorizeRequest <- MCAuthorizeRequest
    Code = {c1, c2}
    Browser = Browser
    None = None
SYMMETRY Symm
INVARIANTS TypeOK CodeOnce CodeKept RedeemedByRequester AdmittedWasAuthorized
PROPERTY ImplementsSingleUse
