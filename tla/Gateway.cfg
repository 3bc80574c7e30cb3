\* Two streams at a time, one message in progress; subprocesses offer only tools.
SPECIFICATION Spec
CONSTANTS
    Files <- MCFiles
    Followed <- MCFollowed
    Dev = FALSE
    Credential <- MCCredential
    Claims <- MCClaims
    Issuer <- MCIssuer
    Domain = "serviceauth.mcpfront.alt"
    Stream = {s1, s2}
    Offers = {"tool"}
    None = None
INVARIANTS TypeOK LintPredictsLoad NamesRoundTrip IdentitiesDistinct TokenCheckHasUser
    MessageReachesOwner ServiceTokenReachesProcess NothingOutlivesStream
      CleanExit IdentityEarned
PROPERTIES ShutdownEnds RegistrationReturns
CHECK_DEADLOCK FALSE
