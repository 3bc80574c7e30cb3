\* Two users, one stream each, on a stdio server whose subprocesses offer prompts.
SPECIFICATION Spec
CONSTANTS
    Files <- Shared
    Followed <- MCFollowed
    Dev = FALSE
    Credential <- MCCredential
    Claims <- MCUsers
    Issuer <- MCIssuer
    Domain = "serviceauth.mcpfront.alt"
    Stream = {s1, s2}
    Offers = {"tool", "prompt"}
    None = None
INVARIANT PromptReachesOwnProcess
CHECK_DEADLOCK FALSE
