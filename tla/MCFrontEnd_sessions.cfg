CONSTANTS
    N = 2
    MaxWrites <- MostAtFirst
    Bodies <- Wishes
    SESSION_TTL = 0
    MaxTime = 1
    MaxErrors = 0
    Handler = {"create_account", "login", "check", "check_as_seller", "logout"}
    Side <- Sides
    Task <- Tasks
    Name <- Alice
    MaxCalls = 4
    MaxMoves = 1
SPECIFICATION FrontSpec
INVARIANT FrontTypeOK
PROPERTIES
    RefusedForReason
    LetInWithSession
\* every call is made once, then nothing is left to do
CHECK_DEADLOCK FALSE
