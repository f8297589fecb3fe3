SPECIFICATION FairSpec
CONSTANTS
    None = None
    A = A
    B = B
    Id <- MCId
    Number = {1, 2, 3, 4, 5, 6, 7, 8}
    PullRequest = {4}
    PageSize = 1
    BatchSize = 2
    LinkPageSize = 1
    InitGitHub <- MCInitGitHub
    MaxEvents = 2
    Route = "api"
    Response <- MCResponse
    MaxTotalWait = 200
    MaxAttempts = 2
    SecondaryWait = 100
INVARIANTS
    TypeOK
    EveryPartWasTrue
    TornOnlyWhereItShifts
    ResentOnlyIfNothingRan
PROPERTIES
    NoUntornDuplicate
    Ends
CHECK_DEADLOCK FALSE
