CONSTANTS
    Run = {r1, r2}
    r1 = r1
    r2 = r2
    Path = {path1, path2}
    path1 = path1
    path2 = path2
    ReceiptPath <- SharedReceipt
    Item = {1}
    Title = {title1}
    title1 = title1
    title2 = title2
    Prose = {prose1}
    prose1 = prose1
    Guid = {noGuid}
    noGuid = noGuid
    NoDigest = NoDigest
    Status = {"Ready", "Done"}
    Done = "Done"
    BoardStatus = {"Ready", "Done"}
    Score = {0, 1, 2, 3}
    None = None
    Manifest <- M0Only
    Opts <- PlainOpts
    Action <- SyncAction
    EditedActions = {}
    PriorityUpdate <- IsPriorityUpdate
    Plannable <- SyncPlannable
    PlanOf <- SyncPlanOf
    Writes <- SyncWrites
    Accepts <- GitHubAccepts
    Effect <- GitHubEffect
    HumanEdit <- PersonEdit
    InitRemote <- EmptyOnly
    MaxEvents = 2
SPECIFICATION Spec
SYMMETRY RunSymmetry
CHECK_DEADLOCK FALSE
INVARIANT JournalTruth
PROPERTY DuplicateOnlyWhenOvertaken
