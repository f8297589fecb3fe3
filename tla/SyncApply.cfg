CONSTANTS
    Run = {r1}
    r1 = r1
    r2 = r2
    Path = {path1, path2}
    path1 = path1
    path2 = path2
    ReceiptPath <- OneReceipt
    Item = {1, 2}
    Title = {title1, title2}
    title1 = title1
    title2 = title2
    Prose = {prose1}
    prose1 = prose1
    Guid = {noGuid}
    noGuid = noGuid
    NoDigest = NoDigest
    Status = {"Ready", "Done"}
    Done = "Done"
    BoardStatus = {"Ready", "Done", "Triage"}
    Score = {0, 1, 2, 3}
    None = None
    Manifest <- MCManifest
    Opts <- MCOpts
    Action <- SyncAction
    EditedActions <- MCEditedActions
    PriorityUpdate <- IsPriorityUpdate
    Plannable <- SyncPlannable
    PlanOf <- SyncPlanOf
    Writes <- SyncWrites
    Accepts <- GitHubAccepts
    Effect <- GitHubEffect
    HumanEdit <- PersonEdit
    InitRemote <- MCInitRemote
    MaxEvents = 2
SPECIFICATION FairSpec
CHECK_DEADLOCK FALSE
INVARIANTS
    CleanStart
    Inv
    Converges
PROPERTIES
    KeepsThePromise
    UnconfirmedTouchesPriorityOnly
    Terminates
