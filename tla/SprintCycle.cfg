CONSTANTS
    Days = 2
    ManifestStart = 0
    Done = "Done"
    None = None
    InitStates <- MCInitStates
    Title = {1, 2, 3}
    Capacity = {1, 2, 3}
    TeamCapacity = 3
    MaxDay = 4
    MaxEvents = 2
SPECIFICATION Spec
CHECK_DEADLOCK FALSE
INVARIANTS
    Inv
    ResumesWhereItStopped
    ScheduleSound
    HonouredUpdatesVerify
    VerifiedKeepsAssignments
    NeverEmptyHanded
