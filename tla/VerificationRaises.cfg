CONSTANTS
    Item = {1, 2}
    title1 = title1
    title2 = title2
    prose1 = prose1
    noGuid = noGuid
    Title = {title1, title2}
    Prose = {prose1}
    Guid = {noGuid}
    NoDigest = NoDigest
    Status = {"Ready", "Done"}
    Done = "Done"
    BoardStatus = {"Ready", "Done", "Triage"}
    Case <- OverwriteCase
SPECIFICATION Spec
CHECK_DEADLOCK FALSE
INVARIANT NeverRaises
