CONSTANTS
    Number = {1, 2, 3}
    Foreign = 99
    x = x
    y = y
    Native = {x, y}
    Level <- MCLevel
    a1 = a1
    a2 = a2
    r1 = r1
    Adopter = {a1, a2}
    Recoverer = {r1}
    NoLimit = 9
    Case <- AllCases
SPECIFICATION Spec
CHECK_DEADLOCK FALSE
INVARIANTS
    Inv
    AcceptedIfUnchanged
    RecoveryCompletes
PROPERTIES
    MarksKeepWords
    RecordsOnlyMarked
    RecoveryLeavesNoOrphan
