CONSTANTS
    Session = {add, update}
    HandEdit = {}
    MaxCrashes = 0
SPECIFICATION Spec
CHECK_DEADLOCK FALSE
INVARIANT NoLostUpdate
