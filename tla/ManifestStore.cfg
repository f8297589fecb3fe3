CONSTANTS
    Session = {add, update, reconcile}
    HandEdit = {e1}
    MaxCrashes = 1
SPECIFICATION Spec
CHECK_DEADLOCK FALSE
INVARIANT Inv
PROPERTIES
    ReplacesExpected
    OrphanedLockBlocks
