SPECIFICATION Spec
CONSTANTS
    Size = 16
    Request = 20
    Reply = 27
INVARIANT
    WaitIfEmpty
CHECK_DEADLOCK FALSE
