SPECIFICATION Spec
CONSTANTS
    Size = 16
    Request = 20
    Reply = 27
INVARIANTS
    TypeOK
    RingsInStep
    InterruptArmed
PROPERTIES
    ReadInOrder
    HeardInOrder
    RequestAnswered
CHECK_DEADLOCK FALSE
