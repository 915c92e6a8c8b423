SPECIFICATION Spec
CONSTANTS
    BufSize = 3
    InSize = 2
    CorkMax = 2
    MaxBody = 6
    Clients <- Connections
INVARIANTS
    AnswersInOrder
    InputKept
PROPERTY
    EveryRequestAnswered
CHECK_DEADLOCK FALSE
