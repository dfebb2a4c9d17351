SPECIFICATION Spec
CONSTANTS
    SlotsPerEpoch = 2
    Enabled = TRUE
    NodeAnswers = FALSE
    Elsewhere <- MCElsewhere
    MaxSlot = 8
    MaxSessions = 2
CHECK_DEADLOCK FALSE
INVARIANTS
    TypeOK
    HoldOffRespected
    SessionsApart
PROPERTIES
    SlotsIncrease
    DoppelgangerStopsClient
