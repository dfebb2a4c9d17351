SPECIFICATION Spec
CONSTANTS
    SlotsPerEpoch = 2
    Enabled = TRUE
    NodeAnswers = TRUE
    Elsewhere <- MCElsewhere
    MaxSlot = 8
    MaxSessions = 2
PROPERTIES
    ObservedBeforeSigning
CHECK_DEADLOCK FALSE
