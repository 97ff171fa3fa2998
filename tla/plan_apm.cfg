\* ArduPilot missions over a link that loses messages and brings those of another
\* plan type.  The item retry timer (250 ms) may fire with the
\* answer still on its way, the 1500 ms ones not.
CONSTANTS
    Commands         <- OneCommand
    JumpTargets      <- NoJumps
    MaxItems         = 2
    MaxInFlight      = 3
    Noises           <- Foreign
    MaxNoise         = 1
    EditorPlans      <- MissionPlans
    IsMission        = TRUE
    SendHomePosition = TRUE
    ApmFirmware      = TRUE
    MaxRetryCount    = 1
    LateAcks         <- LateItems
    FailureModes     <- NoFailures
    EarlyAckIndex    = 3
    LinkLoses        = TRUE

SPECIFICATION FairSpec

INVARIANTS
    TypeOK

PROPERTIES
    ReadBringsThePlan
    ImplementsStore
    TransactionsEnd
