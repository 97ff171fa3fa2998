\* The simulator's failure modes over a link that loses nothing.
CONSTANTS
    Commands         <- OneCommand
    JumpTargets      <- NoJumps
    MaxItems         = 3
    MaxInFlight      = 2
    Noises           <- NoNoise
    MaxNoise         = 0
    EditorPlans      <- MissionPlans
    IsMission        = TRUE
    SendHomePosition = FALSE
    ApmFirmware      = FALSE
    MaxRetryCount    = 1
    LateAcks         <- NoLateAcks
    FailureModes     <- AllModes
    EarlyAckIndex    = 2
    LinkLoses        = FALSE

SPECIFICATION Spec

PROPERTIES
    OutcomesAsTested
