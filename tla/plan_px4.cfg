\* PX4 missions with DO_JUMP items; messages are lost, and answers to reads may
\* be late, repeated, or mixed with those of another plan type.
CONSTANTS
    Commands         <- OneCommand
    JumpTargets      <- OneJump
    MaxItems         = 2
    MaxInFlight      = 2
    Noises           <- ReadNoise
    MaxNoise         = 1
    EditorPlans      <- MissionPlans
    IsMission        = TRUE
    SendHomePosition = FALSE
    ApmFirmware      = FALSE
    MaxRetryCount    = 0
    LateAcks         <- LateReads
    FailureModes     <- NoFailures
    EarlyAckIndex    = 3
    LinkLoses        = TRUE

SPECIFICATION Spec

INVARIANTS
    WaitsForAnAnswer
    EachItemOnce
    NoItemMissing

PROPERTIES
    SuccessMeansStored
