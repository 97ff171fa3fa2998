\* Downloads with losses, a slow answer, an outage, a cancel and every failure
\* mode of the server.
CONSTANTS
    Downloads   <- Wanted
    SeqNumbers  = 64
    FirstSeq    <- FromTheStart
    MaxRetry    = 2
    BurstMax    = 6
    ErrModes    <- AllModes
    DiskMayFail = TRUE
    MaxCancels  = 1
    MaxOutages  = 1
    MaxLosses   = 2
    MaxReorders = 1
    MaxEarly    = 1
    MaxTroubles = 3

SPECIFICATION FairSpec

INVARIANTS
    DownloadedFileIsWhole
    EveryBlockAccountedFor
    AlwaysWaits
    ReportedOnce
    LossesAreMadeGood

PROPERTIES
    EveryDownloadEnds

CHECK_DEADLOCK FALSE
