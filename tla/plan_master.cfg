\* Two vehicles, one of them without a fence, that connect, go and come again; a
\* user who edits, asks and changes the active vehicle between transfers.
CONSTANTS
    NoItems      = NoItems
    NoVehicle    = NoVehicle
    A            = A
    B            = B
    C            = C
    planA        = planA
    planB        = planB
    draft        = draft
    Vehicles     <- Three
    Contents     <- SomeContents
    InitialPlans <- TheirPlans
    Supports     <- TheirSupport
    ApmVehicles  <- OnlyA
    HighLatency  <- OnlyC
    MaxOutages   = 1
    Drafts       <- OneDraft
    MaxEvents    = 4
    Requests     <- AllRequests
    Disturbances <- None

SPECIFICATION Spec

INVARIANTS
    FlagMeansTransfer
    EditsKept
    ConnectWaits
    FlyViewFollows
    UploadArrives

CHECK_DEADLOCK FALSE
