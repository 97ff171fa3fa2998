\* An upload to one vehicle is cut short when the vehicle goes.
CONSTANTS
    NoItems      = NoItems
    NoVehicle    = NoVehicle
    A            = A
    B            = B
    C            = C
    planA        = planA
    planB        = planB
    draft        = draft
    Vehicles     <- Both
    Contents     <- SomeContents
    InitialPlans <- TheirPlans
    Supports     <- TheirSupport
    ApmVehicles  <- OnlyA
    HighLatency  <- None
    MaxOutages   = 0
    Drafts       <- OneDraft
    MaxEvents    = 4
    Requests     <- UploadAndGuided
    Disturbances <- VehiclesDisturb

SPECIFICATION Spec

INVARIANTS
    UploadsStayWithTheirVehicle

CHECK_DEADLOCK FALSE
