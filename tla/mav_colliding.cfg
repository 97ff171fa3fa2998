\* Callers that do not know of one another, on a link that comes and goes.
CONSTANTS
    Calls           <- CollidingCalls
    Target          <- Colliding
    NoCall          = NoCall
    RetriedCommands <- RetriedInTheCode
    MaxRetryCount   = 2
    AckTimeout      = 1
    WaitTimeout     = 1
    Overlapping     = TRUE
    PromptLink      = TRUE
    LinkLoses       = TRUE
    LinkMayGo       = TRUE
    ReportsProgress = FALSE
    Unsolicited     <- Nothing
    MaxInFlight     = 2

SPECIFICATION Spec

INVARIANTS
    AckIsForThisCall
    AtMostOneResult
    NothingPendingAfterResult
