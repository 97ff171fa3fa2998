\* Two requests made at the same time over a link that loses nothing.
CONSTANTS
    Calls           <- ConnectCalls
    Target          <- Connect
    NoCall          = NoCall
    RetriedCommands <- RetriedInTheCode
    MaxRetryCount   = 3
    AckTimeout      = 2
    WaitTimeout     = 1
    Overlapping     = TRUE
    PromptLink      = FALSE
    LinkLoses       = FALSE
    LinkMayGo       = FALSE
    ReportsProgress = FALSE
    Unsolicited     <- Nothing
    MaxInFlight     = 4

SPECIFICATION Spec

INVARIANTS
    NoCallForgotten
