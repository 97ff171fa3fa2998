\* Callers that wait for one another's results, as the initial connection
\* does, over a link that loses and delays messages.
CONSTANTS
    Calls           <- ConnectCalls
    Target          <- Connect
    NoCall          = NoCall
    RetriedCommands <- RetriedInTheCode
    MaxRetryCount   = 2
    AckTimeout      = 1
    WaitTimeout     = 1
    Overlapping     = FALSE
    PromptLink      = FALSE
    LinkLoses       = TRUE
    LinkMayGo       = FALSE
    ReportsProgress = TRUE
    Unsolicited     <- FromAnotherComponent
    MaxInFlight     = 2

SPECIFICATION FairSpec

INVARIANTS
    NoCallForgotten
    ResultsAreTrue

PROPERTIES
    EveryCallAnswered
