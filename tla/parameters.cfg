CONSTANTS
    NoValue = NoValue
    NoCache = NoCache
    FirstValue = 0
    Values <- OldOrNew
    Components <- Two
    DefaultComponent = 1
    Count <- TwoAndOne
    Volatile <- SecondIndex
    FailParam <- FirstOfTheAutopilot
    MaxInitialRequestListRetry = 1
    MaxInitialLoadRetrySingleParam = 1
    MaxReadWriteRetry = 1
    MaxBatchSize = 0
    Setups <- Vehicles
    EarlierFiles <- StaleOrUseless
    MaxEvents = 3
SPECIFICATION FairSpec
INVARIANTS
    FactsAgree
    NeverAbandoned
PROPERTIES
    ReadyMeansComplete
    LoadEnds
    OutcomesAsTested
CHECK_DEADLOCK FALSE
