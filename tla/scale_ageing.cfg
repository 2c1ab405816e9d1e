CONSTANTS
    e1 = e1
    e2 = e2
    NGroups = 2
    Executions = {e1}
    StaleAtStart = {1}
    Versionless = {2}
    Rounds = 20
    MaxRetries = 1
    MaxFailures = 1
    Ageing = TRUE
SPECIFICATION FairSpec
CHECK_DEADLOCK FALSE
PROPERTIES FreshInstancesStay Ends
INVARIANTS CompletedLeavesNoneOutdated
