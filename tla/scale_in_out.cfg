CONSTANTS
    e1 = e1
    e2 = e2
    NGroups = 3
    Executions = {e1}
    StaleAtStart = {1, 2, 3}
    Versionless = {}
    Rounds = 20
    MaxRetries = 1
    MaxFailures = 1
    Ageing = FALSE
SPECIFICATION FairSpec
CHECK_DEADLOCK FALSE
INVARIANTS TypeOK OneGroupAtATime InOrderInv CompletedMeansServing
PROPERTIES RollingSpec
