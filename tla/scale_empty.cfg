CONSTANTS
    e1 = e1
    e2 = e2
    NGroups = 2
    Executions = {e1}
    StaleAtStart = {}
    Versionless = {}
    Rounds = 20
    MaxRetries = 0
    MaxFailures = 0
    Ageing = FALSE
SPECIFICATION Spec
CHECK_DEADLOCK FALSE
INVARIANTS CompletedMeansServing
