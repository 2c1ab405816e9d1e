CONSTANTS
    a = a
    b = b
    c = c
    d = d
    old = old
    new = new
    e1 = e1
    e2 = e2
    None = None
    Members = {a, b, c}
    Images = {old, new}
    Executions = {e1}
    MaxRetries = 0
    Template <- AllNew
    Named <- WholeSet
    DirectConnection = FALSE
    Arbiters = {}
    FaultKinds = {"election"}
    MaxFaults = 1
    Generations = 2
    HealthPolls = 2
    TerminatePolls = 2
    MaxCount = 6
SPECIFICATION FairSpec
CHECK_DEADLOCK FALSE
INVARIANTS TypeOK OneAtATime OneAtATimeInv DoneMeansRestored CountIsTrue
PROPERTIES TerminationIsPrepared RollingSpec Ends
