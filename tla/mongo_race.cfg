CONSTANTS
    a = a
    b = b
    c = c
    d = d
    old = old
    new = new
    e1 = e1
    e2 = e2
    None = None
    Members = {a, b, c}
    Images = {old, new}
    Executions = {e1, e2}
    MaxRetries = 0
    Template <- AllNew
    Named <- WholeSet
    DirectConnection = FALSE
    Arbiters = {}
    FaultKinds = {}
    MaxFaults = 0
    Generations = 2
    HealthPolls = 1
    TerminatePolls = 1
    MaxCount = 6
SPECIFICATION Spec
CHECK_DEADLOCK FALSE
SYMMETRY Interchangeable
INVARIANTS AllDoneMeansRestored
PROPERTIES OnlyStaleTerminated TerminationIsPrepared
