CONSTANTS
    a = a
    b = b
    c = c
    d = d
    old = old
    new = new
    e1 = e1
    e2 = e2
    None = None
    Members = {a, b, c, d}
    Images = {old, new}
    Executions = {e1}
    MaxRetries = 1
    Template <- AllNew
    Named <- WholeSet
    DirectConnection = FALSE
    Arbiters = {d}
    FaultKinds = {"election", "resync"}
    MaxFaults = 1
    Generations = 2
    HealthPolls = 2
    TerminatePolls = 2
    MaxCount = 6
SPECIFICATION Spec
SYMMETRY Interchangeable
CHECK_DEADLOCK FALSE
INVARIANTS DoneLeavesNoneStale 
PROPERTIES OnlyStaleTerminated TerminationIsPrepared
