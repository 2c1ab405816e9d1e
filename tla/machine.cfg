CONSTANTS
    e1 = e1
    e2 = e2
    None = None
    Executions = {e1, e2}
    Strategies = {"out-in", "instance-refresh"}
    MaxEvents = 2
    Size = 2
    Looks = 1
    MaxRecords = 4
    MaxDisturbed = 1
SPECIFICATION Spec
SYMMETRY Interchangeable
CHECK_DEADLOCK FALSE
INVARIANTS TypeOK RecognisedWhenDone AllDoneMeansCurrent
PROPERTIES SuccessMeansCurrent CollisionsLoseNothing
