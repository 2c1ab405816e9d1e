CONSTANTS
    e1 = e1
    e2 = e2
    None = None
    Executions = {e1}
    Strategies = {"out-in"}
    MaxEvents = 1
    Size = 2
    Looks = 1
    MaxRecords = 4
    MaxDisturbed = 1
SPECIFICATION Spec
SYMMETRY Interchangeable
CHECK_DEADLOCK FALSE
INVARIANTS ReportedMeansRecycled
