CONSTANTS
    e1 = e1
    e2 = e2
    s1 = s1
    s2 = s2
    s3 = s3
    None = None
    Servers = {s1, s2, s3}
    Executions = {e1, e2}
    MaxDisturbed = 1
SPECIFICATION Spec
SYMMETRY Interchangeable
CHECK_DEADLOCK FALSE
INVARIANTS TypeOK OneServerAtATime CompletedLeavesNoneOld
PROPERTIES CompletedMeansWhole LeavesBeforeItDies LeaderLast
