\* No faults, one write of another client.
SPECIFICATION Spec
CONSTANTS
    t1 = t1  t2 = t2
    a = a  b = b  v = v
    Blank = Blank  None = None  Gone = Gone
    Task <- TwoTasks
    Field <- TwoFields
    Value <- BlankOr
    Default <- NoDefault
    Request <- PresentRequests
    Duplicates = TRUE
    Faults <- NoFaults
    MaxId = 4
    MaxForeign = 1
PROPERTIES
    UpdatesOnlyMentioned
SYMMETRY TaskSymmetry
CHECK_DEADLOCK FALSE
