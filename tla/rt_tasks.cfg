\* Two tasks at once, every fault, one write of another client.
SPECIFICATION Spec
CONSTANTS
    t1 = t1  t2 = t2
    a = a  b = b  v = v
    Blank = Blank  None = None  Gone = Gone
    Task <- TwoTasks
    Field <- TwoFields
    Value <- BlankOr
    Default <- DefaultB
    Request <- AllRequests
    Duplicates = TRUE
    Faults <- FaultKinds
    MaxId = 4
    MaxForeign = 1
INVARIANTS
    TypeOK
    PresentMeansPresent
    UnmentionedKept
    ChangedIsTruthful
    CheckModeForetells
    RerunIsNoop
    DuplicatesNeedTrouble
PROPERTIES
    CheckModeWritesNothing
SYMMETRY TaskSymmetry
CHECK_DEADLOCK FALSE
