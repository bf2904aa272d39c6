\* Requests may be refused; nobody else writes.
SPECIFICATION Spec
CONSTANTS
    t1 = t1  t2 = t2
    a = a  b = b  v = v
    Blank = Blank  None = None  Gone = Gone
    Task <- TwoTasks
    Field <- TwoFields
    Value <- BlankOr
    Default <- NoDefault
    Request <- AbsenceRequests
    Duplicates = TRUE
    Faults <- OneRefused
    MaxId = 3
    MaxForeign = 0
INVARIANTS
    AbsenceIsObserved
SYMMETRY TaskSymmetry
CHECK_DEADLOCK FALSE
