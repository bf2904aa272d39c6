\* Two calls at once, every fault, a gateway that changes its mind once.
SPECIFICATION Spec
CONSTANTS
    Call = {c1, c2}
    None = None
    Supported <- V1and2
    Latest <- V2
    Answer <- SomeAnswers
    Faults = {"lost", "transient", "client"}
    MaxAttempts = 3
    MaxFlips = 1
INVARIANTS
    TypeOK
    RequestsBounded
    WritesRunOnce
    RetriedBeforeGivingUp
    UntroubledCallsSucceed
    
PROPERTIES
    CallsEnd
