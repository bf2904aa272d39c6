\* Two parallel workers, every fault, the files of a dead manager.
SPECIFICATION FairSpec
CONSTANTS
    w1 = w1  w2 = w2  w3 = w3
    m0 = m0  m1 = m1  m2 = m2  m3 = m3
    None = None
    Torn = Torn
    Worker <- TwoWorkers
    Manager <- ThreeManagers
    Old = m0
    Serial = FALSE
    Leftover <- StaleStart
    Faults <- FaultKinds
INVARIANTS
    SpawnSerialized
    LockHeldInside
PROPERTIES
    EveryCallEnds
    NoManagerOutlivesPlaybook
CHECK_DEADLOCK FALSE
