\* One worker at a time, no faults, files of an earlier run possibly left behind.
SPECIFICATION FairSpec
CONSTANTS
    w1 = w1  w2 = w2  w3 = w3
    m0 = m0  m1 = m1  m2 = m2  m3 = m3
    None = None
    Torn = Torn
    Worker <- ThreeWorkers
    Manager <- ThreeManagers
    Old = m0
    Serial = TRUE
    Leftover <- UsualLeftover
    Faults <- NoFaults
INVARIANTS
    TypeOK
    OneLiveManager
    NoTaskFails
PROPERTIES
    ImplementsService
CHECK_DEADLOCK FALSE
