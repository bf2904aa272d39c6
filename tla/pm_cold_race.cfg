\* Parallel workers, no faults, no files: how many managers come to life?
SPECIFICATION Spec
CONSTANTS
    w1 = w1  w2 = w2  w3 = w3
    m0 = m0  m1 = m1  m2 = m2  m3 = m3
    None = None
    Torn = Torn
    Worker <- ThreeWorkers
    Manager <- FourManagers
    Old = m0
    Serial = FALSE
    Leftover <- CleanStart
    Faults <- NoFaults
INVARIANTS
    OneLiveManager
CHECK_DEADLOCK FALSE
