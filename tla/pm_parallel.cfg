\* Parallel workers, no faults, every leftover.
SPECIFICATION Spec
CONSTANTS
    w1 = w1  w2 = w2  w3 = w3
    m0 = m0  m1 = m1  m2 = m2  m3 = m3
    None = None
    Torn = Torn
    Worker <- ThreeWorkers
    Manager <- FourManagers
    Old = m0
    Serial = FALSE
    Leftover <- LeftoverKinds
    Faults <- NoFaults
INVARIANTS
    Converged
PROPERTIES
    SettledForever
SYMMETRY WorkerSymmetry
CHECK_DEADLOCK FALSE
