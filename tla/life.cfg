\* A timeout of 2 s, which is less than the poll interval, or none, a client, two signals, a pid that is reused.
SPECIFICATION Spec
CONSTANTS
    Client = {c1}
    None = None
    Modes = {"owner", "none"}
    Timeouts = {0, 2}
    ReadyWait = 2
    MaxSignals = 2
    PidReuse = TRUE
INVARIANTS
    TypeOK
    OvershootBounded
    IdleCutsOnlyLongOrLate
    OrphanBounded
PROPERTIES
    OwnerExitEnds
    IdleEnds
