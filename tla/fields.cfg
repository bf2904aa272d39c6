\* Every resource, every pair of kinds of its fields, every object and task.
SPECIFICATION Spec
CONSTANTS
    None = None  Unset = Unset  Ghost = Ghost  Gone = Gone
    Digits <- Numerals
    Resource <- Instances
INVARIANTS
    TypeOK
    AsAsked
    RerunIsQuiet
CHECK_DEADLOCK FALSE
