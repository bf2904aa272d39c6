\* Two tasks, two names, pages of one object, one write of another client, every fault.
SPECIFICATION Spec
CONSTANTS
    a = a
    b = b
    t1 = t1
    t2 = t2
    Task = {t1, t2}
    Name = {a, b}
    Id = {1, 2, 3}
    None = None
    Auditor = a
    Plays <- Pairs
    Links <- SomeLinks
    Strangers <- SomeStrangers
    Twin <- TwinOfB
    Lookups <- AandB
    Faults = {"refused", "lost", "cyclic"}
    PageSize = 1
    MaxObjects = 2
    MaxForeign = 1
INVARIANTS
    TypeOK
    LinkedAsAsked
    ChangeTold
    SameWishConverges
PROPERTIES
    SyncsRespectCheckMode
    TasksEnd
