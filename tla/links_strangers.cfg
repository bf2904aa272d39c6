\* One task takes away a role by its name, which may be unknown: somebody loses another.
SPECIFICATION Spec
CONSTANTS
    a = a
    b = b
    t1 = t1
    t2 = t2
    Task = {t1}
    Name = {a, b}
    Id = {1, 2}
    None = None
    Auditor = a
    Plays <- Revokes
    Links <- SomeLinks
    Strangers <- SomeStrangers
    Twin <- TwinOfB
    Lookups <- AandB
    Faults = {"refused"}
    PageSize = 1
    MaxObjects = 2
    MaxForeign = 0
PROPERTY OthersKept
