SPECIFICATION Spec
CONSTANTS
    a = a
    b = b
    n = n
    Name = {a, b, n}
    Path <- SideBySide
    Export <- Tops
    ReadOnly <- TopB
    NoRoot = NoRoot
    Stale = Stale
    MaxJoined = 1
INVARIANTS
    AnswersTrue
PROPERTIES
    OnlyRenameReachesReadOnly
    StaleChangesNothing
