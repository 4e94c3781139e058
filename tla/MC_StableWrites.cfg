SPECIFICATION Spec
CONSTANTS
    Block = {b1, b2}
    Task = {t1, t2}
    NoBlock = NoBlock
    MaxVersion = 3
INVARIANTS
    AnsweredWritesKept
    FileSyncSurvives
PROPERTY ImplementsStore
CHECK_DEADLOCK FALSE
