SPECIFICATION LocksSpec
CONSTANTS
    Path = {p1, p2}
    Task = {t1, t2}
    NoPath = NoPath
    NoTask = NoTask
    MaxFhid = 2
    MaxEpoch = 1
INVARIANTS
    CounterAhead
    SoundUnlessContended
    OldHandlesStale
PROPERTIES
    ImplementsTable
    CallsReturnUnlessInverted
CHECK_DEADLOCK FALSE
