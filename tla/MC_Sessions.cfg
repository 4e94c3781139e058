SPECIFICATION FairSpec
CONSTANTS
    Owner = {NoOwner, o1}
    NoOwner = NoOwner
    Verifier = {Zero}
    Zero = Zero
    Task = {t1, t2}
    None = None
    MaxClient = 2
    MaxSeq = 1
    Lease = 0
INVARIANTS
    IdsNeverShared
PROPERTIES
    OnlyCreateSessionCreates
    IdleSessionsExpire
    IdleClientsExpire
CHECK_DEADLOCK FALSE
