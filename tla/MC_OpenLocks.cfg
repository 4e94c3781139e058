SPECIFICATION OpenLocksSpec
CONSTANTS
    File = {f1}
    LockClient = {c1, c2}
    OwnerBytes = {NoBytes, b1}
    NoBytes = NoBytes
    Seqid = {0, 1}
    NoSeqid = NoSeqid
    Top = 2
    Word = 4
    MaxOpen = 2
    MaxLock = 2
SYMMETRY Symmetry
INVARIANTS
    ListsExclusive
    NewLocksExclusive
PROPERTY OnlyHolderReleases
CHECK_DEADLOCK FALSE
