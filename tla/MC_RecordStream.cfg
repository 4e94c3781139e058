SPECIFICATION FairSpec
CONSTANTS
    MaxRecords = 3
    Lengths = {2, 3, 4, 7}
    Programs = {"v4", "acl", "other"}
    Stream <- MCStream
    Body <- MCBody
    HeaderSize = 2
    MinRecord = 3
    MaxRecord = 4
    Chunk = 6
    MaxBuffer = 12
INVARIANTS
    CapNeverDrops
    RecordsInOrder
PROPERTY RecordsHandled
CHECK_DEADLOCK FALSE
