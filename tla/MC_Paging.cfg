SPECIFICATION FairPagingSpec
CONSTANTS
    Name <- MCName
    EntrySize <- MCEntrySize
    Overhead = 16
    Room = 2
    MaxCount <- MCMaxCount
    Kinds = {"v4", "root", "v3"}
    MaxChanges = 3
INVARIANTS
    PagingTypeOK
    GrowingSkipsNothing
    ShrinkingRepeatsNothing
PROPERTY ListingEnds
CHECK_DEADLOCK FALSE
