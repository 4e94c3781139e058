SPECIFICATION ReplySpec
CONSTANTS
    Encoding <- AllEncodings
    MaxOps = 3
CHECK_DEADLOCK FALSE
INVARIANTS
    ReplyTypeOK
    
    CountedButTheEnd
