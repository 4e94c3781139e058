SPECIFICATION StartupSpec
CONSTANTS
    Program <- Programs
    Version <- Versions
    Protocol <- Protocols
    NoReply = NoReply
INVARIANTS
    ProcessTypeOK
    StoppedIsQuiet
    OnlyRegisteredFound
PROPERTY StopEndsIt
