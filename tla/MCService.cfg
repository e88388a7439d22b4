SPECIFICATION LifeFairSpec
CONSTANTS
    Number <- MCNumber
    MaxUsize = 1000000
    MaxU32 = 800000
    MaxPermits = 125000
    MaxElements = 125000
    Starts <- MCStarts
    ReplayFiles <- MCReplayFiles
    Cursors <- MCCursors
    MaxEvents = 3
    MaxOpen = 2
INVARIANTS
    LifeTypeOK
    AcceptedConfigConsistent
    ExitCodeTells
    OneStatementAfterShutdown
PROPERTY
    ProcessEnds
CHECK_DEADLOCK FALSE
