SPECIFICATION ConsumerFairSpec
CONSTANTS
    MaxSlot = 4
    MaxDbSlot = 3
    EventId <- MCEventId
    SlotOf <- MCSlotOf
    StatusOf <- MCStatusOf
    Rooted = {}
    Event <- MCEvent
    BatchSize = 2
    ChannelCapacity = 1
    UseSlotResume = TRUE
    AdvanceFinalized = FALSE
    RecordSlots = FALSE
    MaxEvents = 4
    MaxRestarts = 2
    Files <- MCOnePerSlot
    TypeOf <- MCTypeOf
    SignatureOf <- MCSignatureOf
    RankOf <- MCRankOf
    PayloadOf <- MCPayloadOf
    ProgramOf <- MCProgramOf
    MaxAmount = 3
    MaxSlotColumn = 3
    MaxLimit = 2
    MaxSwaps = 2
INVARIANTS
    ReplayTypeOK
    ReplayComplete
    CursorCoversFile
    PolledBatchVisible
    SwapsAddUp
PROPERTIES
    ReplayResolves
    BackpressureLifts
    LagBeforeEvents
CHECK_DEADLOCK FALSE
