SPECIFICATION Spec
CONSTANTS
    MaxSlot = 4
    MaxDbSlot = 3
    EventId <- MCEventId
    SlotOf <- MCSlotOf
    StatusOf <- MCStatusOf
    Rooted <- MCRooted
    Event <- MCEvent
    BatchSize = 2
    ChannelCapacity = 1
    UseSlotResume = FALSE
    AdvanceFinalized = TRUE
    RecordSlots = TRUE
    MaxEvents = 3
    MaxRestarts = 1
INVARIANTS
    TypeOK
    AcceptedEventsKept
    CursorAfterPersistence
    FinalityAfterPersistence
    WatermarkGapFree
    WatermarkExhaustsChain
    ProgressMatchesStore
    EventsAccounted
    TwinAgrees
PROPERTIES
    DurableColumnsMonotone
    ImplementsSink
CHECK_DEADLOCK FALSE
