SPECIFICATION ReplaySpec
CONSTANTS
    MaxSlot = 4
    MaxDbSlot = 3
    EventId <- MCEventId
    SlotOf <- MCSlotOf
    StatusOf <- MCStatusOf
    Rooted = {}
    Event <- MCEvent
    BatchSize = 2
    ChannelCapacity = 1
    UseSlotResume = TRUE
    AdvanceFinalized = FALSE
    RecordSlots = FALSE
    MaxEvents = 4
    MaxRestarts = 2
    Files <- MCManyPerSlot
INVARIANT
    ReplayComplete
CHECK_DEADLOCK FALSE
