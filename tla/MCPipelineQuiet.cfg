SPECIFICATION FairSpec
CONSTANTS
    MaxSlot = 4
    MaxDbSlot = 3
    EventId <- MCEventId
    SlotOf <- MCSlotOf
    StatusOf <- MCStatusOf
    Rooted <- MCRooted
    Event <- MCStorableEvents
    BatchSize = 2
    ChannelCapacity = 1
    UseSlotResume = FALSE
    AdvanceFinalized = TRUE
    RecordSlots = TRUE
    MaxEvents = 4
    MaxRestarts = 0
PROPERTY
    AcceptedEventsEventuallyStored
CHECK_DEADLOCK FALSE
