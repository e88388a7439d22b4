SPECIFICATION LiveSpec
CONSTANTS
    MaxSlot = 4
    MaxDbSlot = 3
    EventId <- MCEventId
    SlotOf <- MCSlotOf
    StatusOf <- MCStatusOf
    Rooted <- MCRooted
    Event <- MCEvent
    BatchSize = 2
    ChannelCapacity = 1
    UseSlotResume = FALSE
    AdvanceFinalized = TRUE
    RecordSlots = TRUE
    MaxEvents = 7
    MaxRestarts = 1
    InitialDelay = 1
    DefaultDelay = 1
    MaxDelay = 1
    MaxRetries = 0
    Unlimited = Unlimited
    HasGrace = TRUE
    MaxU32 = 3
    Log <- MCLog
    Builds = {"debug", "release"}
INVARIANTS
    LiveTypeOK
    SharedMatchesStore
    FrontierCoversLog
CHECK_DEADLOCK FALSE
