SPECIFICATION LiveSpec
CONSTANTS
    MaxSlot = 4
    MaxDbSlot = 3
    EventId <- MCEventId
    SlotOf <- MCSlotOf
    StatusOf <- MCStatusOf
    Rooted <- MCRooted
    Event <- MCEvent
    BatchSize = 1
    ChannelCapacity = 1
    UseSlotResume = FALSE
    AdvanceFinalized = TRUE
    RecordSlots = TRUE
    MaxEvents = 5
    MaxRestarts = 0
    InitialDelay = 1
    DefaultDelay = 1
    MaxDelay = 1
    MaxRetries = 1
    Unlimited = Unlimited
    HasGrace = FALSE
    MaxU32 = 3
    Log <- MCLog
    Builds = {"debug"}
INVARIANT
    AttemptWithoutSlotRuns
CHECK_DEADLOCK FALSE
