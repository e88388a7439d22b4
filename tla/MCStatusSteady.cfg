SPECIFICATION StatusSpec
CONSTANTS
    MaxSlot = 0
    MaxDbSlot = 0
    InitialDelay = 1
    DefaultDelay = 1
    MaxDelay = 5
    MaxRetries = 1
    Unlimited = Unlimited
    HasGrace = TRUE
    MaxU32 = 3
    MaxU64 = 2
    MaxInFlight = 1
    MaxBatches = 1
INVARIANTS
    SteadyMeansConnected
CHECK_DEADLOCK FALSE
