SPECIFICATION UpdatesFairSpec
CONSTANTS
    InitialDelay = 0
    DefaultDelay = 1
    MaxDelay = 5
    MaxRetries = 2
    Unlimited = Unlimited
    HasGrace = TRUE
    MaxU32 = 4
    KeyTexts <- MCKeyTexts
    Updates <- MCUpdateLog
    Cluster <- MCCluster
    MaxU16 = 1
    ChannelCapacity = 1
    BatchSize = 2
    MaxDecodeErrors = 1
INVARIANTS
    LoopTypeOK
    BackoffEnvelope
    UpdatesTypeOK
    KeysInjective
    WholeTransactions
    StoredInOrder
PROPERTIES
    RetriesEnd
    OpenStreamDrains
CHECK_DEADLOCK FALSE
