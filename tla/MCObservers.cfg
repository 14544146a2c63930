SPECIFICATION ObserversSpec
CONSTANTS
    NoOffsets = NoOffsets
    driver = driver
    harness = harness
    t1 = t1
    m1 = m1
    m2 = m2
    paid = paid
    null = null
    Driver = driver
    Harness = harness
    Callers = {driver, harness}
    Partitions = {1}
    Txns = {t1}
    Merchants = {m1, m2}
    Statuses = {paid}
    Null = null
    Events <- MCFewEvents
    MerchantSets <- MCOneMerchantSet
    StartingOffsets = "earliest"
    ReplayId = 99
    KnownBatchId = 1
    MaxRecords = 2
    MaxExpired = 0
    MaxCrashes = 1
INVARIANT NoSilentLoss
INVARIANT ProcessedIsSettled
INVARIANT LagCoversBacklog
PROPERTY OnlyOverwritesTakeBack
PROPERTY ReplayIsNoop
CHECK_DEADLOCK FALSE
