SPECIFICATION UncheckedReplaySpec
CONSTANTS
    driver = driver
    harness = harness
    t1 = t1
    m1 = m1
    m2 = m2
    paid = paid
    null = null
    Driver = driver
    Harness = harness
    Callers = {driver, harness}
    Partitions = {1}
    Txns = {t1}
    Merchants = {m1, m2}
    Statuses = {paid}
    Null = null
    Events <- MCEvents
    MerchantSets <- MCMerchantSets
    StartingOffsets = "earliest"
    ReplayId = 99
    KnownBatchId = 1
    MaxRecords = 2
    MaxExpired = 0
    MaxCrashes = 1
INVARIANT HarnessCannotPoison
CHECK_DEADLOCK FALSE
