SPECIFICATION RecoverySpec
CONSTANTS
    driver = driver
    t1 = t1
    t2 = t2
    m1 = m1
    m2 = m2
    paid = paid
    null = null
    Driver = driver
    Callers = {driver}
    Partitions = {1}
    Txns = {t1, t2}
    Merchants = {m1, m2}
    Statuses = {paid}
    Null = null
    NoRow = NoRow
    Events <- MCLiveEvents
    MerchantSets <- MCLiveMerchantSets
    StartingOffsets = "earliest"
    MaxRecords = 2
    MaxExpired = 0
    MaxCrashes = 1
    MaxDeletions = 1
INVARIANT FreshStartLosesNothing
CHECK_DEADLOCK FALSE
