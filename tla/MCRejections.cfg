SPECIFICATION Spec
CONSTANTS
    driver = driver
    t1 = t1
    t2 = t2
    m1 = m1
    m2 = m2
    paid = paid
    null = null
    NoRow = NoRow
    Driver = driver
    Callers = {driver}
    Partitions = {1}
    Txns = {t1}
    Merchants = {m1, m2}
    Statuses = {paid}
    Null = null
    Events <- MCLiveEvents
    MerchantSets <- MCLiveMerchantSets
    StartingOffsets = "earliest"
    MaxRecords = 3
    MaxExpired = 0
    MaxCrashes = 1
INVARIANT RewritesSameRejections
CHECK_DEADLOCK FALSE
