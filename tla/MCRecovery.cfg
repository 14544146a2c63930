SPECIFICATION RecoverySpec
CONSTANTS
    driver = driver
    t1 = t1
    t2 = t2
    m1 = m1
    m2 = m2
    paid = paid
    null = null
    NoRow = NoRow
    Driver = driver
    Callers = {driver}
    Partitions = {1, 2}
    Txns = {t1, t2}
    Merchants = {m1, m2}
    Statuses = {paid}
    Null = null
    Events <- MCRivalEvents
    MerchantSets <- MCRivalMerchantSets
    StartingOffsets = "earliest"
    MaxRecords = 2
    MaxExpired = 0
    MaxCrashes = 1
    MaxDeletions = 1
INVARIANTS OneRowPerTransaction OnlyInheritedIdsSkipped
PROPERTY ImplementsView
CHECK_DEADLOCK FALSE
