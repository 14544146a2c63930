SPECIFICATION CheckSpec
INVARIANT NoFalseParityAlarm
INVARIANT QuarantineHidesNothing
INVARIANT SnapshotAlarmExplained
CONSTANTS
    TolerateInflight = 0
    ExpectedQuarantine = 2
    driver = driver
    t1 = t1
    t2 = t2
    m1 = m1
    m2 = m2
    paid = paid
    pending = pending
    null = null
    absent = absent
    Driver = driver
    Callers = {driver}
    Partitions = {1}
    Txns = {t1, t2}
    Merchants = {m1, m2}
    Statuses = {paid, pending}
    Null = null
    Absent = absent
    LoadedTables <- MCTwoTables
    PartitionOf <- MCPartitionOf
    Events <- MCEvents
    MerchantSets <- MCChangingMerchantSets
    StartingOffsets = "earliest"
    BatchSize = 1
    MaxChanges = 2
    MaxRestarts = 1
    MaxRecords = 6
    MaxExpired = 1
    MaxCrashes = 1
CONSTRAINT WorthFollowing
CONSTRAINT OneFault
CHECK_DEADLOCK FALSE
