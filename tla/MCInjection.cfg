SPECIFICATION InjectionSpec
INVARIANT OracleAgrees
INVARIANT NeverResurrected
INVARIANT AlarmMeansPending
CONSTANTS
    TolerateInflight = 0
    ExpectedQuarantine = 2
    driver = driver
    t1 = t1
    t2 = t2
    t3 = t3
    t4 = t4
    m1 = m1
    m2 = m2
    ghost = ghost
    paid = paid
    pending = pending
    null = null
    absent = absent
    Driver = driver
    Callers = {driver}
    Partitions = {1}
    Txns = {t1, t2, t3, t4}
    Merchants = {m1, ghost}
    Statuses = {paid}
    Null = null
    Absent = absent
    LoadedTables <- MCEmptyTable
    PartitionOf <- MCPartitionOf
    Events <- MCInjectedEvents
    MerchantSets <- MCMerchantSets
    StartingOffsets = "earliest"
    BatchSize = 2
    MaxChanges = 8
    MaxRestarts = 0
    MaxRecords = 12
    MaxExpired = 0
    MaxCrashes = 1
    Tests <- MCTests
    RowOf <- MCRowOf
    IntraId = t1
    CrossId = t2
    Merchant = m1
CHECK_DEADLOCK FALSE
