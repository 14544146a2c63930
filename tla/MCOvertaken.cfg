SPECIFICATION PipelineSpec
CONSTANTS
    driver = driver
    t1 = t1
    t2 = t2
    m1 = m1
    m2 = m2
    paid = paid
    pending = pending
    null = null
    absent = absent
    Driver = driver
    Callers = {driver}
    Partitions = {1}
    Txns = {t1}
    Merchants = {m1, m2}
    Statuses = {paid, pending}
    Null = null
    Absent = absent
    LoadedTables <- MCLoadedTables
    PartitionOf <- MCPartitionOf
    Events <- MCEvents
    MerchantSets <- MCMerchantSets
    StartingOffsets = "earliest"
    BatchSize = 2
    MaxChanges = 4
    MaxRestarts = 1
    MaxRecords = 10
    MaxExpired = 0
    MaxCrashes = 0
INVARIANT PostgresAndDeltaAgree
CONSTRAINT FewFaults
CHECK_DEADLOCK FALSE
