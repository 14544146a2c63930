SPECIFICATION GateSpec
CONSTANTS
    m1 = m1
    m2 = m2
    s0 = s0
    s1 = s1
    null = null
    Merchants = {m1, m2}
    MerchantSets <- MCMerchantSets
    Null = null
    SchemaIds = {s1}
    UnknownId = s0
    Refresh = 2
    MaxTime = 3
INVARIANT GateTypeOK
INVARIANT GateIsAdmissible
INVARIANT RecentSet
INVARIANT DecodedWhole
