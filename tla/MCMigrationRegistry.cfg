SPECIFICATION Spec
CONSTANTS
    w = w
    d = d
    n1 = n1
    n2 = n2
    m1 = m1
    m2 = m2
    ZeroAddress = ZeroAddress
    ZeroBytes32 = ZeroBytes32
    Genesis = Genesis
    Accounts = {w, d}
    Namespaces = {n1, n2}
    Migrations = {m1, m2}
    Calls <- MCCalls
    Delegations <- MCDelegations
    MaxTime = 2
INVARIANTS
    StorageIsConsistent
    HeadReachesEveryRecord
    LineNeverForks
    MomentsFollowTheChain
    OrderAcrossLinesIsAcyclic
PROPERTIES
    ImplementsLog
    RecordsAreAuthorised
CHECK_DEADLOCK FALSE
