SPECIFICATION Spec
CONSTANTS
    a = a
    d = d
    x = x
    v = v
    t1 = t1
    t2 = t2
    n = n
    m1 = m1
    m2 = m2
    ZeroAddress = ZeroAddress
    EmptyValue = EmptyValue
    EmptyType = EmptyType
    ZeroBytes32 = ZeroBytes32
    Genesis = Genesis
    NoMeta = NoMeta
    NotSet = NotSet
    Accounts = {a, d}
    Names = {x}
    Values = {v}
    Types = {t1, t2}
    LossyTypes = {t2}
    ConfigCalls <- MCConfigCalls
    ConfigDelegations <- MCDelegations
    Namespaces = {n}
    Migrations = {m1, m2}
    MigrationCalls <- MCMigrationCalls
    MigrationDelegations <- MCDelegations
    Claims <- MCClaims
    MaxTime = 2
    MaxBlocks = 4
    MaxEvents = 3
INVARIANTS
    RowsSayWhatHappened
    IndexMirrorsRegistries
    MetasNameTheirWrite
CHECK_DEADLOCK FALSE
