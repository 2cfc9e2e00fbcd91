SPECIFICATION ConsumersSpec
CONSTANTS
    a = a
    d = d
    x = x
    y = y
    v1 = v1
    v2 = v2
    t1 = t1
    t2 = t2
    plain = plain
    safely = safely
    unchecked = unchecked
    ZeroAddress = ZeroAddress
    EmptyValue = EmptyValue
    EmptyType = EmptyType
    Unresolved = Unresolved
    Accounts = {a, d}
    Names = {x, y}
    Values = {v1, v2}
    Types = {t1, t2}
    Calls <- MCCalls
    Delegations <- MCDelegations
    Consumers <- MCConsumers
    Reads <- MCReads
    MaxTime = 3
    MaxRegisters = 3
INVARIANTS
    MomentIdentifiesBinding
    SnapshotsAreWhatWasBound
    SafeValuesStoodLongEnough
CHECK_DEADLOCK FALSE
