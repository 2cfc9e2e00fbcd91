SPECIFICATION Spec
CONSTANTS
    wa = wa
    wb = wb
    n = n
    a1 = a1
    a2 = a2
    b1 = b1
    b2 = b2
    sib = sib
    ZeroAddress = ZeroAddress
    ZeroBytes32 = ZeroBytes32
    Genesis = Genesis
    Accounts = {wa, wb}
    Namespaces = {n}
    Migrations = {a1, a2, b1, b2, sib}
    MaxTime = 1
    Scripts <- MCScripts
    Plan <- MCPlan
    MaxCopies = 2
INVARIANTS
    EffectsAreRecorded
    EffectsFollowTheirPrerequisites
PROPERTIES
    ImplementsHistory
    EveryScriptSettles
CHECK_DEADLOCK FALSE
