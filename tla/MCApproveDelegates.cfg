SPECIFICATION FairSpec
CONSTANTS
    chainA = chainA
    chainB = chainB
    chainC = chainC
    a = a
    b = b
    absent = absent
    wrong = wrong
    undeclared = undeclared
    x = x
    y = y
    bad = bad
    nobody = nobody
    stranger = stranger
    Chains = {chainA, chainB, chainC}
    Live = {chainA, chainB}
    Declared <- MCDeclared
    Catalogue <- MCCatalogue
    Rpc <- MCRpc
    Authority = authority
    Delegate = delegate
    Scopes = {x, y}
    Unscoped = unscoped
    Goal <- MCGoal
    Others <- MCOthers
    MaxOthers = 4
INVARIANTS
    LandedRunsReachTarget
PROPERTIES
    RunsConverge
