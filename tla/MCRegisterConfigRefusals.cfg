SPECIFICATION Spec
CONSTANTS
    chainA = chainA
    chainB = chainB
    chainC = chainC
    a = a
    b = b
    absent = absent
    wrong = wrong
    undeclared = undeclared
    v = v
    w = w
    t = t
    u = u
    Chains = {chainA, chainB, chainC}
    Live = {chainA, chainB}
    Declared <- MCDeclared
    Catalogue <- MCCatalogue
    Rpc <- MCRpc
    Selections <- MCSelections
    Authority = authority
    Delegate = delegate
    Name = name
    Target <- MCTarget
    Others <- MCOthers
    Unbound = unbound
    MaxPending = 2
    MaxRebinds = 1
INVARIANT
    RefusalsAgreeWithRegistry
