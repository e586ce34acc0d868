SPECIFICATION LocalSpec
CONSTANTS
    b1 = b1
    b2 = b2
    p1 = p1
    p2 = p2
    k1 = k1
    v1 = v1
    v2 = v2
    Billets <- MCBillets
    Policies <- MCPolicies
    BilletOf <- MCBilletOf
    KeyIds <- MCKeyIds
    Values <- MCValues
    None = None
    Torn = Torn
    MaxWrites = 5
    MaxCrashes = 2
SYMMETRY Symmetric
INVARIANTS
    AlwaysLoadable
    AcknowledgedRowsSurvive
    MemoryIsAcknowledged
