SPECIFICATION RemoteSpec
CONSTANTS
    b1 = b1
    t1 = t1
    p1 = p1
    p2 = p2
    k1 = k1
    c1 = c1
    c2 = c2
    Clients <- MCClients
    Billets <- MCBillets
    Tags <- MCTags
    Policies <- MCPolicies
    BilletOf <- MCBilletOf
    KeyIds <- MCKeyIds
    BatchSize = 1
    MaxRetries = 1
    None = None
    MaxWrites = 3
SYMMETRY Symmetric
INVARIANT
    UpdatedTagsStored
