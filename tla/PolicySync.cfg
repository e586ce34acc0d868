SPECIFICATION FairSpec
CONSTANTS
    b1 = b1
    b2 = b2
    t1 = t1
    s1 = s1
    Billets <- MCBillets
    Tags <- MCTags
    Subjects <- MCSubjects
    Policies <- MCPolicies
    AnyBillet = AnyBillet
    NoTag = NoTag
    None = None
    MaxWrites = 3
INVARIANTS
    TypeOK
PROPERTIES
    HandleFailStatic
    BilletsFailStatic
    EventuallyConverged
