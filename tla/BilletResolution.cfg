SPECIFICATION ResFairSpec
CONSTANTS
    b1 = b1
    b2 = b2
    t1 = t1
    r1 = r1
    Billets <- MCBillets
    Tags <- MCTags
    Subjects <- MCSubjects
    Audiences <- MCAudiences
    Requests <- MCRequests
    Policies <- MCPolicies
    AnyBillet = AnyBillet
    NoTag = NoTag
    None = None
    MaxWrites = 1
INVARIANTS
    UndisturbedAnswerIsExact
PROPERTIES
    NoOutageOnceLoaded
    RevocationTakesEffect
