SPECIFICATION Spec
CONSTANTS
    None = None
    Any = "any"
    Billets <- MCBillets
    SystemBillets <- MCSystem
    Guardrails = "guardrails"
    AdminBillet = "root"
    Subjects <- MCSubjects
    Bootstrap = "bootstrap:admin"
    Implicit <- MCImplicit
    WellFormedTags = {"k:frozen"}
    InitialRows <- MCInitialRows
    Requests <- MCRequests
    CliPolicies <- MCCliPolicies
    token_ttl = 1
    cache_ttl = 1
    sync_interval = 1
    CliTtl = 2
    Leeway = 1
    MaxClock = 5
    MaxChanges = 2
    MaxTokens = 1
INVARIANTS
    DelegationContained
    TrailTellsTables
PROPERTY
    AccessFollowsPolicies
