SPECIFICATION ExchangeSpec
CONSTANTS
    h1 = h1
    h2 = h2
    h3 = h3
    k1 = k1
    None = None
    Never = Never
    Google = "google"
    Handlers <- MCHandlers
    Sources <- MCSources
    SigningKeys <- MCKeys
    TokenTypes <- MCTokenTypes
    TrustBundle <- MCBundle
    Subjects <- MCSubjects
    ClaimMappings <- MCMappings
    CedarAnswers <- MCCedar
    Requests <- MCRequests
    requests_per_minute = 2
    window_duration = 2
    MaxDelay = 1
    refresh_interval = 2
    max_staleness = 0
    MaxRotations = 1
    MaxTime = 4
SYMMETRY Symmetry
CONSTRAINT Bounded
INVARIANTS
    RateLimitHolds
    RecordsMatchTokens
PROPERTIES
    WithdrawnKeysExpire
    DenialsJustified
