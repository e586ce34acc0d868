SPECIFICATION Spec
CONSTANTS
    None = None
    NotANumber = NotANumber
    Unreadable = Unreadable
    U64 = 65536
    NonAscii = {"accent"}
    Leeway = 1
    GcpFeature = FALSE
    MaxPolls = 2
    MaxFaults = 1
    MaxClock = 2
    MaxRequests = 2
    Environments <- MCEnvironments
    Requests <- MCRequests
    ClientCerts <- MCClientCerts
    Grants <- MCGrants
INVARIANTS
    AcceptedConfigStarts
    AdmittedAsConfigured
    AnswersFromOwnPrincipal
    CertificatesKeepIdentity
    GoodRequestsCertified
PROPERTY
    EventuallyReady
CHECK_DEADLOCK FALSE
