SPECIFICATION AdminSpec
CONSTANTS
    team = team
    s1 = s1
    r0 = r0
    r1 = r1
    a1 = a1
    a2 = a2
    i1 = i1
    i2 = i2
    Billets <- MCBillets
    Tags <- MCTags
    Subjects <- MCSubjects
    Policies <- MCPolicies
    AnyBillet = AnyBillet
    NoTag = NoTag
    Guardrails = Guardrails
    AdminBillet = AdminBillet
    SystemBillets <- MCSystemBillets
    SystemTag = SystemTag
    Roles <- MCRoles
    NoRoles = r0
    Absent = Absent
    Requests <- MCRequests
    Admins <- MCAdmins
    Instances <- MCInstances
    MaxWrites = 2
SYMMETRY Symmetric
INVARIANTS
    AdminTypes
    GuardrailsOnlyForbid
    SystemBilletsExist
PROPERTY
    DelegationIsolated
