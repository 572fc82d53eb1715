SPECIFICATION Spec
CONSTANTS
    i1 = i1
    i2 = i2
    c1 = c1
    c2 = c2
    c3 = c3
    c4 = c4
    r1 = r1
    IssuerKeys = {i1, i2}
    CredentialKeys = {c1, c2, c3, c4}
    ReaderKeys = {r1}
    NoKey = NoKey
    MaximumIssuerKeys = 2
    MaximumActive = 2
    MaximumSuspended = 1
    ConfigurationModulus = 3
    CounterLimit = 4
INVARIANTS
    CountsMatchEntries
    CredentialsHaveIssuers
PROPERTIES
    EvictedWasIdleLong
    ImplementsLists
SYMMETRY DeviceSymmetry
CHECK_DEADLOCK FALSE
