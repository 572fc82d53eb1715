SPECIFICATION LockSpec
CONSTANTS
    i1 = i1
    i2 = i2
    i3 = i3
    c1 = c1
    c2 = c2
    r1 = r1
    IssuerKeys = {i1, i2, i3}
    CredentialKeys = {c1}
    ReaderKeys = {r1}
    NoKey = NoKey
    MaximumIssuerKeys = 2
    MaximumActive = 1
    MaximumSuspended = 1
    ConfigurationModulus = 2
    CounterLimit = 2
    Controllers = {i1, i2}
    NoView = NoView
INVARIANTS
    OneEntryPerKey
    RestartKeepsLists
    HomeUserKeysArePaired
    UnpairedLockIsEmpty
    ConfigurationStateTracksLists
PROPERTIES
    ExportRestoresPairings
