SPECIFICATION Spec
CONSTANTS
    u1 = u1
    u2 = u2
    Uuids = {u1, u2}
    BluetoothBase = BluetoothBase
    NumUuidBases = 3
    ServiceAttrMaxDepth = 5
    MaxServicesCount = 3
    FirstHandle = 3
    MtuMin = 3
    Mtus = {3, 4}
    MaxLength = 4
SYMMETRY Symmetry
INVARIANTS
    TypeOK
    HandlesLeadBack
    TypesKept
    ReadsGiveWholeValues
    ConformingCentralServed
    IndicationFlagged
