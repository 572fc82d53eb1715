SPECIFICATION FairSpec
CONSTANTS
    a = a
    b = b
    c = c
    Clients = {a, b}
    Limited = {a}
    MaxTimers = 2
    BlackListSize = 1
    MaxTime = 2
INVARIANTS
    TypeOK
    SlotsAccounted
    WakeupArranged
    CallbackFindsItsTimer
PROPERTIES
    EveryTimerIsServed
    DeregisterRemovesOwn
