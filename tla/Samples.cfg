SPECIFICATION SamplesSpec
CONSTANTS
    PauseTime = 2
    StartTime = 2
    FinishTime = 5
    Chunks = 3
    Tracked = {"brightness", "colorTemperature"}
    Brightness = "brightness"
    Derived = {"colorTemperature"}
    Plain = {}
    Subscribed = {"colorTemperature"}
    MaxValue = 1
INVARIANTS
    SleepingFlashIsFlagged
    FlashAwakeWhenUsed
    TimeoutsAreDue
    BulbTypeOK
    BulbSettled
    SubscribersUpToDate
    WrittenValueStays
PROPERTIES
    UpdateModeEnds
