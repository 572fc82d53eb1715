SPECIFICATION Spec
CONSTANTS
    None = None
    TenLimit = 2
    HourLimit = 3
    TenMinutes = 1
    Hour = 3
    LastAttempt = 2
    MaxClock = 3
    Reported = {"Unknown"}
INVARIANTS
    LoggedTimesPassed
