SPECIFICATION QSpec
CONSTANTS
    NRuns = 2
    s1 = s1
    a1 = a1
    a2 = a2
    Session = {s1}
    Address = {a1, a2}
    Times = {0, 1, 2}
    Day = 1
    Keep = 1
    Lag = 1
    PerSession = 1
    PerAddress = 1
    MaxActive = 1
    MaxEvents = 1
    MaxTroubles = 0
INVARIANT RunningIsExecuted
CHECK_DEADLOCK FALSE
