SPECIFICATION TSpec
CONSTANTS
    N = 0
    Amounts = {1}
    Bills = {1}
    Times = {0, 1, 2, 3, 4, 5}
    Cap <- MCCap
    TotalCap = 5
    DayCap = 5
    Day = 2
    MaxReservation = 2
    Calibration = 0
    c1 = c1
    c2 = c2
    c3 = c3
    Client = {c1, c2, c3}
    NSessions = 3
    NJobs = 3
    Lag = 1
    Month = 4
    DayMicro = 2
    MonthMicro = 2
    RequestMicro = 1
    SessionTTL = 2
    QueueTTL = 1
    Retention = 3
    Window = 1
    PerClient = 1
    PerWindow = 1
    Others = {}
SYMMETRY Symmetry
INVARIANT TrialLimits
CHECK_DEADLOCK FALSE
