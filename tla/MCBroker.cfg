SPECIFICATION FairBSpec
CONSTANTS
    N = 2
    Amounts = {1}
    Bills = {0, 2}
    Times = {0, 1}
    Cap <- MCCap
    TotalCap = 4
    DayCap = 4
    Day = 2
    MaxReservation = 2
    Calibration = 0
    c1 = c1
    c2 = c2
    c3 = c3
    Client = {c1, c2}
    NSessions = 2
    NJobs = 2
    Lag = 0
    Month = 4
    DayMicro = 2
    MonthMicro = 3
    RequestMicro = 1
    SessionTTL = 2
    QueueTTL = 0
    Retention = 4
    Window = 2
    PerClient = 1
    PerWindow = 2
    Others = {"operator"}
    MaxStops = 1
    MaxKills = 1
    MaxErrors = 1
    Overlap = FALSE
INVARIANTS
    RunningIsOwned
    CallsMatchJobs
PROPERTIES
    OutcomesStand
    JobsDrain
    StopsComplete
CHECK_DEADLOCK FALSE
