SPECIFICATION TSpec
CONSTANTS
    N = 2
    Amounts = {2}
    Bills = {0, 3}
    Times = {0, 1}
    Cap <- MCCap
    TotalCap = 6
    DayCap = 4
    Day = 1
    MaxReservation = 2
    Calibration = 0
    c1 = c1
    c2 = c2
    c3 = c3
    Client = {c1, c2}
    NSessions = 2
    NJobs = 2
    Lag = 1
    Month = 2
    DayMicro = 2
    MonthMicro = 3
    RequestMicro = 2
    SessionTTL = 3
    QueueTTL = 3
    Retention = 4
    Window = 3
    PerClient = 1
    PerWindow = 2
    Others = {"public", "calibration"}
SYMMETRY Symmetry
INVARIANTS
    OneRequestPerJob
    TrialAllowance
PROPERTIES
    ImplementsLedger
CHECK_DEADLOCK FALSE
