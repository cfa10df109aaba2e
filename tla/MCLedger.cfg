SPECIFICATION Spec
CONSTANTS
    N = 3
    Amounts = {2, 3}
    Bills = {0, 1, 3}
    Times = {0, 1, 2}
    Cap <- MCCap
    TotalCap = 5
    DayCap = 3
    Day = 2
    MaxReservation = 2
    Calibration = 1
INVARIANTS
    CommittedWithinCaps
    RollingDayWithinCap
PROPERTIES
    NoSpendAfterOverrun
    AccountedForever
    ImplementsSpendAuthority
