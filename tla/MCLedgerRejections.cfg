\* Violated: a rejection during an operator pause is forgotten on Resume.
SPECIFICATION RSpec
CONSTANTS
    N = 2
    Amounts = {2}
    Bills = {1}
    Times = {0}
    Cap <- MCCap
    TotalCap = 5
    DayCap = 3
    Day = 2
    MaxReservation = 2
    Calibration = 1
INVARIANT RejectionPauses
CHECK_DEADLOCK FALSE
