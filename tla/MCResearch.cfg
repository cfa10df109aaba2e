SPECIFICATION MCSpec
CONSTANTS
    MaxSteps = 2
    Visible = 1
    EpisodeCap = 2
    Allowance = 5
    Reserved <- MCReserved
    Usages = {1, 2}
    Candidates <- MCCandidates
    Training <- MCTraining
    HeldOut <- MCHeldOut
    Policies <- MCPolicies
    MinSamples = 2
    OtherSeeds = {"s29"}
    Elsewhere <- MCElsewhere
    N = 3
    Amounts = {1, 2}
    Bills = {0, 1, 3}
    Times = {0}
    Cap <- MCCap
    TotalCap = 7
    DayCap = 6
    Day = 1
    MaxReservation = 2
    Calibration = 0
    StudyMicro = 3
INVARIANTS
    RowsFormATree
    CostsAreTheLedgers
    AggregateIsTrue
    StudyWithinCap
PROPERTIES
    NothingAfterExhaustion
CHECK_DEADLOCK FALSE
