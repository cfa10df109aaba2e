SPECIFICATION MCSpec
CONSTANTS
    caller = caller
    stranger = stranger
    Callers = {caller, stranger}
    Permitted = {caller}
    Submissions <- MCSubmissions
    Libraries = {"math"}
    SlotCount = 2
    MaxFiles = 2
    MaxCalls = 3
    MaxRestarts = 1
INVARIANTS
    SlotsAreHeld
    
    GradeIsTrue
PROPERTIES
    EvaluationsEnd
