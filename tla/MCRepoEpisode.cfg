SPECIFICATION ESpec
CONSTANTS
    Policies = {"strong_only", "cheap_only", "escalate_on_failure", "static_router", "learned"}
    Rules = {TRUE, FALSE}
    MaxSteps = 5
    MaxDecisions = 7
    MaxVerifications = 2
    RetryLimit = 2
    Waits = {0, 61}
    Total = 2
    Candidates = {0, 1}
    Price = 2
    Bills = {0, 2, 3}
    Cap = 7
    Bound = 2
    Usages = {0, 1}
    MaxTokens = 7
INVARIANTS
    ETypeOK
    NeverIllegal
    AccountedRequests
    MeasuredTogether
PROPERTIES
    RetryKeepsModel
CHECK_DEADLOCK FALSE
