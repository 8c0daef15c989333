CONSTANTS
    Selected <- NewsAlone
    MaxDebateRounds = 1
    MaxRiskRounds = 1
    RecursionLimits = {100}
    ProgressCallback = TRUE
    Debug = FALSE
SPECIFICATION Spec
CHECK_DEADLOCK FALSE
INVARIANTS JudgeReadsTraderPlan
