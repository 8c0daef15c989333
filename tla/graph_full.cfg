CONSTANTS
    Selected <- AllAnalysts
    MaxDebateRounds = 2
    MaxRiskRounds = 2
    RecursionLimits = {15, 37}
    ProgressCallback = TRUE
    Debug = FALSE
SPECIFICATION Spec
CHECK_DEADLOCK FALSE
INVARIANTS TypeOK RoutesDeclared EqualHearing RequestsAnswered OwnEvidence
    NewsNeverLoops FundamentalsServed NeverOutOfSteps
PROPERTIES KeepsAgenda RunEnds
