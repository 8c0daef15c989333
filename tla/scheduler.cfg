CONSTANTS
    Kinds = {"perBatch", "perItem", "reporting"}
    MaxItems = 2
    MaxFired = 2
    MaxIncidents = 1
SPECIFICATION SchedulerSpec
INVARIANTS SchedulerTypeOK OutcomesShown
PROPERTIES OutcomeKept RunningRecordsEnd
CHECK_DEADLOCK FALSE
