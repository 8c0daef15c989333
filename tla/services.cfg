CONSTANTS
    a = a  b = b  r1 = r1  r2 = r2
    Requests = {r1, r2}
    InitialCash = 6
    Prices = {2}
    Quantities = {1}
    Fee = 1
    MaxOrders = 3
    MaxMishaps = 1
    Callers = {a, b}
    MaxCalls = 3
    MaxTroubles = 1
    Batches = 2
    MaxSyncs = 3
    MaxSyncTroubles = 1
    Sources = 2
    TTL = 3
    Recent = 2
    MaxAsked = 3
    MaxTime = 5
    MaxOutages = 1
    Jobs = {a, b, r1}
    CallLimit = 2
    TimeWindow = 2
    MaxGrants = 5
    MaxTicks = 6
    HourlyLimit = 1
    Hour = 3
    MaxIntervals = 6
    MaxUpsets = 1
SPECIFICATION Spec
CHECK_DEADLOCK FALSE
INVARIANTS TypesOK OrdersAccountedFor OnlySettledSharesSold CashNeverNegative
    NeverWithoutConfig ChangesKept FlagTellsTruth StatusSettles AnswersFresh
    LimitsKept
PROPERTIES CallsSpaced
