CONSTANTS
    t1 = t1  t2 = t2  t3 = t3  u1 = u1  u2 = u2  c1 = c1  c2 = c2
    w1 = w1  w2 = w2  k1 = k1  Nobody = Nobody
    Tasks = {t1}
    Owner <- OneTaskOwner
    Clients = {c1}
    Wanted <- OneTaskWanted
    Batches = {}
    Workers = {w1, w2}
    Sweepers = {w1, w2}
    Cancellers = {}
    UserLimit = 1
    GlobalLimit = 1
    TaskFields <- RepairedFields
    MaxFaults = 1
    MaxReady = 3
SPECIFICATION FairSpec
CHECK_DEADLOCK FALSE
PROPERTIES CrashedTaskRecovered
