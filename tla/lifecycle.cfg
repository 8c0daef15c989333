CONSTANTS
    t1 = t1  t2 = t2
    Tasks = {t1, t2}
    PoolSize = 1
    MaxFaults = 1
    MaxAdmin = 1
    MaxRestarts = 1
SPECIFICATION FairSpec
INVARIANTS TypeOK ResultBehindCompleted AgreeAtRest StaysDeleted
PROPERTIES NoLateRevival EventuallySettled
