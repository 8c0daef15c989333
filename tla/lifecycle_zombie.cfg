CONSTANTS
    t1 = t1  t2 = t2
    Tasks = {t1, t2}
    PoolSize = 1
    MaxFaults = 0
    MaxAdmin = 1
    MaxRestarts = 1
SPECIFICATION Spec
PROPERTIES ZombiesAreFailed
