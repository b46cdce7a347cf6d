SPECIFICATION FairSpec
CONSTANTS
    Tasks = {t1, t2}
    PoolSize = 1
    NoTask = NoTask
PROPERTIES
    StartupErrorsSurface
