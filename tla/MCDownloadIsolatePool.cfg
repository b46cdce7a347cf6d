SPECIFICATION FairSpec
CONSTANTS
    Tasks = {t1, t2, t3}
    PoolSize = 2
    NoTask = NoTask
INVARIANTS
    TypeOK
    EveryTaskInOnePlace
    RegistersAgree
    CancelStops
    NoIdleStall
PROPERTIES
    ImplementsTaskPool
    SettlesWhileNoWorkerLost
