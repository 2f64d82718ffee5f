SPECIFICATION FairSpec
CONSTANTS
    Tasks = {t1, t2, t3}
    Idle = idle
    IpcMaxWaiters = 2
    Kills = TRUE
    Initial = 1
    Limit = 2
    MaxCount = 2
INVARIANT TypeOK
INVARIANT NoLostWakeup
INVARIANT NoneForgotten
INVARIANT WakeIsFresh
PROPERTY PermitReachesWaiter
