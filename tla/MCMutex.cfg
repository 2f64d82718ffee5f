SPECIFICATION Spec
CONSTANTS
    Tasks = {t1, t2, t3, t4}
    Idle = idle
    IpcMaxWaiters = 3
    Kills = TRUE
INVARIANT MutualExclusion
INVARIANT FreeHasNoWaiters
PROPERTY HandoffToWaiter
