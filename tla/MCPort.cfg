SPECIFICATION FairSpec
CONSTANTS
    Tasks = {t1, t2}
    Idle = idle
    IpcMaxWaiters = 2
    Kills = TRUE
    Data = {m}
    PortOwner = idle
    IpcPortCapacity = 2
    QuietDestroy = TRUE
INVARIANT NoLostWakeup
INVARIANT NoneStranded
PROPERTY IsFifo
PROPERTY MessageReachesReceiver
