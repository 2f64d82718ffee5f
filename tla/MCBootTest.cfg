SPECIFICATION FairSpec
CONSTANTS
    Consumer = consumer
    Producer = producer
    LockA = lockA
    LockB = lockB
    Tasks = {consumer, producer, lockA, lockB}
    Idle = idle
    IpcMaxWaiters = 2
    Kills = FALSE
    IpcTestMessages = 6
    IpcPortCapacity = 2
    MaxRounds = 6
INVARIANT BadOnlyIfEarly
INVARIANT DestroyIsQuiet
INVARIANT NoOverlap
PROPERTY RendezvousFinishes
