SPECIFICATION Spec
CONSTANTS
    Tasks = {t1, t2}
    Idle = idle
    IpcMaxWaiters = 2
    Kills = FALSE
INVARIANT OwnerDoesNotWait
SYMMETRY TaskSymmetry
