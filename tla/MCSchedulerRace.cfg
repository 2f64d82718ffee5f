SPECIFICATION Spec
CONSTANTS
    SchedMaxTasks = 3
    TimeSlice = 2
    TickMod = 4
    Sleeps = {1, 2}
    Priorities = {1}
    Calls = {"create", "sleep", "wake"}
    Wakers = {0, 1, 2}
    MaxIds = 4
    MaxLocks = 0
INVARIANT QueuesMatchStates
