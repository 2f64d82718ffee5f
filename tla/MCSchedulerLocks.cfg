SPECIFICATION Spec
CONSTANTS
    SchedMaxTasks = 3
    TimeSlice = 2
    TickMod = 4
    Sleeps = {1}
    Priorities = {0, 2}
    Calls = {"create", "yield", "block", "park", "blockother", "wake", "lock", "priority", "policy"}
    Wakers = {0}
    MaxIds = 3
    MaxLocks = 2
INVARIANT RunsUnblocked
INVARIANT QueuesMatchStates
