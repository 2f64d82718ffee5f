SPECIFICATION FairSpec
CONSTANTS
    SchedMaxTasks = 3
    TimeSlice = 2
    TickMod = 4
    Sleeps = {1, 2}
    Priorities = {1}
    Calls = {"create", "park", "blockother", "sleep", "wakemasked", "exit", "kill"}
    Wakers = {}
    MaxIds = 4
    MaxLocks = 0
INVARIANT QueuesMatchStates
INVARIANT RunsUnblocked
INVARIANT IdleIsFallback
INVARIANT IdsNameTasks
PROPERTY ReadyRuns
PROPERTY DeadlineWakes
