----------------------------- MODULE Scheduler -----------------------------
(***************************************************************************)
(* The task scheduler (kernel/sched.c) with the timer interrupt that       *)
(* drives it (pit.c, isr_dispatch).                                        *)
(*                                                                         *)
(* One CPU.  The statics of sched.c are the fields of k; each critical     *)
(* section between SchedLockIrq and SchedUnlockIrq is an operator from k   *)
(* to k, and one atomic step.  Between two steps of the task on the CPU,   *)
(* where interrupts are on, the timer may interrupt and switch tasks.      *)
(* pc[s] is the point the task of descriptor s has reached; "run" is its   *)
(* own code.  Descriptors are named by their index in Tasks.               *)
(***************************************************************************)
EXTENDS Integers, SequencesExt

CONSTANTS
    SchedMaxTasks,  \* descriptors
    TimeSlice,      \* ticks a task runs before it is preempted (10)
    TickMod,        \* size of the tick counter's type, 2^32
    Sleeps,         \* lengths of sleeps, in ticks
    Priorities,     \* arguments of SchedSetPriority
    Calls,          \* the calls that tasks make
    Wakers,         \* descriptors whose tasks call SchedWakeTask, interrupts on
    MaxIds,         \* bound of the model on the ids that are given out
    MaxLocks        \* bound of the model on nested SchedLock calls

Slots == 0..(SchedMaxTasks - 1)
IdleSlot == 0
None == -1
Halted == -2  \* cpu after the panic of an exited task that went on running

AllCalls ==
    {"create", "yield", "block", "park", "blockother", "sleep", "wake",
     "wakemasked", "exit", "kill", "lock", "priority", "policy"}

ASSUME SchedAssumption ==
    /\ SchedMaxTasks \in Nat \ {0}
    /\ TimeSlice \in Nat \ {0}
    /\ TickMod \in Nat \ {0, 1}
    /\ Sleeps \subseteq Nat
    /\ Priorities \subseteq 0..255
    /\ Calls \subseteq AllCalls
    /\ Wakers \subseteq Slots
    /\ MaxIds \in Nat \ {0}
    /\ MaxLocks \in Nat

VARIABLES
    k,           \* the statics of sched.c
    tick_count,  \* the timer's tick counter
    cpu,         \* descriptor of the task on the CPU; None: one that is exiting
    pc,          \* pc[s]: point reached by the task of descriptor s
    ret,         \* ret[s]: where SchedBlockTask returns to
    arg          \* arg[s]: SchedWakeTask's TaskItem, timer_sleep_ms's deadline

vars == <<k, tick_count, cpu, pc, ret, arg>>

-----------------------------------------------------------------------------
(* The queues: sequences of descriptors linked through Next, head first.   *)

\* Mutant: adds at the head.
QueueAddAtHead(q, s) == <<s>> \o q

SchedQueueAdd(q, s) == Append(q, s)

SchedQueueRemove(q, s) ==
    IF s \notin ToSet(q) THEN q
    ELSE LET i == CHOOSE n \in 1..Len(q) :
                      q[n] = s /\ \A j \in 1..(n - 1) : q[j] # s
         IN  [j \in 1..(Len(q) - 1) |-> IF j < i THEN q[j] ELSE q[j + 1]]

\* The first element of q at an index in I.
FirstAt(q, I) == q[CHOOSE i \in I : \A j \in I : i <= j]

-----------------------------------------------------------------------------
(* Choosing the next task.                                                 *)

\* The first queued task with a larger id than the current one, else the head.
SchedFindRoundRobin(s) ==
    LET larger == {i \in 1..Len(s.ReadyQueue) :
                      s.CurrentTask # None /\
                      s.Id[s.ReadyQueue[i]] > s.Id[s.CurrentTask]}
    IN  IF larger = {} THEN s.ReadyQueue[1] ELSE FirstAt(s.ReadyQueue, larger)

\* The first queued task of the highest priority.
SchedFindPriority(s) ==
    LET best == {i \in 1..Len(s.ReadyQueue) : \A j \in 1..Len(s.ReadyQueue) :
                    s.Priority[s.ReadyQueue[j]] <= s.Priority[s.ReadyQueue[i]]}
    IN  FirstAt(s.ReadyQueue, best)

SchedFindNext(s) ==
    IF s.ReadyQueue = <<>> THEN None
    ELSE IF s.CurrentPolicy = "SchedPriority" THEN SchedFindPriority(s)
    ELSE SchedFindRoundRobin(s)

-----------------------------------------------------------------------------
(* Critical sections.                                                      *)

\* Mutant: the task that is left is queued again whatever its state.
YieldRequeuesAlways(s) ==
    LET next == SchedFindNext(s)
        prev == s.CurrentTask
        rest == SchedQueueRemove(s.ReadyQueue, next)
        requeue == prev # None
    IN  IF s.SchedulerLocked # 0 \/ next = None \/ next = prev THEN s
        ELSE [s EXCEPT
                !.ReadyQueue = IF requeue THEN SchedQueueAdd(rest, prev) ELSE rest,
                !.State = [n \in Slots |->
                    IF n = next THEN "TaskRunning"
                    ELSE IF n = prev /\ requeue THEN "TaskReady" ELSE s.State[n]],
                !.TimeUsed[next] = 0,
                !.CurrentTask = next]

\* SchedYield up to the switch: the task it leaves on the CPU is CurrentTask.
SchedYield(s) ==
    LET next == SchedFindNext(s)
        prev == s.CurrentTask
        rest == SchedQueueRemove(s.ReadyQueue, next)
        requeue == prev # None /\ s.State[prev] = "TaskRunning"
    IN  IF s.SchedulerLocked # 0 \/ next = None \/ next = prev THEN s
        ELSE [s EXCEPT
                !.ReadyQueue = IF requeue THEN SchedQueueAdd(rest, prev) ELSE rest,
                !.State = [n \in Slots |->
                    IF n = next THEN "TaskRunning"
                    ELSE IF n = prev /\ requeue THEN "TaskReady" ELSE s.State[n]],
                !.TimeUsed[next] = 0,
                !.CurrentTask = next]

SchedTick(s) ==
    LET c == s.CurrentTask
        due == s.TimeUsed[c] + 1 >= TimeSlice
    IN  IF s.SchedulerLocked # 0 \/ c = None THEN s
        ELSE [s EXCEPT !.TimeUsed[c] = IF due THEN 0 ELSE @ + 1,
                       !.PreemptPending = @ \/ due]

SchedPreempt(s) ==
    IF ~s.PreemptPending \/ s.SchedulerLocked # 0 THEN s
    ELSE SchedYield([s EXCEPT !.PreemptPending = FALSE])

\* (s32)(now - wake) >= 0
Reached(now, wake) == (now - wake) % TickMod < TickMod \div 2

Expired(s, now, n) == s.WakeTick[n] # 0 /\ Reached(now, s.WakeTick[n])

\* Mutant: looks only at the head of the queue, as if it were sorted.
WakeExpiredHead(s, now) ==
    IF s.BlockedQueue = <<>> \/ ~Expired(s, now, s.BlockedQueue[1]) THEN s
    ELSE [s EXCEPT !.BlockedQueue = Tail(@),
                   !.ReadyQueue = Append(@, s.BlockedQueue[1]),
                   !.State[s.BlockedQueue[1]] = "TaskReady",
                   !.WakeTick[s.BlockedQueue[1]] = 0]

SchedWakeExpired(s, now) ==
    LET due == SelectSeq(s.BlockedQueue, LAMBDA n : Expired(s, now, n))
        woken == ToSet(due)
    IN  [s EXCEPT
            !.BlockedQueue = SelectSeq(@, LAMBDA n : ~Expired(s, now, n)),
            !.ReadyQueue = @ \o due,
            !.State = [n \in Slots |-> IF n \in woken THEN "TaskReady" ELSE @[n]],
            !.WakeTick = [n \in Slots |-> IF n \in woken THEN 0 ELSE @[n]]]

\* SchedBlockTask under the lock, for a task that is neither dead nor blocked.
MarkBlocked(s, n) ==
    [s EXCEPT !.ReadyQueue = SchedQueueRemove(@, n),
              !.State[n] = "TaskBlocked",
              !.BlockedQueue = SchedQueueAdd(@, n)]

\* Mutant: the block is not undone.
BlockStays(s, n) == s

\* Mutant: the block is undone in the descriptor but not in the queue.
UndoKeepsQueue(s, n) ==
    IF s.State[n] # "TaskBlocked" THEN s ELSE [s EXCEPT !.State[n] = "TaskRunning"]

\* SchedBlockTask after its own yield: a block that switched to nobody is undone.
UndoBlock(s, n) ==
    IF s.State[n] # "TaskBlocked" THEN s
    ELSE [s EXCEPT !.BlockedQueue = SchedQueueRemove(@, n),
                   !.State[n] = "TaskRunning"]

\* SchedUnblock under the lock.
MarkReady(s, n) ==
    [s EXCEPT !.BlockedQueue = SchedQueueRemove(@, n),
              !.State[n] = "TaskReady",
              !.ReadyQueue = SchedQueueAdd(@, n)]

SchedResetTask(s, n) ==
    [s EXCEPT !.Id[n] = 0, !.Priority[n] = 1, !.TimeUsed[n] = 0,
              !.WakeTick[n] = 0, !.State[n] = "TaskDead"]

\* What SchedExit and SchedKill have in common.
Retire(s, n) ==
    [SchedResetTask(s, n) EXCEPT
        !.ReadyQueue = SchedQueueRemove(@, n),
        !.BlockedQueue = SchedQueueRemove(@, n),
        !.DeadQueue = SchedQueueAdd(@, n),
        !.TaskCountValue = IF @ > 0 THEN @ - 1 ELSE @]

\* Mutant: NextTaskId is not advanced.
ClaimSameId(s, n) ==
    [s EXCEPT !.DeadQueue = SchedQueueRemove(@, n),
              !.Id[n] = s.NextTaskId,
              !.Priority[n] = 1,
              !.TimeUsed[n] = 0,
              !.State[n] = "TaskReady",
              !.ReadyQueue = SchedQueueAdd(@, n),
              !.TaskCountValue = @ + 1]

\* SchedCreate's claim of dead descriptor n.
Claim(s, n) ==
    [s EXCEPT !.DeadQueue = SchedQueueRemove(@, n),
              !.Id[n] = s.NextTaskId,
              !.NextTaskId = @ + 1,
              !.Priority[n] = 1,
              !.TimeUsed[n] = 0,
              !.State[n] = "TaskReady",
              !.ReadyQueue = SchedQueueAdd(@, n),
              !.TaskCountValue = @ + 1]

-----------------------------------------------------------------------------
(* The calls of the task on the CPU.                                       *)

At(l) == cpu \in Slots /\ pc[cpu] = l

CallsFrom(c) == c \in Calls /\ At("run")

Goto(l) == pc' = [pc EXCEPT ![cpu] = l]

\* SchedSwitch, when the critical section picked another task.
Switch == cpu' = IF k'.CurrentTask = k.CurrentTask THEN cpu ELSE k'.CurrentTask

Live(n) == k.State[n] # "TaskDead"

Yield ==
    /\ CallsFrom("yield")
    /\ k' = SchedYield(k)
    /\ Switch
    /\ UNCHANGED <<tick_count, pc, ret, arg>>

\* SchedCreate's test of the count, made before the lock.  MaxIds is the model's bound.
CreateCheck ==
    /\ CallsFrom("create")
    /\ k.TaskCountValue < SchedMaxTasks
    /\ k.NextTaskId + Cardinality({s \in Slots : pc[s] = "create"}) < MaxIds
    /\ Goto("create")
    /\ UNCHANGED <<k, tick_count, cpu, ret, arg>>

\* Under the lock it takes the first dead descriptor, or gives up.
SchedCreate ==
    /\ At("create")
    /\ LET dead == {n \in Slots : ~Live(n)}
           n == CHOOSE m \in dead : \A j \in dead : m <= j
       IN  k' = IF dead = {} THEN k ELSE Claim(k, n)
    /\ Goto("run")
    /\ UNCHANGED <<tick_count, cpu, ret, arg>>

\* SchedBlock with interrupts on: marked, then unlocked, then SchedYield.
SchedBlock ==
    /\ CallsFrom("block")
    /\ cpu # IdleSlot
    /\ k' = MarkBlocked(k, cpu)
    /\ Goto("blockYield")
    /\ ret' = [ret EXCEPT ![cpu] = "run"]
    /\ UNCHANGED <<tick_count, cpu, arg>>

BlockYield ==
    /\ At("blockYield")
    /\ k' = SchedYield(k)
    /\ Switch
    /\ Goto("blockCheck")
    /\ UNCHANGED <<tick_count, ret, arg>>

BlockCheck ==
    /\ At("blockCheck")
    /\ k' = UndoBlock(k, cpu)
    /\ Goto(ret[cpu])
    /\ ret' = [ret EXCEPT ![cpu] = "run"]
    /\ UNCHANGED <<tick_count, cpu, arg>>

\* SchedBlock with interrupts off, as IpcPark calls it: one critical section
\* up to the switch, and no interrupt before the check when it comes back.
Park ==
    /\ CallsFrom("park")
    /\ cpu # IdleSlot
    /\ k' = SchedYield(MarkBlocked(k, cpu))
    /\ Switch
    /\ Goto("parkCheck")
    /\ UNCHANGED <<tick_count, ret, arg>>

ParkCheck ==
    /\ At("parkCheck")
    /\ k' = UndoBlock(k, cpu)
    /\ Goto("run")
    /\ UNCHANGED <<tick_count, cpu, ret, arg>>

\* Mutant: the calling task is blocked like any other, without a yield.
BlockWithoutYield(n) ==
    /\ CallsFrom("blockother")
    /\ n # IdleSlot
    /\ k.State[n] \notin {"TaskDead", "TaskBlocked"}
    /\ k' = MarkBlocked(k, n)
    /\ UNCHANGED <<tick_count, cpu, pc, ret, arg>>

SchedBlockTask(n) ==
    /\ CallsFrom("blockother")
    /\ n \notin {cpu, IdleSlot}
    /\ k.State[n] \notin {"TaskDead", "TaskBlocked"}
    /\ k' = MarkBlocked(k, n)
    /\ UNCHANGED <<tick_count, cpu, pc, ret, arg>>

SchedHasRunnable == ToSet(k.ReadyQueue) \ {k.CurrentTask} # {}

\* timer_sleep_ms up to its deadline.  The idle task only yields and halts.
SleepDeadline(d) ==
    /\ CallsFrom("sleep")
    /\ cpu # IdleSlot
    /\ arg' = [arg EXCEPT ![cpu] = (tick_count + d) % TickMod]
    /\ Goto("sleepUntil")
    /\ UNCHANGED <<k, tick_count, cpu, ret>>

\* SchedSleepUntil up to its store.  The loop that timer_sleep_ms has for a
\* machine with nothing else to run is never entered: see IdleIsFallback.
SchedSleepUntil ==
    /\ At("sleepUntil")
    /\ SchedHasRunnable
    /\ k' = [k EXCEPT !.WakeTick[cpu] = arg[cpu]]
    /\ arg' = [arg EXCEPT ![cpu] = None]
    /\ Goto("sleepBlock")
    /\ UNCHANGED <<tick_count, cpu, ret>>

SleepBlock ==
    /\ At("sleepBlock")
    /\ k' = MarkBlocked(k, cpu)
    /\ Goto("blockYield")
    /\ ret' = [ret EXCEPT ![cpu] = "sleepClear"]
    /\ UNCHANGED <<tick_count, cpu, arg>>

SleepClear ==
    /\ At("sleepClear")
    /\ k' = [k EXCEPT !.WakeTick[cpu] = 0]
    /\ Goto("run")
    /\ UNCHANGED <<tick_count, cpu, ret, arg>>

\* SchedWakeTask looks the task up and SchedUnblock tests its state, both with
\* interrupts on; only then is the lock taken.
SchedWakeTask(n) ==
    /\ CallsFrom("wake")
    /\ cpu \in Wakers
    /\ Live(n)
    /\ arg' = [arg EXCEPT ![cpu] = n]
    /\ Goto("wakeCheck")
    /\ UNCHANGED <<k, tick_count, cpu, ret>>

WakeCheck ==
    /\ At("wakeCheck")
    /\ IF k.State[arg[cpu]] = "TaskBlocked"
       THEN Goto("unblock") /\ UNCHANGED arg
       ELSE Goto("run") /\ arg' = [arg EXCEPT ![cpu] = None]
    /\ UNCHANGED <<k, tick_count, cpu, ret>>

SchedUnblock ==
    /\ At("unblock")
    /\ k' = MarkReady(k, arg[cpu])
    /\ Goto("run")
    /\ arg' = [arg EXCEPT ![cpu] = None]
    /\ UNCHANGED <<tick_count, cpu, ret>>

\* SchedWakeTask from a caller that has interrupts off already.
WakeMasked(n) ==
    /\ CallsFrom("wakemasked")
    /\ k.State[n] = "TaskBlocked"
    /\ k' = MarkReady(k, n)
    /\ UNCHANGED <<tick_count, cpu, pc, ret, arg>>

\* SchedExit, which is also SchedKill of the caller, up to its unlock.
SchedExit ==
    /\ CallsFrom("exit")
    /\ cpu # IdleSlot
    /\ k' = [Retire(k, cpu) EXCEPT !.CurrentTask = None]
    /\ cpu' = None
    /\ UNCHANGED <<tick_count, pc, ret, arg>>

\* SchedExit's yield.  When it finds nobody, the idle task is made current by
\* hand and SchedExitStub returns to address 0: the panic of isr_dispatch.
ExitYield ==
    /\ cpu = None
    /\ LET y == SchedYield(k)
       IN  /\ k' = IF y.CurrentTask # None THEN y
                   ELSE [y EXCEPT !.CurrentTask = IdleSlot,
                                  !.State[IdleSlot] = "TaskRunning"]
           /\ cpu' = IF y.CurrentTask # None THEN y.CurrentTask ELSE Halted
    /\ UNCHANGED <<tick_count, pc, ret, arg>>

\* Mutant: the idle task can be killed.
KillIdleToo(n) ==
    /\ CallsFrom("kill")
    /\ n # cpu
    /\ Live(n)
    /\ k' = Retire(k, n)
    /\ pc' = [pc EXCEPT ![n] = "run"]
    /\ ret' = [ret EXCEPT ![n] = "run"]
    /\ arg' = [arg EXCEPT ![n] = None]
    /\ UNCHANGED <<tick_count, cpu>>

SchedKill(n) ==
    /\ CallsFrom("kill")
    /\ n \notin {cpu, IdleSlot}
    /\ Live(n)
    /\ k' = Retire(k, n)
    /\ pc' = [pc EXCEPT ![n] = "run"]
    /\ ret' = [ret EXCEPT ![n] = "run"]
    /\ arg' = [arg EXCEPT ![n] = None]
    /\ UNCHANGED <<tick_count, cpu>>

SchedLock ==
    /\ CallsFrom("lock")
    /\ k.SchedulerLocked < MaxLocks
    /\ k' = [k EXCEPT !.SchedulerLocked = @ + 1]
    /\ UNCHANGED <<tick_count, cpu, pc, ret, arg>>

SchedUnlock ==
    /\ CallsFrom("lock")
    /\ k.SchedulerLocked > 0
    /\ k' = [k EXCEPT !.SchedulerLocked = @ - 1]
    /\ UNCHANGED <<tick_count, cpu, pc, ret, arg>>

SchedSetPriority(n, p) ==
    /\ CallsFrom("priority")
    /\ Live(n)
    /\ k' = [k EXCEPT !.Priority[n] = IF p > 255 THEN 255 ELSE p]
    /\ UNCHANGED <<tick_count, cpu, pc, ret, arg>>

SchedSetPolicy(p) ==
    /\ CallsFrom("policy")
    /\ k' = [k EXCEPT !.CurrentPolicy = p]
    /\ UNCHANGED <<tick_count, cpu, pc, ret, arg>>

-----------------------------------------------------------------------------
(* The timer interrupt: timer_callback, the EOI, then SchedPreempt, all    *)
(* with interrupts off.  It can come wherever the CPU has them on.         *)

IrqsOn == cpu # Halted /\ ~At("parkCheck")

TimerIrq ==
    /\ IrqsOn
    /\ tick_count' = (tick_count + 1) % TickMod
    /\ k' = SchedPreempt(SchedWakeExpired(SchedTick(k), tick_count'))
    /\ Switch
    /\ UNCHANGED <<pc, ret, arg>>

SchedInit ==
    /\ k = [Id |-> [s \in Slots |-> 0],
            State |-> [s \in Slots |->
                IF s = IdleSlot THEN "TaskRunning" ELSE "TaskDead"],
            Priority |-> [s \in Slots |-> IF s = IdleSlot THEN 0 ELSE 1],
            TimeUsed |-> [s \in Slots |-> 0],
            WakeTick |-> [s \in Slots |-> 0],
            ReadyQueue |-> <<>>, BlockedQueue |-> <<>>, DeadQueue |-> <<>>,
            CurrentTask |-> IdleSlot,
            CurrentPolicy |-> "SchedRoundRobin",
            TaskCountValue |-> 1,
            NextTaskId |-> 1,
            SchedulerLocked |-> 0,
            PreemptPending |-> FALSE]
    /\ tick_count = 0

Init ==
    /\ SchedInit
    /\ cpu = IdleSlot
    /\ pc = [s \in Slots |-> "run"]
    /\ ret = [s \in Slots |-> "run"]
    /\ arg = [s \in Slots |-> None]

TaskStep ==
    \/ Yield \/ CreateCheck \/ SchedCreate
    \/ SchedBlock \/ BlockYield \/ BlockCheck \/ Park \/ ParkCheck
    \/ \E n \in Slots : SchedBlockTask(n)
    \/ \E d \in Sleeps : SleepDeadline(d)
    \/ SchedSleepUntil \/ SleepBlock \/ SleepClear
    \/ \E n \in Slots : SchedWakeTask(n) \/ WakeMasked(n)
    \/ WakeCheck \/ SchedUnblock
    \/ SchedExit \/ ExitYield
    \/ \E n \in Slots : SchedKill(n)
    \/ SchedLock \/ SchedUnlock
    \/ \E n \in Slots, p \in Priorities : SchedSetPriority(n, p)
    \/ \E p \in {"SchedRoundRobin", "SchedPriority"} : SchedSetPolicy(p)

Next == TaskStep \/ TimerIrq

Spec == Init /\ [][Next]_vars

\* The timer is periodic and every stretch with interrupts off is finite, so
\* ticks never cease; and an exiting task, which no tick switches away from,
\* gets to its yield.
Fairness ==
    /\ []<><<TimerIrq>>_vars
    /\ WF_vars(ExitYield)

FairSpec == Spec /\ Fairness

-----------------------------------------------------------------------------

InState(st) == {s \in Slots : k.State[s] = st}

\* The queues hold exactly the tasks their states say, each once: no step, and
\* no interrupt between the steps of a call, makes a list that SchedQueueAdd
\* would cut short or turn into a cycle.
QueuesMatchStates ==
    /\ IsInjective(k.ReadyQueue) /\ ToSet(k.ReadyQueue) = InState("TaskReady")
    /\ IsInjective(k.BlockedQueue) /\ ToSet(k.BlockedQueue) = InState("TaskBlocked")
    /\ IsInjective(k.DeadQueue) /\ ToSet(k.DeadQueue) \subseteq InState("TaskDead")

\* "a task is never left running while marked blocked" (kernel_api.md): outside
\* SchedBlockTask the task on the CPU is running, or was made ready by the timer
\* before its own yield; and no other task is marked running.
RunsUnblocked ==
    /\ cpu \in Slots /\ pc[cpu] \notin {"blockYield", "blockCheck", "parkCheck"} =>
           k.State[cpu] \in {"TaskRunning", "TaskReady"}
    /\ InState("TaskRunning") \subseteq {cpu}

\* Whenever the idle task is off the CPU it is ready, so a yield always finds
\* somebody: a block is undone only under SchedLock, a sleeper never has to
\* halt, and SchedExit does not return into the panic of a dead task.
IdleIsFallback ==
    /\ cpu # IdleSlot => k.State[IdleSlot] = "TaskReady"
    /\ cpu # Halted

\* Ids name tasks: no two live descriptors share one, none exceeds the last one
\* given out, and the table's count is the number of live descriptors.
IdsNameTasks ==
    /\ \A s, t \in Slots : Live(s) /\ Live(t) /\ k.Id[s] = k.Id[t] => s = t
    /\ \A s \in Slots : k.Id[s] < k.NextTaskId
    /\ k.TaskCountValue = Cardinality({s \in Slots : Live(s)})

\* Round robin starves nobody among the tasks there are: unless new tasks are created
\* for ever, a ready task leaves the ready queue again.  Larger ids go first, and a new
\* id is the largest, so tasks that each create the next one and kill the one before
\* keep the idle task, or any task of a smaller id, waiting for ever.
ReadyRuns ==
    <>[][k'.NextTaskId = k.NextTaskId]_vars =>
        \A s \in Slots : k.State[s] = "TaskReady" ~> k.State[s] # "TaskReady"

\* A sleeper with a deadline is woken: the timer reaches it, however long the
\* task was held up between computing the deadline and blocking, and however
\* often the tick counter wraps.
DeadlineWakes ==
    \A s \in Slots :
        (k.State[s] = "TaskBlocked" /\ k.WakeTick[s] # 0) ~> k.State[s] # "TaskBlocked"

=============================================================================
