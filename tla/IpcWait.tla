------------------------------ MODULE IpcWait ------------------------------
(***************************************************************************)
(* The wait queue shared by semaphores, mutexes and ports (ipc/ipc.c), and *)
(* what those objects see of the scheduler (kernel/sched.c).               *)
(*                                                                         *)
(* One CPU runs all tasks.  A task is preempted only by an interrupt, so a *)
(* stretch of code between cpu_disable_irqs and the matching enable is one *)
(* atomic step, and every point outside such a stretch is a place where    *)
(* any other ready task may run next.  pc[t] names the point task t has    *)
(* reached; "out" is outside every call on the object.                     *)
(*                                                                         *)
(* State abstracts the scheduler: "TaskReady" stands for TaskReady and     *)
(* TaskRunning, which the code in ipc/ never tells apart.  Module          *)
(* Scheduler has the queues behind it.                                     *)
(***************************************************************************)
EXTENDS Naturals, SequencesExt

CONSTANTS
    Tasks,          \* ids of the tasks that may sleep
    Idle,           \* id 0: the idle task, and "nobody" where the code uses 0
    IpcMaxWaiters,  \* entries a wait queue has room for
    Kills           \* whether some task calls SchedKill on others

Callers == Tasks \cup {Idle}

ASSUME WaitAssumption ==
    /\ IsFiniteSet(Tasks)
    /\ Idle \notin Tasks
    /\ IpcMaxWaiters \in Nat \ {0}
    /\ Kills \in BOOLEAN

VARIABLES
    State,  \* State[t]: the descriptor's TaskState, as SchedFind(t) sees it
    pc,     \* pc[t]: where in the IPC code t is
    wake    \* wake[t]: the id t took off a queue and is about to wake

taskVars == <<State, pc, wake>>

\* TaskWild: a killed task's descriptor that SchedUnblock put back on the
\* ready queue.  Its Id and Esp are 0, so it is found under no id, and the
\* kernel does not survive switching to it: it takes no step here.
TaskStates == {"TaskReady", "TaskBlocked", "TaskDead", "TaskWild"}

TaskInit ==
    /\ State = [t \in Callers |-> "TaskReady"]
    /\ pc = [t \in Callers |-> "out"]
    /\ wake = [t \in Callers |-> Idle]

\* The task may be on the CPU and is about to execute point l.
At(t, l) == State[t] = "TaskReady" /\ pc[t] = l

Goto(t, l) == pc' = [pc EXCEPT ![t] = l]

-----------------------------------------------------------------------------
(* Queues of ids.                                                          *)

IpcWaitHasRoom(q) == Len(q) < IpcMaxWaiters

IpcWaitAdd(q, id) == IF id \in ToSet(q) THEN q ELSE Append(q, id)

\* The last entry moves into the gap, so order is not kept.
IpcWaitRemove(q, id) ==
    IF id \notin ToSet(q) THEN q
    ELSE LET i == CHOOSE k \in 1..Len(q) :
                      q[k] = id /\ \A j \in 1..(k - 1) : q[j] # id
         IN  [j \in 1..(Len(q) - 1) |-> IF j = i THEN q[Len(q)] ELSE q[j]]

IpcWaitIsLive(id) == State[id] \in {"TaskReady", "TaskBlocked"}

LiveAt(q) == {k \in 1..Len(q) : IpcWaitIsLive(q[k])}

\* The id IpcWaitTakeLive returns (Idle when it returns 0) ...
TakeLiveId(q) ==
    IF LiveAt(q) = {} THEN Idle
    ELSE q[CHOOSE k \in LiveAt(q) : \A j \in LiveAt(q) : k <= j]

\* Mutant: the rest of the queue is dropped with the entry that was taken.
TakeDropsRest(q) == <<>>

\* ... and the queue it leaves: stale entries go only when no entry is live,
\* and then all of them do.
TakeLiveRest(q) ==
    IF LiveAt(q) = {} THEN <<>> ELSE IpcWaitRemove(q, TakeLiveId(q))

-----------------------------------------------------------------------------
(* Sleeping and waking.                                                    *)

\* IpcPark(Wait, Ready, arg), reached at point l: q is the queue, ready what
\* Ready(arg) returns.  Here it returns without sleeping, with IpcErrNoTask,
\* IpcErrFull, or IpcOk, on which the caller's loop goes on at retry.
IpcParkReturns(t, l, q, ready, retry) ==
    /\ At(t, l)
    /\ t = Idle \/ ready \/ ~IpcWaitHasRoom(q)
    /\ Goto(t, IF t # Idle /\ ready THEN retry ELSE "out")
    /\ UNCHANGED <<State, wake>>

\* Here it sleeps: the entry on the queue (q' = IpcWaitAdd(q, t), added by the
\* object) and SchedBlock are one critical section.
IpcParkSleeps(t, l, q, ready, asleep) ==
    /\ At(t, l)
    /\ t # Idle
    /\ ~ready
    /\ IpcWaitHasRoom(q)
    /\ State' = [State EXCEPT ![t] = "TaskBlocked"]
    /\ Goto(t, asleep)
    /\ UNCHANGED wake

\* Back from SchedBlock, with interrupts still off: the task takes itself off
\* the queue (q' = IpcWaitRemove(q, t)) and goes round the loop.
IpcParkWakes(t, asleep, l) ==
    /\ At(t, asleep)
    /\ Goto(t, l)
    /\ UNCHANGED <<State, wake>>

\* A critical section of t that ends with IpcWaitTakeLive(q): what follows is
\* the return, or SchedWakeTask for the id that was taken.
TakeLive(t, q) ==
    /\ wake' = [wake EXCEPT ![t] = TakeLiveId(q)]
    /\ Goto(t, IF TakeLiveId(q) = Idle THEN "out" ELSE "SchedWakeTask")
    /\ UNCHANGED State

\* SchedWakeTask(Id) and the test SchedUnblock makes before it takes the
\* lock: interrupts are on, so what it sees may be stale when the lock is held.
SchedWakeTask(t) ==
    /\ At(t, "SchedWakeTask")
    /\ Goto(t, IF State[wake[t]] = "TaskBlocked" THEN "SchedUnblock" ELSE "out")
    /\ wake' = [wake EXCEPT ![t] = IF State[@] = "TaskBlocked" THEN @ ELSE Idle]
    /\ UNCHANGED State

\* SchedUnblock under the lock: nothing is tested again.
SchedUnblock(t) ==
    /\ At(t, "SchedUnblock")
    /\ State' = [State EXCEPT ![wake[t]] =
                    IF IpcWaitIsLive(wake[t]) THEN "TaskReady" ELSE "TaskWild"]
    /\ wake' = [wake EXCEPT ![t] = Idle]
    /\ Goto(t, "out")

\* SchedKill from some other task, at any point the victim can be switched
\* away from.  The id stays on whatever queue it is on.
SchedKill(t) ==
    /\ Kills
    /\ IpcWaitIsLive(t)
    /\ State' = [State EXCEPT ![t] = "TaskDead"]
    /\ UNCHANGED <<pc, wake>>

-----------------------------------------------------------------------------
(* Properties every object states about its queues.                        *)

\* Task w is between taking t off a queue and readying it.
Waking(w, t) ==
    /\ pc[w] \in {"SchedWakeTask", "SchedUnblock"}
    /\ wake[w] = t

=============================================================================
