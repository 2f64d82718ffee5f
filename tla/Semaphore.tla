----------------------------- MODULE Semaphore -----------------------------
(***************************************************************************)
(* A counting semaphore (ipc/sync.c): SemWait, SemTryWait and SemPost,     *)
(* called by any task in any order, over the wait queue of IpcWait.        *)
(***************************************************************************)
EXTENDS IpcWait

CONSTANTS
    Initial,   \* SemInit's Initial
    Limit,     \* SemInit's Limit, 0 for an unbounded counter
    MaxCount   \* bound of the model on Count when Limit is 0

ASSUME SemAssumption ==
    /\ Initial \in Nat
    /\ Limit \in Nat
    /\ MaxCount \in Nat

VARIABLES Count, Wait

vars == <<taskVars, Count, Wait>>

SemInit ==
    /\ Count = IF Limit # 0 /\ Initial > Limit THEN Limit ELSE Initial
    /\ Wait = <<>>

Init == TaskInit /\ SemInit

SemHasPermit == Count > 0

\* SemTryWait finds a permit: the end of SemTryWait and of SemWait.
SemTake(t) ==
    /\ At(t, "out") \/ At(t, "SemWait")
    /\ Count # 0
    /\ Count' = Count - 1
    /\ Goto(t, "out")
    /\ UNCHANGED <<State, wake, Wait>>

\* SemTryWait inside SemWait finds none, so SemWait calls IpcPark.
SemWaitEmpty(t) ==
    /\ At(t, "out") \/ At(t, "SemWait")
    /\ Count = 0
    /\ Goto(t, "IpcPark")
    /\ UNCHANGED <<State, wake, Count, Wait>>

ParkReturns(t) ==
    /\ IpcParkReturns(t, "IpcPark", Wait, SemHasPermit, "SemWait")
    /\ UNCHANGED <<Count, Wait>>

\* Mutant: sleeps without testing for a permit again.
SleepsUnchecked(t) ==
    /\ IpcParkSleeps(t, "IpcPark", Wait, FALSE, "parked")
    /\ Wait' = IpcWaitAdd(Wait, t)
    /\ UNCHANGED <<Count>>

ParkSleeps(t) ==
    /\ IpcParkSleeps(t, "IpcPark", Wait, SemHasPermit, "parked")
    /\ Wait' = IpcWaitAdd(Wait, t)
    /\ UNCHANGED <<Count>>

ParkWakes(t) ==
    /\ IpcParkWakes(t, "parked", "IpcPark")
    /\ Wait' = IpcWaitRemove(Wait, t)
    /\ UNCHANGED <<Count>>

\* Mutant: posts once more at the ceiling.
PostPastLimit(t) ==
    /\ At(t, "out")
    /\ IF Limit # 0 THEN Count <= Limit ELSE Count < MaxCount
    /\ Count' = Count + 1
    /\ Goto(t, "IpcWakeOne")
    /\ UNCHANGED <<State, wake, Wait>>

\* Mutant: posts and wakes nobody.
PostWithoutWake(t) ==
    /\ At(t, "out")
    /\ IF Limit # 0 THEN Count < Limit ELSE Count < MaxCount
    /\ Count' = Count + 1
    /\ UNCHANGED <<taskVars, Wait>>

SemPost(t) ==
    /\ At(t, "out")
    /\ IF Limit # 0 THEN Count < Limit ELSE Count < MaxCount
    /\ Count' = Count + 1
    /\ Goto(t, "IpcWakeOne")
    /\ UNCHANGED <<State, wake, Wait>>

\* Mutant: the task that is woken stays on the queue.
WakeKeepsEntry(t) ==
    /\ At(t, "IpcWakeOne")
    /\ TakeLive(t, Wait)
    /\ UNCHANGED <<Count, Wait>>

IpcWakeOne(t) ==
    /\ At(t, "IpcWakeOne")
    /\ TakeLive(t, Wait)
    /\ Wait' = TakeLiveRest(Wait)
    /\ UNCHANGED Count

Wakes(t) ==
    /\ SchedWakeTask(t) \/ SchedUnblock(t)
    /\ UNCHANGED <<Count, Wait>>

Killed(t) ==
    /\ SchedKill(t)
    /\ UNCHANGED <<Count, Wait>>

Step(t) ==
    \/ SemTake(t) \/ SemWaitEmpty(t)
    \/ ParkReturns(t) \/ ParkSleeps(t) \/ ParkWakes(t)
    \/ SemPost(t) \/ IpcWakeOne(t) \/ Wakes(t)

Next ==
    \/ \E t \in Callers : Step(t)
    \/ \E t \in Tasks : Killed(t)

Spec == Init /\ [][Next]_vars

\* A call once begun goes on: the scheduler runs every ready task again and
\* again.  Nothing makes a task begin one.
Fairness == \A t \in Callers : WF_vars(pc[t] # "out" /\ Step(t))

FairSpec == Spec /\ Fairness

-----------------------------------------------------------------------------

\* Every variable has its type.  The count stays at or under Limit, which
\* SemInit's clamp and SemPost's refusal promise ("so Count <= Limit holds"),
\* and a queue never outgrows the Ids array of IpcWait.
TypeOK ==
    /\ State \in [Callers -> TaskStates]
    /\ pc \in [Callers -> {"out", "SemWait", "IpcPark", "parked", "IpcWakeOne",
                           "SchedWakeTask", "SchedUnblock"}]
    /\ wake \in [Callers -> Callers]
    /\ Count \in Nat
    /\ Limit # 0 => Count <= Limit
    /\ Wait \in Seq(Tasks)
    /\ Len(Wait) <= IpcMaxWaiters

\* The tasks in the middle of a call: each of them still has to look at the
\* count, or to wake a task that will.
InFlight == {t \in Callers : State[t] = "TaskReady" /\ pc[t] # "out"}

\* The killed tasks.
Gone == {t \in Callers : ~IpcWaitIsLive(t)}

\* No wakeup is lost, except that a killed task may take one with it.  While
\* some live task is queued, every free permit but at most one per kill has a
\* task on its way to take it or to wake a taker: SemPost's increment and its
\* IpcWakeOne are two critical sections, and the count, the queue and the
\* wake-ups in between never get further out of step.
NoLostWakeup ==
    LiveAt(Wait) # {} => Count <= Cardinality(InFlight) + Cardinality(Gone)

\* No task is forgotten: one that IpcPark put to sleep is on the queue, or a task
\* has taken it off to wake it; only a kill of that waker can lose it.
NoneForgotten ==
    \A t \in Tasks : State[t] = "TaskBlocked" =>
        t \in ToSet(Wait) \/ \E w \in Callers : Waking(w, t)

\* "A wakeup is never lost and a parked entry is never left behind"
\* (kernel_api.md): a task asleep is on the queue, or a live task is about to
\* wake it.
NoneLeftBehind ==
    \A t \in Tasks : State[t] = "TaskBlocked" =>
        \/ t \in ToSet(Wait)
        \/ \E w \in Callers : IpcWaitIsLive(w) /\ Waking(w, t)

\* SchedUnblock tests the state before it takes the lock and not again under
\* it; unless the task was killed meanwhile the test is still true there, so no
\* live task is queued twice.
WakeIsFresh ==
    \A w \in Callers : At(w, "SchedUnblock") /\ IpcWaitIsLive(wake[w]) =>
        State[wake[w]] = "TaskBlocked"

\* Unless a task is killed, a permit does not lie unused next to a parked task
\* for ever.
PermitReachesWaiter ==
    (Count > 0 /\ Wait # <<>>) ~> (Count = 0 \/ Wait = <<>> \/ Gone # {})

=============================================================================
