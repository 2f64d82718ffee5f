------------------------------- MODULE Mutex -------------------------------
(***************************************************************************)
(* The mutex of ipc/sync.c: MutexLock, MutexTryLock and MutexUnlock over   *)
(* the wait queue of IpcWait.  pc[t] = "held" is the stretch between a     *)
(* lock call that returned IpcOk and the unlock; a task outside it may     *)
(* still call MutexUnlock, which must then refuse.                         *)
(***************************************************************************)
EXTENDS IpcWait

VARIABLES Locked, Owner, Wait

vars == <<taskVars, Locked, Owner, Wait>>

MutexInit == Locked = FALSE /\ Owner = Idle /\ Wait = <<>>

Init == TaskInit /\ MutexInit

MutexHeldByCaller(t) == Locked /\ Owner = t

MutexIsFree == ~Locked

\* Mutant: takes the mutex without looking whether it is locked.
TryLockUnchecked(t) ==
    /\ At(t, "out") \/ At(t, "MutexLock")
    /\ Locked' = TRUE
    /\ Owner' = t
    /\ Goto(t, "held")
    /\ UNCHANGED <<State, wake, Wait>>

\* MutexTryLock succeeds, alone or in MutexLock; or, inside MutexLock's loop,
\* it is busy because an unlock made the caller the owner.
MutexTryLock(t) ==
    /\ At(t, "out") \/ At(t, "MutexLock")
    /\ ~Locked \/ (pc[t] = "MutexLock" /\ MutexHeldByCaller(t))
    /\ Locked' = TRUE
    /\ Owner' = t
    /\ Goto(t, "held")
    /\ UNCHANGED <<State, wake, Wait>>

\* MutexLock finds another owner and calls IpcPark.
MutexLockBusy(t) ==
    /\ At(t, "out") \/ At(t, "MutexLock")
    /\ Locked
    /\ ~MutexHeldByCaller(t)
    /\ Goto(t, "IpcPark")
    /\ UNCHANGED <<State, wake, Locked, Owner, Wait>>

ParkReturns(t) ==
    /\ IpcParkReturns(t, "IpcPark", Wait, MutexIsFree, "MutexLock")
    /\ UNCHANGED <<Locked, Owner, Wait>>

\* Mutant: sleeps without testing again whether the mutex is free.
SleepsUnchecked(t) ==
    /\ IpcParkSleeps(t, "IpcPark", Wait, FALSE, "parked")
    /\ Wait' = IpcWaitAdd(Wait, t)
    /\ UNCHANGED <<Locked, Owner>>

ParkSleeps(t) ==
    /\ IpcParkSleeps(t, "IpcPark", Wait, MutexIsFree, "parked")
    /\ Wait' = IpcWaitAdd(Wait, t)
    /\ UNCHANGED <<Locked, Owner>>

ParkWakes(t) ==
    /\ IpcParkWakes(t, "parked", "IpcPark")
    /\ Wait' = IpcWaitRemove(Wait, t)
    /\ UNCHANGED <<Locked, Owner>>

\* Mutant: anyone may unlock.
UnlockUnowned(t) ==
    /\ At(t, "out") \/ At(t, "held")
    /\ Locked
    /\ Wait' = TakeLiveRest(Wait)
    /\ Locked' = (TakeLiveId(Wait) # Idle)
    /\ Owner' = TakeLiveId(Wait)
    /\ TakeLive(t, Wait)

\* The owner's unlock: the first live waiter becomes the owner of a mutex that
\* stays locked, or the mutex is freed.
MutexUnlock(t) ==
    /\ At(t, "out") \/ At(t, "held")
    /\ MutexHeldByCaller(t)
    /\ Wait' = TakeLiveRest(Wait)
    /\ Locked' = (TakeLiveId(Wait) # Idle)
    /\ Owner' = TakeLiveId(Wait)
    /\ TakeLive(t, Wait)

Wakes(t) ==
    /\ SchedWakeTask(t) \/ SchedUnblock(t)
    /\ UNCHANGED <<Locked, Owner, Wait>>

Killed(t) ==
    /\ SchedKill(t)
    /\ UNCHANGED <<Locked, Owner, Wait>>

Step(t) ==
    \/ MutexTryLock(t) \/ MutexLockBusy(t)
    \/ ParkReturns(t) \/ ParkSleeps(t) \/ ParkWakes(t)
    \/ MutexUnlock(t) \/ Wakes(t)

Next ==
    \/ \E t \in Callers : Step(t)
    \/ \E t \in Tasks : Killed(t)

Spec == Init /\ [][Next]_vars

-----------------------------------------------------------------------------

\* Every variable has its type, and the queue fits the Ids array of IpcWait.
TypeOK ==
    /\ State \in [Callers -> TaskStates]
    /\ pc \in [Callers -> {"out", "MutexLock", "IpcPark", "parked", "held",
                           "SchedWakeTask", "SchedUnblock"}]
    /\ wake \in [Callers -> Callers]
    /\ Locked \in BOOLEAN
    /\ Owner \in Callers
    /\ Wait \in Seq(Tasks)
    /\ Len(Wait) <= IpcMaxWaiters

\* Mutual exclusion: at most one task is between a lock call that returned
\* IpcOk and its unlock, and the mutex names that task as its owner; not even a
\* kill of the holder lets a second task in.
MutualExclusion ==
    \A t \in Callers : pc[t] = "held" => Locked /\ Owner = t

\* A free mutex has nobody waiting for it: an unlock that frees it has emptied
\* the queue, and nobody parks on a free one.
FreeHasNoWaiters == ~Locked => Wait = <<>>

\* Ownership of a locked mutex moves only to a task that was waiting for it
\* ("rather than ... letting a task that is merely ready take it first").
HandoffToWaiter ==
    [][Locked /\ Locked' /\ Owner' # Owner => Owner' \in ToSet(Wait)]_vars

\* The owner of the mutex does not sleep waiting for it: "An unlock passed the
\* lock straight to us while we were parked, so the mutex is ours".
OwnerDoesNotWait == Locked => Owner \notin ToSet(Wait)

=============================================================================
