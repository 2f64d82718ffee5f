---------------------------- MODULE MutexProofs ----------------------------
(***************************************************************************)
(* The mutex is safe for any number of tasks, any size of wait queue, and  *)
(* whether or not tasks are killed.                                        *)
(***************************************************************************)
EXTENDS Mutex, IpcWaitProofs

\* The inductive invariant.
IInv == TypeOK /\ MutualExclusion /\ FreeHasNoWaiters

\* A mutex that was just initialised satisfies it.
LEMMA InitIInv == Init => IInv
<1>. SUFFICES ASSUME Init PROVE IInv
  OBVIOUS
<1>. USE DEF Init, TaskInit, MutexInit
<1>1. Wait \in Seq(Tasks) /\ Len(Wait) = 0 /\ 0 <= IpcMaxWaiters
  BY WaitAssumption
<1>2. /\ State \in [Callers -> TaskStates]
      /\ pc \in [Callers -> {"out"}]
      /\ wake \in [Callers -> Callers]
  BY DEF TaskStates, Callers
<1>3. Locked = FALSE /\ Owner \in Callers
  BY DEF Callers
<1>4. TypeOK
  BY <1>1, <1>2, <1>3 DEF TypeOK
<1>5. MutualExclusion
  BY <1>2 DEF MutualExclusion
<1>6. FreeHasNoWaiters
  BY DEF FreeHasNoWaiters
<1>. QED
  BY <1>4, <1>5, <1>6 DEF IInv

\* Each step of a call, and each kill, keeps the types.
LEMMA NextTypeOK == TypeOK /\ [Next]_vars => TypeOK'
<1>. SUFFICES ASSUME TypeOK, [Next]_vars PROVE TypeOK'
  OBVIOUS
<1>. USE DEF TypeOK
<1>0. Tasks \subseteq Callers /\ Idle \in Callers /\ IpcMaxWaiters \in Nat
  BY WaitAssumption DEF Callers
<1>1. ASSUME NEW t \in Callers, MutexTryLock(t) PROVE TypeOK'
  BY <1>1 DEF MutexTryLock, Goto
<1>2. ASSUME NEW t \in Callers, MutexLockBusy(t) PROVE TypeOK'
  BY <1>2 DEF MutexLockBusy, Goto
<1>3. ASSUME NEW t \in Callers, ParkReturns(t) PROVE TypeOK'
  BY <1>3 DEF ParkReturns, IpcParkReturns, Goto
<1>4. ASSUME NEW t \in Callers, ParkSleeps(t) PROVE TypeOK'
  <2>1. t \in Tasks /\ Len(Wait) < IpcMaxWaiters /\ Wait' = IpcWaitAdd(Wait, t)
    BY <1>4 DEF ParkSleeps, IpcParkSleeps, IpcWaitHasRoom, Callers
  <2>2. Wait' \in Seq(Tasks) /\ Len(Wait') <= Len(Wait) + 1
    BY <2>1, AddType
  <2>3. Len(Wait') <= IpcMaxWaiters
    BY <1>0, <2>1, <2>2
  <2>. QED
    BY <1>4, <2>2, <2>3 DEF ParkSleeps, IpcParkSleeps, Goto, TaskStates
<1>5. ASSUME NEW t \in Callers, ParkWakes(t) PROVE TypeOK'
  <2>1. Wait' = IpcWaitRemove(Wait, t)
    BY <1>5 DEF ParkWakes
  <2>2. Wait' \in Seq(Tasks) /\ Len(Wait') <= Len(Wait)
    BY <2>1, RemoveType
  <2>3. Len(Wait') <= IpcMaxWaiters
    BY <1>0, <2>2
  <2>. QED
    BY <1>5, <2>2, <2>3 DEF ParkWakes, IpcParkWakes, Goto
<1>6. ASSUME NEW t \in Callers, MutexUnlock(t) PROVE TypeOK'
  <2>1. /\ Wait' = TakeLiveRest(Wait)
        /\ Owner' = TakeLiveId(Wait)
        /\ Locked' = (TakeLiveId(Wait) # Idle)
    BY <1>6 DEF MutexUnlock
  <2>2. /\ Wait' \in Seq(Tasks) /\ Len(Wait') <= Len(Wait)
        /\ TakeLiveId(Wait) \in Callers
    BY <2>1, TakeType
  <2>3. Len(Wait') <= IpcMaxWaiters
    BY <1>0, <2>2
  <2>. QED
    BY <1>6, <2>1, <2>2, <2>3 DEF MutexUnlock, TakeLive, Goto
<1>7. ASSUME NEW t \in Callers, Wakes(t) PROVE TypeOK'
  <2>1. CASE SchedWakeTask(t)
    BY <1>0, <1>7, <2>1 DEF Wakes, SchedWakeTask, Goto
  <2>2. CASE SchedUnblock(t)
    BY <1>0, <1>7, <2>2 DEF Wakes, SchedUnblock, Goto, TaskStates
  <2>. QED
    BY <1>7, <2>1, <2>2 DEF Wakes
<1>8. ASSUME NEW t \in Tasks, Killed(t) PROVE TypeOK'
  BY <1>0, <1>8 DEF Killed, SchedKill, TaskStates
<1>9. CASE UNCHANGED vars
  BY <1>9 DEF vars, taskVars
<1>. QED
  BY <1>1, <1>2, <1>3, <1>4, <1>5, <1>6, <1>7, <1>8, <1>9 DEF Next, Step

\* Only the lock calls bring a task to "held", and they do so when the mutex was
\* free or already the caller's; an unlock is the owner's, so nobody else holds.
LEMMA NextExclusion == TypeOK /\ MutualExclusion /\ [Next]_vars => MutualExclusion'
<1>. SUFFICES ASSUME TypeOK, MutualExclusion, [Next]_vars PROVE MutualExclusion'
  OBVIOUS
<1>. USE DEF TypeOK, MutualExclusion
<1>1. ASSUME NEW t \in Callers, MutexTryLock(t) PROVE MutualExclusion'
  BY <1>1 DEF MutexTryLock, MutexHeldByCaller, Goto
<1>2. ASSUME NEW t \in Callers, MutexLockBusy(t) PROVE MutualExclusion'
  BY <1>2 DEF MutexLockBusy, Goto
<1>3. ASSUME NEW t \in Callers, ParkReturns(t) PROVE MutualExclusion'
  BY <1>3 DEF ParkReturns, IpcParkReturns, Goto
<1>4. ASSUME NEW t \in Callers, ParkSleeps(t) PROVE MutualExclusion'
  BY <1>4 DEF ParkSleeps, IpcParkSleeps, Goto
<1>5. ASSUME NEW t \in Callers, ParkWakes(t) PROVE MutualExclusion'
  BY <1>5 DEF ParkWakes, IpcParkWakes, Goto
<1>6. ASSUME NEW t \in Callers, MutexUnlock(t) PROVE MutualExclusion'
  BY <1>6 DEF MutexUnlock, MutexHeldByCaller, TakeLive, Goto
<1>7. ASSUME NEW t \in Callers, Wakes(t) PROVE MutualExclusion'
  BY <1>7 DEF Wakes, SchedWakeTask, SchedUnblock, Goto
<1>8. ASSUME NEW t \in Tasks, Killed(t) PROVE MutualExclusion'
  BY <1>8 DEF Killed, SchedKill
<1>9. CASE UNCHANGED vars
  BY <1>9 DEF vars, taskVars
<1>. QED
  BY <1>1, <1>2, <1>3, <1>4, <1>5, <1>6, <1>7, <1>8, <1>9 DEF Next, Step

\* Nobody parks on a free mutex, and an unlock frees it only when it found no
\* live waiter, in which case it emptied the queue.
LEMMA NextFree == TypeOK /\ FreeHasNoWaiters /\ [Next]_vars => FreeHasNoWaiters'
<1>. SUFFICES ASSUME TypeOK, FreeHasNoWaiters, [Next]_vars, ~Locked'
              PROVE  Wait' = <<>>
  BY DEF FreeHasNoWaiters
<1>. USE DEF TypeOK, FreeHasNoWaiters
<1>1. ASSUME NEW t \in Callers, MutexTryLock(t) PROVE Wait' = <<>>
  BY <1>1 DEF MutexTryLock
<1>2. ASSUME NEW t \in Callers, MutexLockBusy(t) PROVE Wait' = <<>>
  BY <1>2 DEF MutexLockBusy
<1>3. ASSUME NEW t \in Callers, ParkReturns(t) PROVE Wait' = <<>>
  BY <1>3 DEF ParkReturns
<1>4. ASSUME NEW t \in Callers, ParkSleeps(t) PROVE Wait' = <<>>
  BY <1>4 DEF ParkSleeps, IpcParkSleeps, MutexIsFree
<1>5. ASSUME NEW t \in Callers, ParkWakes(t) PROVE Wait' = <<>>
  <2>1. Wait = <<>> /\ Wait' = IpcWaitRemove(Wait, t)
    BY <1>5 DEF ParkWakes
  <2>2. ToSet(<<>>) = {}
    BY DEF ToSet
  <2>. QED
    BY <2>1, <2>2 DEF IpcWaitRemove
<1>6. ASSUME NEW t \in Callers, MutexUnlock(t) PROVE Wait' = <<>>
  <2>1. Locked' = (TakeLiveId(Wait) # Idle) /\ Wait' = TakeLiveRest(Wait)
    BY <1>6 DEF MutexUnlock
  <2>. QED
    BY <2>1, TakeType
<1>7. ASSUME NEW t \in Callers, Wakes(t) PROVE Wait' = <<>>
  BY <1>7 DEF Wakes
<1>8. ASSUME NEW t \in Tasks, Killed(t) PROVE Wait' = <<>>
  BY <1>8 DEF Killed
<1>9. CASE UNCHANGED vars
  BY <1>9 DEF vars
<1>. QED
  BY <1>1, <1>2, <1>3, <1>4, <1>5, <1>6, <1>7, <1>8, <1>9 DEF Next, Step

\* The invariant holds in every reachable state.
LEMMA Invariance == Spec => []IInv
<1>1. IInv /\ [Next]_vars => IInv'
  BY NextTypeOK, NextExclusion, NextFree DEF IInv
<1>. QED
  BY InitIInv, <1>1, PTL DEF Spec

\* Types, and the length of the queue, hold in every reachable state.
THEOREM TypeCorrect == Spec => []TypeOK
BY Invariance, PTL DEF IInv

\* At most one task is between a lock call that succeeded and its unlock, and it
\* is the one the mutex names; killing tasks does not change that.
THEOREM Exclusion == Spec => []MutualExclusion
BY Invariance, PTL DEF IInv

\* A free mutex has an empty wait queue: no task is left parked on it.
THEOREM NobodyWaitsForAFreeMutex == Spec => []FreeHasNoWaiters
BY Invariance, PTL DEF IInv

\* A locked mutex changes hands only to a task that was parked on it.
THEOREM Handoff == Spec => HandoffToWaiter
<1>1. ASSUME IInv, [Next]_vars, Locked, Locked', Owner' # Owner
      PROVE  Owner' \in ToSet(Wait)
  <2>1. ASSUME NEW t \in Callers, MutexTryLock(t) PROVE FALSE
    BY <1>1, <2>1 DEF MutexTryLock, MutexHeldByCaller
  <2>2. ASSUME NEW t \in Callers, MutexUnlock(t) PROVE Owner' \in ToSet(Wait)
    <3>1. Owner' = TakeLiveId(Wait) /\ TakeLiveId(Wait) # Idle
      BY <1>1, <2>2 DEF MutexUnlock
    <3>. QED
      BY <1>1, <3>1, TakeType DEF IInv, TypeOK
  <2>. QED
    BY <1>1, <2>1, <2>2 DEF Next, Step, vars, MutexLockBusy, ParkReturns,
        ParkSleeps, ParkWakes, Wakes, Killed
<1>2. IInv /\ [Next]_vars =>
        [Locked /\ Locked' /\ Owner' # Owner => Owner' \in ToSet(Wait)]_vars
  BY <1>1
<1>. QED
  BY Invariance, <1>2, PTL DEF Spec, HandoffToWaiter

=============================================================================
