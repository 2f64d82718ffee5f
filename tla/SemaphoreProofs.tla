-------------------------- MODULE SemaphoreProofs --------------------------
(***************************************************************************)
(* The semaphore loses no wakeup, for any number of tasks, any size of     *)
(* wait queue, any limit, and whether or not tasks are killed.             *)
(***************************************************************************)
EXTENDS Semaphore, IpcWaitProofs, FiniteSetTheorems

\* w has taken a task off the queue and not yet readied it.
IsWaker(w) == pc[w] \in {"SchedWakeTask", "SchedUnblock"}

\* The queue names each task once, and only tasks still in their SchedBlock;
\* the idle task is never one.
QueueInv ==
    /\ IsInjective(Wait)
    /\ \A u \in ToSet(Wait) : /\ pc[u] = "parked"
                              /\ State[u] \in {"TaskBlocked", "TaskDead"}
    /\ pc[Idle] # "parked"

\* A task about to be woken is off the queue and has one waker.
WakeInv ==
    /\ \A w \in Callers : IsWaker(w) =>
          /\ wake[w] \in Tasks
          /\ wake[w] \notin ToSet(Wait)
          /\ pc[wake[w]] = "parked"
          /\ State[wake[w]] # "TaskReady"
    /\ \A v, w \in Callers : IsWaker(v) /\ IsWaker(w) /\ wake[v] = wake[w] => v = w

\* A blocked task is on the queue or has a waker, alive or not.
SleepInv ==
    \A t \in Tasks : State[t] = "TaskBlocked" =>
        t \in ToSet(Wait) \/ \E w \in Callers : IsWaker(w) /\ wake[w] = t

\* The killed tasks, and those that will look at the count or wake a live task
\* that will.  The idle task, which cannot park, gives up at IpcPark.
Coming ==
    {t \in Callers :
        \/ ~IpcWaitIsLive(t)
        \/ /\ State[t] = "TaskReady"
           /\ pc[t] # "out"
           /\ ~(t = Idle /\ pc[t] = "IpcPark")
           /\ IsWaker(t) => IpcWaitIsLive(wake[t])}

\* Every permit a queued task could have has one of those to show for it.
CountInv == LiveAt(Wait) # {} => Count <= Cardinality(Coming)

\* The inductive invariant.
IInv == TypeOK /\ QueueInv /\ WakeInv /\ SleepInv /\ CountInv

-----------------------------------------------------------------------------

\* A semaphore that was just initialised satisfies it.
LEMMA InitIInv == Init => IInv
<1>. SUFFICES ASSUME Init PROVE IInv
  OBVIOUS
<1>. USE DEF Init, TaskInit, SemInit
<1>1. Wait \in Seq(Tasks) /\ Len(Wait) = 0 /\ 0 <= IpcMaxWaiters /\ ToSet(Wait) = {}
  BY WaitAssumption DEF ToSet
<1>2. /\ State \in [Callers -> {"TaskReady"}]
      /\ pc \in [Callers -> {"out"}]
      /\ wake \in [Callers -> Callers]
  BY DEF Callers
<1>3. Count \in Nat /\ (Limit # 0 => Count <= Limit)
  BY SemAssumption
<1>4. TypeOK
  BY <1>1, <1>2, <1>3 DEF TypeOK, TaskStates
<1>5. QueueInv
  BY <1>1, <1>2 DEF QueueInv, IsInjective, Callers
<1>6. WakeInv
  BY <1>2 DEF WakeInv, IsWaker
<1>7. SleepInv
  BY <1>2 DEF SleepInv, Callers
<1>8. CountInv
  BY <1>1 DEF CountInv, LiveAt
<1>. QED
  BY <1>4, <1>5, <1>6, <1>7, <1>8 DEF IInv

\* Each step of a call, and each kill, keeps the types and the limit.
LEMMA NextTypeOK == TypeOK /\ [Next]_vars => TypeOK'
<1>. SUFFICES ASSUME TypeOK, [Next]_vars PROVE TypeOK'
  OBVIOUS
<1>. USE DEF TypeOK
<1>0. Tasks \subseteq Callers /\ Idle \in Callers /\ IpcMaxWaiters \in Nat
  BY WaitAssumption DEF Callers
<1>1. ASSUME NEW t \in Callers, SemTake(t) PROVE TypeOK'
  <2>1. Count' \in Nat /\ (Limit # 0 => Count' <= Limit)
    BY <1>1, SemAssumption DEF SemTake
  <2>. QED
    BY <1>1, <2>1 DEF SemTake, Goto
<1>2. ASSUME NEW t \in Callers, SemWaitEmpty(t) PROVE TypeOK'
  BY <1>2 DEF SemWaitEmpty, Goto
<1>3. ASSUME NEW t \in Callers, ParkReturns(t) PROVE TypeOK'
  BY <1>3 DEF ParkReturns, IpcParkReturns, Goto
<1>4. ASSUME NEW t \in Callers, ParkSleeps(t) PROVE TypeOK'
  <2>1. t \in Tasks /\ Len(Wait) < IpcMaxWaiters /\ Wait' = IpcWaitAdd(Wait, t)
    BY <1>4 DEF ParkSleeps, IpcParkSleeps, IpcWaitHasRoom, Callers
  <2>2. Wait' \in Seq(Tasks) /\ Len(Wait') <= Len(Wait) + 1
    BY <2>1, AddType
  <2>3. Len(Wait') <= IpcMaxWaiters
    BY <1>0, <2>1, <2>2
  <2>. QED
    BY <1>4, <2>2, <2>3 DEF ParkSleeps, IpcParkSleeps, Goto, TaskStates
<1>5. ASSUME NEW t \in Callers, ParkWakes(t) PROVE TypeOK'
  <2>1. Wait' = IpcWaitRemove(Wait, t)
    BY <1>5 DEF ParkWakes
  <2>2. Wait' \in Seq(Tasks) /\ Len(Wait') <= Len(Wait)
    BY <2>1, RemoveType
  <2>3. Len(Wait') <= IpcMaxWaiters
    BY <1>0, <2>2
  <2>. QED
    BY <1>5, <2>2, <2>3 DEF ParkWakes, IpcParkWakes, Goto
<1>6. ASSUME NEW t \in Callers, SemPost(t) PROVE TypeOK'
  <2>1. Count' \in Nat /\ (Limit # 0 => Count' <= Limit)
    BY <1>6, SemAssumption DEF SemPost
  <2>. QED
    BY <1>6, <2>1 DEF SemPost, Goto
<1>7. ASSUME NEW t \in Callers, IpcWakeOne(t) PROVE TypeOK'
  <2>1. Wait' = TakeLiveRest(Wait)
    BY <1>7 DEF IpcWakeOne
  <2>2. /\ Wait' \in Seq(Tasks) /\ Len(Wait') <= Len(Wait)
        /\ TakeLiveId(Wait) \in Callers
    BY <2>1, TakeType
  <2>3. Len(Wait') <= IpcMaxWaiters
    BY <1>0, <2>2
  <2>. QED
    BY <1>7, <2>2, <2>3 DEF IpcWakeOne, TakeLive, Goto
<1>8. ASSUME NEW t \in Callers, Wakes(t) PROVE TypeOK'
  <2>1. CASE SchedWakeTask(t)
    BY <1>0, <1>8, <2>1 DEF Wakes, SchedWakeTask, Goto
  <2>2. CASE SchedUnblock(t)
    BY <1>0, <1>8, <2>2 DEF Wakes, SchedUnblock, Goto, TaskStates
  <2>. QED
    BY <1>8, <2>1, <2>2 DEF Wakes
<1>9. ASSUME NEW t \in Tasks, Killed(t) PROVE TypeOK'
  BY <1>0, <1>9 DEF Killed, SchedKill, TaskStates
<1>10. CASE UNCHANGED vars
  BY <1>10 DEF vars, taskVars
<1>. QED
  BY <1>1, <1>2, <1>3, <1>4, <1>5, <1>6, <1>7, <1>8, <1>9, <1>10 DEF Next, Step

-----------------------------------------------------------------------------

\* What the queue, the wakers and the sleepers have to do with one another.
ParkInv == QueueInv /\ WakeInv /\ SleepInv

\* A step that moves one task between two points where it neither sleeps nor
\* wakes, and changes nothing else of the tasks and the queue, keeps ParkInv.
LEMMA QuietStep ==
    ASSUME TypeOK, ParkInv, NEW t \in Callers, NEW l,
           UNCHANGED <<State, wake, Wait>>, Goto(t, l),
           pc[t] \notin {"parked", "SchedWakeTask", "SchedUnblock"},
           l \notin {"parked", "SchedWakeTask", "SchedUnblock"}
    PROVE  ParkInv'
<1>. USE DEF TypeOK, ParkInv, IsWaker, Goto
<1>0. \A u \in ToSet(Wait) : u \in Callers
  BY DEF ToSet, Callers
<1>1. QueueInv'
  BY <1>0 DEF QueueInv, Callers
<1>2. WakeInv'
  BY DEF WakeInv, Callers
<1>3. SleepInv'
  BY DEF SleepInv, Callers
<1>. QED
  BY <1>1, <1>2, <1>3

\* Every step keeps ParkInv.
LEMMA NextParkInv == TypeOK /\ ParkInv /\ [Next]_vars => ParkInv'
<1>. SUFFICES ASSUME TypeOK, ParkInv, [Next]_vars PROVE ParkInv'
  OBVIOUS
<1>0. /\ Tasks \subseteq Callers /\ Idle \in Callers /\ Idle \notin Tasks
      /\ ToSet(Wait) \subseteq Tasks
  BY WaitAssumption DEF Callers, TypeOK, ToSet
<1>1. ASSUME NEW t \in Callers, SemTake(t) PROVE ParkInv'
  BY <1>1, QuietStep DEF SemTake, At
<1>2. ASSUME NEW t \in Callers, SemWaitEmpty(t) PROVE ParkInv'
  BY <1>2, QuietStep DEF SemWaitEmpty, At
<1>3. ASSUME NEW t \in Callers, ParkReturns(t) PROVE ParkInv'
  BY <1>3, QuietStep DEF ParkReturns, IpcParkReturns, At
<1>4. ASSUME NEW t \in Callers, ParkSleeps(t) PROVE ParkInv'
  <2>1. /\ t \in Tasks /\ pc[t] = "IpcPark"
        /\ State' = [State EXCEPT ![t] = "TaskBlocked"]
        /\ pc' = [pc EXCEPT ![t] = "parked"]
        /\ wake' = wake
        /\ Wait' = IpcWaitAdd(Wait, t)
    BY <1>4 DEF ParkSleeps, IpcParkSleeps, At, Goto, Callers
  <2>2. ToSet(Wait') = ToSet(Wait) \cup {t} /\ IsInjective(Wait')
    BY <2>1, AddType, AddInjective DEF TypeOK, ParkInv, QueueInv
  <2>3. QueueInv'
    BY <1>0, <2>1, <2>2 DEF TypeOK, ParkInv, QueueInv
  <2>4. WakeInv'
    BY <1>0, <2>1, <2>2 DEF TypeOK, ParkInv, WakeInv, IsWaker
  <2>5. SleepInv'
    BY <1>0, <2>1, <2>2 DEF TypeOK, ParkInv, SleepInv, IsWaker
  <2>. QED
    BY <2>3, <2>4, <2>5 DEF ParkInv
<1>5. ASSUME NEW t \in Callers, ParkWakes(t) PROVE ParkInv'
  <2>1. /\ pc[t] = "parked" /\ State[t] = "TaskReady"
        /\ State' = State
        /\ pc' = [pc EXCEPT ![t] = "IpcPark"]
        /\ wake' = wake
        /\ Wait' = IpcWaitRemove(Wait, t)
    BY <1>5 DEF ParkWakes, IpcParkWakes, At, Goto
  <2>2. t \notin ToSet(Wait) /\ Wait' = Wait
    BY <2>1 DEF ParkInv, QueueInv, IpcWaitRemove
  <2>3. QueueInv'
    BY <1>0, <2>1, <2>2 DEF TypeOK, ParkInv, QueueInv
  <2>4. WakeInv'
    BY <1>0, <2>1, <2>2 DEF TypeOK, ParkInv, WakeInv, IsWaker
  <2>5. SleepInv'
    BY <1>0, <2>1, <2>2 DEF TypeOK, ParkInv, SleepInv, IsWaker
  <2>. QED
    BY <2>3, <2>4, <2>5 DEF ParkInv
<1>6. ASSUME NEW t \in Callers, SemPost(t) PROVE ParkInv'
  BY <1>6, QuietStep DEF SemPost, At
<1>7. ASSUME NEW t \in Callers, IpcWakeOne(t) PROVE ParkInv'
  <2>. DEFINE u == TakeLiveId(Wait)
  <2>1. /\ pc[t] = "IpcWakeOne"
        /\ State' = State
        /\ pc' = [pc EXCEPT ![t] = IF u = Idle THEN "out" ELSE "SchedWakeTask"]
        /\ wake' = [wake EXCEPT ![t] = u]
        /\ Wait' = TakeLiveRest(Wait)
    BY <1>7 DEF IpcWakeOne, TakeLive, At, Goto
  <2>2. CASE u = Idle
    <3>1. Wait' = <<>> /\ LiveAt(Wait) = {}
      BY <2>1, <2>2, TakeType DEF TypeOK
    <3>2. ToSet(Wait') = {} /\ IsInjective(Wait')
      BY <3>1 DEF ToSet, IsInjective
    <3>3. \A v \in ToSet(Wait) : State[v] # "TaskBlocked"
      BY <3>1 DEF LiveAt, ToSet, IpcWaitIsLive, TypeOK
    <3>4. QueueInv'
      BY <1>0, <2>1, <2>2, <3>2 DEF QueueInv, ParkInv, TypeOK
    <3>5. WakeInv'
      BY <1>0, <2>1, <2>2, <3>2 DEF TypeOK, ParkInv, WakeInv, IsWaker
    <3>6. SleepInv'
      BY <1>0, <2>1, <2>2, <3>3 DEF TypeOK, ParkInv, SleepInv, IsWaker
    <3>. QED
      BY <3>4, <3>5, <3>6 DEF ParkInv
  <2>3. CASE u # Idle
    <3>1. /\ u \in ToSet(Wait) /\ u \in Tasks /\ IpcWaitIsLive(u)
          /\ Wait' = IpcWaitRemove(Wait, u)
      BY <2>1, <2>3, TakeType DEF TypeOK, TakeLiveRest
    <3>. HIDE DEF u
    <3>2. /\ IsInjective(Wait') /\ u \notin ToSet(Wait')
          /\ ToSet(Wait') \subseteq ToSet(Wait)
          /\ ToSet(Wait) \subseteq ToSet(Wait') \cup {u}
      BY <3>1, RemoveType, RemoveInjective DEF TypeOK, ParkInv, QueueInv
    <3>3. pc[u] = "parked" /\ State[u] = "TaskBlocked"
      BY <3>1 DEF ParkInv, QueueInv, IpcWaitIsLive
    <3>4. QueueInv'
      BY <1>0, <2>1, <3>2 DEF TypeOK, ParkInv, QueueInv
    <3>5. WakeInv'
      BY <1>0, <2>1, <2>3, <3>1, <3>2, <3>3 DEF TypeOK, ParkInv, WakeInv, IsWaker
    <3>6. SleepInv'
      BY <1>0, <2>1, <2>3, <3>1, <3>2 DEF TypeOK, ParkInv, SleepInv, IsWaker
    <3>. QED
      BY <3>4, <3>5, <3>6 DEF ParkInv
  <2>. QED
    BY <2>2, <2>3
<1>8. ASSUME NEW t \in Callers, SchedWakeTask(t), UNCHANGED Wait PROVE ParkInv'
  <2>1. /\ pc[t] = "SchedWakeTask"
        /\ State' = State
        /\ pc' = [pc EXCEPT ![t] =
                     IF State[wake[t]] = "TaskBlocked" THEN "SchedUnblock" ELSE "out"]
        /\ wake' = [wake EXCEPT ![t] =
                     IF State[wake[t]] = "TaskBlocked" THEN wake[t] ELSE Idle]
    BY <1>8 DEF SchedWakeTask, At, Goto, TypeOK
  <2>2. QueueInv'
    BY <1>0, <1>8, <2>1 DEF TypeOK, ParkInv, QueueInv
  <2>3. WakeInv'
    BY <1>0, <1>8, <2>1 DEF TypeOK, ParkInv, WakeInv, IsWaker
  <2>4. SleepInv'
    BY <1>0, <1>8, <2>1 DEF TypeOK, ParkInv, SleepInv, IsWaker
  <2>. QED
    BY <2>2, <2>3, <2>4 DEF ParkInv
<1>9. ASSUME NEW t \in Callers, SchedUnblock(t), UNCHANGED Wait PROVE ParkInv'
  <2>. DEFINE u == wake[t]
              st == IF IpcWaitIsLive(u) THEN "TaskReady" ELSE "TaskWild"
  <2>1. /\ pc[t] = "SchedUnblock"
        /\ State' = [State EXCEPT ![u] = st]
        /\ pc' = [pc EXCEPT ![t] = "out"]
        /\ wake' = [wake EXCEPT ![t] = Idle]
    BY <1>9 DEF SchedUnblock, At, Goto
  <2>2. u \in Tasks /\ u \notin ToSet(Wait) /\ pc[u] = "parked" /\ u # t
    BY <2>1 DEF ParkInv, WakeInv, IsWaker
  <2>3. st # "TaskBlocked"
    OBVIOUS
  <2>4. \A w \in Callers : IsWaker(w) /\ w # t => wake[w] # u
    BY <2>1 DEF ParkInv, WakeInv, IsWaker
  <2>. HIDE DEF u, st
  <2>5. QueueInv'
    BY <1>0, <1>9, <2>1, <2>2 DEF TypeOK, ParkInv, QueueInv
  <2>6. WakeInv'
    BY <1>0, <1>9, <2>1, <2>2, <2>4 DEF TypeOK, ParkInv, WakeInv, IsWaker
  <2>7. SleepInv'
    <3>. SUFFICES ASSUME NEW v \in Tasks, State'[v] = "TaskBlocked"
                  PROVE  v \in ToSet(Wait') \/ \E w \in Callers : IsWaker(w)' /\ wake'[w] = v
      BY DEF SleepInv
    <3>1. v # u /\ State[v] = "TaskBlocked"
      BY <1>0, <2>1, <2>2, <2>3 DEF TypeOK
    <3>2. CASE v \in ToSet(Wait)
      BY <1>9, <3>2
    <3>3. ASSUME NEW w \in Callers, IsWaker(w), wake[w] = v
          PROVE  IsWaker(w)' /\ wake'[w] = v
      BY <2>1, <3>1, <3>3 DEF TypeOK, IsWaker, u
    <3>. QED
      BY <3>1, <3>2, <3>3 DEF ParkInv, SleepInv
  <2>. QED
    BY <2>5, <2>6, <2>7 DEF ParkInv
<1>10. ASSUME NEW t \in Tasks, Killed(t) PROVE ParkInv'
  <2>1. /\ State' = [State EXCEPT ![t] = "TaskDead"]
        /\ pc' = pc /\ wake' = wake /\ Wait' = Wait
    BY <1>10 DEF Killed, SchedKill
  <2>2. QueueInv'
    BY <1>0, <2>1 DEF TypeOK, ParkInv, QueueInv
  <2>3. WakeInv'
    BY <1>0, <2>1 DEF TypeOK, ParkInv, WakeInv, IsWaker
  <2>4. SleepInv'
    BY <1>0, <2>1 DEF TypeOK, ParkInv, SleepInv, IsWaker
  <2>. QED
    BY <2>2, <2>3, <2>4 DEF ParkInv
<1>11. CASE UNCHANGED vars
  BY <1>11 DEF vars, taskVars, ParkInv, QueueInv, WakeInv, SleepInv, IsWaker
<1>. QED
  BY <1>1, <1>2, <1>3, <1>4, <1>5, <1>6, <1>7, <1>8, <1>9, <1>10, <1>11
     DEF Next, Step, Wakes

-----------------------------------------------------------------------------

\* Counting: a set that has kept all its elements, gained one, lost one at most,
\* or had one replaced.
LEMMA Counting ==
    ASSUME NEW A, NEW B, IsFiniteSet(A), IsFiniteSet(B), NEW x, NEW y
    PROVE  /\ Cardinality(A) \in Nat /\ Cardinality(B) \in Nat
           /\ A \subseteq B => Cardinality(A) <= Cardinality(B)
           /\ A \cup {y} \subseteq B /\ y \notin A => Cardinality(A) + 1 <= Cardinality(B)
           /\ A \ {x} \subseteq B => Cardinality(A) - 1 <= Cardinality(B)
           /\ (A \ {x}) \cup {y} \subseteq B /\ y \notin A =>
                  Cardinality(A) <= Cardinality(B)
<1>1. Cardinality(A) \in Nat /\ Cardinality(B) \in Nat
  BY FS_CardinalityType
<1>2. A \subseteq B => Cardinality(A) <= Cardinality(B)
  BY FS_Subset
<1>3. ASSUME A \cup {y} \subseteq B, y \notin A
      PROVE  Cardinality(A) + 1 <= Cardinality(B)
  <2>1. IsFiniteSet(A \cup {y}) /\ Cardinality(A \cup {y}) = Cardinality(A) + 1
    BY <1>3, FS_AddElement
  <2>. QED
    BY <1>3, <2>1, FS_Subset
<1>4. /\ IsFiniteSet(A \ {x})
      /\ Cardinality(A \ {x}) \in Nat
      /\ Cardinality(A) - 1 <= Cardinality(A \ {x})
  <2>1. /\ IsFiniteSet(A \ {x})
        /\ Cardinality(A \ {x}) = IF x \in A THEN Cardinality(A) - 1 ELSE Cardinality(A)
    BY FS_RemoveElement
  <2>2. Cardinality(A \ {x}) \in Nat
    BY <2>1, FS_CardinalityType
  <2>. QED
    BY <1>1, <2>1, <2>2
<1>5. ASSUME A \ {x} \subseteq B PROVE Cardinality(A) - 1 <= Cardinality(B)
  <2>1. Cardinality(A \ {x}) <= Cardinality(B)
    BY <1>5, FS_Subset
  <2>. QED
    BY <1>1, <1>4, <2>1
<1>6. ASSUME (A \ {x}) \cup {y} \subseteq B, y \notin A
      PROVE  Cardinality(A) <= Cardinality(B)
  <2>. DEFINE C == A \ {x}
  <2>1. y \notin C /\ IsFiniteSet(C) /\ Cardinality(C) \in Nat
    BY <1>4, <1>6
  <2>2. Cardinality(A) - 1 <= Cardinality(C) /\ C \cup {y} \subseteq B
    BY <1>4, <1>6
  <2>. HIDE DEF C
  <2>3. IsFiniteSet(C \cup {y}) /\ Cardinality(C \cup {y}) = Cardinality(C) + 1
    BY <2>1, FS_AddElement
  <2>4. Cardinality(C \cup {y}) <= Cardinality(B)
    BY <2>2, FS_Subset
  <2>. QED
    BY <1>1, <2>1, <2>2, <2>3, <2>4
<1>. QED
  BY <1>1, <1>2, <1>3, <1>5, <1>6

\* There are finitely many tasks.
LEMMA ComingFinite == IsFiniteSet(Callers) /\ IsFiniteSet(Coming) /\ IsFiniteSet(Coming')
<1>1. IsFiniteSet(Callers)
  BY WaitAssumption, FS_AddElement DEF Callers
<1>2. Coming \subseteq Callers /\ Coming' \subseteq Callers
  BY DEF Coming
<1>. QED
  BY <1>1, <1>2, FS_Subset

\* A step that leaves Count and loses nobody who is coming keeps CountInv, as
\* long as it queues nobody.
LEMMA NobodyLost ==
    ASSUME TypeOK, CountInv, Count' = Count, Coming \subseteq Coming',
           LiveAt(Wait)' # {} => LiveAt(Wait) # {}
    PROVE  CountInv'
<1>1. Cardinality(Coming) \in Nat /\ Cardinality(Coming') \in Nat
  BY ComingFinite, Counting
<1>2. Cardinality(Coming) <= Cardinality(Coming')
  BY ComingFinite, Counting
<1>. QED
  BY <1>1, <1>2 DEF CountInv, TypeOK

\* A step after which no permit is free keeps CountInv.
LEMMA NoPermit == ASSUME Count' = 0 PROVE CountInv'
BY ComingFinite, FS_CardinalityType DEF CountInv

\* Every step keeps the permits and the tasks coming for them in balance: a post
\* adds one of each, a take removes one of each at most, a waker hands its place
\* on to the task it wakes, and a killed task keeps its place.
LEMMA NextCountInv == TypeOK /\ ParkInv /\ CountInv /\ [Next]_vars => CountInv'
<1>. SUFFICES ASSUME TypeOK, ParkInv, CountInv, [Next]_vars PROVE CountInv'
  OBVIOUS
<1>0. /\ Tasks \subseteq Callers /\ Idle \in Callers /\ Idle \notin Tasks
      /\ ToSet(Wait) \subseteq Tasks
  BY WaitAssumption DEF Callers, TypeOK, ToSet
<1>1. ASSUME NEW t \in Callers, SemTake(t) PROVE CountInv'
  <2>1. Coming \ {t} \subseteq Coming'
    BY <1>1 DEF SemTake, Goto, Coming, IsWaker, IpcWaitIsLive, TypeOK
  <2>2. /\ Cardinality(Coming) \in Nat /\ Cardinality(Coming') \in Nat
        /\ Cardinality(Coming) - 1 <= Cardinality(Coming')
    BY <2>1, ComingFinite, Counting
  <2>3. Count \in Nat /\ Count' = Count - 1 /\ (LiveAt(Wait)' # {} => LiveAt(Wait) # {})
    BY <1>1 DEF SemTake, LiveAt, IpcWaitIsLive, TypeOK
  <2>. QED
    BY <2>2, <2>3 DEF CountInv
<1>2. ASSUME NEW t \in Callers, SemWaitEmpty(t) PROVE CountInv'
  BY <1>2, NoPermit DEF SemWaitEmpty
<1>3. ASSUME NEW t \in Callers, ParkReturns(t) PROVE CountInv'
  <2>1. UNCHANGED <<State, wake, Wait, Count>> /\ pc[t] = "IpcPark" /\ State[t] = "TaskReady"
    BY <1>3 DEF ParkReturns, IpcParkReturns, At
  <2>2. LiveAt(Wait)' # {} => LiveAt(Wait) # {}
    BY <2>1 DEF LiveAt, IpcWaitIsLive
  <2>3. CASE t = Idle
    <3>1. Goto(t, "out")
      BY <1>3, <2>3 DEF ParkReturns, IpcParkReturns
    <3>2. Coming \subseteq Coming'
      BY <2>1, <2>3, <3>1 DEF Goto, Coming, IsWaker, IpcWaitIsLive, TypeOK
    <3>. QED
      BY <2>1, <2>2, <3>2, NobodyLost
  <2>4. CASE t # Idle /\ SemHasPermit
    <3>1. Goto(t, "SemWait")
      BY <1>3, <2>4 DEF ParkReturns, IpcParkReturns
    <3>2. Coming \subseteq Coming'
      BY <2>1, <3>1 DEF Goto, Coming, IsWaker, IpcWaitIsLive, TypeOK
    <3>. QED
      BY <2>1, <2>2, <3>2, NobodyLost
  <2>5. CASE ~SemHasPermit
    <3>1. Count' = 0
      BY <2>1, <2>5 DEF SemHasPermit, TypeOK
    <3>. QED
      BY <3>1, NoPermit
  <2>. QED
    BY <2>3, <2>4, <2>5
<1>4. ASSUME NEW t \in Callers, ParkSleeps(t) PROVE CountInv'
  <2>1. Count' = 0
    BY <1>4 DEF ParkSleeps, IpcParkSleeps, SemHasPermit, TypeOK
  <2>. QED
    BY <2>1, NoPermit
<1>5. ASSUME NEW t \in Callers, ParkWakes(t) PROVE CountInv'
  <2>1. /\ pc[t] = "parked" /\ State[t] = "TaskReady"
        /\ State' = State /\ wake' = wake /\ Count' = Count
        /\ pc' = [pc EXCEPT ![t] = "IpcPark"]
        /\ Wait' = IpcWaitRemove(Wait, t)
    BY <1>5 DEF ParkWakes, IpcParkWakes, At, Goto
  <2>2. Wait' = Wait /\ t # Idle
    BY <2>1 DEF ParkInv, QueueInv, IpcWaitRemove
  <2>3. LiveAt(Wait)' # {} => LiveAt(Wait) # {}
    BY <2>1, <2>2 DEF LiveAt, IpcWaitIsLive
  <2>4. Coming \subseteq Coming'
    BY <2>1, <2>2 DEF Coming, IsWaker, IpcWaitIsLive, TypeOK
  <2>. QED
    BY <2>1, <2>3, <2>4, NobodyLost
<1>6. ASSUME NEW t \in Callers, SemPost(t) PROVE CountInv'
  <2>1. Coming \cup {t} \subseteq Coming' /\ t \notin Coming
    BY <1>6 DEF SemPost, Goto, At, Coming, IsWaker, IpcWaitIsLive, TypeOK
  <2>2. /\ Cardinality(Coming) \in Nat /\ Cardinality(Coming') \in Nat
        /\ Cardinality(Coming) + 1 <= Cardinality(Coming')
    BY <2>1, ComingFinite, Counting
  <2>3. Count \in Nat /\ Count' = Count + 1 /\ (LiveAt(Wait)' # {} => LiveAt(Wait) # {})
    BY <1>6 DEF SemPost, LiveAt, IpcWaitIsLive, TypeOK
  <2>. QED
    BY <2>2, <2>3 DEF CountInv
<1>7. ASSUME NEW t \in Callers, IpcWakeOne(t) PROVE CountInv'
  <2>. DEFINE u == TakeLiveId(Wait)
  <2>1. /\ pc[t] = "IpcWakeOne" /\ State[t] = "TaskReady"
        /\ State' = State /\ Count' = Count
        /\ pc' = [pc EXCEPT ![t] = IF u = Idle THEN "out" ELSE "SchedWakeTask"]
        /\ wake' = [wake EXCEPT ![t] = u]
        /\ Wait' = TakeLiveRest(Wait)
    BY <1>7 DEF IpcWakeOne, TakeLive, At, Goto
  <2>2. CASE u = Idle
    <3>1. Wait' = <<>>
      BY <2>1, <2>2, TakeType DEF TypeOK
    <3>. QED
      BY <3>1 DEF CountInv, LiveAt
  <2>3. CASE u # Idle
    <3>1. LiveAt(Wait) # {} /\ IpcWaitIsLive(u)
      BY <2>3, TakeType DEF TypeOK
    <3>. HIDE DEF u
    <3>2. Coming \subseteq Coming'
      BY <2>1, <2>3, <3>1 DEF Coming, IsWaker, IpcWaitIsLive, TypeOK
    <3>. QED
      BY <2>1, <3>1, <3>2, NobodyLost
  <2>. QED
    BY <2>2, <2>3
<1>8. ASSUME NEW t \in Callers, SchedWakeTask(t), UNCHANGED <<Count, Wait>>
      PROVE  CountInv'
  <2>. DEFINE b == State[wake[t]] = "TaskBlocked"
  <2>1. /\ pc[t] = "SchedWakeTask" /\ State[t] = "TaskReady"
        /\ State' = State
        /\ pc' = [pc EXCEPT ![t] = IF b THEN "SchedUnblock" ELSE "out"]
        /\ wake' = [wake EXCEPT ![t] = IF b THEN wake[t] ELSE Idle]
    BY <1>8 DEF SchedWakeTask, At, Goto, TypeOK
  <2>2. ~b => ~IpcWaitIsLive(wake[t])
    BY <2>1 DEF ParkInv, WakeInv, IsWaker, IpcWaitIsLive
  <2>3. Coming \subseteq Coming'
    BY <2>1, <2>2 DEF Coming, IsWaker, IpcWaitIsLive, TypeOK
  <2>4. LiveAt(Wait)' # {} => LiveAt(Wait) # {}
    BY <1>8, <2>1 DEF LiveAt, IpcWaitIsLive
  <2>. QED
    BY <1>8, <2>3, <2>4, NobodyLost
<1>9. ASSUME NEW t \in Callers, SchedUnblock(t), UNCHANGED <<Count, Wait>>
      PROVE  CountInv'
  <2>. DEFINE u == wake[t]
              st == IF IpcWaitIsLive(u) THEN "TaskReady" ELSE "TaskWild"
  <2>1. /\ pc[t] = "SchedUnblock" /\ State[t] = "TaskReady"
        /\ State' = [State EXCEPT ![u] = st]
        /\ pc' = [pc EXCEPT ![t] = "out"]
        /\ wake' = [wake EXCEPT ![t] = Idle]
    BY <1>9 DEF SchedUnblock, At, Goto
  <2>2. /\ u \in Tasks /\ u \notin ToSet(Wait) /\ pc[u] = "parked" /\ u # t
        /\ State[u] # "TaskReady"
    BY <2>1 DEF ParkInv, WakeInv, IsWaker
  <2>3. LiveAt(Wait)' # {} => LiveAt(Wait) # {}
    BY <1>0, <1>9, <2>1, <2>2 DEF LiveAt, IpcWaitIsLive, ToSet, TypeOK
  <2>4. CASE IpcWaitIsLive(u)
    <3>1. (Coming \ {t}) \cup {u} \subseteq Coming' /\ u \notin Coming
      BY <1>0, <2>1, <2>2, <2>4 DEF Coming, IsWaker, IpcWaitIsLive, TypeOK
    <3>2. /\ Cardinality(Coming) \in Nat /\ Cardinality(Coming') \in Nat
          /\ Cardinality(Coming) <= Cardinality(Coming')
      BY <3>1, ComingFinite, Counting
    <3>. QED
      BY <1>9, <2>3, <3>2 DEF CountInv, TypeOK
  <2>5. CASE ~IpcWaitIsLive(u)
    <3>1. Coming \subseteq Coming'
      BY <1>0, <2>1, <2>2, <2>5 DEF Coming, IsWaker, IpcWaitIsLive, TypeOK
    <3>. QED
      BY <1>9, <2>3, <3>1, NobodyLost
  <2>. QED
    BY <2>4, <2>5
<1>10. ASSUME NEW t \in Tasks, Killed(t) PROVE CountInv'
  <2>1. /\ State' = [State EXCEPT ![t] = "TaskDead"] /\ IpcWaitIsLive(t)
        /\ pc' = pc /\ wake' = wake /\ Wait' = Wait /\ Count' = Count
    BY <1>10 DEF Killed, SchedKill
  <2>2. LiveAt(Wait)' # {} => LiveAt(Wait) # {}
    BY <1>0, <2>1 DEF LiveAt, IpcWaitIsLive, TypeOK
  <2>3. ASSUME NEW w \in Callers, IsWaker(w), wake[w] = t PROVE CountInv'
    <3>1. State[t] # "TaskReady" /\ \A v \in Callers : IsWaker(v) /\ wake[v] = t => v = w
      BY <2>3 DEF ParkInv, WakeInv
    <3>2. (Coming \ {w}) \cup {t} \subseteq Coming' /\ t \notin Coming
      BY <1>0, <2>1, <3>1 DEF Coming, IsWaker, IpcWaitIsLive, TypeOK
    <3>3. /\ Cardinality(Coming) \in Nat /\ Cardinality(Coming') \in Nat
          /\ Cardinality(Coming) <= Cardinality(Coming')
      BY <3>2, ComingFinite, Counting
    <3>. QED
      BY <2>1, <2>2, <3>3 DEF CountInv, TypeOK
  <2>4. CASE \A w \in Callers : IsWaker(w) => wake[w] # t
    <3>1. Coming \subseteq Coming'
      BY <1>0, <2>1, <2>4 DEF Coming, IsWaker, IpcWaitIsLive, TypeOK
    <3>. QED
      BY <2>1, <2>2, <3>1, NobodyLost
  <2>. QED
    BY <2>3, <2>4
<1>11. CASE UNCHANGED vars
  BY <1>11 DEF vars, taskVars, CountInv, Coming, IsWaker, LiveAt, IpcWaitIsLive
<1>. QED
  BY <1>1, <1>2, <1>3, <1>4, <1>5, <1>6, <1>7, <1>8, <1>9, <1>10, <1>11
     DEF Next, Step, Wakes

-----------------------------------------------------------------------------

\* The invariant holds in every reachable state.
LEMMA Invariance == Spec => []IInv
<1>1. IInv /\ [Next]_vars => IInv'
  BY NextTypeOK, NextParkInv, NextCountInv DEF IInv, ParkInv
<1>. QED
  BY InitIInv, <1>1, PTL DEF Spec

\* Types, the limit on the count and the length of the queue hold for ever.
THEOREM TypeCorrect == Spec => []TypeOK
BY Invariance, PTL DEF IInv

\* No wakeup of a semaphore is lost: while a live task is queued, every permit
\* has an awake task in a call, or a killed one, to answer for it.
THEOREM WakeupsAreNotLost == Spec => []NoLostWakeup
<1>1. IInv => NoLostWakeup
  <2>. SUFFICES ASSUME IInv, LiveAt(Wait) # {}
                PROVE  Count <= Cardinality(InFlight) + Cardinality(Gone)
    BY DEF NoLostWakeup
  <2>. DEFINE U == InFlight \cup Gone
  <2>1. IsFiniteSet(InFlight) /\ IsFiniteSet(Gone) /\ IsFiniteSet(Coming)
    <3>1. InFlight \subseteq Callers /\ Gone \subseteq Callers
      BY DEF InFlight, Gone
    <3>. QED
      BY <3>1, ComingFinite, FS_Subset
  <2>2. Coming \subseteq U
    BY DEF Coming, InFlight, Gone
  <2>3. /\ IsFiniteSet(U)
        /\ Cardinality(U) = Cardinality(InFlight) + Cardinality(Gone)
                               - Cardinality(InFlight \cap Gone)
    BY <2>1, FS_Union
  <2>4. IsFiniteSet(InFlight \cap Gone)
    BY <2>1, FS_Subset
  <2>. HIDE DEF U
  <2>5. Cardinality(Coming) <= Cardinality(U)
    BY <2>2, <2>3, FS_Subset
  <2>6. /\ Cardinality(InFlight) \in Nat /\ Cardinality(Gone) \in Nat
        /\ Cardinality(InFlight \cap Gone) \in Nat /\ Cardinality(Coming) \in Nat
    BY <2>1, <2>4, FS_CardinalityType
  <2>7. Count \in Nat /\ Count <= Cardinality(Coming)
    BY DEF IInv, CountInv, TypeOK
  <2>. QED
    BY <2>3, <2>5, <2>6, <2>7
<1>. QED
  BY Invariance, <1>1, PTL

\* Without kills, no task dies.
AllLive == \A t \in Callers : IpcWaitIsLive(t)

\* SchedUnblock makes a ready task of a live one, and only SchedKill ends one.
LEMMA AllStayAlive == ASSUME ~Kills PROVE Spec => []AllLive
<1>1. Init => AllLive
  BY DEF Init, TaskInit, AllLive, IpcWaitIsLive
<1>2. IInv /\ AllLive /\ [Next]_vars => AllLive'
  <2>. SUFFICES ASSUME IInv, AllLive, [Next]_vars PROVE AllLive'
    OBVIOUS
  <2>. USE DEF AllLive, IpcWaitIsLive, IInv, TypeOK
  <2>1. ASSUME NEW t \in Callers, SchedUnblock(t) PROVE AllLive'
    BY <2>1 DEF SchedUnblock
  <2>2. ASSUME NEW t \in Callers, ParkSleeps(t) PROVE AllLive'
    BY <2>2 DEF ParkSleeps, IpcParkSleeps
  <2>3. ASSUME UNCHANGED State PROVE AllLive'
    BY <2>3
  <2>4. ASSUME NEW t \in Tasks, Killed(t) PROVE FALSE
    BY <2>4 DEF Killed, SchedKill
  <2>5. ASSUME NEW t \in Callers, Step(t), ~SchedUnblock(t), ~ParkSleeps(t)
        PROVE  UNCHANGED State
    BY <2>5 DEF Step, SemTake, SemWaitEmpty, ParkReturns, IpcParkReturns,
        ParkWakes, IpcParkWakes, SemPost, IpcWakeOne, TakeLive, Wakes, SchedWakeTask
  <2>6. CASE UNCHANGED vars
    BY <2>3, <2>6 DEF vars, taskVars
  <2>. QED
    BY <2>1, <2>2, <2>3, <2>4, <2>5, <2>6 DEF Next
<1>. QED
  BY Invariance, <1>1, <1>2, PTL DEF Spec

\* No sleeping task is forgotten, kills or no kills: it is queued, or some task
\* has taken it off the queue to wake it.
THEOREM NobodyForgotten == Spec => []NoneForgotten
<1>1. IInv => NoneForgotten
  BY DEF IInv, SleepInv, NoneForgotten, Waking, IsWaker
<1>. QED
  BY Invariance, <1>1, PTL

\* SchedUnblock's test of the state, made before the lock is taken, still holds
\* under it for every task that was not killed in between.
THEOREM WakesAreFresh == Spec => []WakeIsFresh
<1>1. IInv => WakeIsFresh
  BY DEF IInv, WakeInv, WakeIsFresh, IsWaker, IpcWaitIsLive, At
<1>. QED
  BY Invariance, <1>1, PTL

\* Where no task is killed, no task is left behind: one that IpcPark put to sleep
\* is queued, or a live task is about to wake it.
THEOREM NobodyLeftBehind == ASSUME ~Kills PROVE Spec => []NoneLeftBehind
<1>1. IInv /\ AllLive => NoneLeftBehind
  BY DEF IInv, AllLive, SleepInv, NoneLeftBehind, Waking, IsWaker
<1>. QED
  BY Invariance, AllStayAlive, <1>1, PTL

=============================================================================
