------------------------------ MODULE BootTest ------------------------------
(***************************************************************************)
(* The IPC self tests that run at boot (ipc_test_tasks of init/main.c).    *)
(* The main task creates a port, a consumer and a producer, waits for      *)
(* them, lets two tasks fight over a mutex, and destroys the port.  Modules*)
(* Port and Mutex have the calls; here are the tasks that make them.       *)
(*                                                                         *)
(* The main task is the idle task.  Its semaphore and mutex checks in      *)
(* between meet no other task and are left out.                            *)
(***************************************************************************)
EXTENDS IpcWait

CONSTANTS
    Consumer, Producer,   \* tasks of the rendezvous
    LockA, LockB,         \* tasks that take the mutex
    IpcTestMessages,      \* IPC_TEST_MESSAGES
    IpcPortCapacity,
    MaxRounds             \* bound of the model on LockRounds

Clients == {Consumer, Producer}
LockTasks == {LockA, LockB}

ASSUME BootAssumption ==
    /\ Tasks = Clients \cup LockTasks
    /\ Consumer # Producer /\ LockA # LockB /\ LockTasks \cap Clients = {}
    /\ IpcTestMessages \in Nat /\ MaxRounds \in Nat

VARIABLES
    Created, head, Count, Slots, Senders, Receivers, out,   \* TestPort
    Locked, Owner, Wait,                                    \* TestMutex
    mpc,            \* point of the main task in ipc_test_tasks
    at,             \* at[t]: point of t in its task function
    ok,             \* ok[t]: whether t's call did what it was to do
    Index,          \* Index[t]: messages t is through with
    Done,           \* ConsumerDone and ProducerDone
    ConsumerBad, ProducerId,
    early,          \* history: a message was checked before ProducerId was stored
    Seen,           \* Seen[t]: LockRounds as t has read it
    LockRounds, LockStop, LockBad

portVars == <<Created, head, Count, Slots, Senders, Receivers, out>>
mutexVars == <<Locked, Owner, Wait>>
meetVars == <<ok, Index, Done, ConsumerBad, early>>
lockVars == <<Seen, LockRounds, LockBad>>
vars == <<taskVars, portVars, mutexVars, mpc, at, meetVars, ProducerId,
          lockVars, LockStop>>

P == INSTANCE Port WITH
         Data <- 0..(IpcTestMessages - 1), PortOwner <- Idle, QuietDestroy <- FALSE
X == INSTANCE Mutex

clientRest == <<mutexVars, mpc, ProducerId, lockVars, LockStop>>
lockRest == <<portVars, mpc, meetVars, ProducerId, LockStop>>
mainRest == <<at, meetVars, lockVars>>

Move(t, p) == at' = [at EXCEPT ![t] = p]

\* The task function returns, which is SchedExit.
SchedExit(t) ==
    /\ At(t, "out")
    /\ at[t] = "exit"
    /\ State' = [State EXCEPT ![t] = "TaskDead"]
    /\ UNCHANGED <<pc, wake, portVars, at, meetVars, clientRest>>

-----------------------------------------------------------------------------
(* ipc_consumer_task and ipc_producer_task.                                *)

\* The call of a turn of the loop.
Call(t) ==
    /\ at[t] = "loop" /\ pc[t] = "out"
    /\ Index[t] < IpcTestMessages
    /\ IF t = Consumer THEN P!ReceiveCheck(t) ELSE P!SendCheck(t)
    /\ Move(t, "call")
    /\ ok' = [ok EXCEPT ![t] = FALSE]
    /\ UNCHANGED <<Index, Done, ConsumerBad, early, clientRest>>

\* A step of IpcSend or IpcReceive.
InCall(t) ==
    /\ at[t] = "call" /\ pc[t] # "out"
    /\ \/ P!SendCheck(t) \/ P!SendFull(t) \/ P!IpcTrySend(t, Index[t])
       \/ P!ReceiveCheck(t) \/ P!ReceiveEmpty(t) \/ P!IpcTryReceive(t)
       \/ P!ParkReturns(t) \/ P!SendSleeps(t) \/ P!ReceiveSleeps(t)
       \/ P!SendWakes(t) \/ P!ReceiveWakes(t)
       \/ P!WakeReceiver(t) \/ P!WakeSender(t) \/ P!Wakes(t)
    /\ ok' = [ok EXCEPT ![t] = @ \/ pc'[t] \in {"WakeReceiver", "WakeSender"}]
    /\ UNCHANGED <<at, Index, Done, ConsumerBad, early, clientRest>>

\* The call has returned.  The consumer compares the message with what it expects,
\* and with ProducerId as it is now.
Returned(t) ==
    /\ At(t, "out") /\ at[t] = "call"
    /\ LET bad == t = Consumer /\ (out.Data # Index[t] \/ out.Sender # ProducerId)
       IN  ConsumerBad' = IF ~ok[t] \/ bad THEN ConsumerBad + 1 ELSE ConsumerBad
    /\ Index' = [Index EXCEPT ![t] = IF ok[t] THEN @ + 1 ELSE @]
    /\ early' = (early \/ (t = Consumer /\ ProducerId = Idle))
    /\ Move(t, IF ok[t] THEN "loop" ELSE "break")
    /\ UNCHANGED <<taskVars, portVars, ok, Done, clientRest>>

Finish(t) ==
    /\ At(t, "out")
    /\ at[t] = "break" \/ (at[t] = "loop" /\ Index[t] = IpcTestMessages)
    /\ Done' = [Done EXCEPT ![t] = TRUE]
    /\ Move(t, "exit")
    /\ UNCHANGED <<taskVars, portVars, ok, Index, ConsumerBad, early, clientRest>>

-----------------------------------------------------------------------------
(* ipc_lock_task.                                                          *)

\* while (!LockStop); the model stops counting at MaxRounds.
TestStop(t) ==
    /\ At(t, "out") /\ at[t] = "loop"
    /\ LockStop \/ LockRounds < MaxRounds
    /\ Move(t, IF LockStop THEN "exit" ELSE "lock")
    /\ UNCHANGED <<taskVars, mutexVars, lockVars, lockRest>>

\* A step of MutexLock; "lock" is before its first.
Lock(t) ==
    /\ at[t] = "lock" \/ (at[t] = "locking" /\ pc[t] \notin {"out", "held"})
    /\ \/ X!MutexTryLock(t) \/ X!MutexLockBusy(t)
       \/ X!ParkReturns(t) \/ X!ParkSleeps(t) \/ X!ParkWakes(t)
    /\ Move(t, "locking")
    /\ UNCHANGED <<lockVars, lockRest>>

\* MutexLock has returned, with the mutex or an error.
LockReturned(t) ==
    /\ State[t] = "TaskReady" /\ at[t] = "locking"
    /\ pc[t] \in {"out", "held"}
    /\ LockBad' = IF pc[t] = "held" THEN LockBad ELSE LockBad + 1
    /\ Move(t, IF pc[t] = "held" THEN "read" ELSE "exit")
    /\ UNCHANGED <<taskVars, mutexVars, Seen, LockRounds, lockRest>>

ReadRounds(t) ==
    /\ At(t, "held") /\ at[t] = "read"
    /\ Seen' = [Seen EXCEPT ![t] = LockRounds]
    /\ Move(t, "write")
    /\ UNCHANGED <<taskVars, mutexVars, LockRounds, LockBad, lockRest>>

WriteRounds(t) ==
    /\ At(t, "held") /\ at[t] = "write"
    /\ LockRounds' = Seen[t] + 1
    /\ Move(t, "check")
    /\ UNCHANGED <<taskVars, mutexVars, Seen, LockBad, lockRest>>

CheckRounds(t) ==
    /\ At(t, "held") /\ at[t] = "check"
    /\ LockBad' = IF LockRounds = Seen[t] + 1 THEN LockBad ELSE LockBad + 1
    /\ Seen' = [Seen EXCEPT ![t] = 0]
    /\ Move(t, "unlock")
    /\ UNCHANGED <<taskVars, mutexVars, LockRounds, lockRest>>

\* A step of MutexUnlock.
Unlock(t) ==
    /\ at[t] = "unlock" \/ (at[t] = "unlocking" /\ pc[t] # "out")
    /\ X!MutexUnlock(t) \/ X!Wakes(t)
    /\ Move(t, IF pc'[t] = "out" THEN "loop" ELSE "unlocking")
    /\ UNCHANGED <<lockVars, lockRest>>

-----------------------------------------------------------------------------
(* The main task.                                                          *)

\* IpcPortCreate, and at the end of the tests once more.
Create ==
    /\ mpc \in {"create", "createAgain"}
    /\ P!IpcPortCreate(Idle)
    /\ mpc' = IF mpc = "create" THEN "consumer" ELSE "destroyAgain"
    /\ UNCHANGED <<mutexVars, mainRest, ProducerId, LockStop>>

\* SchedCreate: the new task is ready.
SchedCreate(t, from, to) ==
    /\ mpc = from
    /\ State' = [State EXCEPT ![t] = "TaskReady"]
    /\ mpc' = to
    /\ UNCHANGED <<pc, wake, portVars, mutexVars, mainRest, ProducerId, LockStop>>

StoreId ==
    /\ mpc = "storeId"
    /\ ProducerId' = Producer
    /\ mpc' = "wait"
    /\ UNCHANGED <<taskVars, portVars, mutexVars, mainRest, LockStop>>

\* The waiting loop ends when both are done, or after IPC_TEST_TIMEOUT interrupts,
\* however far they are.
WaitEnds ==
    /\ mpc = "wait"
    /\ mpc' = "verdict"
    /\ UNCHANGED <<taskVars, portVars, mutexVars, mainRest, ProducerId, LockStop>>

\* Mutant: goes on when one of the two is done.
VerdictEither ==
    /\ mpc = "verdict"
    /\ mpc' = IF (Done[Consumer] \/ Done[Producer]) /\ ConsumerBad = 0
              THEN "lockA" ELSE "end"
    /\ UNCHANGED <<taskVars, portVars, mutexVars, mainRest, ProducerId, LockStop>>

\* MutexInit follows; the mutex is unused as yet.
Verdict ==
    /\ mpc = "verdict"
    /\ mpc' = IF Done[Consumer] /\ Done[Producer] /\ ConsumerBad = 0
              THEN "lockA" ELSE "end"
    /\ UNCHANGED <<taskVars, portVars, mutexVars, mainRest, ProducerId, LockStop>>

\* LockStop = 1, when there were enough rounds or the main task has waited enough.
StopLocks ==
    /\ mpc = "lockWait"
    /\ LockStop' = TRUE
    /\ mpc' = "letGo"
    /\ UNCHANGED <<taskVars, portVars, mutexVars, mainRest, ProducerId>>

\* The mutex is free, or the main task has waited enough.
LetGoEnds ==
    /\ mpc = "letGo"
    /\ mpc' = "destroy"
    /\ UNCHANGED <<taskVars, portVars, mutexVars, mainRest, ProducerId, LockStop>>

\* IpcPortDestroy.
DestroyStart ==
    /\ mpc \in {"destroy", "destroyAgain"}
    /\ P!DestroyCheck(Idle)
    /\ mpc' = IF mpc = "destroy" THEN "destroying" ELSE "destroyingAgain"
    /\ UNCHANGED <<mutexVars, mainRest, ProducerId, LockStop>>

Destroy ==
    /\ mpc \in {"destroying", "destroyingAgain"}
    /\ P!IpcPortDestroy(Idle)
    /\ mpc' = IF mpc = "destroying" /\ ~Created' THEN "createAgain" ELSE "end"
    /\ UNCHANGED <<mutexVars, mainRest, ProducerId, LockStop>>

\* kernel_main idles from here on.
MainIdles == mpc = "end" /\ UNCHANGED vars

-----------------------------------------------------------------------------

Init ==
    /\ State = [t \in Callers |-> IF t = Idle THEN "TaskReady" ELSE "TaskDead"]
    /\ pc = [t \in Callers |-> "out"]
    /\ wake = [t \in Callers |-> Idle]
    /\ Created = FALSE /\ head = 0 /\ Count = 0
    /\ Slots = [i \in 0..(IpcPortCapacity - 1) |-> P!EmptySlot]
    /\ Senders = <<>> /\ Receivers = <<>> /\ out = P!EmptySlot
    /\ X!MutexInit
    /\ mpc = "create"
    /\ at = [t \in Tasks |-> "loop"]
    /\ ok = [t \in Clients |-> FALSE]
    /\ Index = [t \in Clients |-> 0]
    /\ Done = [t \in Clients |-> FALSE]
    /\ ConsumerBad = 0 /\ ProducerId = Idle /\ early = FALSE
    /\ Seen = [t \in LockTasks |-> 0]
    /\ LockRounds = 0 /\ LockStop = FALSE /\ LockBad = 0

ClientStep(t) == Call(t) \/ InCall(t) \/ Returned(t) \/ Finish(t) \/ SchedExit(t)

LockStep(t) ==
    \/ TestStop(t) \/ Lock(t) \/ LockReturned(t) \/ ReadRounds(t) \/ WriteRounds(t)
    \/ CheckRounds(t) \/ Unlock(t) \/ SchedExit(t)

CreateTasks ==
    \/ SchedCreate(Consumer, "consumer", "producer")
    \/ SchedCreate(Producer, "producer", "storeId")
    \/ SchedCreate(LockA, "lockA", "lockB")
    \/ SchedCreate(LockB, "lockB", "lockWait")

MainStep ==
    \/ Create \/ CreateTasks \/ StoreId \/ WaitEnds \/ Verdict
    \/ StopLocks \/ LetGoEnds \/ DestroyStart \/ Destroy

Next ==
    \/ MainStep \/ MainIdles
    \/ \E t \in Clients : ClientStep(t)
    \/ \E t \in LockTasks : LockStep(t)

Spec == Init /\ [][Next]_vars

\* Every ready task runs again and again (ReadyRuns of module Scheduler).
Fairness ==
    /\ WF_vars(MainStep)
    /\ \A t \in Clients : WF_vars(ClientStep(t))

FairSpec == Spec /\ Fairness

-----------------------------------------------------------------------------

\* The self test raises no other false alarm: the consumer finds the messages in
\* order, complete and stamped with their sender, and a message is called bad only
\* when it was checked before the main task had stored ProducerId.
BadOnlyIfEarly == ConsumerBad # 0 => early

\* "Both tasks are created, so both sides have to finish on their own": with more
\* messages than the port holds, producer and consumer park and wake each other and
\* both get to the end, whether or not the main task still waits.
RendezvousFinishes == <>(Done[Consumer] /\ Done[Producer])

\* "port drained, no message lost or duplicated", and "dropping those waiters would
\* strand them": when the main task goes on to destroy the port it is empty, nobody
\* sleeps on it and no task will call it again.  So this owner destroys at a quiet
\* moment, which run port assumes of owners.
DestroyIsQuiet ==
    mpc \in {"lockA", "lockB", "lockWait", "letGo", "destroy", "destroying"} =>
        /\ Created /\ Count = 0
        /\ Senders = <<>> /\ Receivers = <<>>
        /\ \A t \in Clients : at[t] = "exit"

\* "A shared counter that only ever grows by one is the evidence that the handoff
\* did not let two tasks into the critical section at once": no increment is lost,
\* also when main stops the tasks and goes on while one of them holds the mutex.
NoOverlap == LockBad = 0

=============================================================================
