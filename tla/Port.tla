-------------------------------- MODULE Port --------------------------------
(***************************************************************************)
(* A message port (ipc/message.c): a ring of slots, a queue of parked      *)
(* senders and one of parked receivers, over the wait queues of IpcWait.   *)
(*                                                                         *)
(* Every call tests the Magic word before it takes the lock.  The          *)
(* non-blocking calls are the blocking ones that did not have to park; one *)
(* that fails changes nothing and is not a step.                           *)
(***************************************************************************)
EXTENDS IpcWait

CONSTANTS
    Data,             \* payloads
    IpcPortCapacity,  \* slots
    PortOwner,        \* the task whose memory the port is in: it creates and
                      \* destroys it
    QuietDestroy      \* whether the owner destroys the port only while no
                      \* other task is awake inside a call on it

ASSUME PortAssumption ==
    /\ IpcPortCapacity \in Nat \ {0}
    /\ PortOwner \in Callers
    /\ QuietDestroy \in BOOLEAN

VARIABLES
    Created,    \* Magic = PORT_MAGIC
    head,       \* slot the next receive takes from
    Count,      \* messages queued
    Slots,
    Senders,    \* parked senders
    Receivers,  \* parked receivers
    out         \* the message copied out last

portVars == <<Created, head, Count, Slots, Senders, Receivers, out>>
vars == <<taskVars, portVars>>

EmptySlot == <<>>

PortReset ==
    /\ head' = 0
    /\ Count' = 0
    /\ Senders' = <<>>
    /\ Receivers' = <<>>
    /\ Slots' = [i \in 0..(IpcPortCapacity - 1) |-> EmptySlot]

Init ==
    /\ TaskInit
    /\ Created = FALSE
    /\ head = 0 /\ Count = 0
    /\ Slots = [i \in 0..(IpcPortCapacity - 1) |-> EmptySlot]
    /\ Senders = <<>> /\ Receivers = <<>>
    /\ out = EmptySlot

PortHasRoom == Count < IpcPortCapacity

PortHasMessage == Count > 0

-----------------------------------------------------------------------------
(* Creating and destroying.                                                *)

IpcPortCreate(t) ==
    /\ t = PortOwner
    /\ At(t, "out")
    /\ ~Created
    /\ Created' = TRUE
    /\ PortReset
    /\ UNCHANGED <<taskVars, out>>

\* The test of Magic, before the lock.
DestroyCheck(t) ==
    /\ t = PortOwner
    /\ At(t, "out")
    /\ Created
    /\ Goto(t, "IpcPortDestroy")
    /\ UNCHANGED <<State, wake, portVars>>

Quiet(t) ==
    \A u \in Callers \ {t} : pc[u] = "out" \/ State[u] # "TaskReady"

\* Mutant: parked receivers do not keep the port.
DestroyOverReceivers(t) ==
    /\ At(t, "IpcPortDestroy")
    /\ QuietDestroy => Quiet(t)
    /\ IF Senders = <<>>
       THEN PortReset /\ Created' = FALSE
       ELSE UNCHANGED <<Created, head, Count, Slots, Senders, Receivers>>
    /\ Goto(t, "out")
    /\ UNCHANGED <<State, wake, out>>

IpcPortDestroy(t) ==
    /\ At(t, "IpcPortDestroy")
    /\ QuietDestroy => Quiet(t)
    /\ IF Senders = <<>> /\ Receivers = <<>>
       THEN PortReset /\ Created' = FALSE
       ELSE UNCHANGED <<Created, head, Count, Slots, Senders, Receivers>>
    /\ Goto(t, "out")
    /\ UNCHANGED <<State, wake, out>>

-----------------------------------------------------------------------------
(* Sending.                                                                *)

\* IpcSend, and each turn of its loop: the port is tested with interrupts on.
SendCheck(t) ==
    /\ At(t, "out") \/ At(t, "IpcSend")
    /\ Goto(t, IF Created THEN "IpcTrySend" ELSE "out")
    /\ UNCHANGED <<State, wake, portVars>>

\* Mutant: the slot is counted from 0, not from head.
PushAtCount(t, d) ==
    /\ Slots' = [Slots EXCEPT ![Count % IpcPortCapacity] =
                    [Sender |-> t, Data |-> d]]
    /\ Count' = Count + 1

PortPush(t, d) ==
    /\ Slots' = [Slots EXCEPT ![(head + Count) % IpcPortCapacity] =
                    [Sender |-> t, Data |-> d]]
    /\ Count' = Count + 1

\* Mutant: sends into a full port.
SendUnchecked(t, d) ==
    /\ At(t, "IpcTrySend")
    /\ PortPush(t, d)
    /\ Goto(t, "WakeReceiver")
    /\ UNCHANGED <<State, wake, Created, head, Senders, Receivers, out>>

IpcTrySend(t, d) ==
    /\ At(t, "IpcTrySend")
    /\ Count # IpcPortCapacity
    /\ PortPush(t, d)
    /\ Goto(t, "WakeReceiver")
    /\ UNCHANGED <<State, wake, Created, head, Senders, Receivers, out>>

SendFull(t) ==
    /\ At(t, "IpcTrySend")
    /\ Count = IpcPortCapacity
    /\ Goto(t, "ParkSend")
    /\ UNCHANGED <<State, wake, portVars>>

-----------------------------------------------------------------------------
(* Receiving.                                                              *)

ReceiveCheck(t) ==
    /\ At(t, "out") \/ At(t, "IpcReceive")
    /\ Goto(t, IF Created THEN "IpcTryReceive" ELSE "out")
    /\ UNCHANGED <<State, wake, portVars>>

PortPop ==
    /\ out' = Slots[head]
    /\ head' = (head + 1) % IpcPortCapacity
    /\ Count' = Count - 1

IpcTryReceive(t) ==
    /\ At(t, "IpcTryReceive")
    /\ Count # 0
    /\ PortPop
    /\ Goto(t, "WakeSender")
    /\ UNCHANGED <<State, wake, Created, Slots, Senders, Receivers>>

ReceiveEmpty(t) ==
    /\ At(t, "IpcTryReceive")
    /\ Count = 0
    /\ Goto(t, "ParkReceive")
    /\ UNCHANGED <<State, wake, portVars>>

-----------------------------------------------------------------------------
(* Parking and waking.                                                     *)

ringVars == <<Created, head, Count, Slots, out>>

ParkReturns(t) ==
    /\ \/ IpcParkReturns(t, "ParkSend", Senders, PortHasRoom, "IpcSend")
       \/ IpcParkReturns(t, "ParkReceive", Receivers, PortHasMessage, "IpcReceive")
    /\ UNCHANGED portVars

SendSleeps(t) ==
    /\ IpcParkSleeps(t, "ParkSend", Senders, PortHasRoom, "parkedSend")
    /\ Senders' = IpcWaitAdd(Senders, t)
    /\ UNCHANGED <<ringVars, Receivers>>

\* Mutant: sleeps without testing for a message again.
ReceiveSleepsUnchecked(t) ==
    /\ IpcParkSleeps(t, "ParkReceive", Receivers, FALSE, "parkedReceive")
    /\ Receivers' = IpcWaitAdd(Receivers, t)
    /\ UNCHANGED <<ringVars, Senders>>

ReceiveSleeps(t) ==
    /\ IpcParkSleeps(t, "ParkReceive", Receivers, PortHasMessage, "parkedReceive")
    /\ Receivers' = IpcWaitAdd(Receivers, t)
    /\ UNCHANGED <<ringVars, Senders>>

SendWakes(t) ==
    /\ IpcParkWakes(t, "parkedSend", "ParkSend")
    /\ Senders' = IpcWaitRemove(Senders, t)
    /\ UNCHANGED <<ringVars, Receivers>>

ReceiveWakes(t) ==
    /\ IpcParkWakes(t, "parkedReceive", "ParkReceive")
    /\ Receivers' = IpcWaitRemove(Receivers, t)
    /\ UNCHANGED <<ringVars, Senders>>

\* Mutant: a push wakes nobody.
WakeNobody(t) ==
    /\ At(t, "WakeReceiver")
    /\ Goto(t, "out")
    /\ UNCHANGED <<State, wake, portVars>>

\* IpcWakeOne(&Port->Receivers) after a push ...
WakeReceiver(t) ==
    /\ At(t, "WakeReceiver")
    /\ TakeLive(t, Receivers)
    /\ Receivers' = TakeLiveRest(Receivers)
    /\ UNCHANGED <<ringVars, Senders>>

\* ... and IpcWakeOne(&Port->Senders) after a pop.
WakeSender(t) ==
    /\ At(t, "WakeSender")
    /\ TakeLive(t, Senders)
    /\ Senders' = TakeLiveRest(Senders)
    /\ UNCHANGED <<ringVars, Receivers>>

Wakes(t) ==
    /\ SchedWakeTask(t) \/ SchedUnblock(t)
    /\ UNCHANGED portVars

Killed(t) ==
    /\ SchedKill(t)
    /\ UNCHANGED portVars

-----------------------------------------------------------------------------

Step(t) ==
    \/ IpcPortCreate(t) \/ DestroyCheck(t) \/ IpcPortDestroy(t)
    \/ SendCheck(t) \/ SendFull(t) \/ \E d \in Data : IpcTrySend(t, d)
    \/ ReceiveCheck(t) \/ ReceiveEmpty(t) \/ IpcTryReceive(t)
    \/ ParkReturns(t) \/ SendSleeps(t) \/ ReceiveSleeps(t)
    \/ SendWakes(t) \/ ReceiveWakes(t)
    \/ WakeReceiver(t) \/ WakeSender(t) \/ Wakes(t)

Next ==
    \/ \E t \in Callers : Step(t)
    \/ \E t \in Tasks : Killed(t)

Spec == Init /\ [][Next]_vars

\* A call once begun goes on, because the scheduler runs every ready task again
\* and again; nothing makes a task begin one.
Fairness == \A t \in Callers : WF_vars(pc[t] # "out" /\ Step(t))

FairSpec == Spec /\ Fairness

-----------------------------------------------------------------------------

Points ==
    {"out", "IpcPortDestroy", "IpcSend", "IpcTrySend", "ParkSend", "parkedSend",
     "IpcReceive", "IpcTryReceive", "ParkReceive", "parkedReceive",
     "WakeReceiver", "WakeSender", "SchedWakeTask", "SchedUnblock"}

Messages == [Sender : Callers, Data : Data]

\* Every variable has its type; the ring indices are in range and the queues
\* fit the Ids arrays of IpcWait.
TypeOK ==
    /\ State \in [Callers -> TaskStates]
    /\ pc \in [Callers -> Points]
    /\ wake \in [Callers -> Callers]
    /\ Created \in BOOLEAN
    /\ head \in 0..(IpcPortCapacity - 1)
    /\ Count \in 0..IpcPortCapacity
    /\ Slots \in [0..(IpcPortCapacity - 1) -> Messages \cup {EmptySlot}]
    /\ Senders \in Seq(Tasks) /\ Len(Senders) <= IpcMaxWaiters
    /\ Receivers \in Seq(Tasks) /\ Len(Receivers) <= IpcMaxWaiters
    /\ out \in Messages \cup {EmptySlot}

\* The queued messages, oldest first.
Queued == [i \in 1..Count |-> Slots[(head + i - 1) % IpcPortCapacity]]

Fifo == INSTANCE PortFifo WITH
            open <- Created, queue <- Queued, Capacity <- IpcPortCapacity

\* The ring implements the port's promise: messages come out in the order they
\* went in, each with its sender's id, none lost or repeated, none overwritten
\* when the port is full.
IsFifo == Fifo!Spec

Gone == {t \in Callers : ~IpcWaitIsLive(t)}

\* Awake tasks that will look for a message, or wake a task that will.
ToReceive ==
    {t \in Callers : State[t] = "TaskReady" /\
        \/ pc[t] \in {"IpcReceive", "IpcTryReceive", "ParkReceive",
                      "parkedReceive", "WakeReceiver"}
        \/ \E u \in Tasks : Waking(t, u) /\ pc[u] = "parkedReceive"}

\* Awake tasks that will look for room, or wake a task that will.
ToSend ==
    {t \in Callers : State[t] = "TaskReady" /\
        \/ pc[t] \in {"IpcSend", "IpcTrySend", "ParkSend",
                      "parkedSend", "WakeSender"}
        \/ \E u \in Tasks : Waking(t, u) /\ pc[u] = "parkedSend"}

\* No wakeup is lost on either side, but for one per killed task: while a live
\* receiver is queued every message has a task coming for it, and while a live
\* sender is queued every free slot has.  So senders and receivers never all
\* sleep on one port.
NoLostWakeup ==
    /\ LiveAt(Receivers) # {} =>
          Count <= Cardinality(ToReceive) + Cardinality(Gone)
    /\ LiveAt(Senders) # {} =>
          IpcPortCapacity - Count <= Cardinality(ToSend) + Cardinality(Gone)

\* Nobody is stranded ("Fails while tasks are parked on it, since dropping them
\* would strand them"): a task asleep in IpcSend or IpcReceive is queued on a
\* created port, or a task has taken it off to wake it.
NoneStranded ==
    \A t \in Tasks : State[t] = "TaskBlocked" =>
        \/ Created /\ t \in ToSet(Senders) \cup ToSet(Receivers)
        \/ \E w \in Callers : Waking(w, t)

\* Unless a task is killed, a message does not lie in the port for ever next to a
\* parked receiver.
MessageReachesReceiver ==
    (Count > 0 /\ Receivers # <<>>) ~>
        (Count = 0 \/ Receivers = <<>> \/ Gone # {})

=============================================================================
