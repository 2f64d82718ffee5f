------------------------------ MODULE PortFifo ------------------------------
(***************************************************************************)
(* What a port promises its users (message.h): "a bounded queue of         *)
(* messages in arrival order", each stamped with the id of its sender.     *)
(***************************************************************************)
EXTENDS Naturals, Sequences

CONSTANTS
    Callers,   \* ids of the tasks that use the port
    Data,      \* payloads
    Capacity   \* messages the port holds

VARIABLES
    open,   \* the port is created
    queue,  \* the messages sent and not yet received, oldest first
    out     \* the message received last

vars == <<open, queue, out>>

Init == open = FALSE /\ queue = <<>> /\ out = <<>>

Open == open' = TRUE /\ ~open /\ queue' = <<>> /\ UNCHANGED out

\* Closing a port drops what nobody received.
Close == open' = FALSE /\ open /\ queue' = <<>> /\ UNCHANGED out

Send(t, d) ==
    /\ open
    /\ Len(queue) < Capacity
    /\ queue' = Append(queue, [Sender |-> t, Data |-> d])
    /\ UNCHANGED <<open, out>>

Receive ==
    /\ open
    /\ queue # <<>>
    /\ out' = Head(queue)
    /\ queue' = Tail(queue)
    /\ UNCHANGED open

Next == Open \/ Close \/ Receive \/ \E t \in Callers, d \in Data : Send(t, d)

Spec == Init /\ [][Next]_vars

=============================================================================
