------------------------------ MODULE KeyQueue ------------------------------
(***************************************************************************)
(* What the keyboard driver promises: scan codes are read in the order     *)
(* they came in, each once, and one that comes while Capacity are waiting  *)
(* is dropped ("drop the keystroke if the queue is completely full").      *)
(***************************************************************************)
EXTENDS Naturals, Sequences

CONSTANTS
    Codes,      \* scan codes
    NoCode,     \* stands for none
    Capacity    \* scan codes that can wait

VARIABLES
    queue,      \* the scan codes that wait, oldest first
    hand        \* the scan code the reader works on, if it has one

Init == queue = <<>> /\ hand = NoCode

\* The keyboard interrupt.
Push(c) ==
    /\ queue' = IF Len(queue) < Capacity THEN Append(queue, c) ELSE queue
    /\ UNCHANGED hand

\* keyboard_pop of a code.
Pop ==
    /\ hand = NoCode
    /\ queue # <<>>
    /\ hand' = Head(queue)
    /\ queue' = Tail(queue)

\* The reader is done with it and calls keyboard_pop again.
Done == hand' = NoCode /\ UNCHANGED queue

Next == Pop \/ Done \/ \E c \in Codes : Push(c)

Spec == Init /\ [][Next]_<<queue, hand>>

=============================================================================
