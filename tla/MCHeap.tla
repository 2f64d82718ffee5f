------------------------------- MODULE MCHeap -------------------------------
(***************************************************************************)
(* Small instances of Heap for TLC: pages of 12 bytes, headers of 4.       *)
(***************************************************************************)
EXTENDS Heap

Entry(base, length, available) ==
    [base |-> base, length |-> length, available |-> available]

\* Low memory; memory from the middle of a page up to the middle of another; a
\* reserved entry; and one whose end wraps around.
SmallMap ==
    <<Entry(0, 10, TRUE), Entry(15, 88, TRUE), Entry(108, 12, FALSE), Entry(102, 990, TRUE)>>

=============================================================================
