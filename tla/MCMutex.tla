------------------------------ MODULE MCMutex ------------------------------
(***************************************************************************)
(* Small instances of Mutex for TLC.                                       *)
(***************************************************************************)
EXTENDS Mutex

\* Ids are only compared for equality, so the tasks are interchangeable.
TaskSymmetry == Permutations(Tasks)

=============================================================================
