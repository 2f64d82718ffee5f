---------------------------- MODULE MCSemaphore ----------------------------
(***************************************************************************)
(* Small instances of Semaphore for TLC.                                   *)
(***************************************************************************)
EXTENDS Semaphore

=============================================================================
