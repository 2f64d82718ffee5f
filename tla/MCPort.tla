------------------------------- MODULE MCPort -------------------------------
(***************************************************************************)
(* Small instances of Port for TLC.                                        *)
(***************************************************************************)
EXTENDS Port

=============================================================================
