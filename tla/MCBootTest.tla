----------------------------- MODULE MCBootTest -----------------------------
(***************************************************************************)
(* Small instances of BootTest for TLC.                                    *)
(***************************************************************************)
EXTENDS BootTest

=============================================================================
