---------------------------- MODULE MCSelectLoop ----------------------------
(***************************************************************************)
(* Small instances of SelectLoop for TLC.                                  *)
(***************************************************************************)
EXTENDS SelectLoop
=============================================================================
