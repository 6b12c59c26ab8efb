---------------------------- MODULE MCBootRecovery ----------------------------
(***************************************************************************)
(* Small instances of BootRecovery: its data are finite, only the cuts and *)
(* the faults are bounded.                                                 *)
(***************************************************************************)
EXTENDS BootRecovery, TLC

=============================================================================
