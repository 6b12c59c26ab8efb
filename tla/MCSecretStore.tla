---------------------------- MODULE MCSecretStore ----------------------------
(***************************************************************************)
(* Small instances of SecretStore.  PINs and record arrays are told apart  *)
(* by equality only, so each set is symmetric but for the empty array.     *)
(***************************************************************************)
EXTENDS SecretStore, TLC

CONSTANTS p1, p2, r0, r1, r2

MCPins == {p1, p2}
MCRecords == {r0, r1, r2}
MCSymmetry == Permutations(MCPins) \cup Permutations({r1, r2})

=============================================================================
