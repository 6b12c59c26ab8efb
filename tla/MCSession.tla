------------------------------ MODULE MCSession ------------------------------
(***************************************************************************)
(* Small instances of Session: two PINs, two accounts.                     *)
(***************************************************************************)
EXTENDS Session, TLC

CONSTANTS p1, p2, a1, a2

MCPins == {p1, p2}
MCAccounts == {a1, a2}
MCRecords == SUBSET MCAccounts
MCEmpty == {}
MCSymmetry == Permutations(MCPins) \cup Permutations(MCAccounts)

=============================================================================
