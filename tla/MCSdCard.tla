------------------------------- MODULE MCSdCard -------------------------------
(* Small instances of SdCard: the names of one minute are one or two. *)
EXTENDS SdCard

CONSTANTS b1, b2

OneSlot == <<b1>>
TwoSlots == <<b1, b2>>
=============================================================================
