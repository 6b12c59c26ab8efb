----------------------------- MODULE MCTimeSync -----------------------------
(* Instances of TimeSync.                                                    *)
EXTENDS TimeSync

Radios == {"ui", "wifi", "ble"}
=============================================================================
