-------------------------------- MODULE Vault --------------------------------
(***************************************************************************)
(* What the encrypted store promises to its callers, and all they may      *)
(* assume of it: no slot, no flash and no failure counter.                 *)
(*                                                                         *)
(* `copies` are the arrays of records an unlock may deliver, each with the *)
(* PIN that opens it: the last one whose storing call returned ESP_OK and  *)
(* those of the calls begun since.  While the store is unlocked `cur` is   *)
(* the array of its current slot.  SecretStore implements this module.     *)
(***************************************************************************)
CONSTANTS
    Pins,        \* device PINs
    Records,     \* values of the whole array of account records
    Empty,       \* the array with no record
    NoPin        \* the key of a store that is not unlocked

Pair == [pin : Pins, recs : Records]

VARIABLES vstate, vkey, copies, cur, made

vault == <<vstate, vkey, copies, cur, made>>

VaultInit(c) ==
    /\ vstate = IF c = {} THEN "BLANK" ELSE "LOCKED"
    /\ vkey = NoPin /\ copies = c /\ cur = Empty /\ made = (c # {})

\* msf_store_create has begun; it has returned ESP_OK.
BeginCreate(p) ==
    /\ vstate = "BLANK"
    /\ copies' = copies \cup {[pin |-> p, recs |-> Empty]}
    /\ UNCHANGED <<vstate, vkey, cur, made>>

Created(p) ==
    /\ vstate = "BLANK" /\ [pin |-> p, recs |-> Empty] \in copies
    /\ vstate' = "UNLOCKED" /\ vkey' = p /\ cur' = Empty /\ made' = TRUE
    /\ UNCHANGED copies

\* write_blob has begun, under the PIN of the session or a new one; it has
\* succeeded, within a call that goes on; its call has returned ESP_OK.
BeginWrite(p, r) ==
    /\ vstate = "UNLOCKED"
    /\ copies' = copies \cup {[pin |-> p, recs |-> r]} /\ vkey' = p
    /\ UNCHANGED <<vstate, cur, made>>

Written(r) ==
    /\ vstate = "UNLOCKED" /\ [pin |-> vkey, recs |-> r] \in copies
    /\ cur' = r
    /\ UNCHANGED <<vstate, vkey, copies, made>>

Settled(r) ==
    /\ vstate = "UNLOCKED" /\ [pin |-> vkey, recs |-> r] \in copies
    /\ copies' = {[pin |-> vkey, recs |-> r]} /\ cur' = r /\ made' = TRUE
    /\ UNCHANGED <<vstate, vkey>>

\* An unlock delivers c: a promised array, or anything when the store was
\* never acknowledged or is being erased.
Opened(c) ==
    /\ vstate # "BLANK" /\ (c \in copies \/ ~made)
    /\ vstate' = "UNLOCKED" /\ vkey' = c.pin /\ cur' = c.recs
    /\ UNCHANGED <<copies, made>>

Closed ==
    /\ vstate = "UNLOCKED"
    /\ vstate' = "LOCKED" /\ vkey' = NoPin /\ cur' = Empty
    /\ UNCHANGED <<copies, made>>

\* msf_store_erase has begun; it has succeeded.
BeginErase ==
    /\ vstate # "UNLOCKED"
    /\ copies' = {} /\ made' = FALSE
    /\ UNCHANGED <<vstate, vkey, cur>>

Erased ==
    /\ ~made /\ vstate # "UNLOCKED"
    /\ vstate' = "BLANK"
    /\ UNCHANGED <<vkey, copies, cur, made>>

Rebooted ==
    /\ vstate' \in (IF made THEN {"LOCKED"} ELSE {"LOCKED", "BLANK"})
    /\ vkey' = NoPin /\ cur' = Empty
    /\ UNCHANGED <<copies, made>>

VaultNext ==
    \/ \E p \in Pins : BeginCreate(p) \/ Created(p)
    \/ \E p \in Pins, r \in Records : BeginWrite(p, r)
    \/ \E r \in Records : Written(r) \/ Settled(r)
    \/ \E c \in Pair : Opened(c)
    \/ Closed \/ BeginErase \/ Erased \/ Rebooted

VaultSpec == VaultInit({}) /\ [][VaultNext]_vault

=============================================================================
