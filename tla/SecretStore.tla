----------------------------- MODULE SecretStore -----------------------------
(***************************************************************************)
(* The encrypted account store of components/secret_store/secret_store.c:  *)
(* four flash slots (two of format 1, read only, and two of format 2,      *)
(* written alternately), the control sector with the PIN failure counter,  *)
(* and the RAM copy the component keeps of both.                           *)
(*                                                                         *)
(* The mutex s_lock serialises the API, so one call at a time is running:  *)
(* `op` is its request and `pc` the flash or check step it is about to     *)
(* take.  Every flash step may be cut by a power failure (PowerCut) or     *)
(* return an error (Fault), leaving the torn contents of Interrupt.        *)
(***************************************************************************)
EXTENDS Integers

CONSTANTS
    Pins,        \* device PINs that pass msf_store_pin_valid
    Records,     \* values of the whole array of account records
    Empty,       \* the array with no record
    NoPin,       \* the wiped key: the key of no PIN
    Junk,        \* flash that reads as no valid header, or as no sealed body
    Origins,     \* what the partition holds at first: "blank", "format1"
    EraseRaces,  \* may an unlock land between the console's lock and its erase
    Misreads,    \* may reading a slot fail while an unlock tries the slots
    MaxWrites, MaxChecks, MaxCuts, MaxFaults  \* bounds of the model

V1 == {0, 1}
V2 == {2, 3}
Slots == V1 \cup V2

(***************************************************************************)
(* A sealed blob: its header fields seq and nonce, the PIN its key is      *)
(* derived from (through the salt its header carries) and its plaintext.   *)
(* A slot opens when body and header are those of one blob: the header is  *)
(* authenticated with the body.                                            *)
(***************************************************************************)
Blob == [seq : Nat, nonce : Nat, pin : Pins \cup {NoPin}, recs : Records]
Slot == [hdr : Blob \cup {Junk}, body : Blob \cup {Junk}]
Pair == [pin : Pins \cup {NoPin}, recs : Records]

ASSUME StoreAssumption ==
    /\ NoPin \notin Pins
    /\ Junk \notin Nat /\ Junk \notin Blob
    /\ Empty \in Records
    /\ Origins \subseteq {"blank", "format1"}
    /\ EraseRaces \in BOOLEAN /\ Misreads \in BOOLEAN
    /\ MaxWrites \in Nat /\ MaxChecks \in Nat /\ MaxCuts \in Nat /\ MaxFaults \in Nat

VARIABLES
    slot, ctl,                                    \* flash
    s_state, s_hdr, s_current, s_key,             \* RAM of the component
    s_fail_count, s_last_fail,
    pc, op,                                       \* the running API call
    nonce, cuts, faults,                          \* counters the bounds cap
    promise, acked, retired, migrated, revived,   \* what callers were told
    wrong, calm, ctlLost

flash == <<slot, ctl>>
session == <<s_state, s_hdr, s_current, s_key>>
gate == <<s_fail_count, s_last_fail>>
told == <<promise, acked, retired, migrated, revived>>
checks == <<wrong, calm, ctlLost>>
vars == <<flash, session, gate, pc, op, nonce, cuts, faults, told, checks>>

Idle == [call |-> "none", pin |-> NoPin, recs |-> Empty, left |-> 0, count |-> 0]

(***************************************************************************)
(* Back-off.  s_last_fail (and calm) count how many of the five delays     *)
(* 10 s, 30 s, 120 s, 600 s, 3600 s have gone by since s_last_fail_us.     *)
(***************************************************************************)
Delay(fails) == IF fails < 3 THEN 0 ELSE IF fails < 7 THEN fails - 2 ELSE 5

InBackoff == s_last_fail < Delay(s_fail_count)

(***************************************************************************)
(* Slots.                                                                  *)
(***************************************************************************)
\* Wrong on purpose: a save overwrites the current slot.
TargetCurrent == IF s_current \notin V2 THEN 2 ELSE s_current

\* The slot a save writes: the format 2 slot that is not current.
Target == IF s_current \notin V2 THEN 2 ELSE 5 - s_current

\* Wrong on purpose: the sequence number is not advanced.
NewBlobSameSeq == [seq |-> IF s_current = -1 THEN 1 ELSE s_hdr[s_current].seq,
                   nonce |-> nonce, pin |-> s_key, recs |-> op.recs]

NewBlob == [seq |-> IF s_current = -1 THEN 1 ELSE s_hdr[s_current].seq + 1,
            nonce |-> nonce, pin |-> s_key, recs |-> op.recs]

Erased == [hdr |-> Junk, body |-> Junk]

\* Wrong on purpose: the slots are tried in the order of their numbers.
BeforeBySlot(h, a, b) == a < b

\* h[a] comes before h[b] when slots are tried, newest first.
Before(h, a, b) == h[a].seq > h[b].seq \/ (h[a].seq = h[b].seq /\ a < b)

\* Wrong on purpose: a store without any valid header takes slot 4 for current.
CurrentOfNone(h) ==
    CHOOSE s \in Slots \cup {4} :
        /\ s # 4 => h[s] # Junk
        /\ \A t \in Slots \ {s} : h[t] # Junk => s # 4 /\ Before(h, s, t)

\* The slot read_headers makes current: the newest valid header.
CurrentOf(h) ==
    IF \A s \in Slots : h[s] = Junk THEN -1
    ELSE CHOOSE s \in Slots : /\ h[s] # Junk
                              /\ \A t \in Slots \ {s} : h[t] # Junk => Before(h, s, t)

\* Slot s decrypts under PIN p, with the headers h and the flash contents f.
Decrypts(f, h, s, p) == h[s] # Junk /\ f[s].body = h[s] /\ h[s].pin = p

\* The slot an unlock with p opens: the newest that decrypts.
Opens(f, h, s, p) ==
    /\ Decrypts(f, h, s, p)
    /\ \A t \in Slots \ {s} : Decrypts(f, h, t, p) => Before(h, s, t)

Headers(f) == [s \in Slots |-> f[s].hdr]

-----------------------------------------------------------------------------
(***************************************************************************)
(* Initial flash: a new device, or a store made by a format 1 firmware,    *)
(* whose saves alternated between the two format 1 slots.                  *)
(***************************************************************************)
SealedV1(n, p, r) ==
    LET b == [seq |-> n, nonce |-> n, pin |-> p, recs |-> r]
    IN [hdr |-> b, body |-> b]

\* Wrong on purpose: the counter is not read back.
BootForgets(f, c) ==
    /\ s_hdr' = Headers(f)
    /\ s_current' = CurrentOf(Headers(f))
    /\ s_state' = IF \A s \in Slots : f[s].hdr = Junk THEN "BLANK" ELSE "LOCKED"
    /\ s_key' = NoPin
    /\ s_fail_count' = 0 /\ s_last_fail' = 0
    /\ pc' = "idle" /\ op' = Idle

\* msf_store_init on the contents f of the slots and c of the control sector.
BootFrom(f, c) ==
    /\ s_hdr' = Headers(f)
    /\ s_current' = CurrentOf(Headers(f))
    /\ s_state' = IF \A s \in Slots : f[s].hdr = Junk THEN "BLANK" ELSE "LOCKED"
    /\ s_key' = NoPin
    /\ s_fail_count' = IF c = Junk THEN 0 ELSE c
    /\ s_last_fail' = 0
    /\ pc' = "idle" /\ op' = Idle

InitStore(f, made) ==
    /\ slot = f /\ ctl = Junk
    /\ s_hdr = Headers(f) /\ s_current = CurrentOf(Headers(f))
    /\ s_state = IF made = {} THEN "BLANK" ELSE "LOCKED"
    /\ s_key = NoPin /\ s_fail_count = 0 /\ s_last_fail = 0
    /\ pc = "idle" /\ op = Idle
    /\ nonce = 2 /\ cuts = 0 /\ faults = 0
    /\ promise = made /\ acked = (made # {}) /\ retired = {}
    /\ migrated = FALSE /\ revived = FALSE
    /\ wrong = 0 /\ calm = 0 /\ ctlLost = FALSE

Init ==
    \/ "blank" \in Origins /\ InitStore([s \in Slots |-> Erased], {})
    \/ /\ "format1" \in Origins
       /\ \E p \in Pins, r0 \in Records, r1 \in Records :
            InitStore([s \in Slots |-> CASE s = 0 -> SealedV1(1, p, r0)
                                         [] s = 1 -> SealedV1(2, p, r1)
                                         [] OTHER -> Erased],
                      {[pin |-> p, recs |-> r1]})

-----------------------------------------------------------------------------
(***************************************************************************)
(* The API calls, up to their first flash access.  A call that its guards  *)
(* refuse returns an error and changes nothing.                            *)
(***************************************************************************)
Call(name, p, r, left, count, step) ==
    /\ op' = [call |-> name, pin |-> p, recs |-> r, left |-> left, count |-> count]
    /\ pc' = step

Create(p) ==
    /\ pc = "idle" /\ s_state = "BLANK" /\ nonce < MaxWrites
    /\ s_key' = p
    /\ Call("create", p, Empty, 1, 0, "erase")
    /\ promise' = promise \cup {[pin |-> p, recs |-> Empty]}
    /\ retired' = retired \ {p}
    /\ UNCHANGED <<flash, s_state, s_hdr, s_current, gate, nonce, cuts, faults,
                   acked, migrated, revived, checks>>

Unlock(p) ==
    /\ pc = "idle" /\ s_state \in {"LOCKED", "UNLOCKED"}
    /\ ~InBackoff
    /\ s_fail_count < MaxChecks /\ wrong < MaxChecks
    /\ Call("unlock", p, Empty, 0, s_fail_count + 1, "ctlErase")
    /\ UNCHANGED <<flash, session, gate, nonce, cuts, faults, told, checks>>

Save(r) ==
    /\ pc = "idle" /\ s_state = "UNLOCKED" /\ nonce < MaxWrites
    /\ Call("save", s_key, r, 1, 0, "erase")
    /\ promise' = promise \cup {[pin |-> s_key, recs |-> r]}
    /\ UNCHANGED <<flash, session, gate, nonce, cuts, faults, acked, retired, migrated, revived, checks>>

\* Wrong on purpose: the records are written once under the new PIN.
ChangePinOnce(p, r) ==
    /\ pc = "idle" /\ s_state = "UNLOCKED" /\ nonce + 1 < MaxWrites
    /\ s_key' = p
    /\ Call("change", p, r, 1, 0, "erase")
    /\ promise' = promise \cup {[pin |-> p, recs |-> r]}
    /\ retired' = retired \ {p}
    /\ UNCHANGED <<flash, s_state, s_hdr, s_current, gate, nonce, cuts, faults,
                   acked, migrated, revived, checks>>

ChangePin(p, r) ==
    /\ pc = "idle" /\ s_state = "UNLOCKED" /\ nonce + 1 < MaxWrites
    /\ s_key' = p
    /\ Call("change", p, r, 2, 0, "erase")
    /\ promise' = promise \cup {[pin |-> p, recs |-> r]}
    /\ retired' = retired \ {p}
    /\ UNCHANGED <<flash, s_state, s_hdr, s_current, gate, nonce, cuts, faults,
                   acked, migrated, revived, checks>>

\* Wrong on purpose: the second PIN check forgets the back-off.
VerifyPinAtOnce(p) ==
    /\ pc = "idle" /\ s_state = "UNLOCKED"
    /\ s_fail_count < MaxChecks /\ wrong < MaxChecks
    /\ Call("verify", p, Empty, 0, s_fail_count + 1, "ctlErase")
    /\ UNCHANGED <<flash, session, gate, nonce, cuts, faults, told, checks>>

\* A malformed PIN is counted and refused here, as a wrong one.
VerifyPin(p) ==
    /\ pc = "idle" /\ s_state = "UNLOCKED"
    /\ ~InBackoff
    /\ s_fail_count < MaxChecks /\ wrong < MaxChecks
    /\ Call("verify", p, Empty, 0, s_fail_count + 1, "ctlErase")
    /\ UNCHANGED <<flash, session, gate, nonce, cuts, faults, told, checks>>

Lock ==
    /\ pc = "idle" /\ s_state = "UNLOCKED"
    /\ s_key' = NoPin /\ s_state' = "LOCKED"
    /\ UNCHANGED <<flash, s_hdr, s_current, gate, pc, op, nonce, cuts, faults, told, checks>>

\* The console locks before it erases; the two are separate calls.
Erase ==
    /\ pc = "idle" /\ (EraseRaces \/ s_state # "UNLOCKED")
    /\ s_key' = NoPin
    /\ Call("erase", NoPin, Empty, 0, 0, "eraseAll")
    /\ promise' = {} /\ acked' = FALSE
    /\ UNCHANGED <<flash, s_state, s_hdr, s_current, gate, nonce, cuts, faults,
                   retired, migrated, revived, checks>>

-----------------------------------------------------------------------------
(***************************************************************************)
(* write_blob: erase the target slot, write the body, write the header     *)
(* last, then erase the format 1 slots if the store just left format 1.    *)
(***************************************************************************)
\* What the callers know once the running call has returned ESP_OK.
Acknowledge ==
    /\ promise' = IF op.call = "create" THEN promise
                  ELSE {[pin |-> s_key, recs |-> op.recs]}
    /\ acked' = TRUE
    /\ retired' = IF op.call = "change" THEN Pins \ {op.pin} ELSE retired
    /\ UNCHANGED revived

\* write_blob has returned ESP_OK: change_pin calls it again, create resets
\* the failure counter, save returns.
AfterBlob ==
    /\ migrated' = TRUE
    /\ \/ /\ op.left > 1
          /\ op' = [op EXCEPT !.left = op.left - 1] /\ pc' = "erase"
          /\ UNCHANGED <<promise, acked, retired, revived>>
       \/ /\ op.left = 1 /\ op.call = "create"
          /\ pc' = "ctlErase" /\ UNCHANGED <<op, promise, acked, retired, revived>>
       \/ /\ op.left = 1 /\ op.call # "create"
          /\ pc' = "idle" /\ op' = Idle /\ Acknowledge

EraseSlot ==
    /\ pc = "erase"
    /\ slot' = [slot EXCEPT ![Target] = Erased]
    /\ nonce' = nonce + 1 /\ pc' = "body"
    /\ UNCHANGED <<ctl, session, gate, op, cuts, faults, told, checks>>

WriteBody ==
    /\ pc = "body"
    /\ slot' = [slot EXCEPT ![Target].body = NewBlob]
    /\ pc' = "header"
    /\ UNCHANGED <<ctl, session, gate, op, nonce, cuts, faults, told, checks>>

WriteHeader ==
    /\ pc = "header"
    /\ slot' = [slot EXCEPT ![Target].hdr = NewBlob]
    /\ s_hdr' = [s_hdr EXCEPT ![Target] = NewBlob]
    /\ s_current' = Target
    /\ IF s_current \notin V2 /\ \E s \in V1 : s_hdr[s] # Junk
       THEN pc' = "v1" /\ UNCHANGED <<op, told>>
       ELSE AfterBlob
    /\ UNCHANGED <<ctl, s_state, s_key, gate, nonce, cuts, faults, checks>>

EraseV1 ==
    /\ pc = "v1"
    /\ slot' = [s \in Slots |-> IF s \in V1 THEN Erased ELSE slot[s]]
    /\ s_hdr' = [s \in Slots |-> IF s \in V1 THEN Junk ELSE s_hdr[s]]
    /\ AfterBlob
    /\ UNCHANGED <<ctl, s_state, s_current, s_key, gate, nonce, cuts, faults, checks>>

(***************************************************************************)
(* write_control: erase the sector, then write the counter.  A nonzero     *)
(* counter announces a PIN check, zero follows an accepted one.            *)
(***************************************************************************)
EraseControl ==
    /\ pc = "ctlErase"
    /\ ctl' = Junk /\ pc' = "ctlWrite"
    /\ UNCHANGED <<slot, session, gate, op, nonce, cuts, faults, told, checks>>

WriteControl ==
    /\ pc = "ctlWrite"
    /\ ctl' = op.count /\ s_fail_count' = op.count
    /\ \/ /\ op.count > 0 /\ pc' = IF op.call = "verify" THEN "compare" ELSE "search"
          /\ UNCHANGED <<op, s_state, told>>
       \/ /\ op.count = 0 /\ pc' = "idle" /\ op' = Idle
          /\ IF op.call = "create"
             THEN s_state' = "UNLOCKED" /\ Acknowledge /\ UNCHANGED migrated
             ELSE UNCHANGED <<s_state, told>>
    /\ UNCHANGED <<slot, s_hdr, s_current, s_key, s_last_fail, nonce, cuts, faults, checks>>

-----------------------------------------------------------------------------
(***************************************************************************)
(* The PIN checks.                                                         *)
(***************************************************************************)
Accept ==
    /\ op' = [op EXCEPT !.count = 0] /\ pc' = "ctlErase"
    /\ wrong' = 0 /\ ctlLost' = FALSE
    /\ UNCHANGED <<gate, calm>>

Refuse ==
    /\ op' = Idle /\ pc' = "idle"
    /\ s_last_fail' = 0
    /\ wrong' = wrong + 1 /\ calm' = 0
    /\ UNCHANGED <<s_fail_count, ctlLost>>

\* unlock: the slots are tried with the cached headers.
Found(s) ==
    /\ s_key' = op.pin /\ s_current' = s /\ s_state' = "UNLOCKED"
    /\ revived' = (revived \/ (migrated /\ s \in V1))
    /\ Accept
    /\ UNCHANGED <<s_hdr, promise, acked, retired, migrated>>

SearchFound(s) ==
    /\ pc = "search" /\ Opens(slot, s_hdr, s, op.pin)
    /\ Found(s)
    /\ UNCHANGED <<flash, nonce, cuts, faults>>

SearchFailed ==
    /\ pc = "search" /\ \A s \in Slots : ~Decrypts(slot, s_hdr, s, op.pin)
    /\ Refuse
    /\ UNCHANGED <<flash, session, nonce, cuts, faults, told>>

CompareOk ==
    /\ pc = "compare" /\ op.pin = s_key
    /\ Accept
    /\ UNCHANGED <<flash, session, nonce, cuts, faults, told>>

CompareFailed ==
    /\ pc = "compare" /\ op.pin # s_key
    /\ Refuse
    /\ UNCHANGED <<flash, session, nonce, cuts, faults, told>>

EraseAll ==
    /\ pc = "eraseAll"
    /\ slot' = [s \in Slots |-> Erased] /\ ctl' = Junk
    /\ s_fail_count' = 0
    /\ s_hdr' = [s \in Slots |-> Junk] /\ s_current' = -1
    /\ s_state' = "BLANK"
    /\ pc' = "idle" /\ op' = Idle
    /\ retired' = {} /\ migrated' = FALSE /\ revived' = FALSE
    /\ wrong' = 0 /\ ctlLost' = FALSE
    /\ UNCHANGED <<s_key, s_last_fail, nonce, cuts, faults, promise, acked, calm>>

-----------------------------------------------------------------------------
(***************************************************************************)
(* Interrupted flash accesses.  A range is erased in ascending order: the  *)
(* regions before some k are erased, k is torn.  A header and the start of *)
(* its body share a flash sector, so a body is no longer whole once the    *)
(* erase has touched its slot.  A torn header either does not read as one  *)
(* or reads as one that authenticates nothing.                             *)
(***************************************************************************)
TornHeader == [NewBlob EXCEPT !.nonce = 0]

EraseUpTo(S) ==
    \E k \in S : \E v \in {slot[k], [slot[k] EXCEPT !.body = Junk], Erased} :
        slot' = [s \in Slots |-> IF s = k THEN v
                                 ELSE IF s \in S /\ s < k THEN Erased ELSE slot[s]]

Interrupt ==
    \/ pc \in {"idle", "body", "search", "compare"} /\ UNCHANGED flash
    \/ pc = "erase" /\ EraseUpTo({Target}) /\ UNCHANGED ctl
    \/ /\ pc = "header" /\ UNCHANGED ctl
       /\ \E h \in {Junk, TornHeader, NewBlob} : slot' = [slot EXCEPT ![Target].hdr = h]
    \/ pc = "v1" /\ EraseUpTo(V1) /\ UNCHANGED ctl
    \/ pc = "ctlErase" /\ ctl' \in {Junk, ctl} /\ UNCHANGED slot
    \/ pc = "ctlWrite" /\ ctl' \in {Junk, op.count} /\ UNCHANGED slot
    \/ pc = "eraseAll" /\ ctl' = ctl /\ UNCHANGED slot
    \/ pc = "eraseAll" /\ ctl' = Junk /\ EraseUpTo(Slots)

\* The rewrite of the control sector was left with no counter.
LosesControl == ctlLost' = (ctlLost \/ (pc \in {"ctlErase", "ctlWrite", "eraseAll"} /\ ctl' = Junk))

\* Power off (or deep sleep) and the next boot.
PowerCut ==
    /\ cuts' = cuts + (IF pc = "idle" THEN 0 ELSE 1) /\ cuts' <= MaxCuts
    /\ Interrupt
    /\ BootFrom(slot', ctl')
    /\ calm' = 0 /\ LosesControl
    /\ UNCHANGED <<nonce, faults, told, wrong>>

-----------------------------------------------------------------------------
(***************************************************************************)
(* An error return: of a flash access, of an allocation or of the cipher.  *)
(***************************************************************************)
FaultAt(step) ==
    /\ pc = step /\ faults < MaxFaults
    /\ faults' = faults + 1
    /\ Interrupt

Return == pc' = "idle" /\ op' = Idle

\* Wrong on purpose: a failed PIN change leaves the session under the new key.
AbandonKeepsKey == Return /\ UNCHANGED session

\* create wipes the key, change_pin wipes it and locks, the others return.
AbandonBlob ==
    /\ Return
    /\ s_key' = IF op.call = "save" THEN s_key ELSE NoPin
    /\ s_state' = IF op.call = "change" THEN "LOCKED" ELSE s_state
    /\ UNCHANGED <<s_hdr, s_current>>

BlobFault ==
    /\ \E step \in {"erase", "body", "header"} : FaultAt(step)
    /\ AbandonBlob
    /\ UNCHANGED <<gate, nonce, cuts, told, checks>>

\* Ignored: the format 1 slots stay valid in RAM.
EraseV1Fault ==
    /\ FaultAt("v1")
    /\ AfterBlob
    /\ UNCHANGED <<session, gate, nonce, cuts, checks>>

\* Ends create; before a check it is returned, after one it is ignored.
ControlFault ==
    /\ \E step \in {"ctlErase", "ctlWrite"} : FaultAt(step)
    /\ Return /\ LosesControl
    /\ s_key' = IF op.call = "create" THEN NoPin ELSE s_key
    /\ UNCHANGED <<s_state, s_hdr, s_current, gate, nonce, cuts, told, wrong, calm>>

\* unlock has no memory for the key: the check is counted, not refused.
SearchFault ==
    /\ FaultAt("search")
    /\ Return
    /\ UNCHANGED <<session, gate, nonce, cuts, told, checks>>

\* read_blob fails on the slot that would have opened: the next is tried.
SearchMisread ==
    /\ Misreads /\ FaultAt("search")
    /\ \E t \in Slots :
        /\ Opens(slot, s_hdr, t, op.pin)
        /\ LET rest == [slot EXCEPT ![t].body = Junk]
           IN \/ \E s \in Slots : Opens(rest, s_hdr, s, op.pin) /\ Found(s)
              \/ /\ \A s \in Slots : ~Decrypts(rest, s_hdr, s, op.pin)
                 /\ Refuse /\ UNCHANGED <<session, told>>
    /\ UNCHANGED <<nonce, cuts>>

\* verify_pin has no memory for the key: refused as a wrong PIN.
CompareFault ==
    /\ FaultAt("compare")
    /\ Refuse
    /\ UNCHANGED <<session, nonce, cuts, told>>

EraseAllFault ==
    /\ FaultAt("eraseAll")
    /\ Return /\ LosesControl
    /\ UNCHANGED <<session, gate, nonce, cuts, told, wrong, calm>>

\* Time passes: one more of the five delays has gone by.  It is observed when
\* a call starts and the failures are about to be, or are, delayed.
Tick ==
    /\ pc = "idle" /\ s_fail_count >= 2 /\ calm < 5
    /\ calm' = calm + 1
    /\ s_last_fail' = IF s_last_fail < 5 THEN s_last_fail + 1 ELSE 5
    /\ UNCHANGED <<flash, session, s_fail_count, pc, op, nonce, cuts, faults, told, wrong, ctlLost>>

-----------------------------------------------------------------------------
ApiCall ==
    \/ \E p \in Pins : Create(p) \/ Unlock(p) \/ VerifyPin(p)
    \/ \E r \in Records : Save(r)
    \/ \E p \in Pins, r \in Records : ChangePin(p, r)
    \/ Lock
    \/ Erase

FlashStep == EraseSlot \/ WriteBody \/ WriteHeader \/ EraseV1 \/ EraseControl \/ WriteControl \/ EraseAll

CheckStep == (\E s \in Slots : SearchFound(s)) \/ SearchFailed \/ CompareOk \/ CompareFailed

Fault == BlobFault \/ EraseV1Fault \/ ControlFault \/ SearchFault \/ SearchMisread
         \/ CompareFault \/ EraseAllFault

Next == ApiCall \/ FlashStep \/ CheckStep \/ PowerCut \/ Fault \/ Tick

Spec == Init /\ [][Next]_vars

-----------------------------------------------------------------------------
(***************************************************************************)
(* Properties.                                                             *)
(***************************************************************************)
PcSet == {"idle", "erase", "body", "header", "v1", "ctlErase", "ctlWrite",
          "search", "compare", "eraseAll"}

Op == [call : {"none", "create", "unlock", "save", "change", "verify", "erase"},
       pin : Pins \cup {NoPin}, recs : Records, left : 0..2, count : Nat]

\* Every variable keeps the type of the C object (or history) it stands for.
TypeOK ==
    /\ slot \in [Slots -> Slot] /\ ctl \in Nat \cup {Junk}
    /\ s_state \in {"BLANK", "LOCKED", "UNLOCKED"}
    /\ s_hdr \in [Slots -> Blob \cup {Junk}]
    /\ s_current \in {-1} \cup Slots
    /\ s_key \in Pins \cup {NoPin}
    /\ s_fail_count \in Nat /\ s_last_fail \in 0..5
    /\ pc \in PcSet /\ op \in Op
    /\ nonce \in Nat /\ cuts \in Nat /\ faults \in Nat
    /\ promise \subseteq Pair /\ acked \in BOOLEAN
    /\ retired \subseteq Pins /\ migrated \in BOOLEAN /\ revived \in BOOLEAN
    /\ wrong \in Nat /\ calm \in 0..5 /\ ctlLost \in BOOLEAN

\* An unlocked session that holds a key holds the key of the slot its next
\* save leaves alone: whatever write, PIN change or check was interrupted or
\* failed, the current slot decrypts with the key in RAM (until change_pin has
\* written its first copy under the new PIN).
KeyOpensCurrent ==
    (s_state = "UNLOCKED" /\ s_key # NoPin /\ ~(op.call = "change" /\ op.left = 2)) =>
        s_current \in Slots /\ Decrypts(slot, s_hdr, s_current, s_key)

\* Atomic replace (secret_store.h:24): once a call that stored records has
\* returned ESP_OK, a power cut at any moment leaves a store that one of the
\* PINs in play opens on the acknowledged records, or on those of a call that
\* was started since.
DurableStore ==
    (acked /\ ~revived) =>
        \E c \in promise, s \in Slots :
            Opens(slot, Headers(slot), s, c.pin) /\ slot[s].hdr.recs = c.recs

\* An unlock never delivers an older version of the records than the last one
\* acknowledged, although the older slot still holds one.
UnlockReturnsPromise ==
    [][\A s \in Slots :
        (SearchFound(s) /\ acked /\ ~revived') =>
            [pin |-> op.pin, recs |-> s_hdr[s].recs] \in promise]_vars

\* secret_store.c:609 for the slots change_pin writes: after it has returned
\* ESP_OK no format 2 slot opens with a PIN it replaced.
NewPinOnFormat2 ==
    ~revived => \A p \in retired, s \in V2 : ~Decrypts(slot, Headers(slot), s, p)

Stored == IF ctl = Junk THEN 0 ELSE ctl

\* The failure counter, in RAM and on flash, covers every PIN check refused
\* since the last accepted one, over reboots and over both calls that check a
\* PIN, unless a rewrite of the control sector was interrupted.
FailuresCounted ==
    ctlLost \/ (s_fail_count >= wrong /\ (pc # "ctlWrite" => Stored >= wrong))

\* No PIN check starts before the delay its predecessors earned has gone by
\* since the last refusal or the boot.
BackoffHonoured ==
    [][(pc = "idle" /\ op'.call \in {"unlock", "verify"}) =>
            (ctlLost \/ calm >= Delay(wrong))]_vars

(***************************************************************************)
(* The promise of Vault, with the history of this module for its `copies`. *)
(***************************************************************************)
Promised == INSTANCE Vault WITH
    vstate <- s_state,
    vkey <- IF s_state = "UNLOCKED" THEN s_key ELSE NoPin,
    cur <- IF s_state = "UNLOCKED" THEN s_hdr[s_current].recs ELSE Empty,
    copies <- promise,
    made <- acked

\* The store implements Vault, the only face of it the rest of the firmware
\* sees: records never mix, never come back from an older slot and survive
\* any cut or error of the steps that write them (a store born format 2).
KeepsPromise == Promised!VaultSpec

=============================================================================
