-------------------------- MODULE SecretStoreProofs --------------------------
(***************************************************************************)
(* Theorems about SecretStore, for every set of PINs and record arrays and *)
(* for every bound.                                                        *)
(***************************************************************************)
EXTENDS SecretStore, TLAPS

(***************************************************************************)
(* The inductive strengthening.                                            *)
(***************************************************************************)
\* The call a step belongs to, and what the step may rely on.
Phase ==
    /\ pc = "idle" => op = Idle
    /\ pc \in {"erase", "body", "header", "v1"} =>
          op.call \in {"create", "save", "change"} /\ op.left > 0
    /\ pc \in {"ctlErase", "ctlWrite"} => op.call \in {"create", "unlock", "verify"}
    /\ pc \in {"search", "compare"} => op.call \in {"unlock", "verify"}
    /\ pc = "eraseAll" => s_key = NoPin
    /\ op.call = "create" => s_state = "BLANK" /\ op.count = 0

\* s_current indexes a header the component holds.
CurrentValid == s_current # -1 => s_hdr[s_current] # Junk

\* What type correctness rests on: a blob takes its sequence number from the
\* current header, and the erase of format 1 does not take that header away.
TypeInv == TypeOK /\ CurrentValid /\ (pc = "v1" => s_current \in V2)

\* The header is written last, over the body it authenticates.
BodyFirst == pc = "header" => slot[Target].body = NewBlob

\* The blob just written is the current one, and it is of format 2 ...
Written ==
    /\ pc = "v1" => s_current \in V2
    /\ (pc = "v1" \/ (op.call = "create" /\ pc \in {"ctlErase", "ctlWrite"})) =>
          s_current \in Slots /\ Decrypts(slot, s_hdr, s_current, s_key)

KeyInv == Phase /\ BodyFirst /\ Written /\ KeyOpensCurrent

\* A blob is told from those before it by its nonce ...
Fresh ==
    \A s \in Slots :
        /\ slot[s].hdr # Junk => slot[s].hdr.nonce <= nonce
        /\ s_hdr[s] # Junk => s_hdr[s].nonce <= nonce
        /\ pc \in {"body", "header"} /\ s_hdr[s] # Junk => s_hdr[s].nonce < nonce

\* ... so a body that the header in RAM authenticates has it in flash too.
Twin == \A s \in Slots : s_hdr[s] # Junk /\ slot[s].body = s_hdr[s] => slot[s].hdr # Junk

\* The header that keeps the store from reading as blank at the next boot.
Kept == s_state # "BLANK" /\ ~ctlLost => s_current # -1 /\ slot[s_current].hdr # Junk

\* A PIN check or change needs a store; a check is counted before it is made.
CheckPhase ==
    /\ op.call = "unlock" => s_state # "BLANK"
    /\ op.call = "verify" => s_state = "UNLOCKED" /\ op.pin \in Pins
    /\ op.call = "change" => s_state = "UNLOCKED"
    /\ pc = "compare" => op.call = "verify"
    /\ pc \in {"search", "compare"} =>
          ctlLost \/ (s_fail_count > wrong /\ ctl # Junk /\ ctl > wrong)
    /\ pc \in {"ctlErase", "ctlWrite"} =>
          \/ op.count = 0 /\ (ctlLost \/ wrong = 0)
          \/ op.count = s_fail_count + 1

GateInv ==
    /\ Kept /\ CheckPhase /\ FailuresCounted
    /\ s_state = "BLANK" => ctlLost \/ wrong = 0
    /\ s_last_fail <= calm

-----------------------------------------------------------------------------
(***************************************************************************)
(* Lemmas about the operators of the model.                                *)
(***************************************************************************)
\* The current slot is -1 or the slot of a valid header.
LEMMA CurrentOfType ==
    ASSUME NEW h \in [Slots -> Blob \cup {Junk}]
    PROVE  /\ CurrentOf(h) \in {-1} \cup Slots
           /\ CurrentOf(h) # -1 => h[CurrentOf(h)] # Junk
           /\ CurrentOf(h) = -1 => \A s \in Slots : h[s] = Junk
<1> DEFINE Newest(S, s) == /\ s \in S /\ h[s] # Junk
                           /\ \A t \in S \ {s} : h[t] # Junk => Before(h, s, t)
           Some(S) == (\E t \in S : h[t] # Junk) => \E s \in S : Newest(S, s)
<1>1. \A s \in Slots : h[s] # Junk => h[s].seq \in Nat
  BY DEF Blob
<1>2. \A s \in Slots : s \in Int
  BY DEF Slots, V1, V2
<1>3. ASSUME NEW S \in SUBSET Slots, NEW n \in Slots, Some(S)
      PROVE  Some(S \cup {n})
  <2>1. CASE h[n] = Junk
    BY <1>3, <2>1
  <2>2. CASE h[n] # Junk /\ \A t \in S : h[t] = Junk
    <3>1. Newest(S \cup {n}, n)
      BY <2>2
    <3> QED BY <3>1
  <2>3. CASE h[n] # Junk /\ \E t \in S : h[t] # Junk
    <3>1. PICK s \in S : Newest(S, s)
      BY <1>3, <2>3
    <3>2. CASE s = n
      BY <3>1, <3>2
    <3>3. CASE s # n /\ Before(h, s, n)
      <4>1. Newest(S \cup {n}, s)
        BY <3>1, <3>3
      <4> QED BY <4>1
    <3>4. CASE s # n /\ ~Before(h, s, n)
      <4>1. Before(h, n, s)
        BY <1>1, <1>2, <2>3, <3>1, <3>4 DEF Before
      <4>2. ASSUME NEW t \in S, t # n, h[t] # Junk
            PROVE  Before(h, n, t)
        BY <1>1, <1>2, <2>3, <3>1, <4>1, <4>2 DEF Before
      <4>3. Newest(S \cup {n}, n)
        BY <2>3, <4>2
      <4> QED BY <4>3
    <3> QED BY <3>2, <3>3, <3>4
  <2> QED BY <2>1, <2>2, <2>3
<1>4. Some({})
  OBVIOUS
<1>5. Some({0})
  <2>1. Some({} \cup {0})
    BY <1>3, <1>4 DEF Slots, V1
  <2> QED BY <2>1
<1>6. Some({0, 1})
  <2>1. Some({0} \cup {1})
    BY <1>3, <1>5 DEF Slots, V1
  <2>2. {0} \cup {1} = {0, 1}
    OBVIOUS
  <2> QED BY <2>1, <2>2
<1>7. Some({0, 1, 2})
  <2>1. Some({0, 1} \cup {2})
    BY <1>3, <1>6 DEF Slots, V1, V2
  <2>2. {0, 1} \cup {2} = {0, 1, 2}
    OBVIOUS
  <2> QED BY <2>1, <2>2
<1>8. Some(Slots)
  <2>. {0, 1, 2} \in SUBSET Slots /\ 3 \in Slots
    BY DEF Slots, V1, V2
  <2>1. Some({0, 1, 2} \cup {3})
    <3> HIDE DEF Some
    <3> QED BY <1>3, <1>7
  <2>2. {0, 1, 2} \cup {3} = Slots
    BY DEF Slots, V1, V2
  <2> QED BY <2>1, <2>2
<1>9. CASE \A s \in Slots : h[s] = Junk
  BY <1>9 DEF CurrentOf
<1>10. CASE \E s \in Slots : h[s] # Junk
  <2>1. PICK s \in Slots : Newest(Slots, s)
    BY <1>8, <1>10
  <2>2. CurrentOf(h) = CHOOSE x \in Slots : /\ h[x] # Junk
                              /\ \A t \in Slots \ {x} : h[t] # Junk => Before(h, x, t)
    BY <1>10 DEF CurrentOf
  <2>3. CurrentOf(h) \in Slots /\ h[CurrentOf(h)] # Junk
    BY <2>1, <2>2
  <2> QED BY <2>3 DEF Slots, V1, V2
<1> QED BY <1>9, <1>10

\* A save never writes the slot it could fall back to.
LEMMA TargetType ==
    ASSUME s_current \in {-1} \cup Slots
    PROVE  /\ Target \in V2 /\ Target \in Slots
           /\ Target # s_current
BY DEF Target, Slots, V1, V2

\* The blob a save writes, whole or torn, is a blob.
LEMMA NewBlobType ==
    ASSUME TypeOK, CurrentValid
    PROVE  /\ NewBlob \in Blob /\ NewBlob # Junk
           /\ NewBlob.pin = s_key /\ NewBlob.nonce = nonce /\ NewBlob.recs = op.recs
           /\ TornHeader \in Blob /\ TornHeader # Junk /\ TornHeader.nonce = 0
<1>1. s_current # -1 => s_hdr[s_current].seq \in Nat
  BY DEF TypeOK, CurrentValid, Blob
<1>2. NewBlob \in Blob
  BY <1>1 DEF TypeOK, NewBlob, Blob, Op
<1>3. TornHeader \in Blob
  BY <1>2 DEF TornHeader, Blob
<1> QED BY <1>2, <1>3, StoreAssumption DEF NewBlob, TornHeader

\* An interrupted erase leaves well-formed slots, and the slots outside the
\* erased range as they were.
LEMMA EraseUpToType ==
    ASSUME slot \in [Slots -> Slot], NEW S \in SUBSET Slots, EraseUpTo(S)
    PROVE  /\ slot' \in [Slots -> Slot]
           /\ \A s \in Slots \ S : slot'[s] = slot[s]
           /\ \A s \in Slots : \/ slot'[s] = slot[s] \/ slot'[s] = Erased
                               \/ slot'[s] = [slot[s] EXCEPT !.body = Junk]
<1>1. PICK k \in S : \E v \in {slot[k], [slot[k] EXCEPT !.body = Junk], Erased} :
        slot' = [s \in Slots |-> IF s = k THEN v
                                 ELSE IF s \in S /\ s < k THEN Erased ELSE slot[s]]
  BY DEF EraseUpTo
<1> PICK v \in {slot[k], [slot[k] EXCEPT !.body = Junk], Erased} :
        slot' = [s \in Slots |-> IF s = k THEN v
                                 ELSE IF s \in S /\ s < k THEN Erased ELSE slot[s]]
  BY <1>1
<1>2. v \in Slot /\ Erased \in Slot
  BY DEF Slot, Erased
<1> QED BY <1>1, <1>2

-----------------------------------------------------------------------------
(***************************************************************************)
(* Type correctness.                                                       *)
(***************************************************************************)
\* The absence of a call is well formed.
LEMMA IdleType == Idle \in Op
BY StoreAssumption DEF Idle, Op

\* A new device and a store made by a format 1 firmware are well formed.
LEMMA InitTypeInv == Init => TypeInv
<1>1. ASSUME NEW f \in [Slots -> Slot], NEW made \in SUBSET Pair, InitStore(f, made)
      PROVE  TypeInv
  <2>1. Headers(f) \in [Slots -> Blob \cup {Junk}]
    BY DEF Headers, Slot
  <2>2. /\ s_current \in {-1} \cup Slots
        /\ s_current # -1 => s_hdr[s_current] # Junk
    BY <1>1, <2>1, CurrentOfType DEF InitStore
  <2>3. /\ s_state \in {"BLANK", "LOCKED"} /\ acked \in BOOLEAN
        /\ promise \subseteq Pair /\ retired \subseteq Pins
    BY <1>1 DEF InitStore
  <2>4. migrated \in BOOLEAN /\ revived \in BOOLEAN /\ ctlLost \in BOOLEAN
    BY <1>1 DEF InitStore
  <2> QED BY <1>1, <2>1, <2>2, <2>3, <2>4, IdleType
          DEF InitStore, TypeInv, TypeOK, CurrentValid, PcSet
<1>2. [s \in Slots |-> Erased] \in [Slots -> Slot]
  BY DEF Erased, Slot
<1>3. ASSUME NEW p \in Pins, NEW a \in Records, NEW b \in Records
      PROVE  [s \in Slots |-> CASE s = 0 -> SealedV1(1, p, a)
                                [] s = 1 -> SealedV1(2, p, b)
                                [] OTHER -> Erased] \in [Slots -> Slot]
  <2>1. SealedV1(1, p, a) \in Slot /\ SealedV1(2, p, b) \in Slot /\ Erased \in Slot
    BY DEF SealedV1, Slot, Blob, Erased
  <2> QED BY <2>1
<1>4. ASSUME NEW p \in Pins, NEW b \in Records
      PROVE  {[pin |-> p, recs |-> b]} \in SUBSET Pair
  BY DEF Pair
<1>5. CASE InitStore([s \in Slots |-> Erased], {})
  BY <1>1, <1>2, <1>5
<1>6. ASSUME NEW p \in Pins, NEW a \in Records, NEW b \in Records,
             InitStore([s \in Slots |-> CASE s = 0 -> SealedV1(1, p, a)
                                          [] s = 1 -> SealedV1(2, p, b)
                                          [] OTHER -> Erased],
                       {[pin |-> p, recs |-> b]})
      PROVE  TypeInv
  BY <1>1, <1>3, <1>4, <1>6
<1> QED BY <1>5, <1>6 DEF Init

\* A boot restores the RAM from any contents of the flash.
LEMMA BootTypeInv ==
    ASSUME NEW f \in [Slots -> Slot], NEW c \in Nat \cup {Junk}, BootFrom(f, c)
    PROVE  /\ s_state' \in {"BLANK", "LOCKED"}
           /\ s_hdr' \in [Slots -> Blob \cup {Junk}]
           /\ s_current' \in {-1} \cup Slots
           /\ CurrentValid'
           /\ s_key' = NoPin
           /\ s_fail_count' \in Nat /\ s_last_fail' = 0
           /\ pc' = "idle" /\ op' = Idle
<1>1. Headers(f) \in [Slots -> Blob \cup {Junk}]
  BY DEF Headers, Slot
<1> QED BY <1>1, CurrentOfType DEF BootFrom, CurrentValid

\* An interrupted flash access leaves well-formed slots and counter.
LEMMA InterruptType ==
    ASSUME TypeInv, Interrupt
    PROVE  slot' \in [Slots -> Slot] /\ ctl' \in Nat \cup {Junk}
<1>1. slot \in [Slots -> Slot] /\ ctl \in Nat \cup {Junk} /\ op.count \in Nat
  BY DEF TypeInv, TypeOK, Op
<1>2. Target \in Slots /\ Target \in V2
  BY TargetType DEF TypeInv, TypeOK
<1>3. CASE pc \in {"idle", "body", "search", "compare"} /\ UNCHANGED flash
  BY <1>1, <1>3 DEF flash
<1>4. CASE \E S \in {{Target}, V1, Slots} : EraseUpTo(S) /\ ctl' \in {ctl, Junk}
  BY <1>1, <1>2, <1>4, EraseUpToType DEF Slots
<1>5. CASE \E h \in {Junk, TornHeader, NewBlob} :
             slot' = [slot EXCEPT ![Target].hdr = h] /\ UNCHANGED ctl
  <2>1. TornHeader \in Blob /\ NewBlob \in Blob
    BY NewBlobType DEF TypeInv
  <2> QED BY <1>1, <1>5, <2>1, ZenonT(60) DEF Slot
<1>6. CASE ctl' \in {Junk, ctl, op.count} /\ UNCHANGED slot
  BY <1>1, <1>6
<1> QED BY <1>3, <1>4, <1>5, <1>6 DEF Interrupt

\* What the callers know after write_blob stays well formed.
LEMMA AfterBlobType ==
    ASSUME TypeInv, AfterBlob
    PROVE  /\ pc' \in {"erase", "ctlErase", "idle"} /\ op' \in Op
           /\ promise' \subseteq Pair /\ acked' \in BOOLEAN
           /\ retired' \subseteq Pins /\ migrated' \in BOOLEAN /\ revived' \in BOOLEAN
<1>1. CASE op.left > 1 /\ op' = [op EXCEPT !.left = op.left - 1] /\ pc' = "erase"
           /\ UNCHANGED <<promise, acked, retired, revived>>
  BY <1>1 DEF TypeInv, TypeOK, AfterBlob, Op
<1>2. CASE pc' = "ctlErase" /\ UNCHANGED <<op, promise, acked, retired, revived>>
  BY <1>2 DEF TypeInv, TypeOK, AfterBlob
<1>3. CASE pc' = "idle" /\ op' = Idle /\ Acknowledge
  <2>1. promise' \subseteq Pair /\ retired' \subseteq Pins
    BY <1>3 DEF TypeInv, TypeOK, Acknowledge, Op, Pair
  <2> QED BY <1>3, <2>1, IdleType DEF TypeInv, TypeOK, AfterBlob, Acknowledge
<1> QED BY <1>1, <1>2, <1>3 DEF AfterBlob

\* No call, flash step, check, power cut or fault breaks the types.
LEMMA NextTypeInv == TypeInv /\ [Next]_vars => TypeInv'
<1> SUFFICES ASSUME TypeInv, [Next]_vars PROVE TypeInv'
  OBVIOUS
<1> USE StoreAssumption
<1>1. ASSUME NEW p \in Pins, Create(p) PROVE TypeInv'
  BY <1>1 DEF TypeInv, TypeOK, CurrentValid, Create, Call, flash, gate, checks, Op, PcSet, Pair
<1>2. ASSUME NEW p \in Pins, Unlock(p) PROVE TypeInv'
  BY <1>2 DEF TypeInv, TypeOK, CurrentValid, Unlock, Call, flash, session, gate, told, checks, Op, PcSet
<1>3. ASSUME NEW r \in Records, Save(r) PROVE TypeInv'
  BY <1>3 DEF TypeInv, TypeOK, CurrentValid, Save, Call, flash, session, gate, checks, Op, PcSet, Pair
<1>4. ASSUME NEW p \in Pins, NEW r \in Records, ChangePin(p, r) PROVE TypeInv'
  BY <1>4 DEF TypeInv, TypeOK, CurrentValid, ChangePin, Call, flash, gate, checks, Op, PcSet, Pair
<1>5. ASSUME NEW p \in Pins, VerifyPin(p) PROVE TypeInv'
  BY <1>5 DEF TypeInv, TypeOK, CurrentValid, VerifyPin, Call, flash, session, gate, told, checks, Op, PcSet
<1>6. CASE Lock
  BY <1>6 DEF TypeInv, TypeOK, CurrentValid, Lock, flash, gate, told, checks
<1>7. CASE Erase
  <2>1. op' \in Op /\ pc' = "eraseAll"
    BY <1>7 DEF Erase, Call, Op
  <2> QED BY <1>7, <2>1 DEF TypeInv, TypeOK, CurrentValid, Erase, flash, gate, checks, PcSet
<1>8. CASE EraseSlot
  <2>1. Erased \in Slot
    BY DEF Slot, Erased
  <2>2. slot' \in [Slots -> Slot]
    BY <1>8, <2>1 DEF TypeInv, TypeOK, EraseSlot
  <2> QED BY <1>8, <2>2 DEF TypeInv, TypeOK, CurrentValid, EraseSlot, session, gate, told, checks, PcSet
<1>9. CASE WriteBody
  <2>1. NewBlob \in Blob
    BY NewBlobType DEF TypeInv
  <2>2. slot' \in [Slots -> Slot]
    BY <1>9, <2>1 DEF TypeInv, TypeOK, WriteBody, Slot
  <2> QED BY <1>9, <2>2 DEF TypeInv, TypeOK, CurrentValid, WriteBody, session, gate, told, checks, PcSet
<1>10. CASE WriteHeader
  <2>1. NewBlob \in Blob /\ NewBlob # Junk
    BY NewBlobType DEF TypeInv
  <2>2. Target \in Slots /\ Target \in V2
    BY TargetType DEF TypeInv, TypeOK
  <2>3. slot' \in [Slots -> Slot] /\ s_hdr' \in [Slots -> Blob \cup {Junk}]
    BY <1>10, <2>1 DEF TypeInv, TypeOK, WriteHeader, Slot
  <2>4. s_current' \in V2 /\ s_current' \in Slots /\ CurrentValid'
    BY <1>10, <2>1, <2>2 DEF TypeInv, TypeOK, CurrentValid, WriteHeader
  <2>5. CASE pc' = "v1" /\ UNCHANGED <<op, told>>
    BY <1>10, <2>3, <2>4, <2>5 DEF TypeInv, TypeOK, WriteHeader, gate, told, checks, PcSet
  <2>6. CASE AfterBlob
    BY <1>10, <2>3, <2>4, <2>6, AfterBlobType DEF TypeInv, TypeOK, WriteHeader, gate, checks, PcSet
  <2> QED BY <1>10, <2>5, <2>6 DEF WriteHeader
<1>11. CASE EraseV1
  <2>1. slot' \in [Slots -> Slot] /\ s_hdr' \in [Slots -> Blob \cup {Junk}]
    BY <1>11 DEF TypeInv, TypeOK, EraseV1, Slot, Erased
  <2>2. CurrentValid'
    BY <1>11 DEF TypeInv, TypeOK, CurrentValid, EraseV1, Slots, V1, V2
  <2> QED BY <1>11, <2>1, <2>2, AfterBlobType DEF TypeInv, TypeOK, EraseV1, gate, checks, PcSet
<1>12. CASE EraseControl
  BY <1>12 DEF TypeInv, TypeOK, CurrentValid, EraseControl, session, gate, told, checks, PcSet
<1>13. CASE WriteControl
  <2>1. /\ pc' \in PcSet \ {"v1"} /\ op' \in Op
        /\ ctl' \in Nat \cup {Junk} /\ s_fail_count' \in Nat
        /\ s_state' \in {"BLANK", "LOCKED", "UNLOCKED"}
    BY <1>13, IdleType DEF TypeInv, TypeOK, WriteControl, PcSet, Op
  <2>2. promise' \subseteq Pair /\ retired' \subseteq Pins
    BY <1>13 DEF TypeInv, TypeOK, WriteControl, Acknowledge, told, Op, Pair
  <2>3. acked' \in BOOLEAN /\ UNCHANGED <<migrated, revived>>
    BY <1>13 DEF TypeInv, TypeOK, WriteControl, Acknowledge, told
  <2> QED BY <1>13, <2>1, <2>2, <2>3 DEF TypeInv, TypeOK, CurrentValid, WriteControl, checks
<1>14. CASE EraseAll
  <2>1. slot' \in [Slots -> Slot] /\ s_hdr' \in [Slots -> Blob \cup {Junk}]
    BY <1>14 DEF EraseAll, Slot, Erased
  <2> QED BY <1>14, <2>1, IdleType DEF TypeInv, TypeOK, CurrentValid, EraseAll, PcSet
<1>15. ASSUME NEW s \in Slots, s_hdr[s] # Junk, Found(s),
              UNCHANGED <<slot, ctl, nonce, cuts>>, faults' \in Nat
       PROVE  TypeInv'
  BY <1>15 DEF TypeInv, TypeOK, CurrentValid, Found, Accept, gate, PcSet, Op
<1>16. ASSUME Refuse, UNCHANGED <<slot, ctl, session, nonce, cuts, told>>, faults' \in Nat
       PROVE  TypeInv'
  BY <1>16 DEF TypeInv, TypeOK, CurrentValid, Refuse, session, told, PcSet, Op, Idle
<1>17. ASSUME NEW s \in Slots, SearchFound(s) PROVE TypeInv'
  BY <1>15, <1>17 DEF SearchFound, Opens, Decrypts, flash, TypeInv, TypeOK
<1>18. CASE SearchFailed
  BY <1>16, <1>18 DEF SearchFailed, flash, TypeInv, TypeOK
<1>19. CASE CompareOk
  BY <1>19 DEF TypeInv, TypeOK, CurrentValid, CompareOk, Accept, flash, session, gate, told, PcSet, Op
<1>20. CASE CompareFailed
  BY <1>16, <1>20 DEF CompareFailed, flash, TypeInv, TypeOK
<1>21. CASE PowerCut
  <2>1. slot' \in [Slots -> Slot] /\ ctl' \in Nat \cup {Junk}
    BY <1>21, InterruptType DEF PowerCut
  <2>2. /\ s_state' \in {"BLANK", "LOCKED"}
        /\ s_hdr' \in [Slots -> Blob \cup {Junk}]
        /\ s_current' \in {-1} \cup Slots /\ CurrentValid'
        /\ s_key' = NoPin /\ s_fail_count' \in Nat /\ s_last_fail' = 0
        /\ pc' = "idle" /\ op' = Idle
    BY <1>21, <2>1, BootTypeInv DEF PowerCut
  <2> QED BY <1>21, <2>1, <2>2 DEF TypeInv, TypeOK, PowerCut, LosesControl, told, PcSet, Op, Idle
<1>22. ASSUME NEW step \in PcSet, FaultAt(step)
       PROVE  slot' \in [Slots -> Slot] /\ ctl' \in Nat \cup {Junk} /\ faults' \in Nat
  BY <1>22, InterruptType DEF FaultAt, TypeInv, TypeOK
<1>23. CASE BlobFault
  BY <1>22, <1>23 DEF BlobFault, AbandonBlob, Return, TypeInv, TypeOK, CurrentValid, gate, told, checks, PcSet, Op, Idle
<1>24. CASE EraseV1Fault
  BY <1>22, <1>24, AfterBlobType DEF EraseV1Fault, TypeInv, TypeOK, CurrentValid, session, gate, checks, PcSet
<1>25. CASE ControlFault
  BY <1>22, <1>25 DEF ControlFault, LosesControl, Return, TypeInv, TypeOK, CurrentValid, gate, told, PcSet, Op, Idle
<1>26. CASE SearchFault
  BY <1>22, <1>26 DEF SearchFault, Return, TypeInv, TypeOK, CurrentValid, session, gate, told, checks, PcSet, Op, Idle
<1>27. CASE SearchMisread
  <2>1. faults' \in Nat /\ UNCHANGED <<slot, ctl, nonce, cuts>>
    BY <1>22, <1>27 DEF SearchMisread, FaultAt, Interrupt, flash, PcSet
  <2>2. PICK t \in Slots :
          LET rest == [slot EXCEPT ![t].body = Junk]
          IN \/ \E s \in Slots : Opens(rest, s_hdr, s, op.pin) /\ Found(s)
             \/ Refuse /\ UNCHANGED <<session, told>>
    BY <1>27 DEF SearchMisread
  <2>3. CASE Refuse /\ UNCHANGED <<session, told>>
    BY <1>16, <2>1, <2>3
  <2>4. CASE \E s \in Slots : Opens([slot EXCEPT ![t].body = Junk], s_hdr, s, op.pin) /\ Found(s)
    BY <1>15, <2>1, <2>4 DEF Opens, Decrypts
  <2> QED BY <2>2, <2>3, <2>4
<1>28. CASE CompareFault
  <2>1. faults' \in Nat /\ UNCHANGED <<slot, ctl>>
    BY <1>22, <1>28 DEF CompareFault, FaultAt, Interrupt, flash, PcSet
  <2> QED BY <1>16, <1>28, <2>1 DEF CompareFault
<1>29. CASE EraseAllFault
  BY <1>22, <1>29 DEF EraseAllFault, LosesControl, Return, TypeInv, TypeOK, CurrentValid, session, gate, told, PcSet, Op, Idle
<1>30. CASE Tick
  BY <1>30 DEF TypeInv, TypeOK, CurrentValid, Tick, flash, session, told
<1>31. CASE UNCHANGED vars
  BY <1>31 DEF TypeInv, TypeOK, CurrentValid, vars, flash, session, gate, told, checks
<1> QED
  BY <1>1, <1>2, <1>3, <1>4, <1>5, <1>6, <1>7, <1>8, <1>9, <1>10, <1>11, <1>12, <1>13, <1>14,
     <1>17, <1>18, <1>19, <1>20, <1>21, <1>23, <1>24, <1>25, <1>26, <1>27, <1>28, <1>29, <1>30, <1>31
  DEF Next, ApiCall, FlashStep, CheckStep, Fault

\* Every reachable state is well typed: no call, cut or fault leaves an object
\* of the component or of the flash outside its type.
THEOREM TypeCorrect == Spec => []TypeOK
<1>1. TypeInv => TypeOK
  BY DEF TypeInv
<1> QED BY <1>1, InitTypeInv, NextTypeInv, PTL DEF Spec

-----------------------------------------------------------------------------
(***************************************************************************)
(* The key in RAM opens the current slot.                                  *)
(***************************************************************************)
\* An interrupted access of a save leaves the current slot alone.
LEMMA InterruptKeepsCurrent ==
    ASSUME TypeInv, Interrupt, s_current \in Slots,
           pc \in {"erase", "body", "header", "v1", "ctlErase", "ctlWrite", "search", "compare"}
    PROVE  slot'[s_current] = slot[s_current]
<1>1. Target \in Slots /\ Target # s_current
  BY TargetType DEF TypeInv, TypeOK
<1>2. slot \in [Slots -> Slot]
  BY DEF TypeInv, TypeOK
<1>3. CASE pc = "erase"
  <2>1. EraseUpTo({Target})
    BY <1>3 DEF Interrupt
  <2> QED BY <1>1, <1>2, <2>1, EraseUpToType
<1>4. CASE pc = "v1"
  <2>1. EraseUpTo(V1)
    BY <1>4 DEF Interrupt
  <2>2. s_current \notin V1 /\ V1 \in SUBSET Slots
    BY <1>4 DEF TypeInv, V1, V2, Slots
  <2> QED BY <1>2, <2>1, <2>2, EraseUpToType
<1>5. CASE pc = "header"
  BY <1>1, <1>2, <1>5 DEF Interrupt
<1>6. CASE pc \notin {"erase", "v1", "header"}
  BY <1>6 DEF Interrupt, flash
<1> QED BY <1>3, <1>4, <1>5, <1>6

\* The header completes the blob: the slot it is written to opens with the key.
LEMMA HeaderCompletes ==
    ASSUME TypeInv, BodyFirst, WriteHeader
    PROVE  /\ s_current' \in V2 /\ s_current' \in Slots /\ s_key' = s_key
           /\ Decrypts(slot', s_hdr', s_current', s_key)
<1>1. NewBlob # Junk /\ NewBlob.pin = s_key
  BY NewBlobType DEF TypeInv
<1>2. Target \in Slots /\ Target \in V2 /\ s_current' = Target
  BY TargetType DEF TypeInv, TypeOK, WriteHeader
<1>3. slot \in [Slots -> Slot] /\ s_hdr \in [Slots -> Blob \cup {Junk}]
  BY DEF TypeInv, TypeOK
<1>4. slot'[Target].body = slot[Target].body
  BY <1>2, <1>3 DEF WriteHeader, Slot
<1>5. slot'[Target].body = NewBlob /\ s_hdr'[Target] = NewBlob
  BY <1>2, <1>3, <1>4 DEF WriteHeader, BodyFirst
<1> QED BY <1>1, <1>2, <1>5 DEF Decrypts, WriteHeader

\* After write_blob the phases stay consistent.
LEMMA AfterBlobKey ==
    ASSUME TypeInv, Phase, AfterBlob, pc \in {"header", "v1"}, UNCHANGED <<s_state, s_key>>,
           s_current' \in Slots, Decrypts(slot', s_hdr', s_current', s_key)
    PROVE  KeyInv'
<1>1. CASE op.left > 1 /\ op' = [op EXCEPT !.left = op.left - 1] /\ pc' = "erase"
  <2>1. op'.call = op.call /\ op'.count = op.count /\ op'.left > 0
    BY <1>1 DEF TypeInv, TypeOK, Op
  <2> QED BY <1>1, <2>1 DEF KeyInv, Phase, BodyFirst, Written, KeyOpensCurrent
<1>2. CASE op.left = 1 /\ op.call = "create" /\ pc' = "ctlErase" /\ UNCHANGED op
  BY <1>2 DEF KeyInv, Phase, BodyFirst, Written, KeyOpensCurrent
<1>3. CASE pc' = "idle" /\ op' = Idle
  BY <1>3 DEF KeyInv, Phase, BodyFirst, Written, KeyOpensCurrent, Idle
<1> QED BY <1>1, <1>2, <1>3 DEF AfterBlob

\* Every step keeps the header last, the blob just written current and the
\* key of an unlocked session the one that opens the current slot.
LEMMA NextKeyInv == TypeInv /\ KeyInv /\ [Next]_vars => KeyInv'
<1> SUFFICES ASSUME TypeInv, KeyInv, [Next]_vars PROVE KeyInv'
  OBVIOUS
<1> USE StoreAssumption
<1> DEFINE Ready == s_current \in Slots /\ Decrypts(slot, s_hdr, s_current, s_key)
           Back == pc' = "idle" /\ op' = Idle
\* What most steps do: go back to idle, with the current slot as it was.
<1>a. ASSUME Back, KeyOpensCurrent' PROVE KeyInv'
  BY <1>a DEF KeyInv, Phase, BodyFirst, Written, Idle
<1>b. ASSUME UNCHANGED <<s_hdr, s_current, s_key>>, s_current \in Slots => slot'[s_current] = slot[s_current],
             Ready
      PROVE  s_current' \in Slots /\ Decrypts(slot', s_hdr', s_current', s_key')
  BY <1>b DEF Decrypts
<1>1. ASSUME NEW p \in Pins, Create(p) PROVE KeyInv'
  BY <1>1 DEF KeyInv, Phase, BodyFirst, Written, KeyOpensCurrent, Create, Call
<1>2. ASSUME NEW p \in Pins, Unlock(p) \/ VerifyPin(p) PROVE KeyInv'
  BY <1>2 DEF KeyInv, Phase, BodyFirst, Written, KeyOpensCurrent, Unlock, VerifyPin, Call, flash, session, Idle, Decrypts
<1>3. ASSUME NEW r \in Records, Save(r) PROVE KeyInv'
  BY <1>3 DEF KeyInv, Phase, BodyFirst, Written, KeyOpensCurrent, Save, Call, flash, session, Idle, Decrypts
<1>4. ASSUME NEW p \in Pins, NEW r \in Records, ChangePin(p, r) PROVE KeyInv'
  BY <1>4 DEF KeyInv, Phase, BodyFirst, Written, KeyOpensCurrent, ChangePin, Call
<1>5. CASE Lock
  BY <1>5 DEF KeyInv, Phase, BodyFirst, Written, KeyOpensCurrent, Lock, Idle
<1>6. CASE Erase
  BY <1>6 DEF KeyInv, Phase, BodyFirst, Written, KeyOpensCurrent, Erase, Call
<1>7. CASE EraseSlot
  <2>1. s_current \in Slots => slot'[s_current] = slot[s_current]
    BY <1>7, TargetType DEF EraseSlot, TypeInv, TypeOK
  <2>2. KeyOpensCurrent'
    BY <1>b, <1>7, <2>1 DEF EraseSlot, session, KeyInv, KeyOpensCurrent
  <2> QED BY <1>7, <2>2 DEF EraseSlot, session, KeyInv, Phase, BodyFirst, Written
<1>8. CASE WriteBody
  <2>1. s_current \in Slots => slot'[s_current] = slot[s_current]
    BY <1>8, TargetType DEF WriteBody, TypeInv, TypeOK
  <2>2. KeyOpensCurrent'
    BY <1>b, <1>8, <2>1 DEF WriteBody, session, KeyInv, KeyOpensCurrent
  <2>3. Target' = Target /\ NewBlob' = NewBlob
    BY <1>8 DEF WriteBody, session, Target, NewBlob
  <2>4. slot'[Target].body = NewBlob
    BY <1>8, TargetType DEF WriteBody, TypeInv, TypeOK, Slot
  <2> QED BY <1>8, <2>2, <2>3, <2>4 DEF WriteBody, session, KeyInv, Phase, BodyFirst, Written
<1>9. CASE WriteHeader
  <2>1. /\ s_current' \in V2 /\ s_current' \in Slots
        /\ Decrypts(slot', s_hdr', s_current', s_key) /\ UNCHANGED <<s_state, s_key>>
    BY <1>9, HeaderCompletes DEF KeyInv, WriteHeader
  <2>2. CASE pc' = "v1" /\ UNCHANGED op
    BY <1>9, <2>1, <2>2 DEF WriteHeader, KeyInv, Phase, BodyFirst, Written, KeyOpensCurrent
  <2>3. CASE AfterBlob
    BY <1>9, <2>1, <2>3, AfterBlobKey DEF WriteHeader, KeyInv
  <2> QED BY <1>9, <2>2, <2>3 DEF WriteHeader
<1>10. CASE EraseV1
  <2>1. Ready /\ s_current \notin V1
    BY <1>10 DEF EraseV1, KeyInv, Written, V1, V2
  <2>2. slot'[s_current] = slot[s_current] /\ s_hdr'[s_current] = s_hdr[s_current]
    BY <1>10, <2>1 DEF EraseV1
  <2>3. s_current' \in Slots /\ Decrypts(slot', s_hdr', s_current', s_key)
    BY <1>10, <2>1, <2>2 DEF EraseV1, Decrypts
  <2> QED BY <1>10, <2>3, AfterBlobKey DEF EraseV1, KeyInv
<1>11. CASE EraseControl
  BY <1>11 DEF EraseControl, session, KeyInv, Phase, BodyFirst, Written, KeyOpensCurrent, Decrypts
<1>12. CASE WriteControl
  <2>1. CASE op.count > 0 /\ pc' \in {"compare", "search"} /\ UNCHANGED <<op, s_state>>
    BY <1>12, <2>1 DEF WriteControl, KeyInv, Phase, BodyFirst, Written, KeyOpensCurrent, Decrypts
  <2>2. CASE Back
    <3>1. KeyOpensCurrent'
      BY <1>12, <2>2 DEF WriteControl, KeyInv, Phase, Written, KeyOpensCurrent, Idle, Decrypts
    <3> QED BY <1>a, <2>2, <3>1
  <2> QED BY <1>12, <2>1, <2>2 DEF WriteControl
<1>13. CASE EraseAll
  BY <1>13 DEF EraseAll, KeyInv, Phase, BodyFirst, Written, KeyOpensCurrent, Idle
<1>14. ASSUME NEW s \in Slots, pc = "search", Decrypts(slot, s_hdr, s, op.pin), Found(s), UNCHANGED slot
       PROVE  KeyInv'
  <2>1. pc' = "ctlErase" /\ op'.call = op.call /\ s_state' = "UNLOCKED"
    BY <1>14 DEF Found, Accept, TypeInv, TypeOK, Op
  <2>2. s_current' \in Slots /\ Decrypts(slot', s_hdr', s_current', s_key')
    BY <1>14 DEF Found, Decrypts
  <2>3. op.call \in {"unlock", "verify"}
    BY <1>14 DEF KeyInv, Phase
  <2> QED BY <2>1, <2>2, <2>3 DEF KeyInv, Phase, BodyFirst, Written, KeyOpensCurrent
<1>15. ASSUME pc \in {"search", "compare"}, Refuse, UNCHANGED <<slot, session>>
       PROVE  KeyInv'
  <2>1. KeyOpensCurrent'
    BY <1>15 DEF Refuse, session, KeyInv, Phase, KeyOpensCurrent, Decrypts
  <2> QED BY <1>a, <1>15, <2>1 DEF Refuse
<1>16. ASSUME NEW s \in Slots, SearchFound(s) PROVE KeyInv'
  BY <1>14, <1>16 DEF SearchFound, Opens, flash
<1>17. CASE SearchFailed
  BY <1>15, <1>17 DEF SearchFailed, flash
<1>18. CASE CompareOk
  <2>1. op'.call = op.call /\ op'.left = op.left /\ pc' = "ctlErase"
    BY <1>18 DEF CompareOk, Accept, TypeInv, TypeOK, Op
  <2> QED BY <1>18, <2>1 DEF CompareOk, flash, session, KeyInv, Phase, BodyFirst, Written, KeyOpensCurrent, Decrypts
<1>19. CASE CompareFailed
  BY <1>15, <1>19 DEF CompareFailed, flash
<1>20. CASE PowerCut
  <2>1. Back /\ s_key' = NoPin
    BY <1>20 DEF PowerCut, BootFrom
  <2> QED BY <1>a, <2>1 DEF KeyOpensCurrent
<1>21. CASE BlobFault
  <2>1. s_current \in Slots => slot'[s_current] = slot[s_current]
    BY <1>21, InterruptKeepsCurrent DEF BlobFault, FaultAt
  <2>2. op.call \in {"create", "save", "change"}
    BY <1>21 DEF BlobFault, FaultAt, KeyInv, Phase
  <2>3. KeyOpensCurrent'
    BY <1>b, <1>21, <2>1, <2>2 DEF BlobFault, AbandonBlob, Return, KeyInv, KeyOpensCurrent
  <2> QED BY <1>a, <1>21, <2>3 DEF BlobFault, AbandonBlob, Return
<1>22. CASE EraseV1Fault
  <2>1. pc = "v1" /\ Ready
    BY <1>22 DEF EraseV1Fault, FaultAt, KeyInv, Written
  <2>2. slot'[s_current] = slot[s_current]
    BY <1>22, <2>1, InterruptKeepsCurrent DEF EraseV1Fault, FaultAt
  <2>3. s_current' \in Slots /\ Decrypts(slot', s_hdr', s_current', s_key)
    BY <1>b, <1>22, <2>1, <2>2 DEF EraseV1Fault, session
  <2> QED BY <1>22, <2>1, <2>3, AfterBlobKey DEF EraseV1Fault, session, KeyInv
<1>23. CASE ControlFault \/ SearchFault
  <2>1. pc \in {"ctlErase", "ctlWrite", "search"} /\ UNCHANGED <<s_state, s_hdr, s_current>> /\ Back
    BY <1>23 DEF ControlFault, SearchFault, FaultAt, Return, session
  <2>2. s_current \in Slots => slot'[s_current] = slot[s_current]
    BY <1>23, <2>1, InterruptKeepsCurrent DEF ControlFault, SearchFault, FaultAt
  <2>3. op.call \in {"create", "unlock", "verify"} /\ (op.call = "create" => s_state = "BLANK")
    BY <2>1 DEF KeyInv, Phase
  <2>4. op.call = "create" \/ s_key' = s_key
    BY <1>23 DEF ControlFault, SearchFault, session
  <2>5. KeyOpensCurrent'
    BY <1>b, <2>1, <2>2, <2>3, <2>4 DEF KeyInv, KeyOpensCurrent
  <2> QED BY <1>a, <2>1, <2>5
<1>24. CASE SearchMisread
  <2>1. pc = "search" /\ UNCHANGED slot
    BY <1>24 DEF SearchMisread, FaultAt, Interrupt, flash
  <2>2. PICK t \in Slots :
          LET rest == [slot EXCEPT ![t].body = Junk]
          IN \/ \E s \in Slots : Opens(rest, s_hdr, s, op.pin) /\ Found(s)
             \/ Refuse /\ UNCHANGED <<session, told>>
    BY <1>24 DEF SearchMisread
  <2>3. CASE Refuse /\ UNCHANGED <<session, told>>
    BY <1>15, <2>1, <2>3
  <2>4. ASSUME NEW s \in Slots, Opens([slot EXCEPT ![t].body = Junk], s_hdr, s, op.pin), Found(s)
        PROVE  KeyInv'
    <3>1. s # t
      BY <2>4 DEF Opens, Decrypts, TypeInv, TypeOK, Slot
    <3>2. Decrypts(slot, s_hdr, s, op.pin)
      BY <2>4, <3>1 DEF Opens, Decrypts, TypeInv, TypeOK
    <3> QED BY <1>14, <2>1, <2>4, <3>2
  <2> QED BY <2>2, <2>3, <2>4
<1>25. CASE CompareFault
  BY <1>15, <1>25 DEF CompareFault, FaultAt, Interrupt, flash
<1>26. CASE EraseAllFault
  <2>1. s_key' = NoPin /\ Back
    BY <1>26 DEF EraseAllFault, FaultAt, Return, session, KeyInv, Phase
  <2> QED BY <1>a, <2>1 DEF KeyOpensCurrent
<1>27. CASE Tick
  BY <1>27 DEF Tick, flash, session, KeyInv, Phase, BodyFirst, Written, KeyOpensCurrent, Decrypts
<1>28. CASE UNCHANGED vars
  BY <1>28 DEF vars, flash, session, KeyInv, Phase, BodyFirst, Written, KeyOpensCurrent, Decrypts, Target, NewBlob
<1> QED
  BY <1>1, <1>2, <1>3, <1>4, <1>5, <1>6, <1>7, <1>8, <1>9, <1>10, <1>11, <1>12, <1>13, <1>16, <1>17,
     <1>18, <1>19, <1>20, <1>21, <1>22, <1>23, <1>24, <1>25, <1>26, <1>27, <1>28
  DEF Next, ApiCall, FlashStep, CheckStep, Fault

\* Whatever write, PIN change or check was cut or failed, an unlocked session
\* that holds a key saves under the key that opens its current slot.
THEOREM KeyOpensCurrentAlways == Spec => []KeyOpensCurrent
<1>1. Init => KeyInv
  <2>1. Init => pc = "idle" /\ op = Idle /\ s_key = NoPin
    BY DEF Init, InitStore
  <2> QED BY <2>1 DEF KeyInv, Phase, BodyFirst, Written, KeyOpensCurrent, Idle
<1>2. KeyInv => KeyOpensCurrent
  BY DEF KeyInv
<1> QED BY <1>1, <1>2, InitTypeInv, NextTypeInv, NextKeyInv, PTL DEF Spec

-----------------------------------------------------------------------------
(***************************************************************************)
(* Fresh nonces: what the RAM authenticates, a reboot finds.               *)
(***************************************************************************)
\* An interrupted access keeps the nonces known, and tears no body without
\* making it unreadable.
LEMMA InterruptFresh ==
    ASSUME TypeInv, Fresh, Interrupt
    PROVE  \A s \in Slots :
              /\ slot'[s].hdr # Junk => slot'[s].hdr.nonce <= nonce
              /\ \/ slot'[s] = slot[s] \/ slot'[s].body = Junk
                 \/ pc = "header" /\ s = Target /\ slot'[s].body = slot[s].body
<1>1. slot \in [Slots -> Slot] /\ nonce \in Nat
  BY DEF TypeInv, TypeOK
<1>2. Target \in Slots
  BY TargetType DEF TypeInv, TypeOK
<1>3. CASE UNCHANGED slot
  BY <1>3 DEF Fresh
<1>4. ASSUME NEW S \in SUBSET Slots, EraseUpTo(S)
      PROVE  \A s \in Slots : /\ slot'[s].hdr # Junk => slot'[s].hdr.nonce <= nonce
                              /\ slot'[s] = slot[s] \/ slot'[s].body = Junk
  <2> TAKE s \in Slots
  <2>1. \/ slot'[s] = slot[s] \/ slot'[s] = Erased \/ slot'[s] = [slot[s] EXCEPT !.body = Junk]
    BY <1>1, <1>4, EraseUpToType
  <2>2. slot[s] \in Slot
    BY <1>1
  <2>3. CASE slot'[s] = slot[s]
    BY <2>3 DEF Fresh
  <2>4. CASE slot'[s] = Erased
    BY <2>4 DEF Erased
  <2>5. CASE slot'[s] = [slot[s] EXCEPT !.body = Junk]
    <3>1. slot'[s].hdr = slot[s].hdr /\ slot'[s].body = Junk
      BY <2>2, <2>5 DEF Slot
    <3> QED BY <3>1 DEF Fresh
  <2> QED BY <2>1, <2>3, <2>4, <2>5
<1>5. ASSUME NEW h \in {Junk, TornHeader, NewBlob}, slot' = [slot EXCEPT ![Target].hdr = h], pc = "header"
      PROVE  \A s \in Slots : /\ slot'[s].hdr # Junk => slot'[s].hdr.nonce <= nonce
                              /\ slot'[s] = slot[s] \/ (s = Target /\ slot'[s].body = slot[s].body)
  <2>1. h # Junk => h.nonce \in {0, nonce}
    BY NewBlobType DEF TypeInv
  <2>2. \A s \in Slots \ {Target} : slot'[s] = slot[s]
    BY <1>1, <1>2, <1>5
  <2>3. slot'[Target].hdr = h /\ slot'[Target].body = slot[Target].body
    BY <1>1, <1>2, <1>5 DEF Slot
  <2> QED BY <1>1, <2>1, <2>2, <2>3 DEF Fresh
<1>6. V1 \in SUBSET Slots /\ {Target} \in SUBSET Slots
  BY <1>2 DEF Slots
<1> QED BY <1>3, <1>4, <1>5, <1>6 DEF Interrupt, flash

\* Every step keeps nonces fresh, so that a body authenticated by the header
\* in RAM has that header in flash too.
LEMMA NextFresh == TypeInv /\ Fresh /\ Twin /\ BodyFirst /\ [Next]_vars => Fresh' /\ Twin'
<1> SUFFICES ASSUME TypeInv, Fresh, Twin, BodyFirst, [Next]_vars PROVE Fresh' /\ Twin'
  OBVIOUS
<1>1. slot \in [Slots -> Slot] /\ s_hdr \in [Slots -> Blob \cup {Junk}] /\ nonce \in Nat
  BY DEF TypeInv, TypeOK
<1>2. \A b \in Blob : b.nonce \in Nat
  BY DEF Blob
<1>3. Target \in Slots
  BY TargetType DEF TypeInv, TypeOK
\* The steps that leave the slots and the headers alone.
<1>4. ASSUME UNCHANGED <<slot, s_hdr, nonce>>, pc' \notin {"body", "header"} PROVE Fresh' /\ Twin'
  BY <1>4 DEF Fresh, Twin
<1>5. CASE EraseSlot
  <2>1. \A s \in Slots : slot'[s] = slot[s] \/ slot'[s] = Erased
    BY <1>1, <1>3, <1>5 DEF EraseSlot
  <2>2. nonce' = nonce + 1 /\ s_hdr' = s_hdr
    BY <1>5 DEF EraseSlot, session
  <2> QED BY <1>1, <1>2, <2>1, <2>2 DEF Fresh, Twin, Erased, Slot
<1>6. CASE WriteBody
  <2>1. \A s \in Slots \ {Target} : slot'[s] = slot[s]
    BY <1>1, <1>3, <1>6 DEF WriteBody
  <2>2. slot'[Target].hdr = slot[Target].hdr /\ slot'[Target].body = NewBlob
    BY <1>1, <1>3, <1>6 DEF WriteBody, Slot
  <2>3. pc = "body" /\ UNCHANGED <<s_hdr, nonce>>
    BY <1>6 DEF WriteBody, session
  <2>4. s_hdr[Target] # Junk => s_hdr[Target] # NewBlob
    BY <1>1, <1>2, <1>3, <2>3, NewBlobType DEF Fresh, TypeInv
  <2>5. \A s \in Slots : slot'[s].hdr = slot[s].hdr
    BY <2>1, <2>2
  <2> QED BY <2>1, <2>2, <2>3, <2>4, <2>5 DEF Fresh, Twin
<1>7. CASE WriteHeader
  <2>1. \A s \in Slots \ {Target} : slot'[s] = slot[s] /\ s_hdr'[s] = s_hdr[s]
    BY <1>1, <1>3, <1>7 DEF WriteHeader
  <2>2. slot'[Target].hdr = NewBlob /\ s_hdr'[Target] = NewBlob
    BY <1>1, <1>3, <1>7 DEF WriteHeader, Slot
  <2>3. NewBlob # Junk /\ NewBlob.nonce = nonce
    BY NewBlobType DEF TypeInv
  <2>4. nonce' = nonce /\ pc' \in {"v1", "erase", "ctlErase", "idle"}
    BY <1>7 DEF WriteHeader, AfterBlob
  <2> QED BY <1>1, <1>2, <2>1, <2>2, <2>3, <2>4 DEF Fresh, Twin
<1>8. CASE EraseV1 \/ EraseAll
  <2>1. \A s \in Slots : \/ slot'[s] = slot[s] /\ s_hdr'[s] = s_hdr[s]
                         \/ slot'[s] = Erased /\ s_hdr'[s] = Junk
    BY <1>1, <1>8 DEF EraseV1, EraseAll
  <2>2. nonce' = nonce /\ pc' \in {"erase", "ctlErase", "idle"}
    BY <1>8 DEF EraseV1, EraseAll, AfterBlob
  <2> QED BY <1>1, <2>1, <2>2 DEF Fresh, Twin, Erased
<1>9. ASSUME Interrupt, UNCHANGED <<s_hdr, nonce>>, pc' \notin {"body", "header"}
      PROVE  Fresh' /\ Twin'
  <2>1. ASSUME NEW s \in Slots, s_hdr[s] # Junk, slot'[s].body = s_hdr[s]
        PROVE  slot'[s].hdr # Junk
    <3>1. CASE slot'[s] = slot[s]
      BY <2>1, <3>1 DEF Twin
    <3>2. CASE pc = "header" /\ s = Target /\ slot'[s].body = slot[s].body
      <4>1. s_hdr[s] = NewBlob
        BY <2>1, <3>2 DEF BodyFirst
      <4> QED BY <1>1, <1>2, <2>1, <3>2, <4>1, NewBlobType DEF Fresh, TypeInv
    <3> QED BY <1>9, <2>1, <3>1, <3>2, InterruptFresh
  <2> QED BY <1>9, <2>1, InterruptFresh DEF Fresh, Twin
<1>10. CASE PowerCut
  <2>1. s_hdr' = Headers(slot') /\ nonce' = nonce /\ pc' = "idle"
    BY <1>10 DEF PowerCut, BootFrom
  <2>2. \A s \in Slots : s_hdr'[s] = slot'[s].hdr
    BY <2>1 DEF Headers
  <2> QED BY <1>10, <2>1, <2>2, InterruptFresh DEF PowerCut, Fresh, Twin
<1>11. CASE Fault
  <2>1. Interrupt
    BY <1>11 DEF Fault, BlobFault, EraseV1Fault, ControlFault, SearchFault, SearchMisread, CompareFault,
                EraseAllFault, FaultAt
  <2>2. UNCHANGED <<s_hdr, nonce>>
    BY <1>11 DEF Fault, BlobFault, AbandonBlob, EraseV1Fault, ControlFault, SearchFault, SearchMisread,
                Found, CompareFault, EraseAllFault, session
  <2>3. pc' \in {"idle", "erase", "ctlErase"}
    BY <1>11 DEF Fault, BlobFault, AbandonBlob, EraseV1Fault, AfterBlob, ControlFault, SearchFault,
                SearchMisread, Found, Accept, Refuse, CompareFault, EraseAllFault, Return
  <2> QED BY <1>9, <2>1, <2>2, <2>3
<1>12. CASE ApiCall
  <2>1. UNCHANGED <<slot, s_hdr, nonce>>
    BY <1>12 DEF ApiCall, Create, Unlock, VerifyPin, Save, ChangePin, Lock, Erase, flash, session
  <2>2. pc' \in {"erase", "ctlErase", "idle", "eraseAll"}
    BY <1>12 DEF ApiCall, Create, Unlock, VerifyPin, Save, ChangePin, Lock, Erase, Call
  <2> QED BY <1>4, <2>1, <2>2
<1>13. CASE EraseControl \/ WriteControl \/ CheckStep \/ Tick
  <2>1. UNCHANGED <<slot, s_hdr, nonce>>
    BY <1>13 DEF EraseControl, WriteControl, CheckStep, SearchFound, SearchFailed, CompareOk, CompareFailed,
                Found, Tick, flash, session
  <2>2. pc' \in {"idle", "ctlErase", "ctlWrite", "search", "compare"}
    BY <1>13 DEF EraseControl, WriteControl, CheckStep, SearchFound, SearchFailed, CompareOk, CompareFailed,
                Found, Accept, Refuse, Tick
  <2> QED BY <1>4, <2>1, <2>2
<1>14. CASE UNCHANGED vars
  BY <1>14 DEF vars, flash, session, Fresh, Twin
<1> QED BY <1>5, <1>6, <1>7, <1>8, <1>10, <1>11, <1>12, <1>13, <1>14 DEF Next, FlashStep

-----------------------------------------------------------------------------
(***************************************************************************)
(* The failure counter and the back-off.                                   *)
(***************************************************************************)
\* The delay never shrinks as failures add up.
LEMMA DelayMonotone ==
    ASSUME NEW m \in Nat, NEW n \in Nat, m <= n
    PROVE  Delay(m) <= Delay(n) /\ Delay(m) \in Nat
BY DEF Delay

\* What keeps the failure count of a state covers the next one, when a step
\* that is not a PIN check nor a write of the counter is taken.
LEMMA QuietStep ==
    ASSUME TypeInv, GateInv, pc \notin {"ctlWrite", "search", "compare"},
           UNCHANGED <<ctl, s_fail_count, s_last_fail, wrong, calm, ctlLost>>,
           pc' \notin {"search", "compare"}, Kept',
           s_state' = "BLANK" => s_state = "BLANK" \/ ctlLost \/ wrong = 0,
           op'.call = "unlock" => s_state' # "BLANK",
           op'.call = "verify" => s_state' = "UNLOCKED" /\ op'.pin \in Pins,
           op'.call = "change" => s_state' = "UNLOCKED",
           pc' \in {"ctlErase", "ctlWrite"} => \/ op'.count = 0 /\ (ctlLost \/ wrong = 0)
                                              \/ op'.count = s_fail_count + 1
    PROVE  GateInv'
BY DEF GateInv, CheckPhase, FailuresCounted, Stored

\* The header of the current slot stays while that slot does.
LEMMA CurrentStays ==
    ASSUME Kept, UNCHANGED s_current, s_current # -1 => slot'[s_current] = slot[s_current],
           s_state' # "BLANK" => s_state # "BLANK", ctlLost => ctlLost'
    PROVE  Kept'
BY DEF Kept

\* Every step keeps the refused checks counted and the current header in flash.
LEMMA NextGateInv ==
    TypeInv /\ TypeInv' /\ KeyInv /\ KeyInv' /\ Twin /\ Twin' /\ GateInv /\ [Next]_vars => GateInv'
<1> SUFFICES ASSUME TypeInv, TypeInv', KeyInv, KeyInv', Twin, Twin', GateInv, [Next]_vars
             PROVE  GateInv'
  OBVIOUS
<1> USE StoreAssumption
<1> DEFINE Quiet == UNCHANGED <<ctl, s_fail_count, s_last_fail, wrong, calm, ctlLost>>
<1>1. /\ slot \in [Slots -> Slot] /\ s_current \in {-1} \cup Slots
      /\ ctl \in Nat \cup {Junk} /\ s_fail_count \in Nat /\ s_last_fail \in Nat
      /\ wrong \in Nat /\ calm \in Nat
  BY DEF TypeInv, TypeOK
<1>2. Target \in Slots /\ Target # s_current
  BY TargetType DEF TypeInv, TypeOK
<1>3. Idle.call = "none" /\ Idle.count = 0
  BY DEF Idle
<1>4. ASSUME ApiCall PROVE GateInv'
  <2>1. pc = "idle" /\ Quiet /\ UNCHANGED <<slot, s_current>>
    BY <1>4 DEF ApiCall, Create, Unlock, VerifyPin, Save, ChangePin, Lock, Erase, flash, session, gate, checks
  <2>2. s_state' = "BLANK" <=> s_state = "BLANK"
    BY <1>4 DEF ApiCall, Create, Unlock, VerifyPin, Save, ChangePin, Lock, Erase, session
  <2>3. op.call = "none" /\ op.count = 0
    BY <1>3, <2>1 DEF KeyInv, Phase
  <2>4. /\ op'.call = "unlock" => s_state' # "BLANK"
        /\ op'.call = "verify" => s_state' = "UNLOCKED" /\ op'.pin \in Pins
        /\ op'.call = "change" => s_state' = "UNLOCKED"
        /\ pc' \notin {"search", "compare"}
        /\ pc' \in {"ctlErase", "ctlWrite"} => op'.count = s_fail_count + 1
    BY <1>4, <2>1, <2>3 DEF ApiCall, Create, Unlock, VerifyPin, Save, ChangePin, Lock, Erase, Call, session
  <2>5. Kept'
    BY <2>1, <2>2, CurrentStays DEF GateInv
  <2> QED BY <2>1, <2>2, <2>4, <2>5, QuietStep
<1>5. ASSUME AfterBlob, pc \in {"header", "v1"}, Quiet, Kept', UNCHANGED s_state
      PROVE  GateInv'
  <2>1. pc' \in {"erase", "ctlErase", "idle"} /\ op'.call \in {op.call, "none"}
    BY <1>3, <1>5 DEF AfterBlob, TypeInv, TypeOK, Op
  <2>2. op.call \in {"create", "save", "change"}
    BY <1>5 DEF KeyInv, Phase
  <2>3. pc' = "ctlErase" => op'.count = 0 /\ s_state = "BLANK"
    BY <1>5 DEF AfterBlob, KeyInv, Phase
  <2>4. op'.call = "change" => s_state' = "UNLOCKED"
    BY <1>5, <2>1 DEF GateInv, CheckPhase
  <2> QED BY <1>5, <2>1, <2>2, <2>3, <2>4, QuietStep DEF GateInv
<1>6. CASE EraseSlot \/ WriteBody
  <2>1. s_current # -1 => slot'[s_current] = slot[s_current]
    BY <1>1, <1>2, <1>6 DEF EraseSlot, WriteBody
  <2>2. Quiet /\ UNCHANGED <<s_state, s_current, op>>
    BY <1>6 DEF EraseSlot, WriteBody, session, gate, checks
  <2>3. Kept'
    BY <2>1, <2>2, CurrentStays DEF GateInv
  <2>4. pc \in {"erase", "body"} /\ pc' \in {"body", "header"}
    BY <1>6 DEF EraseSlot, WriteBody
  <2> QED BY <2>2, <2>3, <2>4, QuietStep DEF GateInv, CheckPhase
<1>7. CASE WriteHeader
  <2>1. s_current' = Target /\ slot'[Target].hdr = NewBlob
    BY <1>1, <1>2, <1>7 DEF WriteHeader, Slot
  <2>2. Kept'
    BY <1>2, <2>1, NewBlobType DEF Kept, TypeInv, Slots, V1, V2
  <2>3. pc = "header" /\ Quiet /\ UNCHANGED s_state
    BY <1>7 DEF WriteHeader, gate, checks
  <2>4. CASE pc' = "v1" /\ UNCHANGED op
    BY <2>2, <2>3, <2>4, QuietStep DEF GateInv, CheckPhase
  <2>5. CASE AfterBlob
    BY <1>5, <2>2, <2>3, <2>5
  <2> QED BY <1>7, <2>4, <2>5 DEF WriteHeader
<1>8. CASE EraseV1
  <2>1. pc = "v1" /\ s_current \in V2
    BY <1>8 DEF EraseV1, TypeInv
  <2>2. slot'[s_current] = slot[s_current]
    BY <1>1, <1>8, <2>1 DEF EraseV1, V1, V2, Slots
  <2>3. Quiet /\ UNCHANGED <<s_state, s_current>>
    BY <1>8 DEF EraseV1, gate, checks
  <2>4. Kept'
    BY <2>2, <2>3, CurrentStays DEF GateInv
  <2> QED BY <1>5, <1>8, <2>1, <2>3, <2>4 DEF EraseV1
<1>9. CASE EraseControl
  <2>1. /\ pc = "ctlErase" /\ pc' = "ctlWrite"
        /\ UNCHANGED <<slot, s_state, s_current, op, s_fail_count, s_last_fail, wrong, calm, ctlLost>>
    BY <1>9 DEF EraseControl, session, gate, checks
  <2> QED BY <2>1 DEF GateInv, Kept, CheckPhase, FailuresCounted
<1>10. CASE WriteControl
  <2>1. /\ pc = "ctlWrite" /\ ctl' = op.count /\ s_fail_count' = op.count
        /\ UNCHANGED <<slot, s_current, s_last_fail, wrong, calm, ctlLost>>
    BY <1>10 DEF WriteControl, checks
  <2>2. op.count \in Nat
    BY DEF TypeInv, TypeOK, Op
  <2>3. ctlLost \/ (op.count >= wrong /\ (op.count > 0 => op.count > wrong))
    BY <1>1, <2>1, <2>2 DEF GateInv, CheckPhase, FailuresCounted
  <2>4. op.call \in {"create", "unlock", "verify"}
    BY <2>1 DEF KeyInv, Phase
  <2>5. CASE op.count > 0 /\ pc' = (IF op.call = "verify" THEN "compare" ELSE "search") /\ UNCHANGED <<op, s_state>>
    BY <1>1, <2>1, <2>2, <2>3, <2>5 DEF GateInv, Kept, CheckPhase, FailuresCounted, Stored
  <2>6. CASE op.count = 0 /\ pc' = "idle" /\ op' = Idle
    <3>1. /\ s_state' = IF op.call = "create" THEN "UNLOCKED" ELSE s_state
      BY <1>10, <2>6 DEF WriteControl
    <3>2. op.call = "create" => s_current \in Slots /\ Decrypts(slot, s_hdr, s_current, s_key)
      BY <2>1 DEF KeyInv, Written
    <3>3. Kept'
      BY <2>1, <3>1, <3>2 DEF GateInv, Kept, Twin, Decrypts, Slots, V1, V2
    <3> QED BY <1>1, <1>3, <2>1, <2>2, <2>3, <2>6, <3>1, <3>3
            DEF GateInv, CheckPhase, FailuresCounted, Stored
  <2> QED BY <1>10, <2>5, <2>6 DEF WriteControl
<1>11. CASE EraseAll
  <2>1. s_state' = "BLANK" /\ wrong' = 0 /\ s_fail_count' = 0 /\ ctl' = Junk /\ pc' = "idle" /\ op' = Idle
        /\ UNCHANGED <<s_last_fail, calm>>
    BY <1>11 DEF EraseAll
  <2> QED BY <1>1, <1>3, <2>1 DEF GateInv, Kept, CheckPhase, FailuresCounted, Stored
\* The outcomes of a check.
<1>12. ASSUME pc \in {"search", "compare"}, Accept, Kept', UNCHANGED ctl, s_state' = "UNLOCKED",
              op.call = "verify" => s_state = "UNLOCKED"
       PROVE  GateInv'
  <2>1. op'.count = 0 /\ op'.call = op.call /\ op'.pin = op.pin /\ pc' = "ctlErase" /\ wrong' = 0
    BY <1>12 DEF Accept, TypeInv, TypeOK, Op
  <2>2. UNCHANGED <<s_fail_count, s_last_fail, calm>>
    BY <1>12 DEF Accept, gate
  <2> QED BY <1>1, <1>12, <2>1, <2>2 DEF GateInv, CheckPhase, FailuresCounted, Stored
<1>13. ASSUME pc \in {"search", "compare"}, Refuse, UNCHANGED <<slot, ctl, session>>
       PROVE  GateInv'
  <2>1. /\ s_fail_count' = s_fail_count /\ wrong' = wrong + 1 /\ ctlLost' = ctlLost
        /\ s_last_fail' = 0 /\ calm' = 0 /\ pc' = "idle" /\ op' = Idle
    BY <1>13 DEF Refuse
  <2>2. s_state # "BLANK" /\ UNCHANGED <<s_state, s_current>>
    BY <1>13 DEF GateInv, CheckPhase, KeyInv, Phase, session
  <2> QED BY <1>1, <1>3, <1>13, <2>1, <2>2 DEF GateInv, Kept, CheckPhase, FailuresCounted, Stored
<1>14. ASSUME NEW s \in Slots, pc = "search", Decrypts(slot, s_hdr, s, op.pin), Found(s), UNCHANGED <<slot, ctl>>
       PROVE  GateInv'
  <2>1. Kept'
    BY <1>14 DEF Found, Decrypts, Twin, Kept, Slots, V1, V2
  <2>2. op.call = "verify" => s_state = "UNLOCKED"
    BY DEF GateInv, CheckPhase
  <2> QED BY <1>12, <1>14, <2>1, <2>2 DEF Found
<1>15. ASSUME NEW s \in Slots, SearchFound(s) PROVE GateInv'
  BY <1>14, <1>15 DEF SearchFound, Opens, flash
<1>16. CASE SearchFailed \/ CompareFailed
  BY <1>13, <1>16 DEF SearchFailed, CompareFailed, flash
<1>17. CASE CompareOk
  <2>1. s_state = "UNLOCKED" /\ s_key # NoPin /\ op.call = "verify"
    BY <1>17 DEF CompareOk, GateInv, CheckPhase
  <2>2. s_current \in Slots /\ Decrypts(slot, s_hdr, s_current, s_key)
    BY <2>1 DEF KeyInv, KeyOpensCurrent
  <2>3. UNCHANGED <<slot, ctl, s_state, s_current>>
    BY <1>17 DEF CompareOk, flash, session
  <2>4. Kept'
    BY <2>2, <2>3 DEF Decrypts, Twin, Kept, Slots, V1, V2
  <2> QED BY <1>12, <1>17, <2>1, <2>3, <2>4 DEF CompareOk
\* Interrupted steps.
<1>18. ASSUME Interrupt, ctlLost' = (ctlLost \/ (pc \in {"ctlErase", "ctlWrite", "eraseAll"} /\ ctl' = Junk)),
              wrong' = wrong, ~ctlLost'
       PROVE  /\ ~ctlLost
              /\ s_current # -1 => slot'[s_current] = slot[s_current]
              /\ ctl' \in Nat \/ (pc \notin {"ctlErase", "ctlWrite"} /\ ctl' = ctl)
              /\ (IF ctl' = Junk THEN 0 ELSE ctl') >= wrong
  <2>1. ~ctlLost /\ (pc = "eraseAll" => UNCHANGED flash)
    BY <1>18 DEF Interrupt, flash
  <2>2. pc = "idle" => UNCHANGED flash
    BY <1>18 DEF Interrupt, flash
  <2>3. ctl' = Junk \/ ctl' \in Nat
    BY DEF TypeInv, TypeOK
  <2>4. s_current # -1 => slot'[s_current] = slot[s_current]
    BY <1>1, <1>18, <2>1, <2>2, InterruptKeepsCurrent DEF TypeInv, TypeOK, PcSet, flash
  <2>5. pc \notin {"ctlErase", "ctlWrite", "eraseAll"} => ctl' = ctl
    BY <1>18 DEF Interrupt, flash
  <2>6. CASE pc = "ctlWrite"
    <3>1. ctl' = op.count /\ op.count \in Nat
      BY <1>18, <2>6 DEF Interrupt, TypeInv, TypeOK, Op
    <3>2. op.count >= wrong
      BY <1>1, <2>1, <2>6 DEF GateInv, CheckPhase, FailuresCounted
    <3>3. (IF ctl' = Junk THEN 0 ELSE ctl') >= wrong
      BY <3>1, <3>2
    <3> QED BY <2>1, <2>4, <3>1, <3>3
  <2>7. CASE pc = "ctlErase"
    <3>1. ctl' = ctl
      BY <1>18, <2>7 DEF Interrupt
    <3> QED BY <1>1, <1>18, <2>3, <2>4, <2>7, <3>1 DEF GateInv, FailuresCounted, Stored
  <2>8. CASE pc \notin {"ctlErase", "ctlWrite"}
    <3>1. ctl' = ctl
      BY <2>1, <2>5, <2>8 DEF flash
    <3>2. Stored >= wrong
      BY <2>1, <2>8 DEF GateInv, FailuresCounted
    <3>3. (IF ctl' = Junk THEN 0 ELSE ctl') >= wrong
      BY <3>1, <3>2 DEF Stored
    <3> QED BY <2>1, <2>4, <2>8, <3>1, <3>3
  <2> QED BY <2>6, <2>7, <2>8
<1>19. CASE PowerCut
  <2>1. /\ Interrupt /\ BootFrom(slot', ctl') /\ wrong' = wrong /\ calm' = 0
        /\ ctlLost' = (ctlLost \/ (pc \in {"ctlErase", "ctlWrite", "eraseAll"} /\ ctl' = Junk))
    BY <1>19 DEF PowerCut, LosesControl
  <2>2. /\ pc' = "idle" /\ op' = Idle /\ s_last_fail' = 0
        /\ s_fail_count' = (IF ctl' = Junk THEN 0 ELSE ctl')
        /\ s_current' = CurrentOf(Headers(slot'))
        /\ s_state' = IF \A s \in Slots : slot'[s].hdr = Junk THEN "BLANK" ELSE "LOCKED"
    BY <2>1 DEF BootFrom
  <2>3. slot' \in [Slots -> Slot] /\ Headers(slot') \in [Slots -> Blob \cup {Junk}]
    BY DEF TypeInv, TypeOK, Headers, Slot
  <2>4. Kept'
    <3>1. \A s \in Slots : Headers(slot')[s] = slot'[s].hdr
      BY DEF Headers
    <3>2. s_current' # -1 => slot'[s_current'].hdr # Junk
      BY <2>2, <2>3, <3>1, CurrentOfType
    <3>3. s_state' # "BLANK" => s_current' # -1
      BY <2>2, <2>3, <3>1, CurrentOfType
    <3> QED BY <3>2, <3>3 DEF Kept
  <2>5. ~ctlLost' => s_fail_count' >= wrong'
    BY <1>18, <2>1, <2>2
  <2>6. s_state' = "BLANK" => ctlLost' \/ wrong' = 0
    <3> SUFFICES ASSUME s_state' = "BLANK", ~ctlLost', wrong # 0 PROVE FALSE
      BY <2>1
    <3>1. ~ctlLost /\ (s_current # -1 => slot'[s_current] = slot[s_current])
      BY <1>18, <2>1
    <3>2. s_current \in Slots /\ slot[s_current].hdr # Junk
      BY <1>1, <3>1 DEF GateInv, Kept
    <3>3. slot'[s_current].hdr = Junk
      BY <2>2, <3>2
    <3> QED BY <3>1, <3>2, <3>3 DEF Slots, V1, V2
  <2>7. FailuresCounted'
    BY <2>2, <2>5 DEF FailuresCounted, Stored
  <2> QED BY <1>3, <2>1, <2>2, <2>4, <2>6, <2>7 DEF GateInv, CheckPhase
<1>20. ASSUME Interrupt, Return, LosesControl, UNCHANGED <<s_fail_count, s_last_fail, wrong, calm>>,
              UNCHANGED <<s_state, s_current>>
       PROVE  GateInv'
  <2>1. ctlLost' = (ctlLost \/ (pc \in {"ctlErase", "ctlWrite", "eraseAll"} /\ ctl' = Junk))
    BY <1>20 DEF LosesControl
  <2>2. ~ctlLost' => /\ ~ctlLost
                     /\ s_current # -1 => slot'[s_current] = slot[s_current]
                     /\ (IF ctl' = Junk THEN 0 ELSE ctl') >= wrong
    BY <1>18, <1>20, <2>1
  <2>3. Kept'
    BY <1>20, <2>2 DEF GateInv, Kept
  <2>4. FailuresCounted'
    BY <1>1, <1>20, <2>2 DEF GateInv, FailuresCounted, Stored
  <2> QED BY <1>3, <1>20, <2>1, <2>3, <2>4 DEF GateInv, CheckPhase, Return
<1>21. CASE BlobFault
  <2>1. /\ pc \in {"erase", "body", "header"} /\ Interrupt /\ Return /\ s_current' = s_current
        /\ UNCHANGED <<gate, wrong, calm, ctlLost>>
        /\ s_state' = IF op.call = "change" THEN "LOCKED" ELSE s_state
    BY <1>21 DEF BlobFault, FaultAt, AbandonBlob, checks
  <2>2. (~ctlLost /\ s_current # -1) => slot'[s_current] = slot[s_current]
    BY <1>1, <2>1, InterruptKeepsCurrent
  <2>3. ctl' = ctl
    BY <2>1 DEF Interrupt, flash
  <2>4. Kept'
    <3>1. CASE s_state # "BLANK"
      BY <2>1, <2>2, <3>1 DEF GateInv, Kept
    <3>2. CASE s_state = "BLANK" /\ op.call # "change"
      BY <2>1, <3>2 DEF Kept
    <3>3. CASE s_state = "BLANK" /\ op.call = "change"
      BY <3>3 DEF GateInv, CheckPhase
    <3> QED BY <3>1, <3>2, <3>3
  <2> QED BY <1>3, <2>1, <2>3, <2>4, QuietStep DEF Return, gate, GateInv
<1>22. CASE EraseV1Fault
  <2>1. pc = "v1" /\ Interrupt /\ AfterBlob /\ Quiet /\ UNCHANGED <<s_state, s_current>>
    BY <1>22 DEF EraseV1Fault, FaultAt, session, gate, checks, Interrupt
  <2>2. s_current # -1 => slot'[s_current] = slot[s_current]
    BY <1>1, <2>1, InterruptKeepsCurrent
  <2>3. Kept'
    BY <2>1, <2>2, CurrentStays DEF GateInv
  <2> QED BY <1>5, <2>1, <2>3
<1>23. CASE ControlFault
  <2>1. /\ Interrupt /\ Return /\ LosesControl
        /\ UNCHANGED <<s_state, s_current, s_fail_count, s_last_fail, wrong, calm>>
    BY <1>23 DEF ControlFault, FaultAt, gate
  <2> QED BY <1>20, <2>1
<1>24. CASE EraseAllFault
  <2>1. /\ Interrupt /\ Return /\ LosesControl
        /\ UNCHANGED <<s_state, s_current, s_fail_count, s_last_fail, wrong, calm>>
    BY <1>24 DEF EraseAllFault, FaultAt, session, gate
  <2> QED BY <1>20, <2>1
<1>25. CASE SearchFault
  <2>1. LosesControl
    BY <1>25 DEF SearchFault, FaultAt, LosesControl, checks, TypeInv, TypeOK
  <2>2. Interrupt /\ Return /\ UNCHANGED <<s_state, s_current, s_fail_count, s_last_fail, wrong, calm>>
    BY <1>25 DEF SearchFault, FaultAt, session, gate, checks
  <2> QED BY <1>20, <2>1, <2>2
<1>26. CASE SearchMisread
  <2>1. pc = "search" /\ UNCHANGED <<slot, ctl>>
    BY <1>26 DEF SearchMisread, FaultAt, Interrupt, flash
  <2>2. PICK t \in Slots :
          LET rest == [slot EXCEPT ![t].body = Junk]
          IN \/ \E s \in Slots : Opens(rest, s_hdr, s, op.pin) /\ Found(s)
             \/ Refuse /\ UNCHANGED <<session, told>>
    BY <1>26 DEF SearchMisread
  <2>3. CASE Refuse /\ UNCHANGED <<session, told>>
    BY <1>13, <2>1, <2>3
  <2>4. ASSUME NEW s \in Slots, Opens([slot EXCEPT ![t].body = Junk], s_hdr, s, op.pin), Found(s)
        PROVE  GateInv'
    <3>1. s # t
      BY <1>1, <2>4 DEF Opens, Decrypts, Slot
    <3>2. Decrypts(slot, s_hdr, s, op.pin)
      BY <1>1, <2>4, <3>1 DEF Opens, Decrypts
    <3> QED BY <1>14, <2>1, <2>4, <3>2
  <2> QED BY <2>2, <2>3, <2>4
<1>27. CASE CompareFault
  BY <1>13, <1>27 DEF CompareFault, FaultAt, Interrupt, flash
<1>28. CASE Tick
  <2>1. /\ UNCHANGED <<slot, ctl, s_state, s_current, s_fail_count, pc, op, wrong, ctlLost>>
        /\ calm' = calm + 1 /\ s_last_fail' \in {s_last_fail + 1, 5} /\ calm < 5
        /\ s_last_fail' <= s_last_fail + 1
    BY <1>28 DEF Tick, flash, session, TypeInv, TypeOK
  <2> QED BY <1>1, <2>1 DEF GateInv, Kept, CheckPhase, FailuresCounted, Stored
<1>29. CASE UNCHANGED vars
  BY <1>29 DEF vars, flash, session, gate, checks, GateInv, Kept, CheckPhase, FailuresCounted, Stored
<1> QED
  BY <1>4, <1>6, <1>7, <1>8, <1>9, <1>10, <1>11, <1>15, <1>16, <1>17, <1>19, <1>21, <1>22, <1>23,
     <1>24, <1>25, <1>26, <1>27, <1>28, <1>29
  DEF Next, FlashStep, CheckStep, Fault

\* The inductive invariant of the store.
StoreInv == TypeInv /\ KeyInv /\ Fresh /\ Twin /\ GateInv

\* The parts are inductive together: the gate rests on the types, on the nonces
\* and on the phases of a save.
LEMMA StoreInvariant == Spec => []StoreInv
<1>1. Init => StoreInv
  <2>1. Init => /\ pc = "idle" /\ op = Idle /\ s_key = NoPin /\ s_last_fail = 0 /\ calm = 0
                /\ s_fail_count = 0 /\ ctl = Junk /\ wrong = 0 /\ ctlLost = FALSE
    BY DEF Init, InitStore
  <2>2. Init => KeyInv
    BY <2>1 DEF KeyInv, Phase, BodyFirst, Written, KeyOpensCurrent, Idle
  <2>3. ASSUME NEW f \in [Slots -> Slot], NEW made, InitStore(f, made),
               \A s \in Slots : f[s].hdr # Junk => f[s].hdr.nonce <= 2,
               made = {} <=> \A s \in Slots : f[s].hdr = Junk
        PROVE  Fresh /\ Twin /\ Kept
    <3>1. slot = f /\ s_hdr = Headers(f) /\ nonce = 2 /\ pc = "idle" /\ s_current = CurrentOf(Headers(f))
      BY <2>3 DEF InitStore
    <3>2. \A s \in Slots : Headers(f)[s] = f[s].hdr
      BY DEF Headers
    <3>3. Headers(f) \in [Slots -> Blob \cup {Junk}]
      BY DEF Headers, Slot
    <3>4. (s_state = "BLANK") <=> (made = {})
      BY <2>3 DEF InitStore
    <3>5. /\ s_current \in {-1} \cup Slots
          /\ s_current # -1 => slot[s_current].hdr # Junk
          /\ s_current = -1 => \A s \in Slots : slot[s].hdr = Junk
      BY <3>1, <3>2, <3>3, CurrentOfType
    <3>6. Kept
      BY <2>3, <3>1, <3>4, <3>5 DEF Kept
    <3> QED BY <2>3, <3>1, <3>2, <3>6 DEF Fresh, Twin
  <2>4. ASSUME InitStore([s \in Slots |-> Erased], {})
        PROVE  Fresh /\ Twin /\ Kept
    BY <2>3, <2>4 DEF Erased, Slot
  <2>5. ASSUME NEW p \in Pins, NEW a \in Records, NEW b \in Records,
               InitStore([s \in Slots |-> CASE s = 0 -> SealedV1(1, p, a)
                                            [] s = 1 -> SealedV1(2, p, b)
                                            [] OTHER -> Erased],
                         {[pin |-> p, recs |-> b]})
        PROVE  Fresh /\ Twin /\ Kept
    <3> DEFINE f == [s \in Slots |-> CASE s = 0 -> SealedV1(1, p, a)
                                       [] s = 1 -> SealedV1(2, p, b)
                                       [] OTHER -> Erased]
    <3>1. SealedV1(1, p, a) \in Slot /\ SealedV1(2, p, b) \in Slot /\ Erased \in Slot
      BY DEF SealedV1, Slot, Blob, Erased
    <3>2. f \in [Slots -> Slot]
      BY <3>1
    <3>3. /\ SealedV1(1, p, a).hdr \in Blob /\ SealedV1(1, p, a).hdr.nonce = 1
          /\ SealedV1(2, p, b).hdr \in Blob /\ SealedV1(2, p, b).hdr.nonce = 2
          /\ Erased.hdr = Junk
      BY DEF SealedV1, Blob, Erased
    <3>4. \A s \in Slots : f[s].hdr # Junk => f[s].hdr.nonce <= 2
      BY <3>3
    <3>5. f[0].hdr # Junk /\ 0 \in Slots
      BY <3>3, StoreAssumption DEF Slots, V1
    <3> HIDE DEF f
    <3>6. InitStore(f, {[pin |-> p, recs |-> b]})
      BY <2>5 DEF f
    <3> QED BY <2>3, <3>2, <3>4, <3>5, <3>6
  <2>6. Init => Fresh /\ Twin /\ Kept
    BY <2>4, <2>5 DEF Init
  <2>7. Init => GateInv
    BY <2>1, <2>6 DEF GateInv, CheckPhase, FailuresCounted, Stored, Idle
  <2> QED BY <2>2, <2>6, <2>7, InitTypeInv DEF StoreInv
<1>2. StoreInv /\ [Next]_vars => StoreInv'
  BY NextTypeInv, NextKeyInv, NextFresh, NextGateInv DEF StoreInv, KeyInv
<1> QED BY <1>1, <1>2, PTL DEF Spec

\* The failure counter covers every refused check, over reboots and errors, as
\* long as no rewrite of the control sector was left without a counter.
THEOREM FailuresAreCounted == Spec => []FailuresCounted
<1>1. StoreInv => FailuresCounted
  BY DEF StoreInv, GateInv
<1> QED BY <1>1, StoreInvariant, PTL

\* No PIN check starts before the delay that the refusals since the last
\* accepted check have earned.
THEOREM BackoffIsHonoured == Spec => BackoffHonoured
<1>1. StoreInv /\ [Next]_vars =>
        [(pc = "idle" /\ op'.call \in {"unlock", "verify"}) => (ctlLost \/ calm >= Delay(wrong))]_vars
  <2> SUFFICES ASSUME StoreInv, Next, pc = "idle", op'.call \in {"unlock", "verify"}, ~ctlLost
               PROVE  calm >= Delay(wrong)
    OBVIOUS
  <2>1. op.call = "none" /\ Idle.call = "none"
    BY DEF StoreInv, KeyInv, Phase, Idle
  <2>2. \E p \in Pins : Unlock(p) \/ VerifyPin(p)
    <3>1. CASE ApiCall
      BY <2>1, <3>1 DEF ApiCall, Create, Save, ChangePin, Lock, Erase, Call
    <3>2. CASE PowerCut
      BY <2>1, <3>2 DEF PowerCut, BootFrom
    <3>3. CASE FlashStep \/ CheckStep
      BY <3>3 DEF FlashStep, CheckStep, EraseSlot, WriteBody, WriteHeader, EraseV1, EraseControl, WriteControl,
                  EraseAll, SearchFound, SearchFailed, CompareOk, CompareFailed
    <3>4. CASE Fault
      BY <3>4 DEF Fault, BlobFault, EraseV1Fault, ControlFault, SearchFault, SearchMisread, CompareFault,
                  EraseAllFault, FaultAt
    <3>5. CASE Tick
      BY <2>1, <3>5 DEF Tick
    <3> QED BY <3>1, <3>2, <3>3, <3>4, <3>5 DEF Next
  <2>3. s_last_fail >= Delay(s_fail_count)
    <3>1. ~(s_last_fail < Delay(s_fail_count))
      BY <2>2 DEF Unlock, VerifyPin, InBackoff
    <3>2. s_last_fail \in Nat /\ Delay(s_fail_count) \in Nat
      BY DelayMonotone DEF StoreInv, TypeInv, TypeOK
    <3> QED BY <3>1, <3>2
  <2>4. s_fail_count >= wrong /\ s_last_fail <= calm
    BY DEF StoreInv, GateInv, FailuresCounted
  <2>5. wrong \in Nat /\ s_fail_count \in Nat /\ s_last_fail \in Nat /\ calm \in Nat
    BY DEF StoreInv, TypeInv, TypeOK
  <2>6. Delay(wrong) <= Delay(s_fail_count) /\ Delay(wrong) \in Nat /\ Delay(s_fail_count) \in Nat
    BY <2>4, <2>5, DelayMonotone
  <2> QED BY <2>3, <2>4, <2>5, <2>6
<1> QED BY <1>1, StoreInvariant, PTL DEF Spec, BackoffHonoured

-----------------------------------------------------------------------------
(***************************************************************************)
(* The promise of the store, for every set of PINs and record arrays, any  *)
(* number of power cuts and any number of failing steps, on a store that   *)
(* this firmware made (no format 1 slot), whose slots are read without     *)
(* error while an unlock tries them and whose erase of the whole partition *)
(* returns no error (it may be cut).                                       *)
(***************************************************************************)
Format2Only == Origins = {"blank"} /\ ~EraseRaces /\ ~Misreads

(***************************************************************************)
(* The inductive strengthening, over the two slots of format 2.            *)
(***************************************************************************)
\* Slot s reads back whole, with the header in flash, with the one in RAM.
Whole(s) == slot[s].hdr # Junk /\ slot[s].body = slot[s].hdr
Known(s) == s_hdr[s] # Junk /\ slot[s].body = s_hdr[s]

\* Blob b is one the callers may still be given.
Told(b) == [pin |-> b.pin, recs |-> b.recs] \in promise

\* The store never had a format 1 slot.
NoFormat1 ==
    /\ pc # "v1" /\ ~revived
    /\ \A s \in V1 : slot[s].hdr = Junk /\ s_hdr[s] = Junk

\* A body that the header in RAM authenticates has that header in flash.
SameTwin == \A s \in Slots : Known(s) => slot[s].hdr = s_hdr[s]

\* What the running call has said it stores, and under which key.
CallInv ==
    /\ nonce > 0
    /\ pc \in {"body", "header"} => slot[Target].hdr = Junk
    /\ pc = "eraseAll" => ~acked /\ s_state # "UNLOCKED"
    /\ s_state = "UNLOCKED" \/ op.call = "create" => s_key \in Pins \ retired
    /\ op.call = "save" => s_state = "UNLOCKED"
    /\ op.call = "unlock" => op.pin \in Pins
    /\ op.call = "change" => op.pin = s_key
    /\ op.call = "create" => op.recs = Empty
    /\ op.call \in {"create", "save", "change"} => [pin |-> s_key, recs |-> op.recs] \in promise
    /\ op.call = "create" /\ pc \in {"ctlErase", "ctlWrite"} => s_hdr[s_current].recs = Empty

\* No whole slot is under a PIN that was replaced.
NotRetired == \A s \in Slots : Whole(s) => slot[s].hdr.pin \in Pins \ retired

\* What failed creations left in a blank store was promised.
BlankInv == s_state = "BLANK" /\ pc # "eraseAll" => \A s \in V2 : Whole(s) => Told(slot[s].hdr)

\* A slot whose contents are no longer promised is older than one of the same
\* PIN: an unlock passes it over, with the headers of the next boot or of RAM.
FineFlash ==
    \A s \in V2 : Whole(s) =>
        \/ Told(slot[s].hdr)
        \/ \E t \in V2 : Whole(t) /\ slot[t].hdr.pin = slot[s].hdr.pin /\ slot[t].hdr.seq > slot[s].hdr.seq

FineRam ==
    \A s \in V2 : Known(s) =>
        \/ Told(s_hdr[s])
        \/ \E t \in V2 : Known(t) /\ s_hdr[t].pin = s_hdr[s].pin /\ s_hdr[t].seq > s_hdr[s].seq

\* A session's current slot, which its next save leaves alone, is promised.
CurrentTold ==
    s_state = "UNLOCKED" => s_current \in V2 /\ Known(s_current) /\ Told(s_hdr[s_current])

AckedInv ==
    acked => /\ s_state # "BLANK" /\ \E s \in V2 : Whole(s)
             /\ FineFlash /\ FineRam /\ CurrentTold

DurInv == NoFormat1 /\ SameTwin /\ CallInv /\ NotRetired /\ BlankInv /\ AckedInv

-----------------------------------------------------------------------------
(***************************************************************************)
(* What a step does to the slots.                                          *)
(***************************************************************************)
\* An interrupted access leaves each slot as it was, unreadable, or holding
\* the blob being written; while a save runs, only its target.
LEMMA InterruptOutcome ==
    ASSUME TypeInv, BodyFirst, NoFormat1, CallInv, Interrupt
    PROVE  /\ \A s \in Slots : \/ slot'[s] = slot[s]
                               \/ slot'[s].body = Junk
                               \/ /\ pc = "header" /\ s = Target /\ slot'[s].body = NewBlob
                                  /\ slot'[s].hdr # Junk => slot'[s].hdr = NewBlob \/ slot'[s].hdr # slot'[s].body
           /\ pc # "eraseAll" => \A s \in Slots \ {Target} : slot'[s] = slot[s]
           /\ pc \notin {"erase", "header", "eraseAll"} => slot' = slot
           /\ \A s \in V1 : slot'[s].hdr = Junk
<1>1. slot \in [Slots -> Slot] /\ Target \in Slots /\ Target \in V2
  BY TargetType DEF TypeInv, TypeOK
<1>2. \A s \in V1 : s \in Slots /\ s # Target /\ slot[s].hdr = Junk
  BY <1>1 DEF NoFormat1, V1, V2, Slots
<1>3. ASSUME NEW S \in SUBSET Slots, EraseUpTo(S)
      PROVE  /\ \A s \in Slots : slot'[s] = slot[s] \/ slot'[s].body = Junk
             /\ \A s \in Slots \ S : slot'[s] = slot[s]
             /\ \A s \in V1 : slot'[s].hdr = Junk
  <2>1. /\ \A s \in Slots \ S : slot'[s] = slot[s]
        /\ \A s \in Slots : \/ slot'[s] = slot[s] \/ slot'[s] = Erased
                            \/ slot'[s] = [slot[s] EXCEPT !.body = Junk]
    BY <1>1, <1>3, EraseUpToType
  <2>2. \A s \in Slots : /\ [slot[s] EXCEPT !.body = Junk].body = Junk
                         /\ [slot[s] EXCEPT !.body = Junk].hdr = slot[s].hdr
    BY <1>1 DEF Slot
  <2>3. Erased.hdr = Junk /\ Erased.body = Junk
    BY DEF Erased
  <2> QED BY <1>2, <2>1, <2>2, <2>3
<1>4. CASE UNCHANGED slot
  BY <1>2, <1>4
<1>5. CASE pc = "erase" /\ EraseUpTo({Target})
  BY <1>1, <1>3, <1>5
<1>6. CASE pc = "eraseAll" /\ EraseUpTo(Slots)
  BY <1>3, <1>6
<1>7. CASE pc = "header" /\ \E h \in {Junk, TornHeader, NewBlob} : slot' = [slot EXCEPT ![Target].hdr = h]
  <2>1. PICK h \in {Junk, TornHeader, NewBlob} : slot' = [slot EXCEPT ![Target].hdr = h]
    BY <1>7
  <2>2. \A s \in Slots \ {Target} : slot'[s] = slot[s]
    BY <1>1, <2>1
  <2>3. slot'[Target].hdr = h /\ slot'[Target].body = NewBlob
    BY <1>1, <1>7, <2>1 DEF BodyFirst, Slot
  <2>4. TornHeader # NewBlob
    BY NewBlobType DEF TypeInv, CallInv
  <2> QED BY <1>1, <1>2, <1>7, <2>1, <2>2, <2>3, <2>4
<1> QED BY <1>4, <1>5, <1>6, <1>7 DEF Interrupt, NoFormat1, flash

\* The steps of a save touch its target only.
LEMMA WriteOutcome ==
    ASSUME TypeInv, BodyFirst
    PROVE  /\ EraseSlot => /\ slot'[Target] = Erased /\ s_hdr' = s_hdr
                           /\ \A s \in Slots \ {Target} : slot'[s] = slot[s]
           /\ WriteBody => /\ slot'[Target].body = NewBlob /\ slot'[Target].hdr = slot[Target].hdr
                           /\ s_hdr' = s_hdr
                           /\ \A s \in Slots \ {Target} : slot'[s] = slot[s]
           /\ WriteHeader => /\ slot'[Target].body = NewBlob /\ slot'[Target].hdr = NewBlob
                             /\ s_hdr'[Target] = NewBlob
                             /\ \A s \in Slots \ {Target} : slot'[s] = slot[s] /\ s_hdr'[s] = s_hdr[s]
<1>1. slot \in [Slots -> Slot] /\ s_hdr \in [Slots -> Blob \cup {Junk}] /\ Target \in Slots
  BY TargetType DEF TypeInv, TypeOK
<1>2. CASE EraseSlot
  BY <1>1, <1>2 DEF EraseSlot, WriteBody, WriteHeader, session
<1>3. CASE WriteBody
  BY <1>1, <1>3 DEF EraseSlot, WriteBody, WriteHeader, session, Slot
<1>4. CASE WriteHeader
  BY <1>1, <1>4 DEF EraseSlot, WriteBody, WriteHeader, BodyFirst, Slot
<1> QED BY <1>2, <1>3, <1>4

\* The header in RAM of the slot being written is of an older blob.
LEMMA NotYetKnown ==
    ASSUME TypeInv, Fresh, pc \in {"body", "header"}
    PROVE  s_hdr[Target] # NewBlob
<1>1. Target \in Slots /\ s_hdr[Target] \in Blob \cup {Junk} /\ nonce \in Nat
  BY TargetType DEF TypeInv, TypeOK
<1>2. NewBlob # Junk /\ NewBlob.nonce = nonce
  BY NewBlobType DEF TypeInv
<1>3. s_hdr[Target] # Junk => s_hdr[Target].nonce < nonce /\ s_hdr[Target].nonce \in Nat
  BY <1>1 DEF Fresh, Blob
<1> QED BY <1>1, <1>2, <1>3

\* The steps that leave the slots and their headers alone.
Passive ==
    \/ ApiCall \/ EraseControl \/ WriteControl \/ CheckStep \/ Tick
    \/ ControlFault \/ SearchFault \/ CompareFault

LEMMA PassiveOutcome == Passive => UNCHANGED <<slot, s_hdr>> /\ pc' \notin {"body", "header", "v1"}
<1>1. CASE ApiCall
  BY <1>1 DEF ApiCall, Create, Unlock, VerifyPin, Save, ChangePin, Lock, Erase, Call, flash, session
<1>2. CASE EraseControl \/ WriteControl \/ CheckStep \/ Tick
  BY <1>2 DEF EraseControl, WriteControl, CheckStep, SearchFound, SearchFailed, CompareOk, CompareFailed,
              Found, Accept, Refuse, Tick, flash, session
<1>3. CASE ControlFault \/ SearchFault \/ CompareFault
  BY <1>3 DEF ControlFault, SearchFault, CompareFault, FaultAt, Interrupt, Return, Refuse, flash, session
<1> QED BY <1>1, <1>2, <1>3 DEF Passive

\* The steps a store of format 2 takes.
LEMMA StepCases ==
    ASSUME Format2Only, NoFormat1, [Next]_vars, [~EraseAllFault]_vars
    PROVE  \/ UNCHANGED vars \/ Passive \/ EraseSlot \/ WriteBody \/ WriteHeader
           \/ EraseAll \/ PowerCut \/ BlobFault
<1>1. ~EraseV1 /\ ~EraseV1Fault /\ ~SearchMisread
  BY DEF Format2Only, NoFormat1, EraseV1, EraseV1Fault, FaultAt, SearchMisread
<1> QED BY <1>1 DEF Next, FlashStep, Fault, Passive

\* With no format 1 header in RAM a write goes on to its return.
LEMMA WriteEnds == NoFormat1 /\ WriteHeader => AfterBlob
BY DEF NoFormat1, WriteHeader

-----------------------------------------------------------------------------
(***************************************************************************)
(* The parts of the invariant, each from the ones before it.               *)
(***************************************************************************)
Base == Format2Only /\ TypeInv /\ KeyInv /\ Fresh /\ CheckPhase /\ NoFormat1 /\ SameTwin /\ CallInv

SureStep == [Next]_vars /\ [~EraseAllFault]_vars

\* No step makes a format 1 slot.
LEMMA NextNoFormat1 == Base /\ SureStep => NoFormat1'
<1> SUFFICES ASSUME Base, SureStep PROVE NoFormat1'
  OBVIOUS
<1> USE DEF Base
<1>1. \A s \in V1 : s \in Slots /\ s # Target
  BY TargetType DEF TypeInv, TypeOK, V1, V2, Slots
<1>2. CASE UNCHANGED vars
  BY <1>2 DEF vars, flash, session, told, NoFormat1
<1>3. CASE Passive
  <2>1. revived' = FALSE
    <3>1. CASE \E s \in Slots : SearchFound(s)
      BY <3>1 DEF SearchFound, Opens, Decrypts, Found, NoFormat1
    <3>2. CASE ~\E s \in Slots : SearchFound(s)
      BY <1>3, <3>2 DEF Passive, ApiCall, Create, Unlock, VerifyPin, Save, ChangePin, Lock, Erase, EraseControl,
           WriteControl, Acknowledge, CheckStep, SearchFailed, CompareOk, CompareFailed, Tick, ControlFault,
           SearchFault, CompareFault, told, NoFormat1
    <3> QED BY <3>1, <3>2
  <2> QED BY <1>3, <2>1, PassiveOutcome DEF NoFormat1
<1>4. CASE EraseSlot \/ WriteBody
  <2>1. pc' \in {"body", "header"} /\ UNCHANGED revived
    BY <1>4 DEF EraseSlot, WriteBody, told
  <2> QED BY <1>1, <1>4, <2>1, WriteOutcome DEF KeyInv, NoFormat1
<1>5. CASE WriteHeader
  <2>1. pc' \in {"erase", "ctlErase", "idle"} /\ UNCHANGED revived
    BY <1>5, WriteEnds DEF AfterBlob, Acknowledge
  <2> QED BY <1>1, <1>5, <2>1, WriteOutcome DEF KeyInv, NoFormat1
<1>6. CASE EraseAll
  <2>1. \A s \in Slots : slot'[s].hdr = Junk /\ s_hdr'[s] = Junk
    BY <1>6 DEF EraseAll, Erased
  <2> QED BY <1>1, <1>6, <2>1 DEF EraseAll, NoFormat1
<1>7. CASE PowerCut
  <2>1. \A s \in V1 : slot'[s].hdr = Junk
    BY <1>7, InterruptOutcome DEF PowerCut, KeyInv
  <2>2. \A s \in V1 : s_hdr'[s] = slot'[s].hdr
    BY <1>1, <1>7 DEF PowerCut, BootFrom, Headers
  <2> QED BY <1>7, <2>1, <2>2 DEF PowerCut, BootFrom, told, NoFormat1
<1>8. CASE BlobFault
  <2>1. \A s \in V1 : slot'[s].hdr = Junk
    BY <1>8, InterruptOutcome DEF BlobFault, FaultAt, KeyInv
  <2> QED BY <1>8, <2>1 DEF BlobFault, AbandonBlob, Return, told, NoFormat1
<1> QED BY <1>2, <1>3, <1>4, <1>5, <1>6, <1>7, <1>8, StepCases DEF SureStep

\* What a slot whose header in RAM stays still holds was there before.
LEMMA StillKnown ==
    ASSUME Base, Interrupt, UNCHANGED s_hdr, NEW s \in Slots, Known(s)'
    PROVE  slot'[s] = slot[s] /\ Known(s)
<1>1. slot'[s].body # Junk
  BY DEF Known
<1>2. CASE pc = "header" /\ s = Target /\ slot'[s].body = NewBlob
  BY <1>2, NotYetKnown DEF Base, Known
<1> QED BY <1>1, <1>2, InterruptOutcome DEF Base, KeyInv, Known

\* No step parts a known body from its header in flash.
LEMMA NextSameTwin == Base /\ SureStep => SameTwin'
<1> SUFFICES ASSUME Base, SureStep PROVE SameTwin'
  OBVIOUS
<1> USE DEF Base
<1>1. Target \in Slots
  BY TargetType DEF TypeInv, TypeOK
<1>2. CASE UNCHANGED vars \/ Passive
  <2>1. UNCHANGED <<slot, s_hdr>>
    BY <1>2, PassiveOutcome DEF vars, flash, session
  <2> QED BY <2>1 DEF SameTwin, Known
<1>3. CASE EraseSlot
  BY <1>3, WriteOutcome DEF KeyInv, SameTwin, Known, Erased
<1>4. CASE WriteBody
  <2>1. s_hdr[Target] # NewBlob
    BY <1>4, NotYetKnown DEF WriteBody
  <2> QED BY <1>4, <2>1, WriteOutcome DEF KeyInv, SameTwin, Known
<1>5. CASE WriteHeader
  BY <1>5, WriteOutcome DEF KeyInv, SameTwin, Known
<1>6. CASE EraseAll
  BY <1>6 DEF EraseAll, SameTwin, Known
<1>7. CASE PowerCut
  BY <1>7 DEF PowerCut, BootFrom, Headers, SameTwin, Known
<1>8. CASE BlobFault
  <2>1. Interrupt /\ UNCHANGED s_hdr
    BY <1>8 DEF BlobFault, FaultAt, AbandonBlob
  <2>2. ASSUME NEW s \in Slots, Known(s)' PROVE slot'[s].hdr = s_hdr'[s]
    BY <2>1, <2>2, StillKnown DEF SameTwin
  <2> QED BY <2>2 DEF SameTwin
<1> QED BY <1>2, <1>3, <1>4, <1>5, <1>6, <1>7, <1>8, StepCases DEF SureStep

\* No step leaves a session without a PIN in use, nor a running call without
\* its promise.
LEMMA NextCallInv == Base /\ NotRetired /\ SureStep => CallInv'
<1> SUFFICES ASSUME Base, NotRetired, SureStep PROVE CallInv'
  OBVIOUS
<1> USE DEF Base
<1>1. /\ Target \in Slots /\ nonce \in Nat /\ NoPin \notin Pins
      /\ Idle.call = "none"
  BY TargetType, StoreAssumption DEF TypeInv, TypeOK, Idle
<1>2. CASE UNCHANGED vars
  BY <1>2 DEF vars, flash, session, told, CallInv, Target
<1>3. CASE ApiCall
  <2>1. CASE Lock \/ Erase
    BY <1>1, <2>1 DEF Lock, Erase, Call, flash, session, told, Format2Only, KeyInv, Phase, CallInv
  <2>2. CASE \E p \in Pins : Create(p)
    BY <1>1, <2>2 DEF Create, Call, KeyInv, Phase, CallInv
  <2>3. CASE \E p \in Pins : Unlock(p) \/ VerifyPin(p)
    BY <1>1, <2>3 DEF Unlock, VerifyPin, Call, session, told, KeyInv, Phase, CallInv
  <2>4. CASE \E r \in Records : Save(r)
    BY <1>1, <2>4 DEF Save, Call, session, KeyInv, Phase, CallInv
  <2>5. CASE \E p \in Pins, r \in Records : ChangePin(p, r)
    BY <1>1, <2>5 DEF ChangePin, Call, KeyInv, Phase, CallInv
  <2> QED BY <1>3, <2>1, <2>2, <2>3, <2>4, <2>5 DEF ApiCall
<1>4. CASE EraseSlot \/ WriteBody
  <2>1. Target' = Target
    BY <1>4 DEF EraseSlot, WriteBody, session, Target
  <2>2. slot'[Target].hdr = Junk
    BY <1>4, WriteOutcome DEF KeyInv, WriteBody, CallInv, Erased
  <2>3. /\ UNCHANGED <<s_state, s_key, op, acked, promise, retired>> /\ nonce' \in {nonce, nonce + 1}
        /\ pc' \in {"body", "header"}
    BY <1>4 DEF EraseSlot, WriteBody, session, told
  <2> QED BY <1>1, <2>1, <2>2, <2>3 DEF CallInv
<1>5. CASE WriteHeader
  <2>1. AfterBlob /\ UNCHANGED <<s_state, s_key, nonce>> /\ s_current' = Target /\ pc = "header"
    BY <1>5, WriteEnds DEF WriteHeader
  <2>2. s_hdr'[Target] = NewBlob /\ NewBlob.recs = op.recs
    BY <1>5, WriteOutcome, NewBlobType DEF KeyInv, TypeInv
  <2>3. CASE op' = [op EXCEPT !.left = op.left - 1] /\ pc' = "erase" /\ UNCHANGED <<promise, acked, retired>>
    <3>1. op'.call = op.call /\ op'.pin = op.pin /\ op'.recs = op.recs
      BY <2>3 DEF TypeInv, TypeOK, Op
    <3> QED BY <1>1, <2>1, <2>3, <3>1 DEF CallInv
  <2>4. CASE pc' = "ctlErase" /\ op.call = "create" /\ UNCHANGED <<op, promise, acked, retired>>
    BY <1>1, <2>1, <2>2, <2>4 DEF CallInv
  <2>5. CASE pc' = "idle" /\ op' = Idle /\ op.call # "create" /\ Acknowledge
    BY <1>1, <2>1, <2>5 DEF Acknowledge, CallInv
  <2> QED BY <2>1, <2>3, <2>4, <2>5 DEF AfterBlob
<1>6. CASE EraseControl
  BY <1>6 DEF EraseControl, session, told, CallInv
<1>7. CASE WriteControl
  <2>1. UNCHANGED <<s_key, nonce, s_hdr, s_current>>
    BY <1>7 DEF WriteControl
  <2>2. CASE pc' \in {"compare", "search"} /\ UNCHANGED <<op, s_state, told>>
    BY <1>1, <2>1, <2>2 DEF told, CallInv
  <2>3. CASE pc' = "idle" /\ op' = Idle
    BY <1>1, <1>7, <2>1, <2>3 DEF WriteControl, Acknowledge, told, CallInv
  <2> QED BY <1>7, <2>2, <2>3 DEF WriteControl
<1>8. ASSUME NEW s \in Slots, SearchFound(s) PROVE CallInv'
  <2>1. Known(s) /\ s_hdr[s].pin = op.pin /\ op.call \in {"unlock", "verify"}
    BY <1>8 DEF SearchFound, Opens, Decrypts, Known, KeyInv, Phase
  <2>2. op.pin \in Pins \ retired
    BY <2>1 DEF SameTwin, Known, Whole, NotRetired
  <2>3. op'.call = op.call /\ op'.pin = op.pin /\ pc' = "ctlErase"
    BY <1>8 DEF SearchFound, Found, Accept, TypeInv, TypeOK, Op
  <2> QED BY <1>1, <1>8, <2>1, <2>2, <2>3 DEF SearchFound, Found, CallInv
<1>9. CASE CompareOk
  <2>1. op'.call = op.call /\ op'.pin = op.pin /\ op'.recs = op.recs /\ pc' = "ctlErase"
    BY <1>9 DEF CompareOk, Accept, TypeInv, TypeOK, Op
  <2> QED BY <1>9, <2>1 DEF CompareOk, session, told, CheckPhase, KeyInv, Phase, CallInv
<1>10. CASE SearchFailed \/ CompareFailed \/ CompareFault \/ SearchFault
  <2>1. pc' = "idle" /\ op' = Idle /\ UNCHANGED <<session, told, nonce>>
    BY <1>10 DEF SearchFailed, CompareFailed, CompareFault, SearchFault, Refuse, Return
  <2> QED BY <1>1, <2>1, <1>10 DEF session, told, CallInv, SearchFailed, CompareFailed, CompareFault,
             SearchFault, FaultAt, CheckPhase, KeyInv, Phase
<1>11. CASE Tick
  BY <1>11 DEF Tick, session, told, CallInv
<1>12. CASE ControlFault
  BY <1>1, <1>12 DEF ControlFault, FaultAt, Return, told, KeyInv, Phase, CallInv
<1>13. CASE EraseAll
  BY <1>1, <1>13 DEF EraseAll, CallInv
<1>14. CASE PowerCut
  BY <1>1, <1>14 DEF PowerCut, BootFrom, told, CallInv
<1>15. CASE BlobFault
  <2>1. op.call \in {"create", "save", "change"}
    BY <1>15 DEF BlobFault, FaultAt, KeyInv, Phase
  <2> QED BY <1>1, <1>15, <2>1 DEF BlobFault, AbandonBlob, Return, told, KeyInv, Phase, CallInv
<1> QED
  BY <1>2, <1>3, <1>4, <1>5, <1>6, <1>7, <1>8, <1>9, <1>10, <1>11, <1>12, <1>13, <1>14, <1>15, StepCases
  DEF SureStep, Passive, CheckStep

\* What a slot still holds after an interrupted access was there before, or
\* is the blob being written.
LEMMA StillWhole ==
    ASSUME Base, Interrupt, NEW s \in Slots, Whole(s)'
    PROVE  slot'[s] = slot[s] \/ (pc = "header" /\ s = Target /\ slot'[s].hdr = NewBlob)
BY InterruptOutcome DEF Base, KeyInv, Whole

\* There are two slots of format 2: the current one and the target.
LEMMA TwoSlots ==
    ASSUME TypeInv, NEW s \in V2, s_current \in V2
    PROVE  s = Target \/ s = s_current
BY TargetType DEF TypeInv, TypeOK, V2

\* Before a write under the key of a session, its current slot is under it.
LEMMA CurrentOfKey ==
    ASSUME Base, s_state = "UNLOCKED", ~(op.call = "change" /\ op.left = 2), pc # "eraseAll"
    PROVE  s_current \in V2 /\ Known(s_current) /\ s_hdr[s_current].pin = s_key
<1>1. s_key # NoPin
  BY StoreAssumption DEF Base, CallInv
<1>2. s_current \in Slots /\ Decrypts(slot, s_hdr, s_current, s_key)
  BY <1>1 DEF Base, KeyInv, KeyOpensCurrent
<1> QED BY <1>2 DEF Base, NoFormat1, Decrypts, Known, Slots

\* The blob being written is one the callers were told of, under a PIN in use.
LEMMA NewBlobTold ==
    ASSUME Base, pc \in {"erase", "body", "header"}
    PROVE  Told(NewBlob) /\ NewBlob.pin \in Pins \ retired /\ NewBlob.pin = s_key /\ NewBlob.recs = op.recs
<1>1. op.call \in {"create", "save", "change"}
  BY DEF Base, KeyInv, Phase
<1>2. NewBlob.pin = s_key /\ NewBlob.recs = op.recs
  BY NewBlobType DEF Base, TypeInv
<1> QED BY <1>1, <1>2 DEF Base, CallInv, CheckPhase, Told

\* A call that returns a PIN change leaves both slots under the new PIN.
LEMMA NextNotRetired == Base /\ NotRetired /\ SureStep => NotRetired'
<1> SUFFICES ASSUME Base, NotRetired, SureStep PROVE NotRetired'
  OBVIOUS
<1> USE DEF Base
<1>1. Target \in Slots /\ Target \in V2
  BY TargetType DEF TypeInv, TypeOK
<1>2. CASE UNCHANGED vars
  BY <1>2 DEF vars, flash, told, NotRetired, Whole
<1>3. CASE Passive
  <2>1. retired' \in SUBSET retired
    BY <1>3 DEF Passive, ApiCall, Create, Unlock, VerifyPin, Save, ChangePin, Lock, Erase, EraseControl,
       WriteControl, Acknowledge, CheckStep, SearchFound, Found, SearchFailed, CompareOk, CompareFailed, Tick,
       ControlFault, SearchFault, CompareFault, told
  <2> QED BY <1>3, <2>1, PassiveOutcome DEF NotRetired, Whole
<1>4. CASE EraseSlot \/ WriteBody
  <2>1. slot'[Target].hdr = Junk
    BY <1>4, WriteOutcome DEF KeyInv, WriteBody, CallInv, Erased
  <2>2. UNCHANGED retired
    BY <1>4 DEF EraseSlot, WriteBody, told
  <2> QED BY <1>1, <1>4, <2>1, <2>2, WriteOutcome DEF KeyInv, NotRetired, Whole
<1>5. CASE WriteHeader
  <2>1. slot'[Target].hdr.pin \in Pins \ retired /\ slot'[Target].hdr.pin = s_key
    BY <1>5, NewBlobTold, WriteOutcome DEF WriteHeader, KeyInv
  <2>2. CASE UNCHANGED retired
    BY <1>1, <1>5, <2>1, <2>2, WriteOutcome DEF KeyInv, NotRetired, Whole
  <2>3. CASE op.call = "change" /\ op.left = 1 /\ retired' = Pins \ {op.pin}
    <3>1. s_state = "UNLOCKED" /\ pc = "header" /\ op.pin = s_key
      BY <1>5, <2>3 DEF WriteHeader, CheckPhase, CallInv
    <3>2. s_current \in V2 /\ Known(s_current) /\ s_hdr[s_current].pin = s_key
      BY <2>3, <3>1, CurrentOfKey
    <3>3. ASSUME NEW s \in Slots, Whole(s)' PROVE slot'[s].hdr.pin = s_key
      <4>1. s \in V2
        BY <1>1, <1>5, <3>3, WriteOutcome DEF KeyInv, NoFormat1, Whole, Slots, V1, V2
      <4>2. CASE s = Target
        BY <2>1, <4>2
      <4>3. CASE s = s_current /\ s # Target
        <5>1. slot'[s] = slot[s]
          BY <1>5, <4>3, WriteOutcome DEF KeyInv
        <5> QED BY <3>2, <4>3, <5>1 DEF SameTwin
      <4> QED BY <3>2, <4>1, <4>2, <4>3, TwoSlots
    <3> QED BY <2>1, <2>3, <3>1, <3>3 DEF NotRetired
  <2> QED BY <1>5, <2>2, <2>3, WriteEnds DEF AfterBlob, Acknowledge
<1>6. CASE EraseAll
  BY <1>6 DEF EraseAll, Erased, NotRetired, Whole
<1>7. CASE PowerCut \/ BlobFault
  <2>1. Interrupt /\ UNCHANGED retired
    BY <1>7 DEF PowerCut, BlobFault, FaultAt, told
  <2>2. ASSUME NEW s \in Slots, Whole(s)' PROVE slot'[s].hdr.pin \in Pins \ retired
    <3>1. CASE slot'[s] = slot[s]
      BY <2>2, <3>1 DEF NotRetired, Whole
    <3>2. CASE pc = "header" /\ slot'[s].hdr = NewBlob
      BY <3>2, NewBlobTold
    <3> QED BY <2>1, <2>2, <3>1, <3>2, StillWhole
  <2> QED BY <2>1, <2>2 DEF NotRetired
<1> QED BY <1>2, <1>3, <1>4, <1>5, <1>6, <1>7, StepCases DEF SureStep

\* Creations that fail leave nothing but what was promised.
LEMMA NextBlankInv == Base /\ BlankInv /\ SureStep => BlankInv'
<1> SUFFICES ASSUME Base, BlankInv, SureStep, (s_state = "BLANK" /\ pc # "eraseAll")',
                    NEW s \in V2, Whole(s)'
             PROVE  Told(slot[s].hdr)'
  BY DEF BlankInv
<1> USE DEF Base
<1>1. Target \in Slots /\ Target \in V2 /\ s \in Slots
  BY TargetType DEF TypeInv, TypeOK, Slots
<1>2. CASE UNCHANGED vars
  BY <1>2 DEF vars, flash, session, told, BlankInv, Whole, Told
<1>3. CASE Passive
  <2>1. s_state = "BLANK" /\ pc # "eraseAll" /\ promise \subseteq promise'
    BY <1>3 DEF Passive, ApiCall, Create, Unlock, VerifyPin, Save, ChangePin, Lock, Erase, Call, EraseControl,
       WriteControl, Acknowledge, CheckStep, SearchFound, Found, SearchFailed, CompareOk, CompareFailed, Tick,
       ControlFault, SearchFault, CompareFault, FaultAt, session, told
  <2> QED BY <1>3, <2>1, PassiveOutcome DEF BlankInv, Whole, Told
<1>4. CASE EraseSlot \/ WriteBody
  <2>1. slot'[Target].hdr = Junk
    BY <1>4, WriteOutcome DEF KeyInv, WriteBody, CallInv, Erased
  <2>2. s # Target /\ slot'[s] = slot[s]
    BY <1>1, <1>4, <2>1, WriteOutcome DEF KeyInv, Whole
  <2>3. s_state = "BLANK" /\ pc # "eraseAll" /\ UNCHANGED promise
    BY <1>4 DEF EraseSlot, WriteBody, session, told
  <2> QED BY <2>2, <2>3 DEF BlankInv, Whole, Told
<1>5. CASE WriteHeader
  <2>1. s_state = "BLANK" /\ pc = "header"
    BY <1>5 DEF WriteHeader
  <2>2. op.call = "create"
    BY <2>1 DEF KeyInv, Phase, CheckPhase, CallInv
  <2>3. UNCHANGED promise
    BY <1>5, <2>2, WriteEnds DEF AfterBlob
  <2>4. Told(NewBlob)
    BY <2>1, NewBlobTold
  <2> QED BY <1>1, <1>5, <2>1, <2>3, <2>4, WriteOutcome DEF KeyInv, BlankInv, Whole, Told
<1>6. CASE EraseAll
  BY <1>1, <1>6 DEF EraseAll, Erased, Whole
<1>7. CASE PowerCut
  BY <1>1, <1>7 DEF PowerCut, BootFrom, Whole
<1>8. CASE BlobFault
  <2>1. Interrupt /\ UNCHANGED promise /\ s_state = "BLANK" /\ pc \in {"erase", "body", "header"}
    BY <1>8 DEF BlobFault, FaultAt, AbandonBlob, told
  <2> QED BY <1>1, <2>1, StillWhole, NewBlobTold DEF BlankInv, Whole, Told
<1> QED BY <1>2, <1>3, <1>4, <1>5, <1>6, <1>7, <1>8, StepCases DEF SureStep

\* Under an acknowledged store a write is a session's, and the slot beside its
\* target is whole and promised.
LEMMA AckedWrite ==
    ASSUME Base, AckedInv, acked, pc \in {"erase", "body", "header"}
    PROVE  \E c \in V2 : /\ c = s_current /\ c \in Slots /\ c # Target
                         /\ Known(c) /\ Whole(c) /\ slot[c].hdr = s_hdr[c] /\ Told(slot[c].hdr)
<1>1. op.call \in {"create", "save", "change"}
  BY DEF Base, KeyInv, Phase
<1>2. s_state = "UNLOCKED"
  BY <1>1 DEF Base, KeyInv, Phase, CallInv, CheckPhase, AckedInv
<1>3. s_current \in V2 /\ Known(s_current) /\ Told(s_hdr[s_current])
  BY <1>2 DEF AckedInv, CurrentTold
<1> QED BY <1>3, TargetType DEF Base, TypeInv, TypeOK, SameTwin, Known, Whole, Slots

\* When an acknowledged store is interrupted, the flash keeps a whole slot and
\* opens, for each PIN, on promised contents; and so do the headers in RAM.
LEMMA InterruptAcked ==
    ASSUME Base, AckedInv, acked, Interrupt, UNCHANGED promise
    PROVE  /\ \E s \in V2 : Whole(s)'
           /\ FineFlash'
           /\ s_hdr' = s_hdr => FineRam'
<1>1. pc # "eraseAll"
  BY DEF Base, CallInv
<1>2. CASE slot' = slot
  BY <1>2 DEF AckedInv, FineFlash, FineRam, Whole, Known, Told
<1>3. CASE pc \in {"erase", "header"}
  <2>1. PICK c \in V2 : /\ c = s_current /\ c \in Slots /\ c # Target
                        /\ Known(c) /\ Whole(c) /\ slot[c].hdr = s_hdr[c] /\ Told(slot[c].hdr)
    BY <1>3, AckedWrite
  <2>2. slot'[c] = slot[c]
    BY <1>1, <2>1, InterruptOutcome DEF Base, KeyInv
  <2>3. Whole(c)'
    BY <2>1, <2>2 DEF Whole
  <2>4. CASE slot'[Target] = slot[Target]
    <3>1. \A s \in V2 : slot'[s] = slot[s]
      BY <2>1, <2>2, <2>4, TwoSlots DEF Base
    <3> QED BY <2>3, <3>1, SMTT(60) DEF AckedInv, FineFlash, FineRam, Whole, Known, Told
  <2>5. CASE slot'[Target] # slot[Target]
    <3>1. ASSUME NEW s \in V2, Whole(s)' PROVE Told(slot[s].hdr)'
      <4>1. s \in Slots
        BY DEF Slots
      <4>2. CASE s = c
        BY <2>1, <2>2, <4>2 DEF Told
      <4>3. CASE pc = "header" /\ slot'[s].hdr = NewBlob
        BY <4>3, NewBlobTold DEF Told
      <4> QED BY <2>1, <2>5, <3>1, <4>1, <4>2, <4>3, StillWhole, TwoSlots DEF Base
    <3>2. ASSUME NEW s \in V2, s_hdr' = s_hdr, Known(s)' PROVE Told(s_hdr[s])'
      <4>1. s \in Slots
        BY DEF Slots
      <4>2. slot'[s] = slot[s]
        BY <3>2, <4>1, StillKnown
      <4>3. s = c
        BY <2>1, <2>5, <4>2, TwoSlots DEF Base
      <4> QED BY <2>1, <3>2, <4>3 DEF Told
    <3> QED BY <2>3, <3>1, <3>2 DEF FineFlash, FineRam
  <2> QED BY <2>4, <2>5
<1> QED BY <1>1, <1>2, <1>3, InterruptOutcome DEF Base, KeyInv

\* The write that is acknowledged leaves both slots under its PIN, the older
\* one behind it; the writes before it leave both promised.
LEMMA WriteHeaderAcked ==
    ASSUME Base, AckedInv, WriteHeader, acked'
    PROVE  AckedInv'
<1> USE DEF Base
<1>1. /\ Target \in Slots /\ Target \in V2 /\ pc = "header" /\ AfterBlob
      /\ s_current' = Target /\ UNCHANGED <<s_state, s_key>>
      /\ slot'[Target].hdr = NewBlob /\ slot'[Target].body = NewBlob /\ s_hdr'[Target] = NewBlob
      /\ \A s \in Slots \ {Target} : slot'[s] = slot[s] /\ s_hdr'[s] = s_hdr[s]
  BY TargetType, WriteEnds, WriteOutcome DEF TypeInv, TypeOK, KeyInv, WriteHeader
<1>2. /\ Told(NewBlob) /\ NewBlob.pin = s_key /\ NewBlob.recs = op.recs /\ NewBlob # Junk
      /\ op.call \in {"create", "save", "change"}
  BY <1>1, NewBlobTold, NewBlobType DEF TypeInv, KeyInv, Phase
<1>3. PICK t \in V2 : t = Target
  BY <1>1
<1>4. Whole(t)' /\ Known(t)' /\ slot'[t].hdr = NewBlob /\ s_hdr'[t] = NewBlob
  BY <1>1, <1>2, <1>3 DEF Whole, Known
<1>5. CASE UNCHANGED <<promise, acked>>
  <2>1. PICK c \in V2 : /\ c = s_current /\ c \in Slots /\ c # Target
                        /\ Known(c) /\ Whole(c) /\ slot[c].hdr = s_hdr[c] /\ Told(slot[c].hdr)
    BY <1>1, <1>5, AckedWrite
  <2>2. \A s \in V2 : s = t \/ s = c
    BY <1>3, <2>1, TwoSlots
  <2>3. slot'[c].hdr = slot[c].hdr /\ s_hdr'[c] = s_hdr[c]
    BY <1>1, <2>1
  <2>4. \A s \in V2 : Told(slot[s].hdr)' /\ Told(s_hdr[s])'
    BY <1>2, <1>4, <1>5, <2>1, <2>2, <2>3 DEF Told
  <2>5. s_state' # "BLANK"
    BY <1>1, <1>5 DEF AckedInv
  <2> QED BY <1>1, <1>3, <1>4, <2>4, <2>5 DEF AckedInv, FineFlash, FineRam, CurrentTold
<1>6. CASE op.left = 1 /\ op.call # "create" /\ promise' = {[pin |-> s_key, recs |-> op.recs]}
  <2>1. s_state = "UNLOCKED"
    BY <1>2, <1>6 DEF CallInv, CheckPhase
  <2>2. s_current \in V2 /\ Known(s_current) /\ s_hdr[s_current].pin = s_key
    BY <1>1, <1>6, <2>1, CurrentOfKey
  <2>3. PICK c \in V2 : c = s_current
    BY <2>2
  <2>4. c \in Slots /\ c # Target /\ \A s \in V2 : s = t \/ s = c
    BY <1>3, <2>2, <2>3, TwoSlots, TargetType DEF TypeInv, TypeOK, Slots
  <2>5. s_hdr[c] \in Blob /\ NewBlob.seq = s_hdr[c].seq + 1
    BY <2>2, <2>3, <2>4 DEF TypeInv, TypeOK, Known, NewBlob, V2
  <2>6. slot'[c].hdr = s_hdr[c] /\ s_hdr'[c] = s_hdr[c]
    BY <1>1, <2>2, <2>3, <2>4 DEF SameTwin
  <2>7. Told(slot[t].hdr)' /\ Told(s_hdr[t])'
    BY <1>2, <1>4, <1>6 DEF Told
  <2>8. NewBlob.seq > s_hdr[c].seq /\ NewBlob.pin = s_hdr[c].pin
    BY <1>2, <2>2, <2>3, <2>5 DEF Blob
  <2>9. FineFlash' /\ FineRam'
    BY <1>4, <2>4, <2>6, <2>7, <2>8 DEF FineFlash, FineRam
  <2> QED BY <1>1, <1>3, <1>4, <2>1, <2>7, <2>9 DEF AckedInv, CurrentTold
<1> QED BY <1>1, <1>5, <1>6 DEF AfterBlob, Acknowledge

\* Every step keeps an acknowledged store opening on promised contents.
LEMMA NextAckedInv == Base /\ BlankInv /\ AckedInv /\ SureStep => AckedInv'
<1> SUFFICES ASSUME Base, BlankInv, AckedInv, SureStep, acked' PROVE AckedInv'
  BY DEF AckedInv
<1> USE DEF Base
<1>1. Target \in Slots /\ Target \in V2 /\ V2 \in SUBSET Slots
  BY TargetType DEF TypeInv, TypeOK, Slots
\* The steps that leave slots, headers and acknowledgement alone.
<1>2. ASSUME acked, UNCHANGED <<slot, s_hdr, s_current>>, promise \subseteq promise',
             s_state' # "BLANK", s_state' = "UNLOCKED" => s_state = "UNLOCKED"
      PROVE  AckedInv'
  BY <1>2 DEF AckedInv, FineFlash, FineRam, CurrentTold, Whole, Known, Told
<1>3. CASE UNCHANGED vars
  BY <1>2, <1>3 DEF vars, flash, session, told, AckedInv
<1>4. ASSUME NEW s \in Slots, SearchFound(s) PROVE AckedInv'
  <2>1. UNCHANGED <<slot, s_hdr, promise, acked>> /\ s_current' = s /\ s_state' = "UNLOCKED"
    BY <1>4 DEF SearchFound, Found, flash
  <2>2. s \in V2 /\ Known(s)
    BY <1>4 DEF SearchFound, Opens, Decrypts, Known, NoFormat1, Slots
  <2>3. Told(s_hdr[s])
    <3>1. \A t \in V2 : Known(t) => s_hdr[t].seq \in Nat
      BY <1>1 DEF TypeInv, TypeOK, Known, Blob
    <3>2. ASSUME NEW t \in V2, Known(t), s_hdr[t].pin = s_hdr[s].pin, s_hdr[t].seq > s_hdr[s].seq
          PROVE  FALSE
      <4>1. t \in Slots \ {s} /\ Decrypts(slot, s_hdr, t, op.pin)
        BY <1>1, <1>4, <2>2, <3>1, <3>2 DEF SearchFound, Opens, Decrypts, Known
      <4>2. Before(s_hdr, s, t)
        BY <1>4, <4>1 DEF SearchFound, Opens
      <4> QED BY <2>2, <3>1, <3>2, <4>2 DEF Before
    <3> QED BY <2>1, <2>2, <3>2 DEF AckedInv, FineRam
  <2> QED BY <2>1, <2>2, <2>3 DEF AckedInv, FineFlash, FineRam, CurrentTold, Whole, Known, Told
<1>5. CASE WriteControl
  <2>1. CASE op.count = 0 /\ op.call = "create"
    <3>1. /\ pc = "ctlWrite" /\ s_state = "BLANK" /\ s_state' = "UNLOCKED"
          /\ UNCHANGED <<slot, s_hdr, s_current, promise>>
      BY <1>5, <2>1 DEF WriteControl, Acknowledge, KeyInv, Phase
    <3>2. s_current \in V2 /\ Known(s_current) /\ Whole(s_current)
      BY <2>1, <3>1 DEF KeyInv, Written, Decrypts, SameTwin, Known, Whole, NoFormat1, Slots
    <3>3. \A s \in V2 : Whole(s) => Told(slot[s].hdr)
      BY <3>1 DEF BlankInv
    <3>4. \A s \in V2 : Known(s) => Told(s_hdr[s])
      BY <1>1, <3>3 DEF SameTwin, Known, Whole
    <3> QED BY <3>1, <3>2, <3>3, <3>4 DEF AckedInv, FineFlash, FineRam, CurrentTold, Whole, Known, Told
  <2>2. CASE ~(op.count = 0 /\ op.call = "create")
    BY <1>2, <1>5, <2>2 DEF WriteControl, told, AckedInv
  <2> QED BY <2>1, <2>2
<1>6. CASE Passive /\ ~WriteControl /\ ~\E s \in Slots : SearchFound(s)
  <2>1. UNCHANGED <<slot, s_hdr>>
    BY <1>6, PassiveOutcome
  <2>2. acked /\ UNCHANGED s_current /\ promise \subseteq promise' /\ s_state' \in {s_state, "LOCKED"}
    BY <1>6 DEF Passive, ApiCall, Create, Unlock, VerifyPin, Save, ChangePin, Lock, Erase, EraseControl,
       CheckStep, SearchFailed, CompareOk, CompareFailed, Tick, ControlFault, SearchFault, CompareFault,
       session, told
  <2> QED BY <1>2, <2>1, <2>2 DEF AckedInv
<1>7. CASE EraseSlot \/ WriteBody
  <2>1. acked /\ pc \in {"erase", "body"} /\ UNCHANGED <<s_state, s_current, promise>> /\ s_hdr' = s_hdr
    BY <1>7 DEF EraseSlot, WriteBody, session, told
  <2>2. PICK c \in V2 : /\ c = s_current /\ c \in Slots /\ c # Target
                        /\ Known(c) /\ Whole(c) /\ slot[c].hdr = s_hdr[c] /\ Told(slot[c].hdr)
    BY <2>1, AckedWrite
  <2>3. slot'[c] = slot[c] /\ slot'[Target].hdr = Junk
    BY <1>7, <2>2, WriteOutcome DEF KeyInv, WriteBody, CallInv, Erased
  <2>4. s_hdr[Target] # Junk => slot'[Target].body # s_hdr[Target]
    BY <1>7, WriteOutcome, NotYetKnown DEF KeyInv, WriteBody, Erased
  <2>5. \A s \in V2 : s = c \/ s = Target
    BY <2>2, TwoSlots
  <2>6. \A s \in V2 : (Whole(s)' => s = c) /\ (Known(s)' => s = c)
    BY <2>1, <2>3, <2>4, <2>5 DEF Whole, Known
  <2>7. Whole(c)' /\ Known(c)' /\ Told(slot[c].hdr)' /\ Told(s_hdr[c])'
    BY <2>1, <2>2, <2>3 DEF Whole, Known, Told
  <2>8. s_current' = c /\ s_state' # "BLANK"
    BY <2>1, <2>2 DEF AckedInv
  <2> QED BY <2>6, <2>7, <2>8 DEF AckedInv, FineFlash, FineRam, CurrentTold
<1>8. CASE EraseAll
  BY <1>8 DEF EraseAll, CallInv
<1>9. CASE PowerCut
  <2>1. acked /\ Interrupt /\ UNCHANGED promise /\ BootFrom(slot', ctl')
    BY <1>9 DEF PowerCut, told
  <2>2. \E s \in V2 : Whole(s)'
    BY <2>1, InterruptAcked
  <2>3. FineFlash'
    BY <2>1, InterruptAcked
  <2>4. s_state' = "LOCKED" /\ \A s \in V2 : s_hdr'[s] = slot'[s].hdr
    BY <1>1, <2>1, <2>2 DEF BootFrom, Headers, Whole
  <2>5. FineRam'
    BY <2>3, <2>4 DEF FineFlash, FineRam, Whole, Known, Told
  <2> QED BY <2>2, <2>3, <2>4, <2>5 DEF AckedInv, CurrentTold
<1>10. CASE BlobFault
  <2>1. /\ acked /\ Interrupt /\ UNCHANGED <<promise, s_current>> /\ s_hdr' = s_hdr
        /\ s_state' \in {s_state, "LOCKED"} /\ pc \in {"erase", "body", "header"}
    BY <1>10 DEF BlobFault, FaultAt, AbandonBlob, told
  <2>2. (\E s \in V2 : Whole(s)') /\ FineFlash' /\ FineRam'
    BY <2>1, InterruptAcked
  <2>3. PICK c \in V2 : /\ c = s_current /\ c \in Slots /\ c # Target
                        /\ Known(c) /\ Whole(c) /\ slot[c].hdr = s_hdr[c] /\ Told(slot[c].hdr)
    BY <2>1, AckedWrite
  <2>4. slot'[c] = slot[c]
    BY <2>1, <2>3, InterruptOutcome DEF KeyInv
  <2>5. CurrentTold'
    BY <2>1, <2>3, <2>4 DEF CurrentTold, Known, Told
  <2> QED BY <2>1, <2>2, <2>5 DEF AckedInv
<1> QED
  BY <1>3, <1>4, <1>5, <1>6, <1>7, <1>8, <1>9, <1>10, WriteHeaderAcked, StepCases DEF SureStep, Passive, CheckStep

-----------------------------------------------------------------------------
(***************************************************************************)
(* The theorems.                                                           *)
(***************************************************************************)
\* The store, when its erase of the whole partition returns no error.  Without
\* this, or with a format 1 slot, an older blob of another PIN outlives the call
\* that should have replaced it and an unlock with that PIN makes it current.
Sure == Spec /\ [][~EraseAllFault]_vars

\* The parts of DurInv are inductive together, over the invariant of the store.
LEMMA DurInvariant ==
    ASSUME Format2Only
    PROVE  Sure => [](StoreInv /\ DurInv)
<1>1. Init => DurInv
  <2>1. "format1" \notin Origins
    BY DEF Format2Only
  <2>2. Init => InitStore([s \in Slots |-> Erased], {})
    BY <2>1 DEF Init
  <2>3. Init => \A s \in Slots : slot[s].hdr = Junk /\ s_hdr[s] = Junk
    BY <2>2 DEF InitStore, Headers, Erased
  <2>4. Init => /\ pc = "idle" /\ op = Idle /\ nonce = 2 /\ s_state = "BLANK"
                /\ acked = FALSE /\ revived = FALSE
    BY <2>2 DEF InitStore
  <2> QED BY <2>3, <2>4 DEF DurInv, NoFormat1, SameTwin, CallInv, NotRetired, BlankInv, AckedInv,
                            Whole, Known, Idle, Slots
<1>2. StoreInv /\ DurInv /\ SureStep => DurInv'
  <2>1. StoreInv /\ DurInv => Base /\ NotRetired /\ BlankInv /\ AckedInv
    BY DEF StoreInv, GateInv, DurInv, Base
  <2> QED BY <2>1, NextNoFormat1, NextSameTwin, NextCallInv, NextNotRetired, NextBlankInv, NextAckedInv
          DEF DurInv
<1> QED BY <1>1, <1>2, StoreInvariant, PTL DEF Sure, Spec, SureStep

\* The slot that opens under a PIN, with the headers in RAM, is promised.
LEMMA OpensPromised ==
    ASSUME StoreInv, DurInv, acked, NEW s \in Slots, NEW p, Opens(slot, s_hdr, s, p)
    PROVE  [pin |-> p, recs |-> s_hdr[s].recs] \in promise
<1>1. s \in V2 /\ Known(s) /\ s_hdr[s].pin = p
  BY DEF Opens, Decrypts, Known, DurInv, NoFormat1, Slots
<1>2. \A t \in V2 : t \in Slots /\ (Known(t) => s_hdr[t].seq \in Nat)
  BY DEF StoreInv, TypeInv, TypeOK, Known, Blob, Slots
<1>3. ASSUME NEW t \in V2, Known(t), s_hdr[t].pin = s_hdr[s].pin, s_hdr[t].seq > s_hdr[s].seq
      PROVE  FALSE
  <2>1. t # s
    BY <1>1, <1>2, <1>3
  <2>2. Decrypts(slot, s_hdr, t, p)
    BY <1>1, <1>3 DEF Decrypts, Known
  <2>3. Before(s_hdr, s, t)
    BY <1>2, <2>1, <2>2 DEF Opens
  <2> QED BY <1>1, <1>2, <1>3, <2>3 DEF Before
<1>4. Told(s_hdr[s])
  BY <1>1, <1>3 DEF DurInv, AckedInv, FineRam
<1> QED BY <1>1, <1>4 DEF Told

\* Atomic replace: whatever number of cuts and of failing steps, a store that
\* has acknowledged records opens after the next boot on these or on those of
\* a call begun since.
THEOREM StoreIsDurable ==
    ASSUME Format2Only
    PROVE  Sure => []DurableStore
<1>1. StoreInv /\ DurInv => DurableStore
  <2> SUFFICES ASSUME StoreInv, DurInv, acked
               PROVE  \E c \in promise, s \in Slots :
                        Opens(slot, Headers(slot), s, c.pin) /\ slot[s].hdr.recs = c.recs
    BY DEF DurableStore
  <2>1. \A s \in Slots : Headers(slot)[s] = slot[s].hdr
    BY DEF Headers
  <2>2. \A s \in V2 : s \in Slots /\ s \in Nat /\ (Whole(s) => slot[s].hdr.seq \in Nat)
    BY DEF StoreInv, TypeInv, TypeOK, Slot, Whole, Blob, Slots, V2
  <2>3. PICK a \in V2 : Whole(a)
    BY DEF DurInv, AckedInv
  <2>4. PICK b \in V2 : /\ Whole(b) /\ slot[b].hdr.pin = slot[a].hdr.pin
                        /\ \A t \in V2 \ {b} : Whole(t) /\ slot[t].hdr.pin = slot[a].hdr.pin =>
                              Before(Headers(slot), b, t)
    <3>1. PICK o \in V2 : o # a /\ \A t \in V2 : t = a \/ t = o
      BY DEF V2
    <3>2. CASE Whole(o) /\ slot[o].hdr.pin = slot[a].hdr.pin
      <4>1. Before(Headers(slot), a, o) \/ Before(Headers(slot), o, a)
        BY <2>1, <2>2, <2>3, <3>1, <3>2 DEF Before
      <4> QED BY <2>3, <3>1, <3>2, <4>1
    <3>3. CASE ~(Whole(o) /\ slot[o].hdr.pin = slot[a].hdr.pin)
      BY <2>3, <3>1, <3>3
    <3> QED BY <3>2, <3>3
  <2>5. Opens(slot, Headers(slot), b, slot[b].hdr.pin)
    <3>1. ASSUME NEW t \in Slots \ {b}, Decrypts(slot, Headers(slot), t, slot[b].hdr.pin)
          PROVE  Before(Headers(slot), b, t)
      <4>1. t \in V2 /\ Whole(t) /\ slot[t].hdr.pin = slot[a].hdr.pin
        BY <2>1, <2>4, <3>1 DEF Decrypts, Whole, DurInv, NoFormat1, Slots
      <4> QED BY <2>4, <3>1, <4>1
    <3> QED BY <2>1, <2>2, <2>4, <3>1 DEF Opens, Decrypts, Whole
  <2>6. ~\E t \in V2 : Whole(t) /\ slot[t].hdr.pin = slot[b].hdr.pin /\ slot[t].hdr.seq > slot[b].hdr.seq
    <3> SUFFICES ASSUME NEW t \in V2, Whole(t), slot[t].hdr.pin = slot[b].hdr.pin,
                        slot[t].hdr.seq > slot[b].hdr.seq
                 PROVE  FALSE
      OBVIOUS
    <3>1. t # b
      BY <2>2, <2>4
    <3>2. Before(Headers(slot), b, t)
      BY <2>4, <3>1
    <3> QED BY <2>1, <2>2, <2>4, <3>2 DEF Before
  <2>7. Told(slot[b].hdr)
    BY <2>4, <2>6 DEF DurInv, AckedInv, FineFlash
  <2> QED BY <2>2, <2>5, <2>7 DEF Told
<1> QED BY <1>1, DurInvariant, PTL

\* An unlock delivers records as old as the last ones acknowledged at most.
THEOREM UnlockIsPromised ==
    ASSUME Format2Only
    PROVE  Sure => UnlockReturnsPromise
<1>1. StoreInv /\ DurInv => \A s \in Slots : SearchFound(s) /\ acked =>
                               [pin |-> op.pin, recs |-> s_hdr[s].recs] \in promise
  BY OpensPromised DEF SearchFound
<1>2. StoreInv /\ DurInv /\ [Next]_vars =>
        [\A s \in Slots : (SearchFound(s) /\ acked /\ ~revived') =>
            [pin |-> op.pin, recs |-> s_hdr[s].recs] \in promise]_vars
  BY <1>1
<1> QED BY <1>2, DurInvariant, PTL DEF UnlockReturnsPromise, Sure, Spec

\* Once a PIN change has returned, no slot opens with a PIN it replaced.
THEOREM OldPinsAreGone ==
    ASSUME Format2Only
    PROVE  Sure => []NewPinOnFormat2
<1>1. DurInv => NewPinOnFormat2
  BY DEF DurInv, NotRetired, NewPinOnFormat2, Decrypts, Headers, Whole, Slots
<1> QED BY <1>1, DurInvariant, PTL

-----------------------------------------------------------------------------
(***************************************************************************)
(* The store implements Vault.                                             *)
(***************************************************************************)
\* The steps Vault does not see.
LEMMA Unseen ==
    ASSUME UNCHANGED <<s_state, promise, acked>>,
           s_state = "UNLOCKED" => s_key' = s_key /\ s_hdr'[s_current'] = s_hdr[s_current]
    PROVE  UNCHANGED Promised!vault
BY DEF Promised!vault

\* A written header is the next version of Vault, or settles it.
LEMMA HeaderMaps == Base /\ WriteHeader => [Promised!VaultNext]_(Promised!vault)
<1> SUFFICES ASSUME Base, WriteHeader PROVE [Promised!VaultNext]_(Promised!vault)
  OBVIOUS
<1>1. /\ AfterBlob /\ pc = "header" /\ UNCHANGED <<s_state, s_key>>
      /\ s_hdr'[s_current'].recs = op.recs /\ op.recs \in Records
  BY WriteEnds, WriteOutcome, NewBlobType DEF Base, TypeInv, TypeOK, KeyInv, Op, WriteHeader
<1>2. CASE s_state # "UNLOCKED"
  <2>1. op.call = "create"
    BY <1>1, <1>2 DEF Base, KeyInv, Phase, CheckPhase, CallInv
  <2>2. UNCHANGED <<promise, acked>>
    BY <1>1, <2>1 DEF AfterBlob
  <2> QED BY <1>1, <1>2, <2>2, Unseen
<1>3. CASE s_state = "UNLOCKED"
  <2>1. op.call \in {"save", "change"} /\ [pin |-> s_key, recs |-> op.recs] \in promise
    BY <1>1, <1>3 DEF Base, KeyInv, Phase, CallInv
  <2>2. CASE UNCHANGED <<promise, acked>>
    <3>1. Promised!Written(op.recs)
      BY <1>1, <1>3, <2>1, <2>2 DEF Promised!Written
    <3> QED BY <1>1, <3>1 DEF Promised!VaultNext
  <2>3. CASE Acknowledge
    <3>1. Promised!Settled(op.recs)
      BY <1>1, <1>3, <2>1, <2>3 DEF Promised!Settled, Acknowledge
    <3> QED BY <1>1, <3>1 DEF Promised!VaultNext
  <2> QED BY <1>1, <2>1, <2>2, <2>3 DEF AfterBlob
<1> QED BY <1>2, <1>3

\* Every step of the store is a step of Vault, or one it does not see.
LEMMA StepMaps ==
    ASSUME Format2Only, StoreInv, DurInv, AckedInv', SureStep
    PROVE  [Promised!VaultNext]_(Promised!vault)
<1>1. Base
  BY DEF StoreInv, GateInv, DurInv, Base
<1>2. CASE UNCHANGED vars
  BY <1>2, Unseen DEF vars, session, told
<1>3. CASE ApiCall
  <2>1. CASE \E p \in Pins : Unlock(p) \/ VerifyPin(p)
    BY <2>1, Unseen DEF Unlock, VerifyPin, session, told
  <2>2. ASSUME NEW p \in Pins, Create(p) PROVE Promised!VaultNext
    <3>1. Promised!BeginCreate(p)
      BY <2>2 DEF Promised!BeginCreate, Create
    <3> QED BY <3>1 DEF Promised!VaultNext
  <2>3. ASSUME NEW r \in Records, Save(r) PROVE Promised!VaultNext
    <3>1. s_key \in Pins /\ Promised!BeginWrite(s_key, r)
      BY <1>1, <2>3 DEF Promised!BeginWrite, Save, session, Base, CallInv
    <3> QED BY <3>1 DEF Promised!VaultNext
  <2>4. ASSUME NEW p \in Pins, NEW r \in Records, ChangePin(p, r) PROVE Promised!VaultNext
    <3>1. Promised!BeginWrite(p, r)
      BY <2>4 DEF Promised!BeginWrite, ChangePin
    <3> QED BY <3>1 DEF Promised!VaultNext
  <2>5. CASE Lock
    <3>1. Promised!Closed
      BY <2>5 DEF Promised!Closed, Lock, told
    <3> QED BY <3>1 DEF Promised!VaultNext
  <2>6. CASE Erase
    <3>1. Promised!BeginErase
      BY <2>6 DEF Promised!BeginErase, Erase, Format2Only
    <3> QED BY <3>1 DEF Promised!VaultNext
  <2> QED BY <1>3, <2>1, <2>2, <2>3, <2>4, <2>5, <2>6 DEF ApiCall
<1>4. CASE EraseSlot \/ WriteBody \/ EraseControl \/ Tick
  BY <1>4, Unseen DEF EraseSlot, WriteBody, EraseControl, Tick, session, told
<1>5. CASE SearchFailed \/ CompareOk \/ CompareFailed \/ SearchFault \/ CompareFault
  BY <1>5, Unseen DEF SearchFailed, CompareOk, CompareFailed, SearchFault, CompareFault, session, told
<1>6. CASE WriteControl
  <2>1. CASE op.count = 0 /\ op.call = "create"
    <3>1. /\ s_state = "BLANK" /\ s_key \in Pins /\ [pin |-> s_key, recs |-> Empty] \in promise
          /\ s_hdr[s_current].recs = Empty
      BY <1>1, <1>6, <2>1 DEF WriteControl, Base, KeyInv, Phase, CallInv
    <3>2. Promised!Created(s_key)
      BY <1>6, <2>1, <3>1 DEF Promised!Created, WriteControl, Acknowledge
    <3> QED BY <3>1, <3>2 DEF Promised!VaultNext
  <2>2. CASE ~(op.count = 0 /\ op.call = "create")
    BY <1>6, <2>2, Unseen DEF WriteControl, told
  <2> QED BY <2>1, <2>2
<1>7. ASSUME NEW s \in Slots, SearchFound(s) PROVE Promised!VaultNext
  <2> DEFINE c == [pin |-> op.pin, recs |-> s_hdr[s].recs]
  <2>1. s_state # "BLANK" /\ op.pin \in Pins
    BY <1>1, <1>7 DEF SearchFound, Base, KeyInv, Phase, CheckPhase, CallInv
  <2>2. s_hdr[s] \in Blob
    BY <1>1, <1>7 DEF SearchFound, Opens, Decrypts, Base, TypeInv, TypeOK
  <2>3. c \in Promised!Pair
    BY <2>1, <2>2 DEF Promised!Pair, Blob
  <2>4. c \in promise \/ ~acked
    BY <1>7, OpensPromised DEF SearchFound
  <2>5. Promised!Opened(c)
    BY <1>7, <2>1, <2>4 DEF Promised!Opened, SearchFound, Found
  <2> QED BY <2>3, <2>5 DEF Promised!VaultNext
<1>8. CASE EraseAll
  <2>1. Promised!Erased
    BY <1>1, <1>8 DEF Promised!Erased, EraseAll, Base, CallInv
  <2> QED BY <2>1 DEF Promised!VaultNext
<1>9. CASE PowerCut
  <2>1. Promised!Rebooted
    BY <1>9 DEF Promised!Rebooted, PowerCut, BootFrom, told, AckedInv
  <2> QED BY <2>1 DEF Promised!VaultNext
<1>10. CASE ControlFault
  <2>1. op.call = "create" => s_state = "BLANK"
    BY <1>1 DEF Base, KeyInv, Phase
  <2> QED BY <1>10, <2>1, Unseen DEF ControlFault, told
<1>11. CASE BlobFault
  <2>1. op.call = "create" => s_state = "BLANK"
    BY <1>1 DEF Base, KeyInv, Phase
  <2>2. op.call \in {"create", "save", "change"} /\ (op.call = "change" => s_state = "UNLOCKED")
    BY <1>1, <1>11 DEF BlobFault, FaultAt, Base, KeyInv, Phase, CheckPhase
  <2>3. CASE op.call = "change"
    <3>1. Promised!Closed
      BY <1>11, <2>2, <2>3 DEF Promised!Closed, BlobFault, AbandonBlob, told
    <3> QED BY <3>1 DEF Promised!VaultNext
  <2>4. CASE op.call # "change"
    BY <1>11, <2>1, <2>2, <2>4, Unseen DEF BlobFault, AbandonBlob, told
  <2> QED BY <2>3, <2>4
<1> QED
  BY <1>1, <1>2, <1>3, <1>4, <1>5, <1>6, <1>7, <1>8, <1>9, <1>10, <1>11, HeaderMaps, StepCases
  DEF SureStep, Passive, CheckStep, DurInv

\* All that Vault promises, the store keeps: each of its steps is one of
\* Vault's or one that Vault does not see.
THEOREM StoreKeepsPromise ==
    ASSUME Format2Only
    PROVE  Sure => KeepsPromise
<1>1. Init => Promised!VaultInit({})
  <2>1. "format1" \notin Origins
    BY DEF Format2Only
  <2> QED BY <2>1 DEF Init, InitStore, Promised!VaultInit
<1>2. StoreInv /\ DurInv /\ (StoreInv /\ DurInv)' /\ SureStep => [Promised!VaultNext]_(Promised!vault)
  BY StepMaps DEF DurInv
<1> QED
  BY <1>1, <1>2, DurInvariant, PTL DEF Sure, Spec, SureStep, KeepsPromise, Promised!VaultSpec

=============================================================================
