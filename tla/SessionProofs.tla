---------------------------- MODULE SessionProofs ----------------------------
(***************************************************************************)
(* Theorems about Session, for any set of PINs and of accounts: its types, *)
(* and that the records in RAM, the store and the screen stay in step      *)
(* whatever the UI task, the PIN job, the sleeping device and the          *)
(* console's `store lock` do.                                              *)
(***************************************************************************)
EXTENDS Session, TLAPS

-----------------------------------------------------------------------------
(***************************************************************************)
(* The inductive invariant, in parts.                                      *)
(***************************************************************************)
TypeVault ==
    /\ vstate \in {"BLANK", "LOCKED", "UNLOCKED"} /\ vkey \in Pins \cup {NoPin}
    /\ copies \subseteq Pair /\ cur \in Records /\ made \in BOOLEAN
    /\ vstate = "UNLOCKED" => vkey \in Pins
TypeRam == /\ ram \in Records /\ image \in Records
           /\ edit \in [kind : {"none", "add", "remove"}, of : Records]
TypeUi == /\ uiPc \in {"loop", "save", "written"}
          /\ screen \in {"Home", "Settings", "Backup", "UsbDisk", "Pin"}
          /\ mode \in {"unlock", "create", "change", "confirm"} /\ step \in {0, 1}
          /\ was \in BOOLEAN
TypeWork ==
    /\ busy \in BOOLEAN /\ result \in {"none", "ok", "error"}
    /\ job \in [kind : {"none", "unlock", "create", "verify", "confirm", "change"},
                pin : Pins \cup {NoPin}]
    /\ jobPc \in {"none", "start", "call", "creating", "derive", "first", "between",
                  "second", "done"}
    /\ sleepPc \in {"awake", "wiped", "locked"} /\ conPc \in {"idle", "wiped"}
    /\ emptied \in BOOLEAN /\ stale \in BOOLEAN /\ missed \in BOOLEAN

\* A job runs under the PIN screen.
JobInv == /\ busy <=> jobPc # "none"
          /\ busy <=> job.pin \in Pins
          /\ busy => screen = "Pin" /\ job.kind # "none"

\* A save in the store holds it unlocked; a screen over a locked store, or one a
\* confirmed PIN will open, is one the watch has yet to look at.
UiInv == /\ uiPc # "loop" => screen = "Home"
         /\ uiPc = "written" => Unlocked
         /\ AccountsNeedUnlock
         /\ (sleepPc = "awake" /\ Confirmed) => Unlocked \/ was \/ missed

\* From the wipe of a lock on there are no records in RAM; a job has wiped them
\* before its call.
WipeInv == /\ ((Locking \/ ~Unlocked) /\ ~stale) => ram = {}
           /\ jobPc \in {"call", "creating"} => ram = {}
           /\ jobPc = "call" /\ Unlocked => emptied

\* The records in RAM are the store's, but for the change under way, which its
\* undoing takes back; what a call has serialised is what they are.
Undoing == IF edit.kind = "add" THEN ram \ edit.of ELSE ram \cup edit.of
RamInv == Unlocked /\ ~emptied =>
              /\ uiPc = "loop" => ram = cur
              /\ uiPc # "loop" => cur = Undoing
              /\ (uiPc = "written" \/ jobPc \in {"first", "second"}) => image = ram

SessionInv == /\ TypeVault /\ TypeRam /\ TypeUi /\ TypeWork
              /\ JobInv /\ UiInv /\ WipeInv /\ RamInv

LEMMA InvInit == Init => SessionInv
<1> SUFFICES ASSUME Init PROVE SessionInv  OBVIOUS
<1> USE SessionAssumption DEF SessionInv, TypeVault, TypeRam, TypeUi, TypeWork, JobInv, UiInv,
            WipeInv, RamInv, Undoing, AccountsNeedUnlock,
            Confirmed, Locking, Filled, Pair, vault, ui, work, lockers, history, Unlocked, Init,
            VaultInit, NoJob, NoEdit
<1>1. TypeVault  OBVIOUS
<1>2. TypeRam  OBVIOUS
<1>3. TypeUi  OBVIOUS
<1>4. TypeWork  OBVIOUS
<1>5. JobInv  OBVIOUS
<1>6. UiInv  OBVIOUS
<1>7. WipeInv  OBVIOUS
<1>8. RamInv  OBVIOUS
<1>9. QED  BY <1>1, <1>2, <1>3, <1>4, <1>5, <1>6, <1>7, <1>8

LEMMA UserStep == SessionInv /\ User => SessionInv'
<1> USE SessionAssumption DEF SessionInv, TypeVault, TypeRam, TypeUi, TypeWork, JobInv, UiInv,
            WipeInv, RamInv, Undoing, AccountsNeedUnlock,
            Confirmed, Locking, Filled, Pair, vault, ui, work, lockers, history, Unlocked, Input,
            Show, ShowHome, AskPin, Locks, Closed, MutexFree, NoJob, NoEdit
<1>1. ASSUME SessionInv, Navigate PROVE SessionInv'
  <2> USE <1>1 DEF Navigate
  <2>1. TypeVault'  OBVIOUS
  <2>2. TypeRam'  OBVIOUS
  <2>3. TypeUi'  OBVIOUS
  <2>4. TypeWork'  OBVIOUS
  <2>5. JobInv'  OBVIOUS
  <2>6. UiInv'  OBVIOUS
  <2>7. WipeInv'  OBVIOUS
  <2>8. RamInv'  OBVIOUS
  <2>9. QED  BY <2>1, <2>2, <2>3, <2>4, <2>5, <2>6, <2>7, <2>8
<1>2. ASSUME SessionInv, Back PROVE SessionInv'
  <2> USE <1>2 DEF Back
  <2>1. TypeVault'  OBVIOUS
  <2>2. TypeRam'  OBVIOUS
  <2>3. TypeUi'  OBVIOUS
  <2>4. TypeWork'  OBVIOUS
  <2>5. JobInv'  OBVIOUS
  <2>6. UiInv'  OBVIOUS
  <2>7. WipeInv'  OBVIOUS
  <2>8. RamInv'  OBVIOUS
  <2>9. QED  BY <2>1, <2>2, <2>3, <2>4, <2>5, <2>6, <2>7, <2>8
<1>3. ASSUME SessionInv, LockNow PROVE SessionInv'
  <2> USE <1>3 DEF LockNow
  <2>1. TypeVault'  OBVIOUS
  <2>2. TypeRam'  OBVIOUS
  <2>3. TypeUi'  OBVIOUS
  <2>4. TypeWork'  OBVIOUS
  <2>5. JobInv'  OBVIOUS
  <2>6. UiInv'  OBVIOUS
  <2>7. WipeInv'  OBVIOUS
  <2>8. RamInv'  OBVIOUS
  <2>9. QED  BY <2>1, <2>2, <2>3, <2>4, <2>5, <2>6, <2>7, <2>8
<1>4. ASSUME SessionInv, OpenUsbDisk PROVE SessionInv'
  <2> USE <1>4 DEF OpenUsbDisk
  <2>1. TypeVault'  OBVIOUS
  <2>2. TypeRam'  OBVIOUS
  <2>3. TypeUi'  OBVIOUS
  <2>4. TypeWork'  OBVIOUS
  <2>5. JobInv'  OBVIOUS
  <2>6. UiInv'  OBVIOUS
  <2>7. WipeInv'  OBVIOUS
  <2>8. RamInv'  OBVIOUS
  <2>9. QED  BY <2>1, <2>2, <2>3, <2>4, <2>5, <2>6, <2>7, <2>8
<1>5. ASSUME SessionInv, Edit PROVE SessionInv'
  <2> USE <1>5 DEF Edit
  <2>1. TypeVault'  OBVIOUS
  <2>2. TypeRam'  OBVIOUS
  <2>3. TypeUi'  OBVIOUS
  <2>4. TypeWork'  OBVIOUS
  <2>5. JobInv'  OBVIOUS
  <2>6. UiInv'  OBVIOUS
  <2>7. WipeInv'  OBVIOUS
  <2>8. RamInv'  OBVIOUS
  <2>9. QED  BY <2>1, <2>2, <2>3, <2>4, <2>5, <2>6, <2>7, <2>8
<1>6. ASSUME SessionInv, NEW p \in Pins, Submit(p) PROVE SessionInv'
  <2> USE <1>6 DEF Submit, JobOf
  <2>1. TypeVault'  OBVIOUS
  <2>2. TypeRam'  OBVIOUS
  <2>3. TypeUi'  OBVIOUS
  <2>4. TypeWork'
    <3>1. JobOf \in {"unlock", "create", "verify", "confirm", "change"}  OBVIOUS
    <3> HIDE DEF JobOf
    <3>2. job' \in [kind : {"none", "unlock", "create", "verify", "confirm", "change"},
                   pin : Pins \cup {NoPin}]  BY <3>1
    <3>3. QED  BY <3>2
  <2>5. JobInv'  OBVIOUS
  <2>6. UiInv'  OBVIOUS
  <2>7. WipeInv'  OBVIOUS
  <2>8. RamInv'  OBVIOUS
  <2>9. QED  BY <2>1, <2>2, <2>3, <2>4, <2>5, <2>6, <2>7, <2>8
<1>7. QED  BY <1>1, <1>2, <1>3, <1>4, <1>5, <1>6 DEF User

LEMMA UiTaskStep == SessionInv /\ UiStep => SessionInv'
<1> USE SessionAssumption DEF SessionInv, TypeVault, TypeRam, TypeUi, TypeWork, JobInv, UiInv,
            WipeInv, RamInv, Undoing, AccountsNeedUnlock,
            Confirmed, Locking, Filled, Pair, vault, ui, work, lockers, history, Unlocked, Show,
            ShowHome, AskPin, Undone, BeginWrite, Settled, MutexFree, Closed, NoJob,
            NoEdit
<1>1. ASSUME SessionInv, JobFinished PROVE SessionInv'
  <2> USE <1>1 DEF JobFinished
  <2>1. TypeVault'  OBVIOUS
  <2>2. TypeRam'  OBVIOUS
  <2>3. TypeUi'  OBVIOUS
  <2>4. TypeWork'  OBVIOUS
  <2>5. JobInv'  OBVIOUS
  <2>6. UiInv'  OBVIOUS
  <2>7. WipeInv'  OBVIOUS
  <2>8. RamInv'  OBVIOUS
  <2>9. QED  BY <2>1, <2>2, <2>3, <2>4, <2>5, <2>6, <2>7, <2>8
<1>2. ASSUME SessionInv, Save PROVE SessionInv'
  <2> USE <1>2 DEF Save
  <2>1. TypeVault'  OBVIOUS
  <2>2. TypeRam'  OBVIOUS
  <2>3. TypeUi'  OBVIOUS
  <2>4. TypeWork'  BY ZenonT(60)
  <2>5. JobInv'  OBVIOUS
  <2>6. UiInv'  OBVIOUS
  <2>7. WipeInv'  OBVIOUS
  <2>8. RamInv'  OBVIOUS
  <2>9. QED  BY <2>1, <2>2, <2>3, <2>4, <2>5, <2>6, <2>7, <2>8
<1>3. ASSUME SessionInv, Saved PROVE SessionInv'
  <2> USE <1>3 DEF Saved
  <2>1. TypeVault'  OBVIOUS
  <2>2. TypeRam'  OBVIOUS
  <2>3. TypeUi'  OBVIOUS
  <2>4. TypeWork'  OBVIOUS
  <2>5. JobInv'  OBVIOUS
  <2>6. UiInv'  OBVIOUS
  <2>7. WipeInv'  OBVIOUS
  <2>8. RamInv'  OBVIOUS
  <2>9. QED  BY <2>1, <2>2, <2>3, <2>4, <2>5, <2>6, <2>7, <2>8
<1>4. ASSUME SessionInv, SaveFailed PROVE SessionInv'
  <2> USE <1>4 DEF SaveFailed
  <2>1. TypeVault'  OBVIOUS
  <2>2. TypeRam'  OBVIOUS
  <2>3. TypeUi'  OBVIOUS
  <2>4. TypeWork'  OBVIOUS
  <2>5. JobInv'  OBVIOUS
  <2>6. UiInv'  OBVIOUS
  <2>7. WipeInv'  OBVIOUS
  <2>8. RamInv'  OBVIOUS
  <2>9. QED  BY <2>1, <2>2, <2>3, <2>4, <2>5, <2>6, <2>7, <2>8
<1>5. ASSUME SessionInv, NEW quiet \in BOOLEAN, AutoLock(quiet), Watch PROVE SessionInv'
  <2> USE <1>5 DEF AutoLock, AutoLocks, Watch
  <2>1. TypeVault'  OBVIOUS
  <2>2. TypeRam'  OBVIOUS
  <2>3. TypeUi'  OBVIOUS
  <2>4. TypeWork'  BY ZenonT(60)
  <2>5. JobInv'  OBVIOUS
  <2>6. UiInv'  OBVIOUS
  <2>7. WipeInv'  OBVIOUS
  <2>8. RamInv'  OBVIOUS
  <2>9. QED  BY <2>1, <2>2, <2>3, <2>4, <2>5, <2>6, <2>7, <2>8
<1>6. QED  BY <1>1, <1>2, <1>3, <1>4, <1>5 DEF UiStep, Turn

LEMMA WorkerStep == SessionInv /\ JobStep => SessionInv'
<1> USE SessionAssumption DEF SessionInv, TypeVault, TypeRam, TypeUi, TypeWork, JobInv, UiInv,
            WipeInv, RamInv, Undoing, AccountsNeedUnlock,
            Confirmed, Locking, Filled, Pair, vault, ui, work, lockers, history, Unlocked,
            JobKeeps, Finish, MutexFree, Opened, Closed, Created, BeginCreate,
            BeginWrite, Written, Settled, NoJob, NoEdit
<1>1. ASSUME SessionInv, JobWipes PROVE SessionInv'
  <2> USE <1>1 DEF JobWipes
  <2>1. TypeVault'  OBVIOUS
  <2>2. TypeRam'  OBVIOUS
  <2>3. TypeUi'  OBVIOUS
  <2>4. TypeWork'  OBVIOUS
  <2>5. JobInv'  OBVIOUS
  <2>6. UiInv'  OBVIOUS
  <2>7. WipeInv'  OBVIOUS
  <2>8. RamInv'  OBVIOUS
  <2>9. QED  BY <2>1, <2>2, <2>3, <2>4, <2>5, <2>6, <2>7, <2>8
<1>2. ASSUME SessionInv, JobUnlocks PROVE SessionInv'
  <2> USE <1>2 DEF JobUnlocks
  <2>1. TypeVault'  OBVIOUS
  <2>2. TypeRam'  OBVIOUS
  <2>3. TypeUi'  OBVIOUS
  <2>4. TypeWork'  OBVIOUS
  <2>5. JobInv'  OBVIOUS
  <2>6. UiInv'  OBVIOUS
  <2>7. WipeInv'  OBVIOUS
  <2>8. RamInv'  OBVIOUS
  <2>9. QED  BY <2>1, <2>2, <2>3, <2>4, <2>5, <2>6, <2>7, <2>8
<1>3. ASSUME SessionInv, JobRefused PROVE SessionInv'
  <2> USE <1>3 DEF JobRefused
  <2>1. TypeVault'  OBVIOUS
  <2>2. TypeRam'  OBVIOUS
  <2>3. TypeUi'  OBVIOUS
  <2>4. TypeWork'  OBVIOUS
  <2>5. JobInv'  OBVIOUS
  <2>6. UiInv'  OBVIOUS
  <2>7. WipeInv'  OBVIOUS
  <2>8. RamInv'  OBVIOUS
  <2>9. QED  BY <2>1, <2>2, <2>3, <2>4, <2>5, <2>6, <2>7, <2>8
<1>4. ASSUME SessionInv, JobCreates PROVE SessionInv'
  <2> USE <1>4 DEF JobCreates
  <2>1. TypeVault'  OBVIOUS
  <2>2. TypeRam'  OBVIOUS
  <2>3. TypeUi'  OBVIOUS
  <2>4. TypeWork'  OBVIOUS
  <2>5. JobInv'  OBVIOUS
  <2>6. UiInv'  OBVIOUS
  <2>7. WipeInv'  OBVIOUS
  <2>8. RamInv'  OBVIOUS
  <2>9. QED  BY <2>1, <2>2, <2>3, <2>4, <2>5, <2>6, <2>7, <2>8
<1>5. ASSUME SessionInv, JobCreated PROVE SessionInv'
  <2> USE <1>5 DEF JobCreated
  <2>1. TypeVault'  OBVIOUS
  <2>2. TypeRam'  OBVIOUS
  <2>3. TypeUi'  OBVIOUS
  <2>4. TypeWork'  OBVIOUS
  <2>5. JobInv'  OBVIOUS
  <2>6. UiInv'  OBVIOUS
  <2>7. WipeInv'  OBVIOUS
  <2>8. RamInv'  OBVIOUS
  <2>9. QED  BY <2>1, <2>2, <2>3, <2>4, <2>5, <2>6, <2>7, <2>8
<1>6. ASSUME SessionInv, JobConfirms PROVE SessionInv'
  <2> USE <1>6 DEF JobConfirms
  <2>1. TypeVault'  OBVIOUS
  <2>2. TypeRam'  OBVIOUS
  <2>3. TypeUi'  OBVIOUS
  <2>4. TypeWork'  OBVIOUS
  <2>5. JobInv'  OBVIOUS
  <2>6. UiInv'  OBVIOUS
  <2>7. WipeInv'  OBVIOUS
  <2>8. RamInv'  OBVIOUS
  <2>9. QED  BY <2>1, <2>2, <2>3, <2>4, <2>5, <2>6, <2>7, <2>8
<1>7. ASSUME SessionInv, JobChanges PROVE SessionInv'
  <2> USE <1>7 DEF JobChanges
  <2>1. TypeVault'  OBVIOUS
  <2>2. TypeRam'  OBVIOUS
  <2>3. TypeUi'  OBVIOUS
  <2>4. TypeWork'  OBVIOUS
  <2>5. JobInv'  OBVIOUS
  <2>6. UiInv'  OBVIOUS
  <2>7. WipeInv'  OBVIOUS
  <2>8. RamInv'  OBVIOUS
  <2>9. QED  BY <2>1, <2>2, <2>3, <2>4, <2>5, <2>6, <2>7, <2>8
<1>8. ASSUME SessionInv, JobWrites PROVE SessionInv'
  <2> USE <1>8 DEF JobWrites
  <2>1. TypeVault'  OBVIOUS
  <2>2. TypeRam'  OBVIOUS
  <2>3. TypeUi'  OBVIOUS
  <2>4. TypeWork'  OBVIOUS
  <2>5. JobInv'  OBVIOUS
  <2>6. UiInv'  OBVIOUS
  <2>7. WipeInv'  OBVIOUS
  <2>8. RamInv'  OBVIOUS
  <2>9. QED  BY <2>1, <2>2, <2>3, <2>4, <2>5, <2>6, <2>7, <2>8
<1>9. ASSUME SessionInv, JobWritten PROVE SessionInv'
  <2> USE <1>9 DEF JobWritten
  <2>1. TypeVault'  OBVIOUS
  <2>2. TypeRam'  OBVIOUS
  <2>3. TypeUi'  OBVIOUS
  <2>4. TypeWork'  OBVIOUS
  <2>5. JobInv'  OBVIOUS
  <2>6. UiInv'  OBVIOUS
  <2>7. WipeInv'  OBVIOUS
  <2>8. RamInv'  OBVIOUS
  <2>9. QED  BY <2>1, <2>2, <2>3, <2>4, <2>5, <2>6, <2>7, <2>8
<1>10. ASSUME SessionInv, JobChangeFailed PROVE SessionInv'
  <2> USE <1>10 DEF JobChangeFailed
  <2>1. TypeVault'  OBVIOUS
  <2>2. TypeRam'  OBVIOUS
  <2>3. TypeUi'  OBVIOUS
  <2>4. TypeWork'  OBVIOUS
  <2>5. JobInv'  OBVIOUS
  <2>6. UiInv'  OBVIOUS
  <2>7. WipeInv'  OBVIOUS
  <2>8. RamInv'  OBVIOUS
  <2>9. QED  BY <2>1, <2>2, <2>3, <2>4, <2>5, <2>6, <2>7, <2>8
<1>11. QED  BY <1>1, <1>2, <1>3, <1>4, <1>5, <1>6, <1>7, <1>8, <1>9, <1>10 DEF JobStep

LEMMA OthersStep == SessionInv /\ (SleepWipes \/ SleepLocks \/ ConsoleWipes \/ ConsoleLocks \/ Restart) => SessionInv'
<1> USE SessionAssumption DEF SessionInv, TypeVault, TypeRam, TypeUi, TypeWork, JobInv, UiInv,
            WipeInv, RamInv, Undoing, AccountsNeedUnlock,
            Confirmed, Locking, Filled, Pair, vault, ui, work, lockers, history, Unlocked,
            OthersKeep, Locks, Closed, MutexFree, Booted, ShowHome, Show, AskPin,
            Rebooted, NoJob, NoEdit
<1>1. ASSUME SessionInv, SleepWipes PROVE SessionInv'
  <2> USE <1>1 DEF SleepWipes
  <2>1. TypeVault'  OBVIOUS
  <2>2. TypeRam'  OBVIOUS
  <2>3. TypeUi'  OBVIOUS
  <2>4. TypeWork'  BY ZenonT(60)
  <2>5. JobInv'  OBVIOUS
  <2>6. UiInv'  OBVIOUS
  <2>7. WipeInv'  OBVIOUS
  <2>8. RamInv'  OBVIOUS
  <2>9. QED  BY <2>1, <2>2, <2>3, <2>4, <2>5, <2>6, <2>7, <2>8
<1>2. ASSUME SessionInv, SleepLocks PROVE SessionInv'
  <2> USE <1>2 DEF SleepLocks
  <2>1. TypeVault'  OBVIOUS
  <2>2. TypeRam'  OBVIOUS
  <2>3. TypeUi'  OBVIOUS
  <2>4. TypeWork'  OBVIOUS
  <2>5. JobInv'  OBVIOUS
  <2>6. UiInv'  OBVIOUS
  <2>7. WipeInv'  OBVIOUS
  <2>8. RamInv'  OBVIOUS
  <2>9. QED  BY <2>1, <2>2, <2>3, <2>4, <2>5, <2>6, <2>7, <2>8
<1>3. ASSUME SessionInv, Restart PROVE SessionInv'
  <2> USE <1>3 DEF Restart
  <2>1. TypeVault'  OBVIOUS
  <2>2. TypeRam'  OBVIOUS
  <2>3. TypeUi'  OBVIOUS
  <2>4. TypeWork'  OBVIOUS
  <2>5. JobInv'  OBVIOUS
  <2>6. UiInv'  OBVIOUS
  <2>7. WipeInv'  OBVIOUS
  <2>8. RamInv'  OBVIOUS
  <2>9. QED  BY <2>1, <2>2, <2>3, <2>4, <2>5, <2>6, <2>7, <2>8
<1>4. ASSUME SessionInv, ConsoleWipes PROVE SessionInv'
  <2> USE <1>4 DEF ConsoleWipes
  <2>1. TypeVault'  OBVIOUS
  <2>2. TypeRam'  OBVIOUS
  <2>3. TypeUi'  OBVIOUS
  <2>4. TypeWork'  BY ZenonT(60)
  <2>5. JobInv'  OBVIOUS
  <2>6. UiInv'  OBVIOUS
  <2>7. WipeInv'  OBVIOUS
  <2>8. RamInv'  OBVIOUS
  <2>9. QED  BY <2>1, <2>2, <2>3, <2>4, <2>5, <2>6, <2>7, <2>8
<1>5. ASSUME SessionInv, ConsoleLocks PROVE SessionInv'
  <2> USE <1>5 DEF ConsoleLocks
  <2>1. TypeVault'  OBVIOUS
  <2>2. TypeRam'  OBVIOUS
  <2>3. TypeUi'  OBVIOUS
  <2>4. TypeWork'  OBVIOUS
  <2>5. JobInv'  OBVIOUS
  <2>6. UiInv'  OBVIOUS
  <2>7. WipeInv'  OBVIOUS
  <2>8. RamInv'  OBVIOUS
  <2>9. QED  BY <2>1, <2>2, <2>3, <2>4, <2>5, <2>6, <2>7, <2>8
<1>6. QED  BY <1>1, <1>2, <1>3, <1>4, <1>5

LEMMA InvStep == SessionInv /\ [Next]_vars => SessionInv'
<1> SUFFICES ASSUME SessionInv, [Next]_vars PROVE SessionInv'  OBVIOUS
<1>1. CASE Next  BY <1>1, UserStep, UiTaskStep, WorkerStep, OthersStep DEF Next
<1>2. CASE UNCHANGED vars
  BY <1>2 DEF SessionInv, TypeVault, TypeRam, TypeUi, TypeWork, JobInv, UiInv,
            WipeInv, RamInv,
              Undoing, AccountsNeedUnlock, Confirmed, Locking, Unlocked, vars, vault, ui,
              work, lockers, history
<1>3. QED  BY <1>1, <1>2

LEMMA InvAlways == Spec => []SessionInv
BY InvInit, InvStep, PTL DEF Spec

-----------------------------------------------------------------------------
\* Every variable keeps its type; a running job has a PIN and its screen.
THEOREM TypeCorrect == Spec => []TypeOK
<1>1. SessionInv => TypeOK
  BY DEF SessionInv, TypeVault, TypeRam, TypeUi, TypeWork, JobInv, TypeOK
<1>2. QED  BY InvAlways, <1>1, PTL

\* While the store is unlocked and no call is under way, the records in RAM are
\* those of its current slot, whatever failed or was undone, unless they were
\* wiped since the unlock (`emptied`).
THEOREM RamAlwaysMatches == Spec => []RamMatchesStore
<1>1. SessionInv => RamMatchesStore
  BY DEF SessionInv, RamInv, RamMatchesStore, AtRest
<1>2. QED  BY InvAlways, <1>1, PTL

\* A lock by the UI, the sleeping task or the console leaves no decrypted record
\* in RAM, but for a failed PIN change and for what another task puts back after
\* the wipe (`stale`).
THEOREM LockedAlwaysWiped == Spec => []LockedMeansWiped
<1>1. SessionInv => LockedMeansWiped
  BY DEF SessionInv, WipeInv, LockedMeansWiped
<1>2. QED  BY InvAlways, <1>1, PTL

\* Unless the records were wiped while the store stayed unlocked (`emptied`), no
\* save and no PIN change stores anything but the edit of the user.
THEOREM EditsOnlyAlways == Spec => EditsOnly
<1>1. ASSUME SessionInv, Saved, ~emptied PROVE Changed \subseteq edit.of
  <2>1. Unlocked /\ uiPc = "written" /\ cur' = image  BY <1>1 DEF Saved,
            Settled, Unlocked
  <2>2. cur' = ram /\ cur = Undoing  BY <1>1, <2>1 DEF SessionInv, RamInv
  <2>3. QED  BY <2>2 DEF Changed, Undoing
<1>2. ASSUME SessionInv, JobWritten, ~emptied PROVE Changed \subseteq edit.of
  <2>1. Unlocked /\ jobPc \in {"first", "second"} /\ cur' = image
    BY <1>2 DEF JobWritten, Written, Settled, Unlocked
  <2>2. uiPc = "loop"  BY <1>2, <2>1 DEF SessionInv, JobInv, UiInv
  <2>3. cur' = cur  BY <1>2, <2>1, <2>2 DEF SessionInv, RamInv
  <2>4. QED  BY <2>3 DEF Changed
<1>3. SessionInv /\ [Next]_vars => [((Saved \/ JobWritten) /\ ~emptied) => Changed \subseteq edit.of]_vars
  BY <1>1, <1>2
<1>4. QED  BY InvAlways, <1>3, PTL DEF Spec, EditsOnly

\* An account screen is over an unlocked store or one whose lock the next watch
\* will see, but for the two orders in which the watch misses a lock of the
\* console (`missed`).
THEOREM AccountsAlwaysNeedUnlock == Spec => []AccountsNeedUnlock
<1>1. SessionInv => AccountsNeedUnlock
  BY DEF SessionInv, UiInv
<1>2. QED  BY InvAlways, <1>1, PTL
=============================================================================
