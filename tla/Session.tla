------------------------------- MODULE Session -------------------------------
(***************************************************************************)
(* The unlocked session: the decrypted records in RAM (accounts_store.c),  *)
(* the PIN screen and its worker task (ui_screen_pin.cpp), the loop of the *)
(* UI task with its auto-lock and its watch of the store (ui_nav.cpp), the *)
(* task that puts the device to sleep (splash.cpp) and the console's       *)
(* `store lock` (cmd_store.c), over the store Vault promises.              *)
(*                                                                         *)
(* Four tasks interleave at the calls of the store: the UI task (uiPc),    *)
(* the worker of a PIN operation (jobPc), the sleeper (sleepPc) and the    *)
(* console (conPc).  The mutex of the store is held by a task that is      *)
(* inside a call.  The records have no mutex.                              *)
(***************************************************************************)
EXTENDS Naturals, FiniteSets, Vault

CONSTANTS
    Accounts,    \* accounts a user may add; an array is a set of them
    MaxCopies    \* bound: arrays an unlock may deliver, when a change begins

ASSUME SessionAssumption ==
    /\ NoPin \notin Pins
    /\ Records = SUBSET Accounts /\ Empty = {}

VARIABLES
    ram,                     \* s_recs and s_count
    uiPc, screen, mode, step,\* UI task; "Home" stands for the account screens
    edit, image,             \* the change being saved; the records serialised
    busy, job, jobPc, result,\* PIN job
    was,                     \* s_was_unlocked
    sleepPc,                 \* the task that has claimed the terminal action
    conPc,                   \* the console task in its `store lock`
    emptied, stale,          \* records wiped while unlocked; kept after a lock
    missed                   \* a lock whose edge the watch cannot see

ui == <<uiPc, screen, mode, step, was>>
work == <<busy, job, jobPc, result>>
lockers == <<sleepPc, conPc>>
history == <<emptied, stale, missed>>
vars == <<vault, ram, ui, edit, image, work, lockers, history>>

Unlocked == vstate = "UNLOCKED"

NoJob == [kind |-> "none", pin |-> NoPin]
NoEdit == [kind |-> "none", of |-> {}]

\* A task is inside msf_store_save, msf_store_create or msf_store_change_pin.
MutexFree == uiPc # "written" /\ jobPc \notin {"creating", "derive", "first", "between", "second"}

\* switch_screen(s), and the first prompt of the PIN screen; the mode and the
\* step mean nothing on another screen.
Show(s) == screen' = s /\ mode' = "unlock" /\ step' = 0
AskPin(m) == screen' = "Pin" /\ mode' = m /\ step' = 0

\* HOME only while unlocked, else the PIN screen.
ShowHome(unlocked, exists) ==
    IF unlocked THEN Show("Home") ELSE AskPin(IF exists THEN "unlock" ELSE "create")

Booted(unlocked, exists) ==
    /\ ram' = {} /\ uiPc' = "loop" /\ was' = FALSE
    /\ ShowHome(unlocked, exists)
    /\ edit' = NoEdit /\ image' = {}
    /\ busy' = FALSE /\ job' = NoJob /\ jobPc' = "none" /\ result' = "none"
    /\ sleepPc' = "awake" /\ conPc' = "idle"
    /\ emptied' = FALSE /\ stale' = FALSE /\ missed' = FALSE

Init ==
    /\ VaultInit({}) \/ \E c \in Pair : VaultInit({c})
    /\ ram = {} /\ uiPc = "loop" /\ was = FALSE
    /\ screen = "Pin" /\ mode = (IF made THEN "unlock" ELSE "create") /\ step = 0
    /\ edit = NoEdit /\ image = {}
    /\ busy = FALSE /\ job = NoJob /\ jobPc = "none" /\ result = "none"
    /\ sleepPc = "awake" /\ conPc = "idle"
    /\ emptied = FALSE /\ stale = FALSE /\ missed = FALSE

\* Calls that fail leave copies: no change begins over too many of them.
Room == Cardinality(copies) < MaxCopies

-----------------------------------------------------------------------------
(***************************************************************************)
(* The user, handled by the UI task between two turns of its loop.         *)
(***************************************************************************)
Input == uiPc = "loop" /\ sleepPc = "awake"

\* Home <-> Settings, Backup -> Settings, and any way back to Home.
Navigate ==
    /\ Input /\ UNCHANGED <<vault, ram, uiPc, was, edit, image, work, lockers, history>>
    /\ \/ screen \in {"Home", "Backup"} /\ Show("Settings")
       \/ screen = "Settings" /\ ShowHome(Unlocked, vstate # "BLANK")
       \/ screen = "Settings" /\ \E m \in {"change", "confirm"} : AskPin(m)

\* Wrong on purpose: "Back" leaves the PIN screen during a job.
BackAlways ==
    /\ Input /\ screen = "Pin" /\ mode \in {"change", "confirm"}
    /\ Show("Settings")
    /\ UNCHANGED <<vault, ram, uiPc, was, edit, image, work, lockers, history>>

\* "Back" of the PIN screen.
Back ==
    /\ Input /\ screen = "Pin" /\ mode \in {"change", "confirm"} /\ ~busy
    /\ Show("Settings")
    /\ UNCHANGED <<vault, ram, uiPc, was, edit, image, work, lockers, history>>

Locks == IF Unlocked THEN Closed ELSE UNCHANGED vault

\* Wrong on purpose: the records stay in RAM.
LockNowKeeps ==
    /\ Input /\ screen = "Settings" /\ MutexFree
    /\ Locks /\ emptied' = FALSE
    /\ AskPin("unlock")
    /\ UNCHANGED <<ram, stale, missed, uiPc, was, edit, image, work, lockers>>

\* "Lock now".
LockNow ==
    /\ Input /\ screen = "Settings" /\ MutexFree
    /\ ram' = {} /\ Locks /\ emptied' = FALSE /\ stale' = FALSE
    /\ AskPin("unlock")
    /\ UNCHANGED <<missed, uiPc, was, edit, image, work, lockers>>

\* USB disk mode locks when its screen opens, and ends by a restart.
OpenUsbDisk ==
    /\ Input /\ screen = "Backup" /\ MutexFree
    /\ ram' = {} /\ Locks /\ emptied' = FALSE /\ stale' = FALSE
    /\ Show("UsbDisk")
    /\ UNCHANGED <<missed, uiPc, was, edit, image, work, lockers>>

\* The sixth digit: the PIN job of the screen's mode starts, unless the task
\* cannot be created.  The new PIN was entered twice.
JobOf ==
    CASE mode = "unlock" -> "unlock" [] mode = "create" -> "create"
      [] mode = "confirm" -> "confirm"
      [] mode = "change" /\ step = 0 -> "verify" [] OTHER -> "change"

Submit(p) ==
    /\ Input /\ screen = "Pin" /\ ~busy /\ (mode = "change" => Room)
    /\ \/ busy' = TRUE /\ jobPc' = "start" /\ job' = [kind |-> JobOf, pin |-> p]
       \/ UNCHANGED <<busy, jobPc, job>>
    /\ UNCHANGED result
    /\ UNCHANGED <<vault, ram, uiPc, screen, mode, step, was, edit, image, lockers, history>>

\* poll_cb: the worker has finished, its result is applied.
JobFinished ==
    /\ uiPc = "loop" /\ sleepPc = "awake" /\ screen = "Pin" /\ busy /\ jobPc = "done"
    /\ busy' = FALSE /\ jobPc' = "none" /\ job' = NoJob /\ result' = "none"
    /\ IF result = "ok"
       THEN CASE job.kind \in {"unlock", "create"} -> ShowHome(Unlocked, vstate # "BLANK")
              [] job.kind = "verify" -> step' = 1 /\ UNCHANGED <<screen, mode>>
              [] job.kind = "change" -> Show("Settings")
              [] OTHER -> Show("Backup")
       ELSE step' = 0 /\ UNCHANGED <<screen, mode>>
    /\ UNCHANGED <<vault, ram, uiPc, was, edit, image, lockers, history>>

-----------------------------------------------------------------------------
(***************************************************************************)
(* A change of the records by an account screen: the RAM copy first, then  *)
(* msf_store_save, and the change undone when that fails.                  *)
(***************************************************************************)
\* accounts_lock in the sleeper or the console has wiped the records and waits
\* for the mutex of the store.
Locking == sleepPc = "wiped" \/ conPc = "wiped"

\* Records that a step puts into RAM while such a lock is under way, or behind
\* one, stay there decrypted until the next wipe.
Filled(unlocked) == stale' = (stale \/ (ram' # {} /\ (Locking \/ ~unlocked)))

Edit ==
    /\ Input /\ screen = "Home" /\ Unlocked /\ Room
    /\ \E a \in Accounts :
        edit' = [kind |-> IF a \in ram THEN "remove" ELSE "add", of |-> {a}]
    /\ ram' = IF edit'.kind = "add" THEN ram \cup edit'.of ELSE ram \ edit'.of
    /\ uiPc' = "save" /\ Filled(TRUE)
    /\ UNCHANGED <<vault, screen, mode, step, was, image, work, lockers, emptied, missed>>

\* Wrong on purpose: a failed save is not undone.
NotUndone == edit' = NoEdit /\ uiPc' = "loop" /\ UNCHANGED <<ram, stale>>

\* The record removed comes back, behind a lock too.  On an array another task
\* has wiped meanwhile the code's s_count-- and memmove run off its ends: a
\* crash, one of the restarts of Restart, or what is left here.
Undone ==
    /\ ram' = IF edit.kind = "add" THEN ram \ edit.of ELSE ram \cup edit.of
    /\ edit' = NoEdit /\ uiPc' = "loop" /\ Filled(Unlocked)

Save ==
    /\ uiPc = "save" /\ MutexFree
    /\ IF Unlocked
       THEN /\ BeginWrite(vkey, ram) /\ image' = ram /\ uiPc' = "written"
            /\ UNCHANGED <<ram, edit, stale>>
       ELSE Undone /\ UNCHANGED <<vault, image>>
    /\ UNCHANGED <<screen, mode, step, was, work, lockers, emptied, missed>>

Saved ==
    /\ uiPc = "written"
    /\ Settled(image)
    /\ edit' = NoEdit /\ uiPc' = "loop" /\ image' = {}
    /\ UNCHANGED <<ram, screen, mode, step, was, work, lockers, history>>

SaveFailed ==
    /\ uiPc = "written"
    /\ Undone /\ image' = {}
    /\ UNCHANGED <<vault, screen, mode, step, was, work, lockers, emptied, missed>>

-----------------------------------------------------------------------------
(***************************************************************************)
(* One turn of the UI loop: the auto-lock (not on the PIN screen), then    *)
(* the watch for a lock behind the UI's back.                              *)
(***************************************************************************)
\* `quiet`: no input for the auto-lock delay, a minute or more; the loop has
\* turned every 20 ms since.
AutoLocks(quiet) == quiet /\ Unlocked /\ screen # "Pin"

\* Wrong on purpose: the auto-lock wipes the records and leaves the key.
AutoLockHalf(quiet) ==
    /\ uiPc = "loop" /\ sleepPc = "awake" /\ (quiet => was = Unlocked)
    /\ ram' = (IF AutoLocks(quiet) THEN {} ELSE ram)
    /\ was' = Unlocked
    /\ UNCHANGED <<vault, emptied, stale, uiPc, edit, image, work, lockers>>

AutoLock(quiet) ==
    /\ uiPc = "loop" /\ sleepPc = "awake" /\ (quiet => was = Unlocked)
    /\ IF AutoLocks(quiet)
       THEN MutexFree /\ ram' = {} /\ Closed /\ emptied' = FALSE /\ stale' = FALSE
       ELSE UNCHANGED <<ram, vault, emptied, stale>>
    /\ was' = (Unlocked /\ ~AutoLocks(quiet))
    /\ UNCHANGED <<uiPc, edit, image, work, lockers>>

\* A confirmed PIN, not yet polled, will open the Backup screen.
Confirmed == jobPc = "done" /\ result = "ok" /\ job.kind = "confirm"

\* Wrong on purpose: no watch.
WatchBlind == UNCHANGED <<screen, mode, step, missed>>

\* The edge of a lock is spent on the PIN screen, also when that screen is about
\* to give way to Backup.
Watch ==
    /\ IF was /\ ~was' /\ screen \notin {"Pin", "UsbDisk"}
       THEN AskPin("unlock") ELSE UNCHANGED <<screen, mode, step>>
    /\ missed' = (missed \/ (Confirmed /\ ~was'))

Turn == \E quiet \in BOOLEAN : AutoLock(quiet) /\ Watch

-----------------------------------------------------------------------------
(***************************************************************************)
(* The worker task of a PIN job.                                           *)
(***************************************************************************)
Finish(r) == jobPc' = "done" /\ result' = r

JobKeeps == UNCHANGED <<ui, edit, busy, job, lockers>>

\* accounts_unlock (the check of the current PIN too) and accounts_create
\* wipe the records before they call the store.
JobWipes ==
    /\ jobPc = "start" /\ job.kind \in {"unlock", "verify", "create"}
    /\ ram' = {} /\ stale' = FALSE
    /\ emptied' = (emptied \/ Unlocked)
    /\ jobPc' = "call"
    /\ JobKeeps /\ UNCHANGED <<vault, image, result, missed>>

JobUnlocks ==
    /\ jobPc = "call" /\ job.kind \in {"unlock", "verify"} /\ MutexFree
    /\ \E c \in Pair : c.pin = job.pin /\ Opened(c) /\ ram' = c.recs
    /\ emptied' = FALSE /\ missed' = FALSE /\ Filled(TRUE)
    /\ Finish("ok")
    /\ JobKeeps /\ UNCHANGED image

\* Wrong PIN, back-off still running, no memory: ESP_OK is not returned.
JobRefused ==
    /\ jobPc = "call" /\ job.kind \in {"unlock", "verify"} /\ MutexFree
    /\ ram' = {}
    /\ Finish("error")
    /\ JobKeeps /\ UNCHANGED <<vault, image, history>>

JobCreates ==
    /\ jobPc = "call" /\ job.kind = "create" /\ MutexFree
    /\ IF vstate = "BLANK"
       THEN BeginCreate(job.pin) /\ jobPc' = "creating" /\ UNCHANGED result
       ELSE Finish("error") /\ UNCHANGED vault
    /\ JobKeeps /\ UNCHANGED <<ram, image, history>>

JobCreated ==
    /\ jobPc = "creating"
    /\ \/ Created(job.pin) /\ Finish("ok")
       \/ UNCHANGED vault /\ Finish("error")
    /\ JobKeeps /\ UNCHANGED <<ram, image, history>>

\* accounts_verify_pin: the store has to be unlocked.
JobConfirms ==
    /\ jobPc = "start" /\ job.kind = "confirm" /\ MutexFree
    /\ \/ Unlocked /\ job.pin = vkey /\ Finish("ok")
       \/ Finish("error")
    /\ JobKeeps /\ UNCHANGED <<vault, ram, image, history>>

\* accounts_change_pin: the key is derived, then the records of the RAM copy
\* are serialised and written, twice.
JobChanges ==
    /\ jobPc = "start" /\ job.kind = "change" /\ MutexFree
    /\ IF Unlocked THEN jobPc' = "derive" /\ UNCHANGED result ELSE Finish("error")
    /\ JobKeeps /\ UNCHANGED <<vault, ram, image, history>>

JobWrites ==
    /\ jobPc \in {"derive", "between"}
    /\ BeginWrite(job.pin, ram) /\ image' = ram
    /\ jobPc' = IF jobPc = "derive" THEN "first" ELSE "second"
    /\ JobKeeps /\ UNCHANGED <<ram, result, history>>

JobWritten ==
    /\ \/ jobPc = "first" /\ Written(image) /\ jobPc' = "between" /\ UNCHANGED result
       \/ jobPc = "second" /\ Settled(image) /\ Finish("ok")
    /\ image' = {}
    /\ JobKeeps /\ UNCHANGED <<ram, history>>

\* A key derivation or a write fails: locked, the records are not wiped.
JobChangeFailed ==
    /\ jobPc \in {"derive", "first", "second"}
    /\ Closed /\ emptied' = FALSE /\ stale' = (ram # {})
    /\ Finish("error") /\ image' = {}
    /\ JobKeeps /\ UNCHANGED <<ram, missed>>

-----------------------------------------------------------------------------
(***************************************************************************)
(* The two other tasks that lock: accounts_lock wipes the records first,   *)
(* and locks the store once its mutex is free.                             *)
(***************************************************************************)
OthersKeep == UNCHANGED <<ui, edit, image, work>>

\* Sleep, claimed by the button task, the console or the UI task itself:
\* ui_nav_suspend_lvgl_for_sleep, the UI task ends its turn and stops; then
\* accounts_lock.
SleepWipes ==
    /\ sleepPc = "awake"
    /\ ram' = {} /\ stale' = FALSE /\ emptied' = (emptied \/ Unlocked)
    /\ sleepPc' = "wiped"
    /\ OthersKeep /\ UNCHANGED <<vault, conPc, missed>>

SleepLocks ==
    /\ sleepPc = "wiped" /\ MutexFree
    /\ Locks /\ emptied' = FALSE
    /\ sleepPc' = "locked"
    /\ OthersKeep /\ UNCHANGED <<ram, conPc, stale, missed>>

\* The console's `store lock`, at any time.  The watch sees the lock as the end
\* of an unlock it has seen: not when it has yet to look at that unlock.
ConsoleWipes ==
    /\ conPc = "idle"
    /\ ram' = {} /\ stale' = FALSE /\ emptied' = (emptied \/ Unlocked)
    /\ conPc' = "wiped"
    /\ OthersKeep /\ UNCHANGED <<vault, sleepPc, missed>>

ConsoleLocks ==
    /\ conPc = "wiped" /\ MutexFree
    /\ Locks /\ emptied' = FALSE
    /\ missed' = (missed \/ (Unlocked /\ ~was /\ (screen \in {"Home", "Backup"} \/ Confirmed)))
    /\ conPc' = "idle"
    /\ OthersKeep /\ UNCHANGED <<ram, sleepPc, stale>>

\* Deep sleep, a power cut or a restart, and the next boot.
Restart ==
    /\ Rebooted
    /\ Booted(FALSE, vstate' # "BLANK")

-----------------------------------------------------------------------------
User == Navigate \/ Back \/ LockNow \/ OpenUsbDisk \/ Edit \/ (\E p \in Pins : Submit(p))

UiStep == JobFinished \/ Save \/ Saved \/ SaveFailed \/ Turn

JobStep == JobWipes \/ JobUnlocks \/ JobRefused \/ JobCreates \/ JobCreated \/ JobConfirms
           \/ JobChanges \/ JobWrites \/ JobWritten \/ JobChangeFailed

Next == \/ User \/ UiStep \/ JobStep \/ SleepWipes \/ SleepLocks \/ Restart
        \/ ConsoleWipes \/ ConsoleLocks

Spec == Init /\ [][Next]_vars

\* The scheduler runs every task: a job goes on, the UI task ends what it has
\* begun and polls for the result.  Nothing is assumed of the user or of power.
FairSpec == /\ Spec /\ WF_vars(JobStep) /\ WF_vars(Save \/ Saved \/ SaveFailed)
            /\ WF_vars(JobFinished) /\ WF_vars(SleepLocks)

-----------------------------------------------------------------------------
(***************************************************************************)
(* Properties.                                                             *)
(***************************************************************************)
\* Every variable keeps its type, a running job has its PIN, and the screen
\* that polls for its result is the PIN screen (s_poll is its timer).
TypeOK ==
    /\ vstate \in {"BLANK", "LOCKED", "UNLOCKED"} /\ vkey \in Pins \cup {NoPin}
    /\ copies \subseteq Pair /\ cur \in Records /\ made \in BOOLEAN
    /\ ram \in Records /\ image \in Records
    /\ uiPc \in {"loop", "save", "written"}
    /\ screen \in {"Home", "Settings", "Backup", "UsbDisk", "Pin"}
    /\ mode \in {"unlock", "create", "change", "confirm"} /\ step \in {0, 1}
    /\ edit \in [kind : {"none", "add", "remove"}, of : Records]
    /\ busy \in BOOLEAN /\ result \in {"none", "ok", "error"}
    /\ job \in [kind : {"none", "unlock", "create", "verify", "confirm", "change"},
                pin : Pins \cup {NoPin}]
    /\ jobPc \in {"none", "start", "call", "creating", "derive", "first", "between",
                  "second", "done"}
    /\ was \in BOOLEAN
    /\ sleepPc \in {"awake", "wiped", "locked"} /\ conPc \in {"idle", "wiped"}
    /\ emptied \in BOOLEAN /\ stale \in BOOLEAN /\ missed \in BOOLEAN
    /\ (busy <=> jobPc # "none") /\ (busy <=> job.pin \in Pins)
    /\ busy => screen = "Pin"

\* No call of a task is under way.
AtRest == uiPc = "loop" /\ jobPc \in {"none", "done"} /\ sleepPc = "awake"

\* docs/ARCHITECTURE.md:107: a save that fails rolls the RAM copy back, and no
\* other path parts it from the store: while unlocked and at rest the records
\* in RAM are those of the current slot.  Not when they were wiped while the
\* store stayed unlocked (`emptied`): by a refused check of the current PIN, or
\* by a lock that has not yet reached the store.
RamMatchesStore == (AtRest /\ Unlocked /\ ~emptied) => ram = cur

\* What a call stores differs from what the session had by the one account the
\* user has edited: the store loses no account to a refused PIN, a failed save
\* or a PIN change.  Not when the records were wiped under the call or before
\* it while the store stayed unlocked (`emptied`): it then stores the array as
\* wiped, as ChangeKeepsRecords shows.
Changed == (cur' \ cur) \cup (cur \ cur')

EditsOnly == [][((Saved \/ JobWritten) /\ ~emptied) => Changed \subseteq edit.of]_vars

\* docs/ARCHITECTURE.md:116: a lock by the UI, the sleeping task or the console's
\* `store lock` leaves no decrypted record in RAM, at once and at every step
\* after it.  Not in the cases of `stale`: a PIN change that failed has locked
\* without a wipe; an unlock, an edit or the undoing of an edit has put records
\* back after the wipe of a lock.
LockedMeansWiped == (~Unlocked /\ ~stale) => ram = {}

\* ui_nav.cpp:436: awake, the UI shows an account screen or the backup screen
\* over an unlocked store, or over one that a PIN change, the auto-lock or the
\* console has locked since the last watch, and the next watch will see it (`was`).
\* Not in the two orders of `missed`: a console lock comes after an unlock the
\* watch has not looked at yet, or its edge is spent on the PIN screen while the
\* result of a confirmed PIN waits to open Backup.
AccountsNeedUnlock ==
    (sleepPc = "awake" /\ screen \in {"Home", "Backup"}) => Unlocked \/ was \/ missed

\* The result of a PIN job is always picked up: the PIN pad, dead while a job
\* runs, comes back (or the device goes to sleep).
JobPickedUp == busy ~> (~busy \/ sleepPc = "locked")

\* secret_store.h:127 as it is worded: a PIN change leaves the "records
\* rewritten", the same ones.
ChangeKeepsRecords == [][(jobPc \in {"first", "second"} /\ vstate' = "UNLOCKED") => cur' = cur]_vars

=============================================================================
