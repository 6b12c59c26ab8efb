# MySafeFob: verification project

MySafeFob is the firmware of a TOTP fob on an ESP32-S3: an application (LVGL screens, an
encrypted account store), a small factory firmware (recovery menu, rescue export) and a
bootloader hook. This directory holds TLA+ models of its core logic, the TLC runs that check
them on small instances, and TLAPS proofs of theorems about them.

    tlc -config MCStoreMigration.cfg MCSecretStore.tla      # one run
    tlapm SecretStoreProofs.tla                             # the proofs of one module

Paths below are relative to the repository; `secret_store.c` is in
`components/secret_store/`, the screens and `accounts_store.c` in `boards/x4pro/app/`.

## 1. Inventory

| Component | State it keeps | Operations | Talks to | Hard behaviours | What makes it correct |
|---|---|---|---|---|---|
| Secret store (`secret_store.c`) | four flash slots, control sector; RAM: headers, current slot, key, fail count, state | create, unlock, save, change_pin, verify_pin, lock, erase, rescue_image | accounts, console, PIN worker; one mutex | power cuts and errors between flash steps, slots of two formats and two PINs, failure counter | acknowledged records survive, no older version comes back, the old PIN opens nothing new, every refusal is counted and waited for |
| Accounts (`accounts_store.c`) | `s_recs`, `s_count`, active profile: no lock | unlock, create, change_pin, lock, add, update, remove, recovery codes, import, profiles | secret store, all screens | shared by UI task, PIN worker, sleeping task and console | RAM and store agree, a failed save is undone, a lock wipes |
| PIN screen (`ui_screen_pin.cpp`) | mode, step, entered PIN, `s_busy`, `s_done`, `s_job` | submit, worker task, poll, back | accounts | worker result applied later by a timer | the pad never stays dead; the result goes to the screen that asked |
| UI loop (`ui_nav.cpp`, `splash.cpp`) | current screen, last activity, `s_was_unlocked`, suspended flag | switch_screen, auto-lock, idle sleep, watch for a lock, sleep | accounts, power manager | lock seen as an edge between two turns; sleep claimed from another task | no account screen over a locked store |
| Power manager, factory switch (`power_mgr.c`, `hooks.c`, factory `main.c`) | otadata, backup sector 0xB000, terminal-action flag | hook switch, software switch, restore, boot app0, SD flash, cancel, sleep | bootloader, application, factory firmware | cut or error between any two flash steps, several tasks after one terminal action | the boot selection is never lost, no sleep inside a switch, a broken image leads to the menu |
| Backup files (`secret_store.c` seal/open, `backup.c`) | `.msfx` file, temporary file `MSF.TMP` | seal, write and rename, list, load, find and wipe plaintext | SD card, accounts, console | rename on FAT, a cut, a pulled card or a second export between two steps | a backup is complete or not there; what is told is so |
| SD card (`sdcard.c` twice, `ui_sd_check.cpp`) | `s_mounted`, card handle, host controller | mount, unmount, raw open; check after an unlock | backup, USB disk, screens | a flag without a count of users; three tasks | no flow uses a card another has unmounted; it is released when unused |
| USB disk (`usb_disk.c`) | state, MSC driver | start, eject, restart | SD card | half-failed start | one owner of the card; ends locked, by a restart |
| Settings (`settings_store.c`) | NVS keys, history of syncs | get/set, shift of the history | all | nine NVS writes for one shift | an entry is one sync |
| Time (`time_service.c`, `wifi_time.c`, `ble_time.c`) | RTC, system clock, sync workers | set, sync, commit to RTC and history | settings, lwIP and NimBLE tasks | callbacks of other tasks, timeouts, failed bus transfers, overlap of four sources | the RTC gives the clock back after a sleep; what is told and recorded is what was set |
| TOTP engine | none | Base32, HOTP, TOTP | accounts | arithmetic at boundaries | RFC 4648/4226/6238 values |
| Rescue export (factory) | none | unlock, image, write, lock | secret store, SD card | failure half-way | store ends locked |
| Console (`cmd_store.c`, `main.c`) | none | store commands, sleep, settime | accounts, store | runs beside the UI task | same as the UI |
| Screens, drivers, third-party | layout, registers | | | | not modelled |

`PROJECT.json` lists each of them with its status and lists, under "hazards", what is hard to
test at the line where it bites, with the properties that speak of it.

## 2. The modules

    Vault            what the store promises (abstract)
      ^ implemented by (KeepsPromise)         ^ built on
    SecretStore                             Session
      ^ SecretStoreProofs, MCSecretStore      ^ SessionProofs, MCSession
    Accounts       <- AccountsProofs (with DataLemmas), MCAccounts
                      (over the arrays Vault delivers)
    BootRecovery   <- BootRecoveryProofs, MCBootRecovery
    SdCard         <- SdCardProofs, MCSdCard
    TimeSync       <- TimeSyncProofs, MCTimeSync
    Calendar, TotpEngine  <- MCAlgorithms <- AlgorithmsProofs (with DataLemmas)

### SecretStore

One action per call's start and per flash step. The mutex of `secret_store.c` lets one call run
at a time, so the running call is `op` and its next step `pc`.

| State | Code |
|---|---|
| `slot[s].hdr`, `slot[s].body` | a flash slot: header sector and sealed body (`V1` = format 1, `V2` = format 2) |
| `ctl` | control sector: failure count, or `Junk` after an erase |
| `s_state`, `s_hdr`, `s_current`, `s_key`, `s_fail_count` | the variables of the same names |
| `s_last_fail` | how many of the five back-off delays have gone by since `s_last_fail_us` |
| `promise`, `acked`, `retired`, `migrated`, `revived`, `wrong`, `calm`, `ctlLost` | history: what callers were told, PINs replaced, refusals not yet followed by an accepted check |

`Create`, `Unlock`, `Save`, `ChangePin`, `VerifyPin`, `Lock`, `Erase` begin the calls. A save is
`EraseSlot`, `WriteBody`, `WriteHeader`, and `EraseV1` in the save that migrates; a control write
is `EraseControl`, `WriteControl`; the search of an unlock is `SearchFound` or `SearchFailed`, the
check of a PIN `CompareOk` or `CompareFailed`. `PowerCut` may strike at every step and leaves what
`Interrupt` allows; the `...Fault` actions are the error returns; `Tick` is a back-off delay going by.

Abstractions: a key is the PIN it derives from; a blob is its sequence number, a unique
`nonce` (salt, IV), PIN and records, and decrypts when header and body are those of one blob; an
erase or a write cut short leaves a header that is not valid. The array passed to a save is taken
when the call begins (Session shows when that is not so). The 32-bit sequence number is a natural
(2^32 saves exceed the flash's endurance). `MSF_STORE_ERROR` and `msf_store_rescue_image` (which
changes nothing) are left out. `Origins` starts either from a new partition or from a format 1
store of one record array. `Erase` begins the console's erase, with the lock in front of it.

### Vault

The store without slots, flash or counter: `copies` are the (PIN, records) pairs an unlock may
deliver; calls begin, write and settle, or fail without a word. It is the interface `Session` is
built on. `SecretStore!KeepsPromise` is the refinement: the mapping takes `copies` from `promise`,
`made` from `acked`, `cur` from the header of the current slot. It is checked in `store_faults` and
proved (`StoreKeepsPromise`, section 4).

### Session

Four tasks interleaved at every call of the store, over `Vault`: the UI task (`uiPc`), the worker
of a PIN job (`jobPc`), the task that has claimed sleep (`sleepPc`) and the console's `store lock`
(`conPc`). `ram` is `s_recs`/`s_count`;
`screen`, `mode`, `step`, `busy`, `was` are `s_screen`, `s_mode`, `s_step`, `s_busy`,
`s_was_unlocked`. `Submit` starts a job, `JobFinished` is the timer of the PIN screen, `Edit`,
`Save`, `Saved`, `SaveFailed` are an account change with its rollback, `Turn` is the end of a turn
of the loop (`AutoLock`, then `Watch`), `SleepWipes` and `SleepLocks`, `ConsoleWipes` and
`ConsoleLocks` are the two halves of `accounts_lock` in another task (in the UI task they are one
step: there no call, job or edit of its own can come between them), `Restart` is a power cut, a deep sleep or a restart.
`MutexFree` says no other task is inside a call; `s_recs` has no lock, so `JobWrites` and `Save`
read it while another task may wipe it.

Abstractions: the array is a set of accounts; a save reads it at one instant and `wipe_records`
empties it at one instant (the code's `memset` may be seen half-way; a set that lost everything
stands for it); a wipe that comes between the two lines of `accounts_unlock` that fill `s_recs` and set
`s_count` counts as one after it (the code then shows blank accounts); a check of
`accounts_is_unlocked` and the change of the array it guards are one step; the back-off is part of `JobRefused`; a job's failure is any error. A sleep begins
between turns: an input handled in the very turn in which the sleep is claimed is treated as
handled before. Three history variables name what the code lets happen: `emptied` (the records were
wiped while the store stayed unlocked), `stale` (records left or put back in RAM behind a lock) and
`missed` (a console lock the watch cannot see). The console's other `store` commands are not in it
(see section 6).

### Accounts

The operations of `accounts_store.c` on the array itself, one call at a time. `recs` is
`s_recs`/`s_count`, `s_profile` the active profile, `hash` what the settings remember of it;
`stored` is the array of the store's current slot and `copies` the arrays an unlock may deliver
(as in Vault, without the PINs). `Add`, `Update`, `MarkUsed`, `RemoveId`, `ProfileRename`,
`ProfileDelete`, `Import`, `LoadDemo` give `Change` the new array and the expression with which the
code undoes it; `Change` saves it (`Saved`), fails (`SaveFails`: the array is undone, the store may
hold either) or loses power (`PowerFails`, also between the save and the write of the hash).
`Preview`, `ImportOne`, `Imported` are the import, `Promised` and `Told` what it is compared with.

Abstractions: a name or a profile is a rank (its place in the order of `strcasecmp`) with a
spelling; the hash is the rank (CRC32 collisions are left out); the other fields of a record are
one value, usable or not, with a number of recovery codes. Left out: the lists and the letters
of the screens, the edits of a record not yet saved, a failed allocation (the call returns before
it changes anything) and a failed write of the settings. Concurrency is Session's.

### BootRecovery

`ota` and `bak` are the two otadata entries and the backup sector, `app0` the application image;
`place` is the firmware that runs and `pc` its next flash access. `HookHold` and `SwitchToFactory`
begin the switch of the bootloader and of the application, `EraseBackup`, `WriteBackup`,
`EraseEntry1`, `EraseEntry2` are its steps (one text in two firmwares); `Load` and `RestoreStep`
are the factory's restore; `ActionBoot`, `SetBoot`, `ActionFlash`, `FlashDone`, `FlashFailed`,
`Cancel` its menu; `ClaimSleep`, `Sleep` the terminal action. `Cut` is power lost or a crash at any
step, `SwitchFault`, `LoadFault`, `RestoreFault`, `SetBootFault` are flash errors. The
bootloader's choice, `esp_ota_set_boot_partition` and the behaviour of NOR flash are external:
they are modelled as the code in the repository relies on them. Assumed of a torn write: the
backup's magic is written after the entries it vouches for and goes with them when its sector is
erased; an otadata entry cut short fails its CRC.

### SdCard

Every flow of the application that uses the card, composed over the driver they share: the export
of a backup by the Backup screen's worker (`bk`) or by the console (`con`), the check for plaintext
files after an unlock and its wipe (`sd`), and the start of USB disk mode by the UI task (`ui`).

| State | Code |
|---|---|
| `files`, `inSlot` | the names in the backup directory with their content; whether a card is in |
| `mounted`, `handle`, `host` | `s_mounted`, `s_card`, the SDMMC host initialised |
| `fat`, `raw`, `usbUp` | the FAT volume (`dead`: its card was pulled or its rail pulsed), raw access, `s_usb_up` |
| `pc`, `fd`, `data`, `name`, `err` | per task: the next step; of an export its file, array, path, result |
| `wipe`, `found`, `left` | the SD check: `s_wipe`, `s_paths`, the files still to wipe |
| `unlocked`, `was`, `screen`, `confirm`, `shown` | the lock, the UI loop's `s_was_unlocked`, the screen, the open question and the names in it |
| `crossed` | which overlaps have happened: `driver` (two calls of the driver at once), `exports` (two exports at the temporary file), `pc` (another card or a PC's edit under a job), `relist` (a scan replacing the list of an open question) |

`MountCheck`, `MountInit`, `MountDone` are `sdcard_mount`; `UnmountCall`, `UnmountFlag` are
`sdcard_unmount`; `RawCheck`, `RawOpen`, `Install` the raw access and the MSC driver. `Seal`,
`PickName`, `Open`, `Write`, `Rename`, `Undo` are `backup_export` and `write_file`, `Reads` the jobs
that only read. `Scan`, `WipeBegin`, `WipeZeros`, `WipeDelete`, `WipeEnd` are the SD check's worker,
`Watch`, `CheckPoll`, `Answer` the UI's share of it. `Pull`, `Insert`, `PcEdits`, `Restart` are
what happens to a card and its device.

Abstractions: the names of one minute are a sequence `Slots`, since a second export in that minute
takes the next of them; a file is complete, torn, overwritten or absent; the rename of FatFs is one
step; a PIN screen and the screens of an unlocked store are two values. The scan's limit of one an
hour is a choice (`MayScan`), so are the failures of every call. Left out: which two names the
question spells out, a reset of the card by the host PC, an export whose records are copied while
a lock wipes them (Session and Accounts are about the records).

### TimeSync

The system clock, the RTC and the history of synchronisations, set by four tasks that share no
lock: the manual tab, `settime`, the Wi-Fi worker and the Bluetooth worker.

| State | Code |
|---|---|
| `sys`, `rtc`, `hist` | the system clock; the RTC's registers with its STOP bit; the nine settings of the history |
| `at`, `job`, `shown` | per task: its step (`s_busy` is not being idle), the synchronisation it is in, the result on its tab |
| `aim`, `epoch`, `rtcOk`, `step` | locals of the commit: `rtc_write_aligned`'s target, the recorded time, its result, the write of the push |
| `sntp`, `host`, `opDone`, `timeOk` | the SNTP client; the NimBLE connection; `BIT_OP_DONE`; `s_time_ok` |
| `left` | `nimble_port_stop` has failed: the stack runs on, and no later Bluetooth sync starts |
| `setBy`, `before`, `disturbed` | history variables: who has set the clock, the history before the push, what disturbed the clock since a sync last set it alone |

`DirectSet` is the manual tab and `settime`. `Aim`, `Stop`, `Regs`, `Run` are `rtc_write_aligned`,
`Push` one of the nine NVS writes of `settings_store_push_time_sync`, `Publish` the result;
`BusFails` a failed I2C transfer. `Wifi...` and `Ble...` are the steps of the workers, with their
timeouts; `SntpAnswer` is the answer in lwIP's task, `BleHost` what NimBLE's task does, `BleStopFails` an
`nimble_port_stop` that fails. `Restart` is a sleep, a reset or a lost supply, with
`time_service_init` (`Boots`): it sets the clock to an RTC that it can read and whose date is valid;
when the transfer fails, or the supply was lost (the VL bit) and with it the time, the clock is what
the reset left, unset or, after a deep sleep, as it was (ESP-IDF keeps it over one, by a timer this model
takes for the same time).

Abstractions: a time is the number of the synchronisation that measured it, so offset and source
of an entry are it too; the read and the write of one setting are a step; the wait for the second
boundary is the guard of `Run`, `Reached`: it ends at once or after a while, unless a bogus answer (an
SNTP time before 2024, the model's 0) has put the clock back by years. A host that runs on after a
failed stop may set bits in the event group that `ble_stop` has deleted; an assertion of FreeRTOS
stops the device then, which is a `Restart`. Left out: the scans for networks and devices, the
parsing of typed times.

### Calendar and TotpEngine

Pure functions: the dates of `time_service.c` (both conversions, `time_service_dt_is_valid`, the
BCD registers of the RTC) and `base32_decode` with its caller's buffer. `MCAlgorithms` walks the
calendar day by day and texts character by character and compares with reference definitions.

## 3. The runs

| Run | Instance | What it shows |
|---|---|---|
| `store_migration` | two PINs, three arrays, six blobs, one cut, new and format 1 stores | `DurableStore`, `NewPinOnFormat2`, `UnlockReturnsPromise` |
| `store_faults` | new store, one cut and one error return | `DurableStore`, and `KeepsPromise` (refinement of Vault) |
| `store_gate` | one array, both origins, two blobs, up to seven checks, one cut, one error or misread, racing unlock | `FailuresCounted`, `BackoffHonoured`, `TypeOK`, `KeyOpensCurrent` |
| `accounts` | two accounts, three profiles, two backups, one failed save | `TypeOK`, `KeysUnique`, `RamMatchesStore`, `ActiveUsed`, `ProfileKept`, `AllProfilesReached`, `IdsKept`, `ImportPromised`, `SummaryTells` |
| `session` | two PINs, two accounts, a console that locks at any time (550,000 states) | `RamMatchesStore`, `LockedMeansWiped`, `EditsOnly`, `AccountsNeedUnlock`, `JobPickedUp` |
| `boot_recovery` | three cuts, two errors | `TypeOK`, `SelectionKept`, `NoSleepInSwitch`, `BadImageRecovers` |
| `card` | two names in a minute, two kinds of leftovers, two cards, one job, one fault (3.1 million states) | `BackupsComplete`, `ExportTold`, `WipesShown`, `CardReleased`, `PcOwnsAlone`, `BackupsKept` |
| `time_sync` | manual tab, Wi-Fi and Bluetooth, two synchronisations, one fault (280,000 states) | `BleTold`, `ClockKept`, `HistoryKept`, `SyncEnds` |
| `algorithms` | every day from 1970 to 2100; texts of up to eight characters into buffers of 0 to 5 bytes | `DatesAgree`, `RtcKeepsDate`, `DecodesBits` |
| `session_change`, `accounts_into`, `card_exports` | | violations: see section 5 |

Bounds and why they are enough:

- Six blobs (`MaxWrites = 8` bounds the nonce, which starts at 2): create, then a PIN change
  (two) and three more saves, so each of the two format 2
  slots is rewritten twice and `s_current` moves back and forth; three arrays tell "last", "before
  last" and "empty" apart; two PINs tell old from new.
- One cut and one error per behaviour: each step of each call is reached with either. A store that
  starts a call is in one of few shapes (which slots are valid, which is current), and all are
  reached with one interruption; the inductive invariants of section 4 carry the rest for any number.
- Seven checks: the delay table has its steps at 3, 4, 5, 6 and 7 failures. The properties of
  `store_gate` do not look at the records, so it has one array, and two blobs to have a current slot
  and another.
- Session's only bound is `MaxCopies`: an edit or a PIN change begins when an unlock may deliver fewer
  than three arrays (each call that fails after its write adds one, the next that succeeds leaves one).
  Two failed calls in a row are within it, and no property but `EditsOnly` and `RamMatchesStore`
  looks at what a call stores.
- Accounts: two records are enough for a removal before the last one, a clash of keys, a backup
  that does not fit and a profile that loses its only account; three profiles give a next one, a
  last one and a wrap. `MaxId` keeps identifiers below the 16-bit wrap, one more than the array
  holds, so a removed identifier is given again; `MaxFailed` bounds the arrays failed saves leave.
- SdCard: one export beside the check, USB mode and a fault anywhere already brings every pair of
  calls of the driver together; two names give a free one and a taken one; one card has a
  JSON leftover and no backup, the other a rescue export and a backup. A second exporter (the console) multiplies the
  states beyond a run's time: it is in `card_exports`, and in the theorems for any number of jobs.
- TimeSync: two synchronisations overlap in every pair of sources and order, and the second one
  shifts what the first recorded; the theorems hold for any number. `settime` takes the
  manual tab's actions and differs in what blocks it only, so the run leaves it out.
- The texts of `algorithms` have every kind of character in the first three places (a byte ends in
  the second and in the fourth); eight characters are one full group of Base32.
- Symmetry: PINs are interchangeable, and so are the arrays other than `Empty`. It is used in
  safety runs only (the runs with liveness use none).
- `CHECK_DEADLOCK` is off in `time_sync`, whose synchronisations are bounded, and in
  `algorithms`, whose inputs are; on everywhere else.

Fairness. The store's runs have none (a call may stop for ever). `BootRecovery` assumes
`WF_vars(Progress)`: a running firmware takes its next flash step, since no loop in it waits for
anything but a button. Session assumes weak fairness of the job's steps, of a begun save, of the
poll timer and of `SleepLocks`: FreeRTOS schedules the tasks and the calls have no endless
waits. `TimeSync` assumes that each worker takes its next step (`WF_vars(Worker(t))`, timeouts
included, as they are the task's own waits) and promises nothing of the network, of the phone or of
the host's task. `SdCard` has safety properties only. Nothing is assumed of the user, of power
or of failures.

What the less obvious properties say:

- `DurableStore`: after an acknowledged call, at every later step, a boot right now finds a slot
  that a PIN in play opens on the acknowledged records, or on those of a call begun since.
- `UnlockReturnsPromise`: no unlock falls back to records older than that.
- `KeyOpensCurrent`: an unlocked session with a key has the key of the slot its next save leaves alone.
- `FailuresCounted`/`BackoffHonoured`: no interleaving of unlock, verify, reboot and error gives a
  PIN check uncounted or early, unless a cut destroyed the control sector (`ctlLost`).
- `EditsOnly`: a call that stores changes the stored set by the edited account and nothing else,
  unless the records were wiped while the store stayed unlocked (`emptied`): a refused check of the
  current PIN, or a sleep or console lock whose wipe comes before or during the call.
- `LockedMeansWiped`: from the lock of the UI, of the sleeping task or of the console on, at every
  step of every task, no decrypted record is in RAM. Two cases are excused (`stale`): a PIN change
  that failed locks without a wipe; an unlock, an edit or the undoing of an edit that comes between
  the wipe and the lock, or behind the lock, puts records back (section 5).
- `AccountsNeedUnlock`: awake, an account or backup screen is over an unlocked store or over one whose
  lock the next watch will see, since `s_was_unlocked` is still set. Two orders of a console lock
  are excused (`missed`, section 5); a lock of the UI itself or of a PIN change is always seen.
- `JobPickedUp`: the pad, dead while a job runs, comes back or the device sleeps.
- `ImportPromised`: in every reachable array, importing any of the backups, as it is or put into one
  profile, merged or replacing, leaves the last usable record of each key and the accounts it does
  not replace, up to the room there is, and nothing else; `SummaryTells` compares the counts shown.
- `KeysUnique`: no mixture of additions, renamed profiles, other spellings and imports leaves two
  accounts of one name in a profile, in RAM or in an array an unlock may deliver.
- `ProfileKept`: a named active profile comes back after any lock, cut and unlock.
- `BackupsComplete`, `BackupsKept`: under its final name a backup is complete from its first moment
  and no step of the device touches it again, wherever the card is pulled or the power cut.
- `ExportTold`: an export reported as done left that very file under the name reported.
- `WipesShown`: through locks, unlocks and scans between the question and its answer, the files
  wiped are ones the user was shown.
- `CardReleased`, `PcOwnsAlone`: after any failed mount, pull or half-way start of USB mode, the
  card is free when no task uses it and never under two file systems. Both excuse two calls of the
  driver that overlapped, since nothing in the code excludes them and the flag alone cannot tell.
- `ClockKept`: after a sync that nothing disturbed, the RTC counts that sync's time whenever no
  commit is under way, so the next boot that reads it comes back with that time, whatever overlapped
  before; boots that could not read it leave the clock unset (`unread`) and the RTC as it is. A lost
  supply (`drained`) ends it, as do the disturbances of a commit.
- `HistoryKept`: then the newest entry is that synchronisation, of one piece, and the older two are
  those from before it.
- `BleTold`: the tab fails only a synchronisation that has not set the clock and never will, unless
  the host could not be stopped (`left`).
- `SyncEnds`: every begun synchronisation ends, whoever does not answer, unless its commit waits for
  a second that a bogus SNTP answer has put years ahead.
- `SelectionKept`: otadata or a live backup selects app0, wherever a switch or a restore stops.

Every property of a passing run has a mutant in `PROJECT.json` (operators marked "Wrong on
purpose"), a plausible slip in the code, that violates it.

## 4. The theorems

TLAPS, for every set of PINs, records, names and tasks and every bound; assumptions
`StoreAssumption`, `SessionAssumption`, `BootAssumption`, `CardAssumption`, `AccountsAssumption` and
those of TimeSync (sentinels are outside the value sets, bounds are naturals, tasks are those the
code has; the inputs of the accounts are records, and the demo accounts are of the default profile,
as `accounts_load_demo` clears each of them first). Nothing is assumed of Calendar and
TotpEngine.

`SecretStoreProofs`: `TypeCorrect`, `KeyOpensCurrentAlways`, `FailuresAreCounted`,
`BackoffIsHonoured`. The argument is layered:

- `TypeInv`: the types; the current slot has a header; a format 1 erase runs under a format 2 slot.
- `KeyInv`: what each `pc` and `op` can be together (`Phase`); the header is written over the body
  it authenticates (`BodyFirst`); the blob just written is current and opens with the key
  (`Written`); hence `KeyOpensCurrent`. Needed because `KeyOpensCurrent` says nothing about the
  write in progress that is about to become current.
- `Fresh`, `Twin`: nonces grow, so a header in RAM cannot authenticate a body of another blob whose
  flash header is gone. Without them a new header could pair with an old body.
- `GateInv`: the store keeps a header while it counts (`Kept`), which call runs in which state
  (`CheckPhase`), `FailuresCounted`, and `s_last_fail <= calm`, from which `BackoffHonoured` follows
  as an action property.

`BootRecoveryProofs`: `TypeCorrect`, `SelectionIsKept` and `NoSleepInsideSwitch`, for every number
of cuts and errors. The inductive invariant of the second is `BootInv`: a switch copies before it
erases (`SwitchInv`); a restore has put back what its step says (`RestoreInv`); a backup that
selects nothing is never restored over a selection (`StaleInv`); only a valid image is made the boot
partition (`ImageInv`). The third rests on `ClaimInv`: a sleeper holds the claim and finds no switch
under way, and a switch of the application holds it until it fails.

`SessionProofs`: `TypeCorrect`, `RamAlwaysMatches`, `LockedAlwaysWiped`, `EditsOnlyAlways`,
`AccountsAlwaysNeedUnlock`, from `SessionInv`: a job runs under the PIN screen (`JobInv`); an account
screen over a locked store, or one a confirmed PIN will open, is one the watch has yet to look at
(`UiInv`); RAM is empty from the wipe of a lock on, not only from the lock (`Locking` in `WipeInv`),
and a job has wiped the array before its call; and, with a change under way,
undoing it gives the store's records (`RamInv`), which `RamMatchesStore`, about the moments at
rest, does not say.

`TimeSyncProofs`: `TypeCorrect`, `ClockIsKept`. A radio acts only under its worker (`RadioOwned`),
and while nothing disturbs the clock one task at most commits (`OneCommits`) and what it has put in
the RTC so far is the system clock's time (`Progress`): the steps of the commit are each only part of
what the property says of its end.
`BleIsTold` follows from `JobsInv` and `BleInv` (`timeOk` is the truth about the clock
until the worker has decided, because the host has stopped by then), and `HistoryIsKept` from
`Recordings`: after `k - 1` writes, the fields whose place is before `k` are new and the others those
of `before`.

`SdCardProofs`: `TypeCorrect`, `BackupsStayComplete`, `ExportIsTold`, from `ExportInv`: an
export past its write has a whole temporary file, alone (`Alone`), and it is the one it
sealed (`Kept`). `BackupsAreKept`; `WipesAreShown` from `WipeInv` (the list of an open
question, or of a wipe, is within what was shown); `CardIsReleased` and `PcIsAlone` from `UsbInv` and
`DriverInv`: one task at most is inside a call of the driver, flag, handle, host and volume agree but
for that call's steps, and a mounted card has a user that will unmount it.

The promise of the store, in the same module: `StoreIsDurable`, `UnlockIsPromised`, `OldPinsAreGone`
and `StoreKeepsPromise` (SecretStore implements Vault), for any number of cuts and failing steps,
under three hypotheses: the store was made by this firmware (`Format2Only`: no format 1 slot), the
slots are read without error during an unlock (`~Misreads`), and the erase of the whole partition
returns no error, though it may be cut (`Sure`). Each is needed: section 5 has what happens without
it. (`~EraseRaces` is Vault's own: an erase begins on a store that is locked.) The invariant is `DurInv`:

- what each call has said it stores, and under which key (`CallInv`); a body that the header in RAM
  authenticates has it in flash (`SameTwin`, stronger than `Twin`), so RAM and flash differ only in
  blobs whose header write failed but landed;
- `AckedInv`: with the headers of the next boot (`FineFlash`) as with those in RAM (`FineRam`), a
  slot that is no longer promised is older than one of the same PIN, so no unlock delivers it; and
  the slot a session's next save leaves alone is promised (`CurrentTold`). `DurableStore` says
  neither, and both are needed: a write destroys one slot, so the other must do alone;
- `BlankInv`: failed creations have left nothing but what was promised, so the one that succeeds
  acknowledges a sound store; `NotRetired`: no whole slot is under a replaced PIN.

`AccountsProofs`: every invariant and action property of the run `accounts`, for arrays, backups and
samples of any length and content: `TypesHold`, `KeysStayUnique`, `RamIsStored`, `ActiveIsUsed`,
`ProfileIsKept`, `ProfilesAreReached`, `IdsAreKept`, `ImportKeepsPromise`, `SummaryIsTrue`.

- The inductive invariant is `IInv`: the array in RAM, the stored one and every copy are `Good`
  (storable records under canonical profiles, distinct keys, distinct identifiers within the
  bound), the active profile is one of the array's with its hash remembered (`IsActive`), and RAM
  is the stored array. The copies must be in it because an unlock delivers any of them, the hash
  because an unlock selects by it. TLC finds it true on the instance of `accounts`.
- The loops of the code (an import over a backup, the demo over its samples, the compaction of a
  deletion) are `FoldLeft`s, hence recursive. Each is turned into a run, the sequence of arrays it
  goes through (`ImportRuns`, `SampleRuns`, `WithoutRuns`), and induction is over the set of the
  places where the claim holds (`Counting`), which needs no operator as a parameter.
- An import keeps the loop invariant `SoFar`: after `k` records the array holds old accounts no
  record has replaced and the last usable record of each key, and lacks one only when it is full.
  At the end that is `Content`, and `Content` alone gives both `Promised` and `Told`: the sets
  that these count are paired off with one another (`Pairing`).
- The profile button is the recursive function `Reached`: the profiles in use are finitely many
  numbers, each press goes to the next or from the last to the first, so as many presses as there
  are numbers visit each once (`RoundTrip`).

`DataLemmas` has the lemmas these rest on that are not about accounts: least elements, `Min`, `Max`
and sizes of finite sets, the existence of folds and iterations, the round trip.

`AlgorithmsProofs`: `ConversionsAgree`, `RtcKeeps` and `DecoderIsRight`, for the walk of `algorithms`
whatever year and length it ends at. `InputInv` says that the day number walked to is what `days_from_civil` computes of the
date: that a step of the calendar adds one is `DayAfter` (a month, February, a year). That
`civil_from_days` is the inverse, `ThereAndBack`, is arithmetic: with the year of the era split
into century, cycle and year, its divisions by 1460, 36524 and 146096 take away exactly the leap days
before it (`YearIs`).

`DecodesEveryText` is about any text and any buffer. After k characters the decoder holds the bits
it has not used in the low end of its register, and the bytes written are RFC 4648's of the bits
before them (`Decoded`). The induction over the text carries the last three characters, fifteen
bits, since a byte lies in three characters at most (`ByteIsWindow`); what follows the padding
changes nothing.

Only model-checked:

- liveness under fairness (`BadImageRecovers`, `JobPickedUp`, `SyncEnds`), which the provers do not
  have;
- the format 1 store (`store_migration`): section 5 has a loss of records there, so the promise of
  the store is proved of stores this firmware made.

## 5. What the code does not do as described

- `session_change`: a sleep, or a `store lock`, during a PIN change makes both copies under the new
  PIN empty, since `accounts_lock` wipes before it takes the mutex. The same order exposes an ordinary
  save (`emptied` excuses it in `EditsOnly`).

- `accounts_into`: two accounts of one name from two profiles, imported into one profile
  (`backup import --into`): the summary says two added, the second has overwritten the first.

- `card_exports`: the temporary file "never leaves a truncated .msfx behind" (`backup.c:65`). The
  console's export and the Backup screen's share it (`MSF.TMP`), and one renames the file the other
  has just truncated, with no fault at all.

Seen with TLC while modelling, excused by the properties by name, and not runs:

- `docs/INTERFACES.md:40` says the format 1 slots go with the first format 2 save. The erase
  happens in that one save; cut or failed, it is never retried, and an unlock under a PIN replaced
  since opens them. `DurableStore` and `UnlockReturnsPromise` excuse it (`revived`).
- A cut between erase and write of the control sector resets the failure counter, although it is
  said to survive cuts (`ctlLost` in `FailuresCounted`).
- A second hold of the button after a cut of the first switch replaces the good backup (`again`).
- A console lock, or a sleep, whose wipe meets an unlock, an edit or a save of another task leaves
  decrypted records in RAM behind the lock: an unlock that holds the mutex fills the array after the
  wipe, and the lock follows; a removal whose save then finds the store locked puts its record back
  (`accounts_store.c:585`; an update at 530 puts it back beyond `s_count`). `docs/ARCHITECTURE.md:116`
  says a lock wipes them (`stale` in `LockedMeansWiped`).
- A console lock escapes the watch (`ui_nav.cpp:441`, whose comment promises "back to the PIN screen")
  in two orders (`missed` in `AccountsNeedUnlock`): after an unlock whose Home screen is shown before
  the watch has looked once; and while the result of Backup's confirmation waits to be polled, where
  its edge is spent on the PIN screen and `job_finished` (`ui_screen_pin.cpp:300`) opens Backup
  without looking at the store.
- `rtc_write_aligned` waits for a second of the system clock (`time_service.c:195`): an SNTP answer
  before 2024, between its target and its wait, makes that wait last years, with the tab busy, where
  the comment at line 170 says it blocks one or two seconds (`SyncEnds` names it).
- A `nimble_port_stop` that fails (`ble_time.c:203`) leaves the host running: it may set the clock after
  the tab has said that the sync failed (`left` in `BleTold`).
- A wrong current PIN on Change PIN empties the RAM array while the store stays unlocked; the next
  save stores an almost empty array (`emptied` in `RamMatchesStore` and `EditsOnly`).
- An SNTP answer after the Wi-Fi worker's timeout sets the clock, and nothing records it in RTC or
  history (`late`), where `docs/time-sync-design.md:23` says every sync is recorded.
- A bus error or a cut between the RTC's stop and its run leaves it stopped; no boot clears STOP
  (`bus`, `cut`), so the clock comes back late until the next sync.
- A question on the PIN screen survives a lock, and the scan of the next unlock replaces the list it
  will delete (`relist`).

- A format 1 store loses an acknowledged save to one cut and one failing write: a first PIN change cut
  after its first header, a second one, back to the old PIN, whose header write fails but lands, an
  unlock that still opens the format 1 slot (the headers in RAM are older), and a save: it
  overwrites the slot of the first PIN change, and at the next boot the failed change's slot is
  the newer one under that PIN. So `store_migration` has no error returns.
- A create that fails after its header, then an erase that fails at once, leave a slot under the
  failed create's PIN; after the next create an unlock with it opens that slot, and the save that
  follows begins by erasing the acknowledged one. It takes two errors (`store_faults` has one).

Seen by reading: `parse_iso` (`cmd_settime.c:118`) accepts dates that are none, such as 31 February,
and normalises them; `read_cb` ignores a refused read, so that only the 15 s timeout ends it; "The last one is restored after unlock" (`docs/FEATURES.md:145`) fails for the default
profile: `select_profile("")` stores nothing when "" is active already, so the hash of a profile of
an erased store stays and an import can bring that profile back (`ProfileKept` is about named
profiles); the identifier 65535 is followed by 0; an import runs in a worker task
(`ui_screen_backup.cpp:184`), so a sleep during it can make its undo put the records back into a
wiped array; the auto-lock never locks on the PIN screen, though Change PIN and Backup's confirmation
are shown unlocked (the comment at `ui_nav.cpp:334` says nothing is decrypted there); a failed PIN
change leaves the decrypted array in RAM until the next wipe (`stale` in `LockedMeansWiped`); an add
that rolls back after the array was wiped leaves `s_count` at -1; `msf_store_erase` called while
unlocked and failing leaves UNLOCKED with a wiped key (`KeyOpensCurrent` is about sessions with a
key); a misread of the newest slot makes an unlock fall back to the older one, so `DurableStore`
and `UnlockReturnsPromise` are checked with `Misreads = FALSE`; `SelectionKept` excuses a restore
that met an error (`lossy`) and a switch begun with nothing selected (`again`).

## 6. Not modelled, and what is left

Not modelled, and why:

- HMAC, HOTP's truncation and TOTP's division, the key derivation and sealing: library calls
  around one line of arithmetic each.
- The factory's `sdcard.c` and `rescue_export.c`: one task calls them in sequence; the store's side
  (unlock, image, lock) is SecretStore's.
- Screens, widgets, panel, touch, battery and light drivers: layout and register traffic, with no
  protocol a model could tell from the hardware. They and the fonts, bitmaps and vendored sources are
  most of the repository's lines.
- Host tools, logging, vendored cryptography.
- The flash's endurance (2^32 saves).

Left for the models there are, in the order of importance: the console's `store create`, `unlock`,
`passwd`, `demo` and `erase` beside the UI task in Session (its `store lock` is there), and the import's worker task; the recovery codes of an
edited record in Accounts; the scans of Wi-Fi and Bluetooth in TimeSync.
