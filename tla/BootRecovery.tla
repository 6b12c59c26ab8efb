----------------------------- MODULE BootRecovery -----------------------------
(***************************************************************************)
(* The switch to the factory (rescue) firmware and the way back: the       *)
(* bootloader hook (hooks.c), the software switch and the claim on the     *)
(* terminal actions of the application (power_mgr.c, main.c) and the       *)
(* recovery menu of the factory firmware (factory main.c).  They share the *)
(* two otadata entries, which make the bootloader start app0, and the      *)
(* backup sector at 0xB000.                                                *)
(*                                                                         *)
(* One firmware runs at a time: `place` says which, `pc` the flash access  *)
(* it is about to make.  Every access may be cut (Cut) or fail (Fault).    *)
(***************************************************************************)
EXTENDS Integers

CONSTANTS
    NoBackup,            \* a backup sector without the magic
    MaxCuts, MaxFaults   \* bounds of the model

(***************************************************************************)
(* An otadata entry is erased, fails its CRC, or selects app0, the only    *)
(* OTA partition.  The magic is written after the entries it vouches for   *)
(* and goes with them when its sector is erased, so a backup is a pair of  *)
(* entries or NoBackup.                                                    *)
(***************************************************************************)
Entry == {"blank", "torn", "select"}
Pair == [1..2 -> Entry]

ASSUME BootAssumption ==
    NoBackup \notin Pair /\ MaxCuts \in Nat /\ MaxFaults \in Nat

VARIABLES
    ota, bak, app0,              \* flash: otadata, backup sector, app image
    place, pc, saved,            \* running firmware, its step, its entry1/entry2
    reset,                       \* reset reason: software or any other
    claimed, sleeper,            \* terminal action claimed; a task going to sleep
    cuts, faults,                \* counters the bounds cap
    picked,                      \* app0 was made the boot partition
    again,                       \* a switch began with no selection in otadata
    lossy                        \* a flash error was ignored by the restore

storage == <<ota, bak, app0>>
running == <<place, pc, saved, reset>>
terminal == <<claimed, sleeper>>
history == <<picked, again, lossy>>
vars == <<storage, running, terminal, cuts, faults, history>>

Selects(e) == \E i \in 1..2 : e[i] = "select"
Empty == [i \in 1..2 |-> "blank"]

\* A new device: the factory image and the application are flashed, otadata
\* is erased.
Init ==
    /\ ota = Empty /\ bak = NoBackup /\ app0 = "good"
    /\ place = "reset" /\ pc = "idle" /\ saved = Empty /\ reset = "hard"
    /\ claimed = FALSE /\ sleeper = FALSE
    /\ cuts = 0 /\ faults = 0
    /\ picked = FALSE /\ again = FALSE /\ lossy = FALSE

\* The chip resets; the RAM is lost.
Reset(reason) ==
    /\ place' = "reset" /\ pc' = "idle" /\ saved' = Empty /\ reset' = reason
    /\ claimed' = FALSE /\ sleeper' = FALSE

-----------------------------------------------------------------------------
(***************************************************************************)
(* The bootloader.                                                         *)
(***************************************************************************)
\* The entries are read and the switch to the factory firmware begins.
BeginSwitch ==
    /\ saved' = ota /\ pc' = "eraseBackup"
    /\ again' = (again \/ (picked /\ ~Selects(ota)))
    /\ UNCHANGED <<storage, reset, sleeper, cuts, faults, picked, lossy>>

\* Wrong on purpose: the button is read again after a software reset.
HookHoldAlways ==
    /\ place = "reset"
    /\ place' = "hook" /\ BeginSwitch /\ UNCHANGED claimed

\* Power was held until the threshold, after any but a software reset.
HookHold ==
    /\ place = "reset" /\ reset = "hard"
    /\ place' = "hook" /\ BeginSwitch /\ UNCHANGED claimed

\* The bootloader starts app0 when an entry selects it and its image is
\* valid, the factory firmware otherwise.
Boot ==
    /\ place = "reset"
    /\ IF Selects(ota) /\ app0 = "good"
       THEN place' = "app" /\ pc' = "idle"
       ELSE place' = "factory" /\ pc' = "load"
    /\ UNCHANGED <<storage, saved, reset, terminal, cuts, faults, history>>

-----------------------------------------------------------------------------
(***************************************************************************)
(* The switch: back otadata up, then erase it.  The hook and the           *)
(* application take the same steps.                                        *)
(***************************************************************************)
EraseBackup ==
    /\ pc = "eraseBackup"
    /\ bak' = NoBackup /\ pc' = "writeBackup"
    /\ UNCHANGED <<ota, app0, place, saved, reset, terminal, cuts, faults, history>>

\* Wrong on purpose: the backup is written once otadata is erased.
WriteBackupLate ==
    /\ pc = "writeBackup"
    /\ bak' = NoBackup /\ pc' = "erase1"
    /\ UNCHANGED <<ota, app0, place, saved, reset, terminal, cuts, faults, history>>

WriteBackup ==
    /\ pc = "writeBackup"
    /\ bak' = saved /\ pc' = "erase1"
    /\ UNCHANGED <<ota, app0, place, saved, reset, terminal, cuts, faults, history>>

EraseEntry1 ==
    /\ pc = "erase1"
    /\ ota' = [ota EXCEPT ![1] = "blank"] /\ pc' = "erase2"
    /\ UNCHANGED <<bak, app0, place, saved, reset, terminal, cuts, faults, history>>

EraseEntry2 ==
    /\ pc = "erase2"
    /\ ota' = [ota EXCEPT ![2] = "blank"]
    /\ Reset("sw")
    /\ UNCHANGED <<bak, app0, cuts, faults, history>>

-----------------------------------------------------------------------------
(***************************************************************************)
(* The application.  The console, the UI task and the button task may each *)
(* put the device to sleep; the button task also switches to the factory   *)
(* firmware.  A sleeper waits for the button to be released: another task  *)
(* runs meanwhile.                                                         *)
(***************************************************************************)
\* Wrong on purpose: a task goes to sleep without the claim.
SleepUnclaimed ==
    /\ place = "app" /\ ~sleeper
    /\ sleeper' = TRUE
    /\ UNCHANGED <<storage, running, claimed, cuts, faults, history>>

ClaimSleep ==
    /\ place = "app" /\ ~claimed
    /\ claimed' = TRUE /\ sleeper' = TRUE
    /\ UNCHANGED <<storage, running, cuts, faults, history>>

\* Deep sleep, and the wake-up by the button.
Sleep ==
    /\ place = "app" /\ sleeper
    /\ Reset("hard")
    /\ UNCHANGED <<storage, cuts, faults, history>>

\* Wrong on purpose: the restart comes before the switch's flash accesses.
SwitchAfterRestart ==
    /\ place = "app" /\ pc = "idle" /\ ~claimed
    /\ claimed' = TRUE /\ BeginSwitch /\ place' = "reset"

SwitchToFactory ==
    /\ place = "app" /\ pc = "idle" /\ ~claimed
    /\ claimed' = TRUE /\ BeginSwitch /\ UNCHANGED place

-----------------------------------------------------------------------------
(***************************************************************************)
(* The factory firmware restores otadata, then shows its menu.             *)
(***************************************************************************)
Load ==
    /\ pc = "load"
    /\ saved' = IF bak = NoBackup THEN saved ELSE bak
    /\ pc' = IF bak = NoBackup THEN "menu" ELSE IF bak = Empty THEN "clear" ELSE "wipe1"
    /\ UNCHANGED <<storage, place, reset, terminal, cuts, faults, history>>

\* Flash bits are only cleared: a write over other contents tears them.
Programmed(old, new) == IF old \in {"blank", new} THEN new ELSE "torn"

\* What the restore does to entry i, erased or written when it is not empty.
Restored(i) == IF saved[i] = "blank" THEN ota[i] ELSE Programmed(ota[i], saved[i])

AfterRestoreStep ==
    CASE pc = "wipe1" -> "wipe2" [] pc = "wipe2" -> "put1"
      [] pc = "put1" -> "put2" [] pc = "put2" -> "clear" [] pc = "clear" -> "menu"

RestoreStep ==
    /\ pc \in {"wipe1", "wipe2", "put1", "put2", "clear"}
    /\ pc' = AfterRestoreStep
    /\ ota' = CASE pc = "wipe1" -> [ota EXCEPT ![1] = "blank"]
                [] pc = "wipe2" -> [ota EXCEPT ![2] = "blank"]
                [] pc = "put1"  -> [ota EXCEPT ![1] = Restored(1)]
                [] pc = "put2"  -> [ota EXCEPT ![2] = Restored(2)]
                [] OTHER -> ota
    /\ bak' = IF pc = "clear" THEN NoBackup ELSE bak
    /\ UNCHANGED <<app0, place, saved, reset, terminal, cuts, faults, history>>

-----------------------------------------------------------------------------
(***************************************************************************)
(* The menu.                                                               *)
(***************************************************************************)
Cancel ==
    /\ pc = "menu"
    /\ Reset("sw")
    /\ UNCHANGED <<storage, cuts, faults, history>>

\* "Boot app0": refused when the image is not valid.
ActionBoot ==
    /\ pc = "menu" /\ app0 = "good"
    /\ pc' = "setBoot"
    /\ UNCHANGED <<storage, place, saved, reset, terminal, cuts, faults, history>>

\* The entry esp_ota_set_boot_partition writes: the one not in use.
Inactive == IF ota[1] = "select" THEN 2 ELSE 1

SetBoot ==
    /\ pc = "setBoot"
    /\ ota' = [ota EXCEPT ![Inactive] = "select"]
    /\ picked' = TRUE
    /\ Reset("sw")
    /\ UNCHANGED <<bak, app0, cuts, faults, again, lossy>>

\* "SD -> app0": esp_ota_begin erases the image.
ActionFlash ==
    /\ pc = "menu"
    /\ app0' = "bad" /\ pc' = "flash"
    /\ UNCHANGED <<ota, bak, place, saved, reset, terminal, cuts, faults, history>>

\* The image is whole and valid, then made the boot partition.
FlashDone ==
    /\ pc = "flash"
    /\ app0' = "good" /\ pc' = "setBoot"
    /\ UNCHANGED <<ota, bak, place, saved, reset, terminal, cuts, faults, history>>

\* The file is short, unreadable or no valid image.
FlashFailed ==
    /\ pc = "flash"
    /\ pc' = "menu"
    /\ UNCHANGED <<storage, place, saved, reset, terminal, cuts, faults, history>>

-----------------------------------------------------------------------------
(***************************************************************************)
(* Interruptions.                                                          *)
(***************************************************************************)
\* What an interrupted access leaves: nothing done, a torn entry, or all.
TornEntry(i, done) ==
    \E v \in {ota[i], "torn", "blank", done} : ota' = [ota EXCEPT ![i] = v]

Interrupted ==
    \/ /\ pc \in {"eraseBackup", "writeBackup", "clear"} /\ UNCHANGED <<ota, app0>>
       /\ bak' \in {bak, NoBackup} \cup (IF pc = "writeBackup" THEN {saved} ELSE {})
    \/ pc \in {"erase1", "wipe1"} /\ TornEntry(1, "blank") /\ UNCHANGED <<bak, app0>>
    \/ pc \in {"erase2", "wipe2"} /\ TornEntry(2, "blank") /\ UNCHANGED <<bak, app0>>
    \/ pc = "put1" /\ TornEntry(1, Restored(1)) /\ UNCHANGED <<bak, app0>>
    \/ pc = "put2" /\ TornEntry(2, Restored(2)) /\ UNCHANGED <<bak, app0>>
    \/ pc = "setBoot" /\ TornEntry(Inactive, "select") /\ UNCHANGED <<bak, app0>>
    \/ pc \in {"idle", "load", "menu", "flash"} /\ UNCHANGED storage

\* Power fails, a watchdog fires, or the firmware crashes or restarts by
\* itself (the end of USB disk mode); free of bound when no access is running.
Cut ==
    /\ cuts' = cuts + (IF (place = "app" /\ pc = "idle") \/ pc = "menu" THEN 0 ELSE 1)
    /\ cuts' <= MaxCuts
    /\ Interrupted
    /\ \/ Reset("hard")
       \/ place \in {"app", "factory"} /\ Reset("sw")
    /\ UNCHANGED <<faults, history>>

FaultAt(steps) ==
    /\ pc \in steps /\ faults < MaxFaults
    /\ faults' = faults + 1
    /\ Interrupted

\* The hook gives up and resets; the application stays awake.
SwitchFault ==
    /\ FaultAt({"eraseBackup", "writeBackup", "erase1", "erase2"})
    /\ \/ place = "hook" /\ Reset("sw")
       \/ /\ place = "app"
          /\ pc' = "idle" /\ saved' = Empty /\ claimed' = FALSE
          /\ UNCHANGED <<place, reset, sleeper>>
    /\ UNCHANGED <<cuts, history>>

\* The magic cannot be read: no restore.  An entry cannot be read: its bytes
\* are those of the stack.
LoadFault ==
    /\ FaultAt({"load"})
    /\ \/ pc' = "menu" /\ UNCHANGED <<saved, lossy>>
       \/ /\ bak # NoBackup /\ lossy' = TRUE
          /\ \E i \in 1..2, e \in Entry : saved' = [bak EXCEPT ![i] = e]
          /\ pc' = IF saved' = Empty THEN "clear" ELSE "wipe1"
    /\ UNCHANGED <<place, reset, terminal, cuts, picked, again>>

\* The restore ignores errors.
RestoreFault ==
    /\ FaultAt({"wipe1", "wipe2", "put1", "put2", "clear"})
    /\ pc' = AfterRestoreStep
    /\ lossy' = TRUE
    /\ UNCHANGED <<place, saved, reset, terminal, cuts, picked, again>>

\* The boot partition cannot be set: back to the menu.
SetBootFault ==
    /\ FaultAt({"setBoot"})
    /\ pc' = "menu"
    /\ UNCHANGED <<place, saved, reset, terminal, cuts, history>>

-----------------------------------------------------------------------------
Bootloader == HookHold \/ Boot
Switch == EraseBackup \/ WriteBackup \/ EraseEntry1 \/ EraseEntry2
Application == ClaimSleep \/ Sleep \/ SwitchToFactory
Factory == Load \/ RestoreStep \/ Cancel \/ ActionBoot \/ SetBoot
           \/ ActionFlash \/ FlashDone \/ FlashFailed
Fault == SwitchFault \/ LoadFault \/ RestoreFault \/ SetBootFault

Next == Bootloader \/ Switch \/ Application \/ Factory \/ Cut \/ Fault

\* The processor runs: a firmware that has a step to take takes it.  Nothing
\* is assumed of the user (button, menu) nor of failures.
Progress == Boot \/ Switch \/ Load \/ RestoreStep \/ SetBoot \/ FlashDone \/ FlashFailed

Spec == Init /\ [][Next]_vars

FairSpec == Spec /\ WF_vars(Progress)

-----------------------------------------------------------------------------
(***************************************************************************)
(* Properties.                                                             *)
(***************************************************************************)
\* Every variable keeps the type of the object it stands for, and each
\* firmware is at a step of its own.
TypeOK ==
    /\ ota \in Pair /\ bak \in Pair \cup {NoBackup} /\ app0 \in {"good", "bad"}
    /\ saved \in Pair /\ reset \in {"sw", "hard"}
    /\ claimed \in BOOLEAN /\ sleeper \in BOOLEAN
    /\ cuts \in Nat /\ faults \in Nat
    /\ picked \in BOOLEAN /\ again \in BOOLEAN /\ lossy \in BOOLEAN
    /\ \/ place = "reset" /\ pc = "idle"
       \/ place = "hook" /\ pc \in {"eraseBackup", "writeBackup", "erase1", "erase2"}
       \/ place = "app" /\ pc \in {"idle", "eraseBackup", "writeBackup", "erase1", "erase2"}
       \/ place = "factory" /\ pc \in {"load", "wipe1", "wipe2", "put1", "put2", "clear",
                                       "menu", "setBoot", "flash"}

\* FACTORY.md:58: the selection of app0 is never lost on the way to the
\* factory firmware and back, in otadata or in the backup, wherever a switch
\* or a restore is cut and wherever a switch fails (unless a switch begins
\* while otadata is erased, or the restore meets a flash error).
SelectionKept ==
    (picked /\ ~again /\ ~lossy) =>
        Selects(ota) \/ (bak # NoBackup /\ Selects(bak))

\* main.c:73: the terminal actions exclude one another.  The device is never
\* put to sleep in the middle of a switch to the factory firmware.
NoSleepInSwitch == [][Sleep => pc = "idle"]_vars

\* An application image left broken (a flash that was cut or failed) always
\* brings the recovery menu up, even if the user holds the button for ever.
BadImageRecovers == (app0 = "bad") ~> (pc = "menu" \/ app0 = "good")

=============================================================================
