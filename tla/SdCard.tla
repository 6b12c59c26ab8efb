-------------------------------- MODULE SdCard --------------------------------
(***************************************************************************)
(* The SD card of the application: the mount and raw access of sdcard.c,   *)
(* the encrypted backups of backup.c, made by a worker task of the Backup  *)
(* screen (ui_screen_backup.cpp, "bk") and by the console's task           *)
(* (cmd_backup.c, "con"), the search for plaintext leftovers after an      *)
(* unlock with its own worker (ui_sd_check.cpp, "sd"), and USB disk mode   *)
(* (usb_disk.c), which the UI task ("ui") starts.                          *)
(*                                                                         *)
(* They share one flag, s_mounted.  A mount and an unmount each take       *)
(* several steps, and nothing excludes two of them: "crossed" notes which  *)
(* kinds of overlap have happened since the boot.                          *)
(***************************************************************************)
EXTENDS Naturals, Sequences

CONSTANTS
    Slots,      \* the names of one minute: "<base>.msfx", "<base>-2.msfx", ...
    Tmp,        \* MSF.TMP
    Jsons, Rescues,        \* names of plaintext leftovers, of the two kinds
    Cards,      \* sets of the names a card may come with
    Data,       \* sealed account arrays
    Plain,      \* content of a leftover
    Absent, Torn, Zeros,   \* no file, incomplete, overwritten
    Console,    \* tasks that run the console's backup commands: {"con"} or {}
    MaxJobs, MaxFaults  \* jobs; restarts, pulls and edits of the PC

Leftovers == Jsons \cup Rescues
Backups == {Slots[k] : k \in DOMAIN Slots}
Names == Backups \cup Leftovers \cup {Tmp}
Contents == Data \cup {Plain, Absent, Torn, Zeros}

ASSUME CardAssumption ==
    /\ Slots \in Seq(Backups) /\ Slots # <<>>
    /\ Tmp \notin Leftovers \cup Backups /\ Leftovers \cap Backups = {}
    /\ Cards \subseteq SUBSET (Leftovers \cup Backups)
    /\ Data \cap {Plain, Absent, Torn, Zeros} = {}
    /\ Absent # Torn /\ Absent # Zeros /\ Absent # Plain
    /\ Torn # Plain /\ Zeros # Plain /\ Torn # Zeros
    /\ Console \subseteq {"con"}
    /\ MaxJobs \in Nat /\ MaxFaults \in Nat

VARIABLES
    files, inSlot,                \* the card
    mounted, handle, host,        \* s_mounted, s_card # NULL, sdmmc_host_init done
    fat, raw, usbUp,              \* FAT volume, card opened raw, s_usb_up
    pc,                           \* per task: its step, "none" when it does not run
    fd, data, name, err,          \* export: open file, sealed file, path, result
    wipe, found, left,            \* SD check: s_wipe, s_paths, files still to wipe
    unlocked, was, screen, confirm, shown,   \* UI; names in the open confirmation
    jobs, faults, crossed      \* bounds of a run; the overlaps that happened

card == <<files, inSlot>>
driver == <<mounted, handle, host, fat, raw, usbUp>>
backup == <<fd, data, name, err>>
check == <<wipe, found, left>>
ui == <<unlocked, was, screen, confirm, shown>>
bounds == <<jobs, faults>>
vars == <<card, driver, pc, backup, check, ui, bounds, crossed>>

Exporters == {"bk"} \cup Console
Workers == Exporters \cup {"sd"}
Tasks == Workers \cup {"ui"}
Idle == [t \in Tasks |-> "none"]

Booted ==
    /\ mounted' = FALSE /\ handle' = FALSE /\ host' = FALSE /\ fat' = "none"
    /\ raw' = FALSE /\ usbUp' = FALSE
    /\ pc' = Idle
    /\ fd' = [w \in Exporters |-> FALSE] /\ data' = [w \in Exporters |-> Absent]
    /\ name' = [w \in Exporters |-> Tmp] /\ err' = [w \in Exporters |-> "none"]
    /\ wipe' = FALSE /\ found' = {} /\ left' = {}
    /\ unlocked' = FALSE /\ was' = FALSE /\ screen' = "Pin"
    /\ confirm' = "none" /\ shown' = {}

\* The content of a card that comes from a PC.
Fresh ==
    {[n \in Names |-> IF n \notin c THEN Absent ELSE IF n \in Leftovers THEN Plain ELSE d] :
        c \in Cards, d \in Data}

Init ==
    /\ files \in Fresh
    /\ inSlot = TRUE
    /\ mounted = FALSE /\ handle = FALSE /\ host = FALSE /\ fat = "none"
    /\ raw = FALSE /\ usbUp = FALSE
    /\ pc = Idle
    /\ fd = [w \in Exporters |-> FALSE] /\ data = [w \in Exporters |-> Absent]
    /\ name = [w \in Exporters |-> Tmp] /\ err = [w \in Exporters |-> "none"]
    /\ wipe = FALSE /\ found = {} /\ left = {}
    /\ unlocked = FALSE /\ was = FALSE /\ screen = "Pin"
    /\ confirm = "none" /\ shown = {}
    /\ jobs = 0 /\ faults = 0 /\ crossed = {}

\* s_busy of a worker's screen, from its start to the poll that takes its result.
Busy(w) == pc[w] # "none"

Goes(t, step) == pc' = [pc EXCEPT ![t] = step]
Crosses(kind, happens) == crossed' = IF happens THEN crossed \cup {kind} ELSE crossed

-----------------------------------------------------------------------------
(***************************************************************************)
(* sdcard.c.  The card is used through the volume (fat = "live"); it is    *)
(* "dead" once the card was pulled or its rail pulsed under the volume.    *)
(***************************************************************************)
DriverKeeps == UNCHANGED <<card, data, name, wipe, left, ui, bounds>>

Pulsed == IF fat = "live" THEN "dead" ELSE fat

\* Inside a call that changes the driver's state, or about to.
Inside(t) == pc[t] \in {"pulse", "init", "unflag", "open_raw"}
Overlaps(t) == \E u \in Tasks \ {t} : Inside(u)

\* The call of a worker ends without the card.
NoCard(w) ==
    /\ handle' = FALSE
    /\ Goes(w, "done")
    /\ IF w = "sd" THEN found' = {} /\ UNCHANGED err
       ELSE err' = [err EXCEPT ![w] = "error"] /\ UNCHANGED found

\* sdcard_mount, its first line: another user's mount is shared.
MountCheck(w) ==
    /\ pc[w] = "mount"
    /\ Goes(w, IF mounted THEN "use" ELSE "pulse")
    /\ Crosses("driver", ~mounted /\ Overlaps(w))
    /\ DriverKeeps /\ UNCHANGED <<driver, fd, err, found>>

\* The rail is pulsed and the host controller initialised, which fails while
\* another user holds it.
MountInit(w) ==
    /\ pc[w] = "pulse"
    /\ fat' = Pulsed
    /\ IF host THEN NoCard(w) /\ UNCHANGED host
       ELSE host' = TRUE /\ Goes(w, "init") /\ UNCHANGED <<handle, err, found>>
    /\ DriverKeeps /\ UNCHANGED <<mounted, raw, usbUp, fd, crossed>>

\* The card is probed and its volume registered; or there is no card, or no
\* FAT, or an error, and the host is released.
MountDone(w) ==
    /\ pc[w] = "init"
    /\ \/ /\ inSlot /\ fat = "none"
          /\ fat' = "live" /\ handle' = TRUE /\ mounted' = TRUE
          /\ Goes(w, "use") /\ UNCHANGED <<host, err, found>>
       \/ /\ host' = FALSE /\ NoCard(w) /\ UNCHANGED <<mounted, fat>>
    /\ DriverKeeps /\ UNCHANGED <<raw, usbUp, fd, crossed>>

\* sdcard_unmount: nothing to do if the flag is down; the volume is found by
\* the card's handle, and closes every file open on it.
UnmountCall(t) ==
    /\ pc[t] = "unmount"
    /\ IF mounted
       THEN /\ Goes(t, "unflag")
            /\ IF handle /\ fat # "none"
               THEN fat' = "none" /\ host' = FALSE /\ fd' = [w \in Exporters |-> FALSE]
               ELSE UNCHANGED <<fat, host, fd>>
       ELSE Goes(t, IF t = "ui" THEN "raw" ELSE "done") /\ UNCHANGED <<fat, host, fd>>
    /\ Crosses("driver", Overlaps(t))
    /\ DriverKeeps /\ UNCHANGED <<mounted, handle, raw, usbUp, err, found>>

UnmountFlag(t) ==
    /\ pc[t] = "unflag"
    /\ handle' = FALSE /\ mounted' = FALSE
    /\ Goes(t, IF t = "ui" THEN "raw" ELSE "done")
    /\ DriverKeeps /\ UNCHANGED <<host, fat, raw, usbUp, fd, err, found, crossed>>

\* Wrong on purpose: the raw access does not look at the flag.
RawCheckBlind ==
    /\ pc["ui"] = "raw"
    /\ Goes("ui", "open_raw") /\ fat' = Pulsed
    /\ Crosses("driver", Overlaps("ui"))
    /\ DriverKeeps /\ UNCHANGED <<mounted, handle, host, raw, usbUp, fd, err, found>>

\* sdcard_open_raw is refused while mounted; it pulses the rail,
RawCheck ==
    /\ pc["ui"] = "raw"
    /\ IF mounted THEN Goes("ui", "none") /\ UNCHANGED fat
       ELSE Goes("ui", "open_raw") /\ fat' = Pulsed
    /\ Crosses("driver", Overlaps("ui"))
    /\ DriverKeeps /\ UNCHANGED <<mounted, handle, host, raw, usbUp, fd, err, found>>

\* and initialises host and card: a host already initialised is not an error.
RawOpen ==
    /\ pc["ui"] = "open_raw"
    /\ \/ inSlot /\ host' = TRUE /\ raw' = TRUE /\ Goes("ui", "install")
       \/ host' = FALSE /\ Goes("ui", "none") /\ UNCHANGED raw
    /\ fat' \in {fat, Pulsed}
    /\ DriverKeeps /\ UNCHANGED <<mounted, handle, usbUp, fd, err, found, crossed>>

\* usb_disk_start, its end: the three installations, or the first that fails.
Install ==
    /\ pc["ui"] = "install"
    /\ usbUp' \in {TRUE, usbUp}
    /\ Goes("ui", "none")
    /\ DriverKeeps /\ UNCHANGED <<mounted, handle, host, fat, raw, fd, err, found, crossed>>

-----------------------------------------------------------------------------
(***************************************************************************)
(* An export, or a command that only reads (list, load), of the Backup     *)
(* screen's worker or of the console's task.                               *)
(***************************************************************************)
ExportKeeps == UNCHANGED <<inSlot, driver, check, ui, bounds>>
Fail(w, step) == Goes(w, step) /\ err' = [err EXCEPT ![w] = "error"]

\* The UI task is in its loop, not in usb_disk_start.
UiFree == pc["ui"] = "none"

\* start_job on the Backup screen, refused while a job runs; or the console.
StartJob(w) ==
    /\ ~Busy(w)
    /\ IF w = "bk" THEN screen = "Backup" /\ confirm = "none" /\ UiFree ELSE ~usbUp
    /\ jobs < MaxJobs /\ jobs' = jobs + 1
    /\ \E step \in {"seal", "mount"} : Goes(w, step)
    /\ UNCHANGED <<card, driver, backup, check, ui, faults, crossed>>

\* The records are copied and sealed, before the card is touched.
Seal(w) ==
    /\ pc[w] = "seal"
    /\ \/ /\ unlocked
          /\ \E d \in Data : data' = [data EXCEPT ![w] = d]
          /\ Goes(w, "mount") /\ UNCHANGED err
       \/ Fail(w, "done") /\ UNCHANGED data
    /\ ExportKeeps /\ UNCHANGED <<files, fd, name, crossed>>

\* The first name that stat does not find: all of them when the card is gone.
Free == {k \in DOMAIN Slots : fat = "live" => files[Slots[k]] = Absent}

\* Nothing to write: the job only reads.
Reads(w) ==
    /\ pc[w] = "use" /\ data[w] = Absent
    /\ err' \in {[err EXCEPT ![w] = r] : r \in {"ok", "error"}}
    /\ Goes(w, "unmount")
    /\ ExportKeeps /\ UNCHANGED <<files, fd, data, name, crossed>>

PickName(w) ==
    /\ pc[w] = "use" /\ data[w] # Absent
    /\ IF Free = {} THEN Fail(w, "unmount") /\ UNCHANGED name
       ELSE /\ \E k \in Free : /\ \A j \in Free : k <= j
                               /\ name' = [name EXCEPT ![w] = Slots[k]]
            /\ Goes(w, "open") /\ UNCHANGED err
    /\ ExportKeeps /\ UNCHANGED <<files, fd, data, crossed>>

\* Another export between its fopen and the end of its write_file.
SharesTmp(w) == \E x \in Exporters \ {w} : pc[x] \in {"write", "rename", "undo"}

\* Wrong on purpose: the export that cannot create its file forgets the card.
OpenLeaves(w) ==
    /\ pc[w] = "open"
    /\ \/ /\ fat = "live"
          /\ files' = [files EXCEPT ![Tmp] = Torn] /\ fd' = [fd EXCEPT ![w] = TRUE]
          /\ Goes(w, "write") /\ UNCHANGED err
       \/ /\ files' \in {files, [files EXCEPT ![Tmp] = IF fat = "live" THEN Absent ELSE @]}
          /\ Fail(w, "done") /\ UNCHANGED fd
    /\ Crosses("exports", SharesTmp(w))
    /\ ExportKeeps /\ UNCHANGED <<data, name>>

\* write_file: unlink of the old temporary file and fopen of the new one.
Open(w) ==
    /\ pc[w] = "open"
    /\ \/ /\ fat = "live"
          /\ files' = [files EXCEPT ![Tmp] = Torn] /\ fd' = [fd EXCEPT ![w] = TRUE]
          /\ Goes(w, "write") /\ UNCHANGED err
       \/ /\ files' \in {files, [files EXCEPT ![Tmp] = IF fat = "live" THEN Absent ELSE @]}
          /\ Fail(w, "unmount") /\ UNCHANGED fd
    /\ Crosses("exports", SharesTmp(w))
    /\ ExportKeeps /\ UNCHANGED <<data, name>>

\* Wrong on purpose: a short write is not noticed.
WriteUnchecked(w) ==
    /\ pc[w] = "write"
    /\ fd' = [fd EXCEPT ![w] = FALSE] /\ Goes(w, "rename")
    /\ \/ fat = "live" /\ fd[w] /\ files' = [files EXCEPT ![Tmp] = data[w]]
       \/ UNCHANGED files
    /\ ExportKeeps /\ UNCHANGED <<data, name, err, crossed>>

\* fwrite, fflush, fsync and fclose: all succeed, or the file stays short.
\* A file another export has removed or replaced takes the bytes it can.
Write(w) ==
    /\ pc[w] = "write"
    /\ fd' = [fd EXCEPT ![w] = FALSE]
    /\ \/ /\ fat = "live" /\ fd[w] /\ Goes(w, "rename")
          /\ \E c \in {data[w]} \cup (IF SharesTmp(w) THEN {Torn} ELSE {}) :
                files' = [files EXCEPT ![Tmp] = IF @ = Absent THEN @ ELSE c]
       \/ Goes(w, "undo") /\ UNCHANGED files
    /\ ExportKeeps /\ UNCHANGED <<data, name, err, crossed>>

\* Wrong on purpose: the result of the rename is not looked at.
RenameUnchecked(w) ==
    /\ pc[w] = "rename"
    /\ \/ /\ fat = "live" /\ files[Tmp] # Absent /\ files[name[w]] = Absent
          /\ files' = [files EXCEPT ![name[w]] = files[Tmp], ![Tmp] = Absent]
       \/ UNCHANGED files
    /\ err' = [err EXCEPT ![w] = "ok"] /\ Goes(w, "unmount")
    /\ ExportKeeps /\ UNCHANGED <<fd, data, name, crossed>>

\* The rename of FAT refuses a name that exists.
Rename(w) ==
    /\ pc[w] = "rename"
    /\ \/ /\ fat = "live" /\ files[Tmp] # Absent /\ files[name[w]] = Absent
          /\ files' = [files EXCEPT ![name[w]] = files[Tmp], ![Tmp] = Absent]
          /\ err' = [err EXCEPT ![w] = "ok"] /\ Goes(w, "unmount")
       \/ Goes(w, "undo") /\ UNCHANGED <<files, err>>
    /\ ExportKeeps /\ UNCHANGED <<fd, data, name, crossed>>

Undo(w) ==
    /\ pc[w] = "undo"
    /\ files' \in {files, [files EXCEPT ![Tmp] = IF fat = "live" THEN Absent ELSE @]}
    /\ Fail(w, "unmount")
    /\ ExportKeeps /\ UNCHANGED <<fd, data, name, crossed>>

\* The job's result is taken: by the screen's timer, or by the command.
JobEnds(w) ==
    /\ pc[w] = "done"
    /\ w = "bk" => UiFree
    /\ Goes(w, "none")
    /\ data' = [data EXCEPT ![w] = Absent] /\ name' = [name EXCEPT ![w] = Tmp]
    /\ err' = [err EXCEPT ![w] = "none"]
    /\ UNCHANGED <<card, driver, fd, check, ui, bounds, crossed>>

-----------------------------------------------------------------------------
(***************************************************************************)
(* The SD check: its worker, and the UI task's share of it.                *)
(***************************************************************************)
CheckKeeps == UNCHANGED <<inSlot, driver, backup, wipe, ui, bounds, crossed>>

\* backup_find_plaintext: a MySafeFob JSON by its content, a rescue export by
\* its name.
Present == {n \in Leftovers : files[n] = Plain \/ (n \in Rescues /\ files[n] # Absent)}

\* Wrong on purpose: every file of the backup directory is listed.
ScanAll ==
    /\ pc["sd"] = "use" /\ ~wipe
    /\ found' = IF fat = "live" THEN Present \cup {n \in Backups : files[n] # Absent} ELSE {}
    /\ Goes("sd", "unmount")
    /\ CheckKeeps /\ UNCHANGED <<files, left>>

Scan ==
    /\ pc["sd"] = "use" /\ ~wipe
    /\ found' = IF fat = "live" THEN Present ELSE {}
    /\ Goes("sd", "unmount")
    /\ CheckKeeps /\ UNCHANGED <<files, left>>

\* backup_wipe_files: each file is overwritten, if it can be opened, and then
\* deleted, if it can be.
WipeBegin ==
    /\ pc["sd"] = "use" /\ wipe
    /\ left' = found /\ Goes("sd", "wipe")
    /\ CheckKeeps /\ UNCHANGED <<files, found>>

File == CHOOSE n \in left : TRUE

WipeZeros ==
    /\ pc["sd"] = "wipe" /\ left # {}
    /\ fat = "live" /\ files[File] \notin {Absent, Zeros}
    /\ files' = [files EXCEPT ![File] = Zeros]
    /\ CheckKeeps /\ UNCHANGED <<pc, left, found>>

WipeDelete ==
    /\ pc["sd"] = "wipe" /\ left # {}
    /\ \/ fat = "live" /\ files' = [files EXCEPT ![File] = Absent]
       \/ UNCHANGED files
    /\ left' = left \ {File}
    /\ CheckKeeps /\ UNCHANGED <<pc, found>>

WipeEnd ==
    /\ pc["sd"] = "wipe" /\ left = {}
    /\ Goes("sd", "unmount")
    /\ CheckKeeps /\ UNCHANGED <<files, left, found>>

\* s_wipe, s_paths and the names on the screen mean nothing until the next scan.
Forgotten == wipe' = FALSE /\ found' = {} /\ left' = {} /\ shown' = {}

\* start(): refused while a job runs.
StartCheck(forWipe) == ~Busy("sd") /\ wipe' = forWipe /\ Goes("sd", "mount")

\* sd_check_on_unlock: not if it is disabled, or an hour has not passed since
\* the last, or the task cannot be created.
MayScan == StartCheck(FALSE) \/ UNCHANGED <<pc, wipe>>

\* Wrong on purpose: a lock leaves an open confirmation.
WatchKeepsDialog ==
    /\ UiFree /\ was # unlocked /\ was' = unlocked
    /\ IF unlocked THEN MayScan /\ UNCHANGED <<screen, confirm>>
       ELSE /\ screen' = (IF screen = "UsbDisk" THEN screen ELSE "Pin")
            /\ UNCHANGED <<confirm, pc, wipe>>
    /\ Crosses("relist", ~unlocked /\ screen \in {"Pin", "UsbDisk"} /\ confirm = "wipe")
    /\ UNCHANGED <<card, driver, backup, found, left, unlocked, shown, bounds>>

\* The turn of the UI loop that sees an edge: a lock drops the confirmation
\* and opens the PIN screen, unless that screen or USB disk mode is open; an
\* unlock starts a scan, if it is due.
Watch ==
    /\ UiFree /\ was # unlocked /\ was' = unlocked
    /\ IF unlocked THEN MayScan /\ UNCHANGED <<screen, confirm>>
       ELSE /\ IF screen \in {"Pin", "UsbDisk"} THEN UNCHANGED <<screen, confirm>>
               ELSE screen' = "Pin" /\ confirm' = "none"
            /\ UNCHANGED <<pc, wipe>>
    /\ Crosses("relist", ~unlocked /\ screen \in {"Pin", "UsbDisk"} /\ confirm = "wipe")
    /\ UNCHANGED <<card, driver, backup, found, left, unlocked, shown, bounds>>

\* sd_check_poll: the end of a job; of a scan that found files while the
\* store is unlocked and no confirmation is open, the question.
CheckPoll ==
    /\ UiFree /\ pc["sd"] = "done"
    /\ Goes("sd", "none")
    /\ IF ~wipe /\ found # {} /\ unlocked /\ confirm = "none"
       THEN confirm' = "wipe" /\ shown' = found /\ Crosses("relist", ~was) /\ UNCHANGED check
       ELSE /\ IF confirm = "wipe" THEN UNCHANGED <<check, shown>> ELSE Forgotten
            /\ UNCHANGED <<confirm, crossed>>
    /\ UNCHANGED <<card, driver, backup, unlocked, was, screen, bounds>>

\* The answer to the question: "Delete", which a busy worker or a task that
\* cannot be created drops, or "Cancel".
Answer ==
    /\ UiFree /\ confirm = "wipe" /\ confirm' = "none"
    /\ \/ StartCheck(TRUE) /\ UNCHANGED <<found, left, shown>>
       \/ IF Busy("sd") THEN UNCHANGED <<check, pc, shown>> ELSE Forgotten /\ UNCHANGED pc
    /\ UNCHANGED <<card, driver, backup, unlocked, was, screen, bounds, crossed>>

-----------------------------------------------------------------------------
(***************************************************************************)
(* The user, the console and the card's own life.                          *)
(***************************************************************************)
UiKeeps == UNCHANGED <<card, driver, backup, check, was, shown, bounds, crossed>>

\* "Backup" stands for every screen of an unlocked store; a busy one is not
\* left, and the PIN screen also serves the change of the PIN.
Navigate ==
    /\ UiFree /\ confirm = "none" /\ UNCHANGED <<pc, confirm>> /\ UiKeeps
    /\ \/ screen = "Pin" /\ unlocked' = TRUE /\ screen' = "Backup"
       \/ screen = "Backup" /\ ~Busy("bk") /\ screen' = "Pin" /\ UNCHANGED unlocked

\* Auto-lock and "Lock now" of the UI task; store lock and unlock of the
\* console, until USB takes it away.
LockChanges ==
    /\ \/ UiFree /\ screen # "Pin" /\ unlocked' = FALSE
       \/ ~usbUp /\ unlocked' \in BOOLEAN
    /\ UNCHANGED <<pc, screen, confirm>> /\ UiKeeps

\* USB disk mode is chosen and confirmed on the Backup screen while no backup
\* job runs; its own screen locks the store and starts it.
StartUsb ==
    /\ UiFree /\ screen = "Backup" /\ confirm = "none" /\ ~Busy("bk")
    /\ screen' = "UsbDisk" /\ unlocked' = FALSE /\ Goes("ui", "unmount")
    /\ UNCHANGED confirm /\ UiKeeps

Fault == faults < MaxFaults /\ faults' = faults + 1
OutsideKeeps == UNCHANGED <<pc, backup, check, ui, jobs>>

Pull ==
    /\ Fault /\ inSlot /\ inSlot' = FALSE /\ fat' = Pulsed
    /\ OutsideKeeps /\ UNCHANGED <<files, mounted, handle, host, raw, usbUp, crossed>>

\* The card, or another one, is put in.
Insert ==
    /\ ~inSlot /\ inSlot' = TRUE
    /\ files' \in {files} \cup Fresh
    /\ Crosses("pc", files' # files /\ \E w \in Exporters : Busy(w))
    /\ OutsideKeeps /\ UNCHANGED <<driver, faults>>

\* The PC changes a file in USB disk mode.
PcEdits ==
    /\ Fault /\ usbUp /\ inSlot
    /\ \E n \in Names :
          \E c \in {Absent} \cup (IF n \in Leftovers THEN {Plain} ELSE Data) :
             files[n] # c /\ files' = [files EXCEPT ![n] = c]
    /\ Crosses("pc", fat = "live" \/ \E w \in Exporters : Busy(w))
    /\ OutsideKeeps /\ UNCHANGED <<inSlot, driver>>

\* A restart: a power cut, a sleep, or the end of USB disk mode.
Restart ==
    /\ Fault /\ Booted /\ crossed' = crossed \ {"driver", "relist"}
    /\ UNCHANGED <<card, jobs>>

WorkerStep(w) ==
    \/ MountCheck(w) \/ MountInit(w) \/ MountDone(w) \/ UnmountCall(w) \/ UnmountFlag(w)
    \/ /\ w \in Exporters
       /\ \/ Seal(w) \/ Reads(w) \/ PickName(w) \/ Open(w) \/ Write(w)
          \/ Rename(w) \/ Undo(w) \/ JobEnds(w)
    \/ /\ w = "sd"
       /\ Scan \/ WipeBegin \/ WipeZeros \/ WipeDelete \/ WipeEnd
UsbStep == UnmountCall("ui") \/ UnmountFlag("ui") \/ RawCheck \/ RawOpen \/ Install

Next ==
    \/ \E w \in Workers : WorkerStep(w)
    \/ \E w \in Exporters : StartJob(w)
    \/ UsbStep \/ Watch \/ CheckPoll \/ Answer
    \/ Navigate \/ LockChanges \/ StartUsb
    \/ Pull \/ Insert \/ PcEdits \/ Restart

Spec == Init /\ [][Next]_vars

-----------------------------------------------------------------------------
(***************************************************************************)
(* Properties                                                              *)
(***************************************************************************)
Steps == {"none", "seal", "mount", "pulse", "init", "use", "open", "write", "rename",
          "undo", "wipe", "unmount", "unflag", "done", "raw", "open_raw", "install"}

TypeCard == files \in [Names -> Contents] /\ inSlot \in BOOLEAN
TypeDriver ==
    /\ mounted \in BOOLEAN /\ handle \in BOOLEAN /\ host \in BOOLEAN
    /\ fat \in {"none", "live", "dead"} /\ raw \in BOOLEAN /\ usbUp \in BOOLEAN
TypeTasks == pc \in [Tasks -> Steps]
TypeBackup ==
    /\ fd \in [Exporters -> BOOLEAN] /\ data \in [Exporters -> Data \cup {Absent}]
    /\ name \in [Exporters -> Backups \cup {Tmp}]
    /\ err \in [Exporters -> {"none", "ok", "error"}]
TypeCheck == wipe \in BOOLEAN /\ found \subseteq Leftovers /\ left \subseteq Leftovers
TypeUi ==
    /\ unlocked \in BOOLEAN /\ was \in BOOLEAN
    /\ screen \in {"Pin", "Backup", "UsbDisk"}
    /\ confirm \in {"none", "wipe"} /\ shown \subseteq Leftovers
TypeBounds ==
    /\ jobs \in 0..MaxJobs /\ faults \in 0..MaxFaults
    /\ crossed \subseteq {"driver", "exports", "pc", "relist"}
TypeOK == TypeCard /\ TypeDriver /\ TypeTasks /\ TypeBackup /\ TypeCheck /\ TypeUi /\ TypeBounds

\* No finished backup is truncated, whatever was pulled, cut or refused in the
\* middle of an export (write_file's temporary file and rename).  Two exports
\* at once share MSF.TMP: NeverTruncated says what they do.
BackupsComplete == "exports" \notin crossed => \A n \in Backups : files[n] # Torn

\* An export that is reported as done has left the file it sealed under the
\* name it reports, unless a PC changed the card meanwhile.
ExportTold ==
    crossed \cap {"exports", "pc"} = {} =>
        \A w \in Exporters :
            pc[w] = "done" /\ err[w] = "ok" /\ data[w] # Absent => files[name[w]] = data[w]

\* Only files the user was shown and agreed to delete are wiped.  A question
\* on the PIN screen survives a lock, and the scan of the next unlock replaces
\* its list ("relist").
WipesShown == pc["sd"] = "wipe" /\ "relist" \notin crossed => left \subseteq shown

\* When no task uses the card it is not mounted, its host is released unless
\* USB disk mode holds it, and it can be taken out (sdcard.h), as long as no
\* two calls of the driver overlapped.
CardReleased ==
    "driver" \notin crossed /\ (\A t \in Tasks : pc[t] \in {"none", "seal", "mount", "done"}) =>
        fat = "none" /\ ~mounted /\ (host => raw)

\* The device has no file system mounted while a PC owns the card (usb_disk.c),
\* as long as no two calls of the driver overlapped.
PcOwnsAlone == usbUp /\ "driver" \notin crossed => fat # "live"

\* The device never changes or removes a backup it has finished: only a PC does.
BackupsKept ==
    [][\A n \in Backups : files[n] \in Data => files'[n] = files[n] \/ usbUp \/ ~inSlot]_vars

\* "A pulled card or a dead battery never leaves a truncated .msfx behind."
NeverTruncated == \A n \in Backups : files[n] # Torn

=============================================================================
