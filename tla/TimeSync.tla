------------------------------ MODULE TimeSync ------------------------------
(* The clock of the device: the system clock, the battery-backed RTC and the *)
(* history of the last three synchronisations, set by four tasks that share  *)
(* no lock: the manual tab (the UI's task), the console's settime, and the   *)
(* workers of the Wi-Fi and of the Bluetooth tab (time_service.c,            *)
(* wifi_time.c, ble_time.c, settings_store.c). A worker is kept single by    *)
(* its own s_busy only. All four end in the same commit: write the RTC on a  *)
(* second boundary, then push the entry with nine NVS writes.                *)
(*                                                                           *)
(* A time is the number of the synchronisation that measured it; 0 is a      *)
(* clock that is not set (or an RTC that has lost its supply), Late one      *)
(* loaded from an RTC that was not running.                                  *)
EXTENDS Naturals, FiniteSets

CONSTANTS Sources,    \* the tasks that synchronise
          MaxJobs,    \* synchronisations
          MaxFaults   \* bus errors, failed NVS writes and restarts

ASSUME SourcesAssumption == Sources \subseteq {"ui", "con", "wifi", "ble"}
ASSUME MaxJobsAssumption == MaxJobs \in Nat
ASSUME MaxFaultsAssumption == MaxFaults \in Nat

VARIABLES sys,      \* the system clock
          rtc,      \* the RTC: the time it counts from, whether it counts
          hist,     \* NVS: the last three synchronisations, newest first
          at,       \* where each task is
          job,      \* the synchronisation each task is in
          aim,      \* rtc_write_aligned's target
          epoch,    \* the time record_sync is given
          rtcOk,    \* whether the RTC was written
          step,     \* the write of the push each task is at, 1..9
          sntp,     \* the SNTP client of the Wi-Fi worker
          host,     \* the connection, in the NimBLE host's task
          opDone,   \* BIT_OP_DONE
          timeOk,   \* s_time_ok: the Bluetooth host has set the clock
          left,     \* the NimBLE stack runs on: nimble_port_stop failed
          shown,    \* the result each source shows
          started, faults,
          \* History variables.
          setBy,     \* the synchronisations that have set the clock
          before,    \* the history when the last push began
          disturbed  \* what has disturbed the clock since a sync last set it alone;
                     \* "unread" only until a boot reads the RTC

clocks == <<sys, rtc, hist>>
commit == <<aim, epoch, rtcOk, step>>
radios == <<sntp, host, opDone, timeOk, left>>
ghosts == <<setBy, before, disturbed>>
vars == <<clocks, at, job, commit, radios, shown, started, faults, ghosts>>

Late == MaxJobs + 1
Times == 0 .. Late
Fields == {"epoch", "delta", "source"}
Whole(j) == [f \in Fields |-> j]
CommitSteps == {"aim", "stop", "regs", "run", "push", "publish"}
WifiSteps == {"join", "sync", "down"}
BleSteps == {"link", "drain", "teardown", "decide"}

Init == /\ sys = 0
        /\ rtc = [time |-> 0, running |-> TRUE]
        /\ hist = [i \in 1 .. 3 |-> Whole(0)]
        /\ at = [t \in Sources |-> "idle"]
        /\ job = [t \in Sources |-> 0]
        /\ aim = [t \in Sources |-> 0] /\ epoch = [t \in Sources |-> 0]
        /\ rtcOk = [t \in Sources |-> FALSE] /\ step = [t \in Sources |-> 1]
        /\ sntp = "off" /\ host = "off" /\ opDone = FALSE /\ timeOk = FALSE /\ left = FALSE
        /\ shown = [t \in Sources |-> "none"]
        /\ started = 0 /\ faults = 0
        /\ setBy = {} /\ before = hist /\ disturbed = {}

-----------------------------------------------------------------------------
(* A task is committing from the moment its time is in the clock.            *)
Committing(t) == \/ at[t] \in CommitSteps
                 \/ t = "wifi" /\ at[t] = "sync" /\ sntp = "answered"
                 \/ t = "ble" /\ at[t] \in BleSteps /\ timeOk
Quiet == \A t \in Sources : ~Committing(t)

(* settimeofday() for synchronisation j of task t. A sync that sets the      *)
(* clock alone ends what disturbed it, unless its task has given up by then  *)
(* or refuses the time.                                                      *)
SetsClock(t, j, time, wanted) ==
    /\ sys' = time
    /\ setBy' = setBy \cup {j}
    /\ LET overlaps == \E u \in Sources \ {t} : Committing(u)
       IN disturbed' = IF overlaps THEN disturbed \cup {"overlap"}
                       ELSE IF wanted THEN {} ELSE disturbed \cup {"late"}
    /\ UNCHANGED before

GoesTo(t, where) == at' = [at EXCEPT ![t] = where]
Begins(t, where) ==
    /\ at[t] = "idle" /\ started < MaxJobs
    /\ started' = started + 1
    /\ job' = [job EXCEPT ![t] = started + 1]
    /\ shown' = [shown EXCEPT ![t] = "busy"]
    /\ GoesTo(t, where)
UiFree == "ui" \in Sources => at["ui"] = "idle"

(* The manual tab, and settime: the clock is set in the calling task.        *)
DirectSet(t) ==
    /\ t \in Sources \cap {"ui", "con"}
    /\ Begins(t, "aim")
    /\ SetsClock(t, started + 1, started + 1, TRUE)
    /\ UNCHANGED <<rtc, hist, commit, radios, faults>>

-----------------------------------------------------------------------------
(* The commit: rtc_write_aligned and settings_store_push_time_sync.          *)

Fails(why) == /\ faults < MaxFaults /\ faults' = faults + 1
              /\ disturbed' = disturbed \cup {why}
              /\ UNCHANGED <<setBy, before>>
Works == UNCHANGED <<faults, ghosts>>

(* An I2C transfer that fails ends rtc_write_aligned: the RTC keeps what it  *)
(* has, stopped or not, and the sync is recorded all the same.               *)
BusFails(t) == /\ at[t] \in {"stop", "regs", "run"}
               /\ Fails("bus")
               /\ rtcOk' = [rtcOk EXCEPT ![t] = FALSE]
               /\ GoesTo(t, "push")
               /\ UNCHANGED <<clocks, job, aim, epoch, step, radios, shown, started>>

Aim(t) == /\ at[t] = "aim"
          /\ aim' = [aim EXCEPT ![t] = sys]
          /\ epoch' = [epoch EXCEPT ![t] = IF t = "ui" THEN job[t] ELSE sys]
          /\ GoesTo(t, "stop") /\ Works
          /\ UNCHANGED <<clocks, job, rtcOk, step, radios, shown, started>>
Stop(t) == /\ at[t] = "stop"
           /\ rtc' = [rtc EXCEPT !.running = FALSE]
           /\ GoesTo(t, "regs") /\ Works
           /\ UNCHANGED <<sys, hist, job, commit, radios, shown, started>>
Regs(t) == /\ at[t] = "regs"
           /\ rtc' = [rtc EXCEPT !.time = aim[t]]
           /\ GoesTo(t, "run") /\ Works
           /\ UNCHANGED <<sys, hist, job, commit, radios, shown, started>>
(* Wrong on purpose: STOP is never cleared.                                  *)
RunLeavesStopped(t) == /\ at[t] = "run"
                       /\ rtcOk' = [rtcOk EXCEPT ![t] = TRUE]
                       /\ GoesTo(t, "push") /\ Works
                       /\ UNCHANGED <<clocks, job, aim, epoch, step, radios, shown, started>>

(* STOP is cleared when the system clock has reached the target: that is at  *)
(* once, or an hour later when another task has set the clock back by an     *)
(* hour, but never while a bogus answer keeps the clock years behind it.     *)
Reached(t) == sys = 0 => aim[t] = 0
Run(t) == /\ at[t] = "run" /\ Reached(t)
          /\ rtc' = [rtc EXCEPT !.running = TRUE]
          /\ rtcOk' = [rtcOk EXCEPT ![t] = TRUE]
          /\ GoesTo(t, "push") /\ Works
          /\ UNCHANGED <<sys, hist, job, aim, epoch, step, radios, shown, started>>

(* Write k of the push: entry 3 from entry 2, 2 from 1, then the new one;    *)
(* each entry is three settings, and no write is checked.                    *)
(* Wrong on purpose: the shift goes upwards, over the entry it moves next.   *)
TargetUp(k) == IF k <= 6 THEN 2 + (k - 1) \div 3 ELSE 1
Target(k) == 3 - (k - 1) \div 3
Field(k) == CASE k % 3 = 1 -> "epoch" [] k % 3 = 2 -> "delta" [] OTHER -> "source"
NewEntry(t) == [epoch |-> epoch[t], delta |-> job[t], source |-> job[t]]
Shifted(t, k) == LET i == Target(k)
                     f == Field(k)
                 IN [hist EXCEPT ![i][f] = IF i > 1 THEN hist[i - 1][f] ELSE NewEntry(t)[f]]
Push(t) == /\ at[t] = "push"
           /\ \/ /\ hist' = Shifted(t, step[t])
                 /\ before' = IF step[t] = 1 THEN hist ELSE before
                 /\ UNCHANGED <<faults, setBy, disturbed>>
              \/ Fails("nvs") /\ UNCHANGED hist
           /\ step' = [step EXCEPT ![t] = (@ % 9) + 1]
           /\ GoesTo(t, IF step[t] = 9 THEN "publish" ELSE "push")
           /\ UNCHANGED <<sys, rtc, job, aim, epoch, rtcOk, radios, shown, started>>

Publish(t) == /\ at[t] = "publish"
              /\ shown' = [shown EXCEPT ![t] = IF rtcOk[t] THEN "ok" ELSE "no rtc"]
              /\ GoesTo(t, IF t = "wifi" THEN "down" ELSE "idle") /\ Works
              /\ aim' = [aim EXCEPT ![t] = 0] /\ epoch' = [epoch EXCEPT ![t] = 0]
              /\ rtcOk' = [rtcOk EXCEPT ![t] = FALSE]
              /\ UNCHANGED <<clocks, job, step, radios, started>>

Commit(t) == Aim(t) \/ Stop(t) \/ Regs(t) \/ Run(t) \/ Push(t) \/ Publish(t)

-----------------------------------------------------------------------------
(* The Wi-Fi worker. s_busy, taken by compare-and-swap, is its not being     *)
(* idle. The SNTP client sets the clock in lwIP's task, whenever the answer  *)
(* comes, until esp_netif_sntp_deinit.                                       *)

WifiStart == /\ "wifi" \in Sources /\ UiFree
             /\ Begins("wifi", "join")
             /\ Works /\ UNCHANGED <<clocks, commit, radios>>
WifiStep(from, to) == /\ "wifi" \in Sources /\ at["wifi"] = from
                      /\ GoesTo("wifi", to) /\ Works
                      /\ UNCHANGED <<clocks, job, commit, host, opDone, timeOk, left, started>>
(* Radio, association, password, address or SNTP client: no, or not in time. *)
WifiJoinFails == WifiStep("join", "down") /\ UNCHANGED <<sntp, shown>>
WifiJoined == WifiStep("join", "sync") /\ sntp' = "on" /\ UNCHANGED shown
WifiTimeout == WifiStep("sync", "down") /\ sntp = "on" /\ UNCHANGED <<sntp, shown>>
WifiSynced == /\ sntp = "answered"
              /\ WifiStep("sync", IF sys # 0 THEN "aim" ELSE "down")
              /\ UNCHANGED <<sntp, shown>>
WifiDown == /\ WifiStep("down", "idle")
            /\ sntp' = "off"
            /\ shown' = [shown EXCEPT !["wifi"] = IF @ = "busy" THEN "failed" ELSE @]
(* The server's time, or one before 2024.                                    *)
SntpAnswer == \E time \in {job["wifi"], 0} :
    /\ sntp = "on"
    /\ sntp' = "answered"
    /\ SetsClock("wifi", job["wifi"], time, at["wifi"] = "sync" /\ time # 0)
    /\ UNCHANGED <<rtc, hist, at, job, commit, host, opDone, timeOk, left, shown, started, faults>>
WifiWorker == WifiJoinFails \/ WifiJoined \/ WifiTimeout \/ WifiSynced \/ WifiDown

-----------------------------------------------------------------------------
(* The Bluetooth worker waits for the host's bits; the host connects,        *)
(* discovers the service, reads the current time, then the local time        *)
(* information when the peer has it, and sets the clock at that instant. A   *)
(* stack that was not stopped cannot be started again.                       *)

BleStart == /\ "ble" \in Sources /\ UiFree
            /\ \/ ~left /\ Begins("ble", "link") /\ host' = "linking"
               \/ left /\ Begins("ble", "decide") /\ UNCHANGED host
            /\ opDone' = FALSE /\ timeOk' = FALSE
            /\ Works /\ UNCHANGED <<clocks, commit, sntp, left>>
BleStep(from, to) == /\ "ble" \in Sources /\ at["ble"] = from
                     /\ GoesTo("ble", to)
                     /\ UNCHANGED <<clocks, job, commit, sntp, opDone, timeOk, started>>
(* The stack does not start and is gone, or does not sync in 5 s.            *)
BleStartFails == /\ host = "linking"
                 /\ \/ BleStep("link", "decide") /\ host' = "off"
                    \/ BleStep("link", "teardown") /\ host' = "ended"
                 /\ Works /\ UNCHANGED <<left, shown>>
BleOpDone == /\ BleStep("link", "drain") /\ opDone
             /\ Works /\ UNCHANGED <<host, left, shown>>
(* Wrong on purpose: the wait for BIT_OP_DONE has no timeout.                *)
BleNoTimeout == BleOpDone
BleTimeout == /\ BleStep("link", "drain") /\ ~opDone
              /\ Works /\ UNCHANGED <<host, left, shown>>
(* Wrong on purpose: the result is read while the host still runs.           *)
BleDrainedReads == BleStep("drain", "decide") /\ Works /\ UNCHANGED <<host, left, shown>>
(* BIT_DISCONNECTED, or 3 s; ble_stop ends the host's task before the result *)
(* is read.                                                                  *)
BleDrained == BleStep("drain", "teardown") /\ Works /\ UNCHANGED <<host, left, shown>>
BleStop == BleStep("teardown", "decide") /\ host' = "off" /\ Works /\ UNCHANGED <<left, shown>>
(* nimble_port_stop fails: the host runs on, and so does the stack.          *)
BleStopFails == /\ BleStep("teardown", "decide") /\ left' = TRUE
                /\ faults < MaxFaults /\ faults' = faults + 1
                /\ UNCHANGED <<host, shown, ghosts>>
BleDecide == /\ BleStep("decide", IF timeOk THEN "aim" ELSE "idle")
             /\ shown' = [shown EXCEPT !["ble"] = IF timeOk THEN @ ELSE "failed"]
             /\ Works /\ UNCHANGED <<host, left>>
BleWorker == \/ BleStartFails \/ BleOpDone \/ BleTimeout
             \/ BleDrained \/ BleStop \/ BleStopFails \/ BleDecide

HostUnchanged == UNCHANGED <<rtc, hist, at, job, commit, sntp, left, shown, started, faults>>
(* A connection, a discovery or a first read that succeeds.                  *)
HostStep(from, to) == /\ host = from /\ host' = to
                      /\ HostUnchanged /\ UNCHANGED <<sys, opDone, timeOk, ghosts>>
(* finish_op with a failure, or the link lost: no further read is made. A    *)
(* read the peer refuses is none of these: read_cb drops it and nobody is    *)
(* told.                                                                     *)
HostFails == /\ host \in {"linking", "linked", "reading", "local"}
             /\ host' = "ended" /\ opDone' = TRUE
             /\ HostUnchanged /\ UNCHANGED <<sys, timeOk, ghosts>>
HostApplies == /\ host \in {"reading", "local"}
               /\ host' = "ended" /\ opDone' = TRUE /\ timeOk' = TRUE
               /\ SetsClock("ble", job["ble"], job["ble"], at["ble"] \in BleSteps)
               /\ HostUnchanged
BleHost == \/ HostStep("linking", "linked") \/ HostStep("linked", "reading")
           \/ HostStep("reading", "local") \/ HostFails \/ HostApplies

-----------------------------------------------------------------------------
(* Deep sleep, a reset or a lost supply; then time_service_init sets the     *)
(* clock to an RTC that it can read and whose date is valid, and nothing     *)
(* clears the STOP bit. Otherwise the clock is what the reset left of it:    *)
(* not set, or as it was (a deep sleep).                                     *)
AsReset == {0, sys}
Loaded == IF rtc.time = 0 THEN AsReset ELSE {IF rtc.running THEN rtc.time ELSE Late}
Boots == LET sofar == IF Quiet THEN disturbed ELSE disturbed \cup {"cut"}
         IN \/ /\ sys' \in Loaded /\ UNCHANGED rtc
               /\ disturbed' = sofar \ {"unread"}
            \* The transfer fails.
            \/ /\ sys' \in AsReset /\ UNCHANGED rtc
               /\ disturbed' = sofar \cup {"unread"}
            \* The RTC has lost its supply and with it the time (its VL bit is set).
            \/ /\ sys' \in AsReset /\ rtc' = [time |-> 0, running |-> TRUE]
               /\ disturbed' = sofar \cup {"drained"}
Restart == /\ faults < MaxFaults /\ faults' = faults + 1
           /\ Boots
           /\ at' = [t \in Sources |-> "idle"] /\ job' = [t \in Sources |-> 0]
           /\ aim' = [t \in Sources |-> 0] /\ epoch' = [t \in Sources |-> 0]
           /\ rtcOk' = [t \in Sources |-> FALSE] /\ step' = [t \in Sources |-> 1]
           /\ sntp' = "off" /\ host' = "off" /\ opDone' = FALSE /\ timeOk' = FALSE /\ left' = FALSE
           /\ shown' = [t \in Sources |-> "none"]
           /\ UNCHANGED <<hist, started, setBy, before>>

Worker(t) == Commit(t) \/ (t = "wifi" /\ WifiWorker) \/ (t = "ble" /\ BleWorker)
Next == \/ \E t \in Sources : DirectSet(t) \/ Commit(t) \/ BusFails(t)
        \/ WifiStart \/ WifiWorker \/ SntpAnswer
        \/ BleStart \/ BleWorker \/ BleHost
        \/ Restart
(* Every task runs on; nothing is promised of the network or of the phone.   *)
Spec == Init /\ [][Next]_vars /\ \A t \in Sources : WF_vars(Worker(t))

-----------------------------------------------------------------------------
Where == {"idle"} \cup CommitSteps \cup WifiSteps \cup BleSteps
Results == {"none", "busy", "ok", "no rtc", "failed"}
Disturbances == {"overlap", "late", "bus", "nvs", "cut", "unread", "drained"}
TypeClock == /\ sys \in Times /\ rtc \in [time : Times, running : BOOLEAN]
             /\ hist \in [1 .. 3 -> [Fields -> Times]] /\ before \in [1 .. 3 -> [Fields -> Times]]
             /\ setBy \subseteq 1 .. MaxJobs /\ disturbed \subseteq Disturbances
TypeTasks == at \in [Sources -> Where]
TypeJobs == /\ job \in [Sources -> 0 .. MaxJobs] /\ shown \in [Sources -> Results]
            /\ started \in 0 .. MaxJobs /\ faults \in 0 .. MaxFaults
TypeCommit == /\ aim \in [Sources -> Times] /\ epoch \in [Sources -> Times]
              /\ rtcOk \in [Sources -> BOOLEAN] /\ step \in [Sources -> 1 .. 9]
TypeRadio == /\ sntp \in {"off", "on", "answered"}
             /\ host \in {"off", "linking", "linked", "reading", "local", "ended"}
             /\ opDone \in BOOLEAN /\ timeOk \in BOOLEAN /\ left \in BOOLEAN
TypeOK == TypeClock /\ TypeTasks /\ TypeJobs /\ TypeCommit /\ TypeRadio

(* Once a synchronisation has set the clock alone, and no overlap, late      *)
(* answer, failed transfer, failed setting, cut commit or lost RTC supply    *)
(* has come since, the RTC counts the system clock's time whenever no commit *)
(* is under way, and every boot that reads it comes back with that time,     *)
(* after any number of boots that could not read it and left the clock       *)
(* unset: whatever came before (rtc_write_aligned, time_service_init).       *)
ClockKept == disturbed \subseteq {"unread"} /\ Quiet =>
                /\ rtc.running
                /\ sys = rtc.time \/ ("unread" \in disturbed /\ sys = 0)

(* Then the newest entry is that synchronisation, its time, offset and       *)
(* source together, as the RTC has it, and the two older ones are the ones   *)
(* that were before it, in order (record_sync, settings_store's push).       *)
HistoryKept == disturbed \subseteq {"unread"} /\ Quiet /\ rtc.time # 0 =>
                  hist = <<Whole(rtc.time), before[1], before[2]>>

(* The Bluetooth tab says it failed only of a synchronisation that left the  *)
(* clock alone, and never will touch it; a success is one that set it        *)
(* (ble_time.c's sync_task, whose host's task may answer after the timeout). *)
(* Not so once nimble_port_stop has failed and left the host running.        *)
BleTold == "ble" \in Sources /\ at["ble"] = "idle" /\ ~left =>
              (shown["ble"] = "failed" => job["ble"] \notin setBy)
              /\ (shown["ble"] \in {"ok", "no rtc"} => job["ble"] \in setBy)

(* A synchronisation ends, and its tab leaves "busy", although the network   *)
(* or the phone never answers, drops the link or refuses a read; unless its  *)
(* commit waits for good for a clock that a bogus SNTP answer has put back   *)
(* by years (rtc_write_aligned says it blocks 1-2 s).                        *)
SyncEnds == \A t \in Sources : \/ <>[](at[t] = "run" /\ ~Reached(t))
                               \/ at[t] # "idle" ~> at[t] = "idle"
=============================================================================
