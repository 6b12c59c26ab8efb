--------------------------- MODULE TimeSyncProofs ---------------------------
(* Theorems about TimeSync: its type invariant, that the RTC keeps the clock *)
(* of the last synchronisation, what the Bluetooth tab tells and the history *)
(* keeps, for any set of tasks, number of synchronisations and of faults.    *)
EXTENDS TimeSync, TLAPS

-----------------------------------------------------------------------------
(* The inductive invariant. The radios act only under their worker; while    *)
(* nothing disturbs the clock one task at most is committing, and what it    *)
(* has put in the RTC so far is the system clock's time; after a boot that   *)
(* could not read the RTC none is, and the RTC still counts.                 *)
RadioOwned ==
    /\ sntp = "on" => "wifi" \in Sources /\ at["wifi"] \in {"sync", "down"}
    /\ host # "off" => /\ "ble" \in Sources /\ job["ble"] \in 1 .. MaxJobs
                       /\ ~left => at["ble"] \in {"link", "drain", "teardown"}
    /\ \A t \in Sources : at[t] # "idle" => job[t] \in 1 .. MaxJobs
OwnSteps == \A t \in Sources : /\ at[t] \in WifiSteps => t = "wifi"
                               /\ at[t] \in BleSteps => t = "ble"
OneCommits == \A t, u \in Sources : Committing(t) /\ Committing(u) => t = u
Progress(t) ==
    /\ at[t] \in {"stop", "regs", "run"} => aim[t] = sys
    /\ at[t] = "run" => rtc.time = sys
    /\ at[t] \in {"push", "publish"} => rtc = [time |-> sys, running |-> TRUE]
    /\ t = "wifi" /\ at[t] = "sync" /\ sntp = "answered" => sys # 0
Undisturbed == /\ OneCommits
               /\ \A t \in Sources : Progress(t)
               /\ Quiet => rtc = [time |-> sys, running |-> TRUE]
Unread == Quiet /\ rtc.running /\ sys \in {0, rtc.time}
ClockInv == /\ TypeOK /\ RadioOwned /\ OwnSteps
            /\ disturbed = {} => Undisturbed
            /\ disturbed = {"unread"} => Unread

Owned == TypeOK /\ RadioOwned /\ OwnSteps

(* The write of a push stays in the three entries.                           *)
LEMMA ShiftType ==
    ASSUME TypeOK, NEW t \in Sources, NEW k \in 1 .. 9
    PROVE  Shifted(t, k) \in [1 .. 3 -> [Fields -> Times]]
<1> DEFINE i == Target(k)
           f == Field(k)
<1>1. i \in 1 .. 3  BY DEF Target
<1>2. f \in Fields  BY DEF Field, Fields
<1>3. i > 1 => hist[i - 1][f] \in Times
  <2>1. i > 1 => i - 1 \in 1 .. 3  BY <1>1
  <2>2. QED  BY <1>2, <2>1 DEF TypeOK, TypeClock
<1>4. NewEntry(t)[f] \in Times  BY <1>2, MaxJobsAssumption DEF NewEntry, Fields, TypeOK, TypeCommit, TypeJobs, Times, Late
<1> DEFINE new == IF i > 1 THEN hist[i - 1][f] ELSE NewEntry(t)[f]
<1>5. new \in Times  BY <1>3, <1>4
<1>6. Shifted(t, k) = [hist EXCEPT ![i] = [@ EXCEPT ![f] = new]]  BY DEF Shifted
<1>7. hist \in [1 .. 3 -> [Fields -> Times]]  BY DEF TypeOK, TypeClock
<1> HIDE DEF i, f, new
<1>8. QED  BY <1>1, <1>2, <1>5, <1>6, <1>7

LEMMA ZeroTime == 0 \in Times
BY MaxJobsAssumption DEF Times, Late

LEMMA OwnedInit == Init => Owned
<1> SUFFICES ASSUME Init PROVE Owned  OBVIOUS
<1> USE SourcesAssumption, MaxJobsAssumption, MaxFaultsAssumption DEF Init
<1>1. TypeClock   BY DEF TypeClock, Times, Late, Fields, Whole
<1>2. TypeTasks   BY DEF TypeTasks, Where
<1>3. TypeJobs    BY DEF TypeJobs, Results
<1>4. TypeCommit  BY DEF TypeCommit, Times, Late
<1>5. TypeRadio   BY DEF TypeRadio
<1>6. RadioOwned /\ OwnSteps  BY DEF RadioOwned, OwnSteps, WifiSteps, BleSteps
<1>7. QED  BY <1>1, <1>2, <1>3, <1>4, <1>5, <1>6 DEF Owned, TypeOK

LEMMA OwnedCommit ==
    ASSUME Owned, NEW t \in Sources, Commit(t) \/ BusFails(t) \/ DirectSet(t)
    PROVE  Owned'
<1> USE SourcesAssumption, MaxJobsAssumption, MaxFaultsAssumption
        DEF Owned, TypeOK, TypeClock, TypeTasks, TypeJobs, TypeCommit, TypeRadio, RadioOwned, OwnSteps,
            clocks, commit, radios, ghosts, GoesTo, Works, Fails
<1>1. CASE DirectSet(t)
  <2> USE <1>1 DEF DirectSet, Begins, SetsClock
  <2>1. TypeClock'  BY DEF Times, Late, Disturbances
  <2>2. TypeTasks'  BY DEF Where, CommitSteps, WifiSteps, BleSteps
  <2>3. TypeJobs'
    <3>1. job' \in [Sources -> 0 .. MaxJobs]  OBVIOUS
    <3>2. shown' \in [Sources -> Results]  BY DEF Results
    <3>3. started' \in 0 .. MaxJobs /\ faults' \in 0 .. MaxFaults  OBVIOUS
    <3>4. QED  BY <3>1, <3>2, <3>3
  <2>4. TypeCommit'  BY DEF Times, Late
  <2>5. TypeRadio'  OBVIOUS
  <2>6. RadioOwned'  BY DEF Where, CommitSteps, WifiSteps, BleSteps
  <2>7. OwnSteps'  BY DEF Where, CommitSteps, WifiSteps, BleSteps
  <2>8. QED  BY <2>1, <2>2, <2>3, <2>4, <2>5, <2>6, <2>7
<1>2. CASE Aim(t)
  <2> USE <1>2 DEF Aim
  <2>1. TypeClock'  BY DEF Times, Late, Disturbances
  <2>2. TypeTasks'  BY DEF Where, CommitSteps, WifiSteps, BleSteps
  <2>3. TypeJobs'  BY DEF Results
  <2>4. TypeCommit'  BY DEF Times, Late
  <2>5. TypeRadio'  OBVIOUS
  <2>6. RadioOwned'  BY DEF Where, CommitSteps, WifiSteps, BleSteps
  <2>7. OwnSteps'  BY DEF Where, CommitSteps, WifiSteps, BleSteps
  <2>8. QED  BY <2>1, <2>2, <2>3, <2>4, <2>5, <2>6, <2>7
<1>3. CASE Stop(t)
  <2> USE <1>3 DEF Stop
  <2>1. TypeClock'  BY DEF Times, Late, Disturbances
  <2>2. TypeTasks'  BY DEF Where, CommitSteps, WifiSteps, BleSteps
  <2>3. TypeJobs'  BY DEF Results
  <2>4. TypeCommit'  BY DEF Times, Late
  <2>5. TypeRadio'  OBVIOUS
  <2>6. RadioOwned'  BY DEF Where, CommitSteps, WifiSteps, BleSteps
  <2>7. OwnSteps'  BY DEF Where, CommitSteps, WifiSteps, BleSteps
  <2>8. QED  BY <2>1, <2>2, <2>3, <2>4, <2>5, <2>6, <2>7
<1>4. CASE Regs(t)
  <2> USE <1>4 DEF Regs
  <2>1. TypeClock'  BY DEF Times, Late, Disturbances
  <2>2. TypeTasks'  BY DEF Where, CommitSteps, WifiSteps, BleSteps
  <2>3. TypeJobs'  BY DEF Results
  <2>4. TypeCommit'  BY DEF Times, Late
  <2>5. TypeRadio'  OBVIOUS
  <2>6. RadioOwned'  BY DEF Where, CommitSteps, WifiSteps, BleSteps
  <2>7. OwnSteps'  BY DEF Where, CommitSteps, WifiSteps, BleSteps
  <2>8. QED  BY <2>1, <2>2, <2>3, <2>4, <2>5, <2>6, <2>7
<1>5. CASE Run(t)
  <2> USE <1>5 DEF Run
  <2>1. TypeClock'  BY DEF Times, Late, Disturbances
  <2>2. TypeTasks'  BY DEF Where, CommitSteps, WifiSteps, BleSteps
  <2>3. TypeJobs'  BY DEF Results
  <2>4. TypeCommit'  BY DEF Times, Late
  <2>5. TypeRadio'  OBVIOUS
  <2>6. RadioOwned'  BY DEF Where, CommitSteps, WifiSteps, BleSteps
  <2>7. OwnSteps'  BY DEF Where, CommitSteps, WifiSteps, BleSteps
  <2>8. QED  BY <2>1, <2>2, <2>3, <2>4, <2>5, <2>6, <2>7
<1>6. CASE Push(t)
  <2> USE <1>6 DEF Push
  <2>1. TypeClock'
    <3>1. step[t] \in 1 .. 9  OBVIOUS
    <3>2. Shifted(t, step[t]) \in [1 .. 3 -> [Fields -> Times]]  BY <3>1, ShiftType
    <3>3. hist' \in [1 .. 3 -> [Fields -> Times]] /\ before' \in [1 .. 3 -> [Fields -> Times]]  BY <3>2
    <3>4. disturbed' \subseteq Disturbances /\ setBy' \subseteq 1 .. MaxJobs  BY DEF Disturbances
    <3>5. QED  BY <3>3, <3>4
  <2>2. TypeTasks'  BY DEF Where, CommitSteps, WifiSteps, BleSteps
  <2>3. TypeJobs'
    <3>1. job' \in [Sources -> 0 .. MaxJobs]  OBVIOUS
    <3>2. shown' \in [Sources -> Results]  BY DEF Results
    <3>3. started' \in 0 .. MaxJobs /\ faults' \in 0 .. MaxFaults  OBVIOUS
    <3>4. QED  BY <3>1, <3>2, <3>3
  <2>4. TypeCommit'
    <3>1. (step[t] % 9) + 1 \in 1 .. 9  OBVIOUS
    <3>2. QED  BY <3>1 DEF Times, Late
  <2>5. TypeRadio'  OBVIOUS
  <2>6. RadioOwned'  BY DEF Where, CommitSteps, WifiSteps, BleSteps
  <2>7. OwnSteps'  BY DEF Where, CommitSteps, WifiSteps, BleSteps
  <2>8. QED  BY <2>1, <2>2, <2>3, <2>4, <2>5, <2>6, <2>7
<1>7. CASE Publish(t)
  <2> USE <1>7 DEF Publish
  <2>1. TypeClock'  BY DEF Times, Late, Disturbances
  <2>2. TypeTasks'  BY DEF Where, CommitSteps, WifiSteps, BleSteps
  <2>3. TypeJobs'  BY DEF Results
  <2>4. TypeCommit'
    <3>1. aim' \in [Sources -> Times] /\ epoch' \in [Sources -> Times]  BY ZeroTime
    <3>2. rtcOk' \in [Sources -> BOOLEAN]  OBVIOUS
    <3>3. step' \in [Sources -> 1 .. 9]  OBVIOUS
    <3>4. QED  BY <3>1, <3>2, <3>3
  <2>5. TypeRadio'  OBVIOUS
  <2>6. RadioOwned'  BY ZenonT(60) DEF Where, CommitSteps, WifiSteps, BleSteps
  <2>7. OwnSteps'  BY DEF Where, CommitSteps, WifiSteps, BleSteps
  <2>8. QED  BY <2>1, <2>2, <2>3, <2>4, <2>5, <2>6, <2>7
<1>8. CASE BusFails(t)
  <2> USE <1>8 DEF BusFails
  <2>1. TypeClock'  BY DEF Times, Late, Disturbances
  <2>2. TypeTasks'  BY DEF Where, CommitSteps, WifiSteps, BleSteps
  <2>3. TypeJobs'
    <3>1. job' \in [Sources -> 0 .. MaxJobs]  OBVIOUS
    <3>2. shown' \in [Sources -> Results]  BY DEF Results
    <3>3. started' \in 0 .. MaxJobs /\ faults' \in 0 .. MaxFaults  OBVIOUS
    <3>4. QED  BY <3>1, <3>2, <3>3
  <2>4. TypeCommit'  BY DEF Times, Late
  <2>5. TypeRadio'  OBVIOUS
  <2>6. RadioOwned'  BY DEF Where, CommitSteps, WifiSteps, BleSteps
  <2>7. OwnSteps'  BY DEF Where, CommitSteps, WifiSteps, BleSteps
  <2>8. QED  BY <2>1, <2>2, <2>3, <2>4, <2>5, <2>6, <2>7
<1>9. QED  BY <1>1, <1>2, <1>3, <1>4, <1>5, <1>6, <1>7, <1>8 DEF Commit

LEMMA OwnedWifi ==
    ASSUME Owned, WifiStart \/ WifiWorker \/ SntpAnswer
    PROVE  Owned'
<1> USE SourcesAssumption, MaxJobsAssumption, MaxFaultsAssumption
        DEF Owned, TypeOK, TypeClock, TypeTasks, TypeJobs, TypeCommit, TypeRadio, RadioOwned, OwnSteps,
            clocks, commit, radios, ghosts, GoesTo, Works, WifiStep
<1>1. CASE WifiStart
  <2> USE <1>1 DEF WifiStart, Begins
  <2>1. TypeClock'  BY DEF Times, Late, Disturbances
  <2>2. TypeTasks'  BY DEF Where, CommitSteps, WifiSteps, BleSteps
  <2>3. TypeJobs'
    <3>1. job' \in [Sources -> 0 .. MaxJobs]  OBVIOUS
    <3>2. shown' \in [Sources -> Results]  BY DEF Results
    <3>3. started' \in 0 .. MaxJobs /\ faults' \in 0 .. MaxFaults  OBVIOUS
    <3>4. QED  BY <3>1, <3>2, <3>3
  <2>4. TypeCommit'  BY DEF Times, Late
  <2>5. TypeRadio'  OBVIOUS
  <2>6. RadioOwned'  BY DEF Where, CommitSteps, WifiSteps, BleSteps
  <2>7. OwnSteps'  BY DEF Where, CommitSteps, WifiSteps, BleSteps
  <2>8. QED  BY <2>1, <2>2, <2>3, <2>4, <2>5, <2>6, <2>7
<1>2. CASE WifiJoinFails
  <2> USE <1>2 DEF WifiJoinFails
  <2>1. TypeClock'  BY DEF Times, Late, Disturbances
  <2>2. TypeTasks'  BY DEF Where, CommitSteps, WifiSteps, BleSteps
  <2>3. TypeJobs'  BY DEF Results
  <2>4. TypeCommit'  BY DEF Times, Late
  <2>5. TypeRadio'  OBVIOUS
  <2>6. RadioOwned'  BY DEF Where, CommitSteps, WifiSteps, BleSteps
  <2>7. OwnSteps'  BY DEF Where, CommitSteps, WifiSteps, BleSteps
  <2>8. QED  BY <2>1, <2>2, <2>3, <2>4, <2>5, <2>6, <2>7
<1>3. CASE WifiJoined
  <2> USE <1>3 DEF WifiJoined
  <2>1. TypeClock'  BY DEF Times, Late, Disturbances
  <2>2. TypeTasks'  BY DEF Where, CommitSteps, WifiSteps, BleSteps
  <2>3. TypeJobs'  BY DEF Results
  <2>4. TypeCommit'  BY DEF Times, Late
  <2>5. TypeRadio'  OBVIOUS
  <2>6. RadioOwned'  BY DEF Where, CommitSteps, WifiSteps, BleSteps
  <2>7. OwnSteps'  BY DEF Where, CommitSteps, WifiSteps, BleSteps
  <2>8. QED  BY <2>1, <2>2, <2>3, <2>4, <2>5, <2>6, <2>7
<1>4. CASE WifiTimeout
  <2> USE <1>4 DEF WifiTimeout
  <2>1. TypeClock'  BY DEF Times, Late, Disturbances
  <2>2. TypeTasks'  BY DEF Where, CommitSteps, WifiSteps, BleSteps
  <2>3. TypeJobs'  BY DEF Results
  <2>4. TypeCommit'  BY DEF Times, Late
  <2>5. TypeRadio'  OBVIOUS
  <2>6. RadioOwned'  BY DEF Where, CommitSteps, WifiSteps, BleSteps
  <2>7. OwnSteps'  BY DEF Where, CommitSteps, WifiSteps, BleSteps
  <2>8. QED  BY <2>1, <2>2, <2>3, <2>4, <2>5, <2>6, <2>7
<1>5. CASE WifiSynced
  <2> USE <1>5 DEF WifiSynced
  <2>1. TypeClock'  BY DEF Times, Late, Disturbances
  <2>2. TypeTasks'  BY DEF Where, CommitSteps, WifiSteps, BleSteps
  <2>3. TypeJobs'  BY DEF Results
  <2>4. TypeCommit'  BY DEF Times, Late
  <2>5. TypeRadio'  OBVIOUS
  <2>6. RadioOwned'  BY DEF Where, CommitSteps, WifiSteps, BleSteps
  <2>7. OwnSteps'  BY DEF Where, CommitSteps, WifiSteps, BleSteps
  <2>8. QED  BY <2>1, <2>2, <2>3, <2>4, <2>5, <2>6, <2>7
<1>6. CASE WifiDown
  <2> USE <1>6 DEF WifiDown
  <2>1. TypeClock'  BY DEF Times, Late, Disturbances
  <2>2. TypeTasks'  BY DEF Where, CommitSteps, WifiSteps, BleSteps
  <2>3. TypeJobs'  BY DEF Results
  <2>4. TypeCommit'  BY DEF Times, Late
  <2>5. TypeRadio'  OBVIOUS
  <2>6. RadioOwned'  BY DEF Where, CommitSteps, WifiSteps, BleSteps
  <2>7. OwnSteps'  BY DEF Where, CommitSteps, WifiSteps, BleSteps
  <2>8. QED  BY <2>1, <2>2, <2>3, <2>4, <2>5, <2>6, <2>7
<1>7. CASE SntpAnswer
  <2> USE <1>7 DEF SntpAnswer, SetsClock
  <2>1. TypeClock'
    <3>1. job["wifi"] \in 1 .. MaxJobs  BY DEF CommitSteps
    <3>2. sys' \in Times  BY <3>1 DEF Times, Late
    <3>3. setBy' = setBy \cup {job["wifi"]} /\ setBy \subseteq 1 .. MaxJobs  OBVIOUS
    <3>4. setBy' \subseteq 1 .. MaxJobs  BY <3>1, <3>3
    <3>5. disturbed' \subseteq Disturbances  BY DEF Disturbances
    <3>6. QED  BY <3>2, <3>4, <3>5
  <2>2. TypeTasks'  BY DEF Where, CommitSteps, WifiSteps, BleSteps
  <2>3. TypeJobs'  BY DEF Results
  <2>4. TypeCommit'  BY DEF Times, Late
  <2>5. TypeRadio'  OBVIOUS
  <2>6. RadioOwned'  BY DEF Where, CommitSteps, WifiSteps, BleSteps
  <2>7. OwnSteps'  BY DEF Where, CommitSteps, WifiSteps, BleSteps
  <2>8. QED  BY <2>1, <2>2, <2>3, <2>4, <2>5, <2>6, <2>7
<1>8. QED  BY <1>1, <1>2, <1>3, <1>4, <1>5, <1>6, <1>7 DEF WifiWorker

LEMMA OwnedBle ==
    ASSUME Owned, BleStart \/ BleWorker \/ BleHost
    PROVE  Owned'
<1> USE SourcesAssumption, MaxJobsAssumption, MaxFaultsAssumption
        DEF Owned, TypeOK, TypeClock, TypeTasks, TypeJobs, TypeCommit, TypeRadio, RadioOwned, OwnSteps,
            clocks, commit, radios, ghosts, GoesTo, Works, BleStep, HostUnchanged, HostStep
<1>1. CASE BleStart
  <2> USE <1>1 DEF BleStart, Begins
  <2>1. TypeClock'  BY DEF Times, Late, Disturbances
  <2>2. TypeTasks'  BY DEF Where, CommitSteps, WifiSteps, BleSteps
  <2>3. TypeJobs'
    <3>1. job' \in [Sources -> 0 .. MaxJobs]  OBVIOUS
    <3>2. shown' \in [Sources -> Results]  BY DEF Results
    <3>3. started' \in 0 .. MaxJobs /\ faults' \in 0 .. MaxFaults  OBVIOUS
    <3>4. QED  BY <3>1, <3>2, <3>3
  <2>4. TypeCommit'  BY DEF Times, Late
  <2>5. TypeRadio'  OBVIOUS
  <2>6. RadioOwned'  BY DEF Where, CommitSteps, WifiSteps, BleSteps
  <2>7. OwnSteps'  BY DEF Where, CommitSteps, WifiSteps, BleSteps
  <2>8. QED  BY <2>1, <2>2, <2>3, <2>4, <2>5, <2>6, <2>7
<1>2. CASE BleStartFails
  <2> USE <1>2 DEF BleStartFails
  <2>1. TypeClock'  BY DEF Times, Late, Disturbances
  <2>2. TypeTasks'  BY DEF Where, CommitSteps, WifiSteps, BleSteps
  <2>3. TypeJobs'  BY DEF Results
  <2>4. TypeCommit'  BY DEF Times, Late
  <2>5. TypeRadio'  OBVIOUS
  <2>6. RadioOwned'  BY DEF Where, CommitSteps, WifiSteps, BleSteps
  <2>7. OwnSteps'  BY DEF Where, CommitSteps, WifiSteps, BleSteps
  <2>8. QED  BY <2>1, <2>2, <2>3, <2>4, <2>5, <2>6, <2>7
<1>3. CASE BleOpDone
  <2> USE <1>3 DEF BleOpDone
  <2>1. TypeClock'  BY DEF Times, Late, Disturbances
  <2>2. TypeTasks'  BY DEF Where, CommitSteps, WifiSteps, BleSteps
  <2>3. TypeJobs'  BY DEF Results
  <2>4. TypeCommit'  BY DEF Times, Late
  <2>5. TypeRadio'  OBVIOUS
  <2>6. RadioOwned'  BY DEF Where, CommitSteps, WifiSteps, BleSteps
  <2>7. OwnSteps'  BY DEF Where, CommitSteps, WifiSteps, BleSteps
  <2>8. QED  BY <2>1, <2>2, <2>3, <2>4, <2>5, <2>6, <2>7
<1>4. CASE BleTimeout
  <2> USE <1>4 DEF BleTimeout
  <2>1. TypeClock'  BY DEF Times, Late, Disturbances
  <2>2. TypeTasks'  BY DEF Where, CommitSteps, WifiSteps, BleSteps
  <2>3. TypeJobs'  BY DEF Results
  <2>4. TypeCommit'  BY DEF Times, Late
  <2>5. TypeRadio'  OBVIOUS
  <2>6. RadioOwned'  BY DEF Where, CommitSteps, WifiSteps, BleSteps
  <2>7. OwnSteps'  BY DEF Where, CommitSteps, WifiSteps, BleSteps
  <2>8. QED  BY <2>1, <2>2, <2>3, <2>4, <2>5, <2>6, <2>7
<1>5. CASE BleDrained
  <2> USE <1>5 DEF BleDrained
  <2>1. TypeClock'  BY DEF Times, Late, Disturbances
  <2>2. TypeTasks'  BY DEF Where, CommitSteps, WifiSteps, BleSteps
  <2>3. TypeJobs'  BY DEF Results
  <2>4. TypeCommit'  BY DEF Times, Late
  <2>5. TypeRadio'  OBVIOUS
  <2>6. RadioOwned'  BY DEF Where, CommitSteps, WifiSteps, BleSteps
  <2>7. OwnSteps'  BY DEF Where, CommitSteps, WifiSteps, BleSteps
  <2>8. QED  BY <2>1, <2>2, <2>3, <2>4, <2>5, <2>6, <2>7
<1>6. CASE BleStop
  <2> USE <1>6 DEF BleStop
  <2>1. TypeClock'  BY DEF Times, Late, Disturbances
  <2>2. TypeTasks'  BY DEF Where, CommitSteps, WifiSteps, BleSteps
  <2>3. TypeJobs'  BY DEF Results
  <2>4. TypeCommit'  BY DEF Times, Late
  <2>5. TypeRadio'  OBVIOUS
  <2>6. RadioOwned'  BY DEF Where, CommitSteps, WifiSteps, BleSteps
  <2>7. OwnSteps'  BY DEF Where, CommitSteps, WifiSteps, BleSteps
  <2>8. QED  BY <2>1, <2>2, <2>3, <2>4, <2>5, <2>6, <2>7
<1>12. CASE BleStopFails
  <2> USE <1>12 DEF BleStopFails
  <2>1. TypeClock'  BY DEF Times, Late, Disturbances
  <2>2. TypeTasks'  BY DEF Where, CommitSteps, WifiSteps, BleSteps
  <2>3. TypeJobs'
    <3>1. job' \in [Sources -> 0 .. MaxJobs]  OBVIOUS
    <3>2. shown' \in [Sources -> Results]  BY DEF Results
    <3>3. started' \in 0 .. MaxJobs /\ faults' \in 0 .. MaxFaults  OBVIOUS
    <3>4. QED  BY <3>1, <3>2, <3>3
  <2>4. TypeCommit'  BY DEF Times, Late
  <2>5. TypeRadio'  OBVIOUS
  <2>6. RadioOwned'  BY DEF Where, CommitSteps, WifiSteps, BleSteps
  <2>7. OwnSteps'  BY DEF Where, CommitSteps, WifiSteps, BleSteps
  <2>8. QED  BY <2>1, <2>2, <2>3, <2>4, <2>5, <2>6, <2>7
<1>7. CASE BleDecide
  <2> USE <1>7 DEF BleDecide
  <2>1. TypeClock'  BY DEF Times, Late, Disturbances
  <2>2. TypeTasks'  BY DEF Where, CommitSteps, WifiSteps, BleSteps
  <2>3. TypeJobs'  BY DEF Results
  <2>4. TypeCommit'  BY DEF Times, Late
  <2>5. TypeRadio'  OBVIOUS
  <2>6. RadioOwned'  BY DEF Where, CommitSteps, WifiSteps, BleSteps
  <2>7. OwnSteps'  BY DEF Where, CommitSteps, WifiSteps, BleSteps
  <2>8. QED  BY <2>1, <2>2, <2>3, <2>4, <2>5, <2>6, <2>7
<1>8. CASE HostFails
  <2> USE <1>8 DEF HostFails
  <2>1. TypeClock'  BY DEF Times, Late, Disturbances
  <2>2. TypeTasks'  BY DEF Where, CommitSteps, WifiSteps, BleSteps
  <2>3. TypeJobs'  BY DEF Results
  <2>4. TypeCommit'  BY DEF Times, Late
  <2>5. TypeRadio'  OBVIOUS
  <2>6. RadioOwned'  BY DEF Where, CommitSteps, WifiSteps, BleSteps
  <2>7. OwnSteps'  BY DEF Where, CommitSteps, WifiSteps, BleSteps
  <2>8. QED  BY <2>1, <2>2, <2>3, <2>4, <2>5, <2>6, <2>7
<1>9. CASE HostApplies
  <2> USE <1>9 DEF HostApplies, SetsClock
  <2>1. TypeClock'
    <3>1. job["ble"] \in 1 .. MaxJobs  BY DEF CommitSteps
    <3>2. sys' \in Times  BY <3>1 DEF Times, Late
    <3>3. setBy' = setBy \cup {job["ble"]} /\ setBy \subseteq 1 .. MaxJobs  OBVIOUS
    <3>4. setBy' \subseteq 1 .. MaxJobs  BY <3>1, <3>3
    <3>5. disturbed' \subseteq Disturbances  BY DEF Disturbances
    <3>6. QED  BY <3>2, <3>4, <3>5
  <2>2. TypeTasks'  BY DEF Where, CommitSteps, WifiSteps, BleSteps
  <2>3. TypeJobs'  BY DEF Results
  <2>4. TypeCommit'  BY DEF Times, Late
  <2>5. TypeRadio'  OBVIOUS
  <2>6. RadioOwned'  BY DEF Where, CommitSteps, WifiSteps, BleSteps
  <2>7. OwnSteps'  BY DEF Where, CommitSteps, WifiSteps, BleSteps
  <2>8. QED  BY <2>1, <2>2, <2>3, <2>4, <2>5, <2>6, <2>7
<1>10. CASE HostStep("linking", "linked") \/ HostStep("linked", "reading") \/ HostStep("reading", "local")
  <2> USE <1>10
  <2>1. TypeClock'  BY DEF Times, Late, Disturbances
  <2>2. TypeTasks'  BY DEF Where, CommitSteps, WifiSteps, BleSteps
  <2>3. TypeJobs'  BY DEF Results
  <2>4. TypeCommit'  BY DEF Times, Late
  <2>5. TypeRadio'  OBVIOUS
  <2>6. RadioOwned'  BY DEF Where, CommitSteps, WifiSteps, BleSteps
  <2>7. OwnSteps'  BY DEF Where, CommitSteps, WifiSteps, BleSteps
  <2>8. QED  BY <2>1, <2>2, <2>3, <2>4, <2>5, <2>6, <2>7
<1>11. QED  BY <1>1, <1>2, <1>3, <1>4, <1>5, <1>6, <1>7, <1>8, <1>9, <1>10, <1>12 DEF BleWorker, BleHost

LEMMA OwnedRestart ==
    ASSUME Owned, Restart
    PROVE  Owned'
<1> USE SourcesAssumption, MaxJobsAssumption, MaxFaultsAssumption
        DEF Owned, TypeOK, TypeClock, TypeTasks, TypeJobs, TypeCommit, TypeRadio, RadioOwned, OwnSteps,
            clocks, commit, radios, ghosts, GoesTo, Works, Restart
<1>1. TypeClock'
  <2>1. sys' \in Times  BY DEF Boots, Loaded, AsReset, Times, Late
  <2>2. rtc' \in [time : Times, running : BOOLEAN]
    <3>1. rtc' = rtc \/ rtc' = [time |-> 0, running |-> TRUE]  BY DEF Boots
    <3>2. rtc \in [time : Times, running : BOOLEAN]  OBVIOUS
    <3>3. [time |-> 0, running |-> TRUE] \in [time : Times, running : BOOLEAN]  BY DEF Times, Late
    <3>4. QED  BY <3>1, <3>2, <3>3
  <2>3. disturbed' \subseteq Disturbances  BY DEF Boots, Disturbances
  <2>4. QED  BY <2>1, <2>2, <2>3
<1>2. TypeTasks'  BY DEF Where, CommitSteps, WifiSteps, BleSteps
<1>3. TypeJobs'
  <2>1. job' \in [Sources -> 0 .. MaxJobs]  OBVIOUS
  <2>2. shown' \in [Sources -> Results]  BY DEF Results
  <2>3. started' \in 0 .. MaxJobs /\ faults' \in 0 .. MaxFaults  OBVIOUS
  <2>4. QED  BY <2>1, <2>2, <2>3
<1>4. TypeCommit'  BY DEF Times, Late
<1>5. TypeRadio'  OBVIOUS
<1>6. RadioOwned'  BY DEF Where, CommitSteps, WifiSteps, BleSteps
<1>7. OwnSteps'  BY DEF Where, CommitSteps, WifiSteps, BleSteps
<1>8. QED  BY <1>1, <1>2, <1>3, <1>4, <1>5, <1>6, <1>7

LEMMA OwnedStep == Owned /\ [Next]_vars => Owned'
<1> SUFFICES ASSUME Owned, [Next]_vars PROVE Owned'  OBVIOUS
<1>1. CASE Next
  BY <1>1, OwnedCommit, OwnedWifi, OwnedBle, OwnedRestart DEF Next
<1>2. CASE UNCHANGED vars
  BY <1>2 DEF Owned, TypeOK, TypeClock, TypeTasks, TypeJobs, TypeCommit, TypeRadio, RadioOwned,
              OwnSteps, vars, clocks, commit, radios, ghosts
<1>3. QED  BY <1>1, <1>2

(* Every variable keeps its type, whatever the tasks, the network, the phone *)
(* and the faults do.                                                        *)
THEOREM TypeCorrect == Spec => []TypeOK
<1>1. Owned => TypeOK  BY DEF Owned
<1>2. QED  BY OwnedInit, OwnedStep, <1>1, PTL DEF Spec

(* The clock part: a sync that sets the clock while no other is committing   *)
(* begins it anew, and each step of its commit keeps it.                     *)
LEMMA ClockCommit ==
    ASSUME ClockInv, NEW t \in Sources, Commit(t) \/ BusFails(t) \/ DirectSet(t), disturbed' = {}
    PROVE  Undisturbed'
<1> USE SourcesAssumption DEF ClockInv, Owned, TypeOK, TypeClock, TypeTasks, TypeJobs, TypeCommit, TypeRadio, RadioOwned, OwnSteps,
            clocks, commit, radios, ghosts, GoesTo, Works, Fails
<1>1. CASE DirectSet(t)
  <2>1. \A u \in Sources \ {t} : ~Committing(u)
    <3>1. SUFFICES ASSUME NEW u \in Sources \ {t}, Committing(u) PROVE FALSE  OBVIOUS
    <3>2. disturbed' = disturbed \cup {"overlap"}  BY <1>1, <3>1 DEF DirectSet, Begins, SetsClock
    <3>3. "overlap" \in disturbed'  BY <3>2
    <3>4. QED  BY <3>3
  <2> USE <1>1 DEF DirectSet, Begins, SetsClock, Committing, CommitSteps, WifiSteps, BleSteps
  <2>2. \A u \in Sources \ {t} : ~Committing(u)'  BY <2>1
  <2>3. t \in Sources /\ Committing(t)'  OBVIOUS
  <2>4. OneCommits' /\ ~Quiet'  BY <2>2, <2>3 DEF OneCommits, Quiet
  <2>5. ASSUME NEW u \in Sources PROVE Progress(u)'  BY <2>2, <2>3 DEF Progress
  <2>6. QED  BY <2>4, <2>5 DEF Undisturbed
<1>2. CASE Aim(t)
  <2> USE <1>2 DEF Aim, Committing, CommitSteps, WifiSteps, BleSteps
  <2>0. disturbed = {} => Undisturbed  OBVIOUS
  <2>1. OneCommits'  BY <2>0 DEF Undisturbed, OneCommits
  <2>2. ASSUME NEW u \in Sources PROVE Progress(u)'  BY <2>0 DEF Undisturbed, OneCommits, Progress
  <2>3. Quiet' => rtc' = [time |-> sys', running |-> TRUE]  BY <2>0 DEF Undisturbed, OneCommits, Progress, Quiet
  <2>4. QED  BY <2>1, <2>2, <2>3 DEF Undisturbed
<1>3. CASE Stop(t)
  <2> USE <1>3 DEF Stop, Committing, CommitSteps, WifiSteps, BleSteps
  <2>0. disturbed = {} => Undisturbed  OBVIOUS
  <2>1. OneCommits'  BY <2>0 DEF Undisturbed, OneCommits
  <2>2. ASSUME NEW u \in Sources PROVE Progress(u)'  BY <2>0 DEF Undisturbed, OneCommits, Progress
  <2>3. Quiet' => rtc' = [time |-> sys', running |-> TRUE]  BY <2>0 DEF Undisturbed, OneCommits, Progress, Quiet
  <2>4. QED  BY <2>1, <2>2, <2>3 DEF Undisturbed
<1>4. CASE Regs(t)
  <2> USE <1>4 DEF Regs, Committing, CommitSteps, WifiSteps, BleSteps
  <2>0. disturbed = {} => Undisturbed  OBVIOUS
  <2>1. OneCommits'  BY <2>0 DEF Undisturbed, OneCommits
  <2>2. ASSUME NEW u \in Sources PROVE Progress(u)'  BY <2>0 DEF Undisturbed, OneCommits, Progress
  <2>3. Quiet' => rtc' = [time |-> sys', running |-> TRUE]  BY <2>0 DEF Undisturbed, OneCommits, Progress, Quiet
  <2>4. QED  BY <2>1, <2>2, <2>3 DEF Undisturbed
<1>5. CASE Run(t)
  <2> USE <1>5 DEF Run, Committing, CommitSteps, WifiSteps, BleSteps
  <2>0. disturbed = {} => Undisturbed  OBVIOUS
  <2>1. OneCommits'  BY <2>0 DEF Undisturbed, OneCommits
  <2>2. ASSUME NEW u \in Sources PROVE Progress(u)'  BY <2>0 DEF Undisturbed, OneCommits, Progress
  <2>3. Quiet' => rtc' = [time |-> sys', running |-> TRUE]  BY <2>0 DEF Undisturbed, OneCommits, Progress, Quiet
  <2>4. QED  BY <2>1, <2>2, <2>3 DEF Undisturbed
<1>6. CASE Push(t)
  <2> USE <1>6 DEF Push, Committing, CommitSteps, WifiSteps, BleSteps
  <2>0. disturbed = {} => Undisturbed  OBVIOUS
  <2>1. OneCommits'  BY <2>0 DEF Undisturbed, OneCommits
  <2>2. ASSUME NEW u \in Sources PROVE Progress(u)'  BY <2>0 DEF Undisturbed, OneCommits, Progress
  <2>3. Quiet' => rtc' = [time |-> sys', running |-> TRUE]  BY <2>0 DEF Undisturbed, OneCommits, Progress, Quiet
  <2>4. QED  BY <2>1, <2>2, <2>3 DEF Undisturbed
<1>7. CASE Publish(t)
  <2>1. disturbed = {}  BY <1>7 DEF Publish
  <2>2. Committing(t) /\ at[t] = "publish"  BY <1>7 DEF Publish, Committing, CommitSteps
  <2>3. \A u \in Sources \ {t} : ~Committing(u)  BY <2>1, <2>2 DEF Undisturbed, OneCommits
  <2>4. rtc = [time |-> sys, running |-> TRUE]  BY <2>1, <2>2 DEF Undisturbed, Progress
  <2>5. \A u \in Sources \ {t} : ~Committing(u)'  BY <1>7, <2>3 DEF Publish, Committing, CommitSteps, WifiSteps, BleSteps
  <2>6. OneCommits'  BY <2>5 DEF OneCommits
  <2> USE <1>7 DEF Publish, Committing, CommitSteps, WifiSteps, BleSteps
  <2>7. ASSUME NEW u \in Sources PROVE Progress(u)'  BY <2>1, <2>4 DEF Undisturbed, Progress
  <2>8. Quiet' => rtc' = [time |-> sys', running |-> TRUE]  BY <2>4
  <2>9. QED  BY <2>6, <2>7, <2>8 DEF Undisturbed
<1>8. CASE BusFails(t)
  <2> USE <1>8 DEF BusFails, Committing, CommitSteps, WifiSteps, BleSteps
  <2>0. disturbed = {} => Undisturbed  OBVIOUS
  <2>1. OneCommits'  BY <2>0 DEF Undisturbed, OneCommits
  <2>2. ASSUME NEW u \in Sources PROVE Progress(u)'  BY <2>0 DEF Undisturbed, OneCommits, Progress
  <2>3. Quiet' => rtc' = [time |-> sys', running |-> TRUE]  BY <2>0 DEF Undisturbed, OneCommits, Progress, Quiet
  <2>4. QED  BY <2>1, <2>2, <2>3 DEF Undisturbed
<1>9. QED  BY <1>1, <1>2, <1>3, <1>4, <1>5, <1>6, <1>7, <1>8 DEF Commit

LEMMA ClockWifi ==
    ASSUME ClockInv, WifiStart \/ WifiWorker \/ SntpAnswer, disturbed' = {}
    PROVE  Undisturbed'
<1> USE SourcesAssumption DEF ClockInv, Owned, TypeOK, TypeClock, TypeTasks, TypeJobs, TypeCommit, TypeRadio, RadioOwned, OwnSteps,
            clocks, commit, radios, ghosts, GoesTo, Works, WifiStep
<1>1. CASE WifiStart
  <2> USE <1>1 DEF WifiStart, Begins, Committing, CommitSteps, WifiSteps, BleSteps
  <2>0. disturbed = {} => Undisturbed  OBVIOUS
  <2>1. OneCommits'  BY <2>0 DEF Undisturbed, OneCommits
  <2>2. ASSUME NEW u \in Sources PROVE Progress(u)'  BY <2>0 DEF Undisturbed, OneCommits, Progress
  <2>3. Quiet' => rtc' = [time |-> sys', running |-> TRUE]  BY <2>0 DEF Undisturbed, OneCommits, Progress, Quiet
  <2>4. QED  BY <2>1, <2>2, <2>3 DEF Undisturbed
<1>2. CASE WifiJoinFails
  <2> USE <1>2 DEF WifiJoinFails, Committing, CommitSteps, WifiSteps, BleSteps
  <2>0. disturbed = {} => Undisturbed  OBVIOUS
  <2>1. OneCommits'  BY <2>0 DEF Undisturbed, OneCommits
  <2>2. ASSUME NEW u \in Sources PROVE Progress(u)'  BY <2>0 DEF Undisturbed, OneCommits, Progress
  <2>3. Quiet' => rtc' = [time |-> sys', running |-> TRUE]  BY <2>0 DEF Undisturbed, OneCommits, Progress, Quiet
  <2>4. QED  BY <2>1, <2>2, <2>3 DEF Undisturbed
<1>3. CASE WifiJoined
  <2> USE <1>3 DEF WifiJoined, Committing, CommitSteps, WifiSteps, BleSteps
  <2>0. disturbed = {} => Undisturbed  OBVIOUS
  <2>1. OneCommits'  BY <2>0 DEF Undisturbed, OneCommits
  <2>2. ASSUME NEW u \in Sources PROVE Progress(u)'  BY <2>0 DEF Undisturbed, OneCommits, Progress
  <2>3. Quiet' => rtc' = [time |-> sys', running |-> TRUE]  BY <2>0 DEF Undisturbed, OneCommits, Progress, Quiet
  <2>4. QED  BY <2>1, <2>2, <2>3 DEF Undisturbed
<1>4. CASE WifiTimeout
  <2> USE <1>4 DEF WifiTimeout, Committing, CommitSteps, WifiSteps, BleSteps
  <2>0. disturbed = {} => Undisturbed  OBVIOUS
  <2>1. OneCommits'  BY <2>0 DEF Undisturbed, OneCommits
  <2>2. ASSUME NEW u \in Sources PROVE Progress(u)'  BY <2>0 DEF Undisturbed, OneCommits, Progress
  <2>3. Quiet' => rtc' = [time |-> sys', running |-> TRUE]  BY <2>0 DEF Undisturbed, OneCommits, Progress, Quiet
  <2>4. QED  BY <2>1, <2>2, <2>3 DEF Undisturbed
<1>5. CASE WifiSynced
  <2> USE <1>5 DEF WifiSynced, Committing, CommitSteps, WifiSteps, BleSteps
  <2>0. disturbed = {} => Undisturbed  OBVIOUS
  <2>1. OneCommits'  BY <2>0 DEF Undisturbed, OneCommits
  <2>2. ASSUME NEW u \in Sources PROVE Progress(u)'  BY <2>0 DEF Undisturbed, OneCommits, Progress
  <2>3. Quiet' => rtc' = [time |-> sys', running |-> TRUE]  BY <2>0 DEF Undisturbed, OneCommits, Progress, Quiet
  <2>4. QED  BY <2>1, <2>2, <2>3 DEF Undisturbed
<1>6. CASE WifiDown
  <2> USE <1>6 DEF WifiDown, Committing, CommitSteps, WifiSteps, BleSteps
  <2>0. disturbed = {} => Undisturbed  OBVIOUS
  <2>1. OneCommits'  BY <2>0 DEF Undisturbed, OneCommits
  <2>2. ASSUME NEW u \in Sources PROVE Progress(u)'  BY <2>0 DEF Undisturbed, OneCommits, Progress
  <2>3. Quiet' => rtc' = [time |-> sys', running |-> TRUE]  BY <2>0 DEF Undisturbed, OneCommits, Progress, Quiet
  <2>4. QED  BY <2>1, <2>2, <2>3 DEF Undisturbed
<1>7. CASE SntpAnswer
  <2>1. \A u \in Sources \ {"wifi"} : ~Committing(u)
    <3>1. SUFFICES ASSUME NEW u \in Sources \ {"wifi"}, Committing(u) PROVE FALSE  OBVIOUS
    <3>2. disturbed' = disturbed \cup {"overlap"}  BY <1>7, <3>1 DEF SntpAnswer, SetsClock
    <3>3. "overlap" \in disturbed'  BY <3>2
    <3>4. QED  BY <3>3
  <2> USE <1>7 DEF SntpAnswer, SetsClock, Committing, CommitSteps, WifiSteps, BleSteps
  <2>2. \A u \in Sources \ {"wifi"} : ~Committing(u)'  BY <2>1
  <2>3. "wifi" \in Sources /\ Committing("wifi")' /\ sys' # 0  OBVIOUS
  <2>4. OneCommits' /\ ~Quiet'  BY <2>2, <2>3 DEF OneCommits, Quiet
  <2>5. ASSUME NEW u \in Sources PROVE Progress(u)'  BY <2>2, <2>3 DEF Progress
  <2>6. QED  BY <2>4, <2>5 DEF Undisturbed
<1>8. QED  BY <1>1, <1>2, <1>3, <1>4, <1>5, <1>6, <1>7 DEF WifiWorker

LEMMA ClockBle ==
    ASSUME ClockInv, BleStart \/ BleWorker \/ BleHost, disturbed' = {}
    PROVE  Undisturbed'
<1> USE SourcesAssumption DEF ClockInv, Owned, TypeOK, TypeClock, TypeTasks, TypeJobs, TypeCommit, TypeRadio, RadioOwned, OwnSteps,
            clocks, commit, radios, ghosts, GoesTo, Works, BleStep, HostUnchanged, HostStep
<1>1. CASE BleStart
  <2>1. /\ at' = [at EXCEPT !["ble"] = at'["ble"]] /\ at'["ble"] \in {"link", "decide"}
        /\ at["ble"] = "idle" /\ timeOk' = FALSE
        /\ UNCHANGED <<sys, rtc, aim, sntp, disturbed>>
    BY <1>1 DEF BleStart, Begins
  <2>2. disturbed = {} => Undisturbed  OBVIOUS
  <2>3. \A u \in Sources : Committing(u)' <=> Committing(u)
    BY <2>1 DEF Committing, CommitSteps, WifiSteps, BleSteps
  <2>4. \A u \in Sources : u # "ble" => at'[u] = at[u]  BY <2>1
  <2>5. ASSUME NEW u \in Sources PROVE Progress(u)'
    BY <2>1, <2>2, <2>4 DEF Undisturbed, Progress
  <2>6. QED  BY <2>1, <2>2, <2>3, <2>5 DEF Undisturbed, OneCommits, Quiet
<1>2. CASE BleStartFails
  <2> USE <1>2 DEF BleStartFails, Committing, CommitSteps, WifiSteps, BleSteps
  <2>0. disturbed = {} => Undisturbed  OBVIOUS
  <2>1. OneCommits'  BY <2>0 DEF Undisturbed, OneCommits
  <2>2. ASSUME NEW u \in Sources PROVE Progress(u)'  BY <2>0 DEF Undisturbed, OneCommits, Progress
  <2>3. Quiet' => rtc' = [time |-> sys', running |-> TRUE]  BY <2>0 DEF Undisturbed, OneCommits, Progress, Quiet
  <2>4. QED  BY <2>1, <2>2, <2>3 DEF Undisturbed
<1>3. CASE BleOpDone
  <2> USE <1>3 DEF BleOpDone, Committing, CommitSteps, WifiSteps, BleSteps
  <2>0. disturbed = {} => Undisturbed  OBVIOUS
  <2>1. OneCommits'  BY <2>0 DEF Undisturbed, OneCommits
  <2>2. ASSUME NEW u \in Sources PROVE Progress(u)'  BY <2>0 DEF Undisturbed, OneCommits, Progress
  <2>3. Quiet' => rtc' = [time |-> sys', running |-> TRUE]  BY <2>0 DEF Undisturbed, OneCommits, Progress, Quiet
  <2>4. QED  BY <2>1, <2>2, <2>3 DEF Undisturbed
<1>4. CASE BleTimeout
  <2> USE <1>4 DEF BleTimeout, Committing, CommitSteps, WifiSteps, BleSteps
  <2>0. disturbed = {} => Undisturbed  OBVIOUS
  <2>1. OneCommits'  BY <2>0 DEF Undisturbed, OneCommits
  <2>2. ASSUME NEW u \in Sources PROVE Progress(u)'  BY <2>0 DEF Undisturbed, OneCommits, Progress
  <2>3. Quiet' => rtc' = [time |-> sys', running |-> TRUE]  BY <2>0 DEF Undisturbed, OneCommits, Progress, Quiet
  <2>4. QED  BY <2>1, <2>2, <2>3 DEF Undisturbed
<1>5. CASE BleDrained
  <2> USE <1>5 DEF BleDrained, Committing, CommitSteps, WifiSteps, BleSteps
  <2>0. disturbed = {} => Undisturbed  OBVIOUS
  <2>1. OneCommits'  BY <2>0 DEF Undisturbed, OneCommits
  <2>2. ASSUME NEW u \in Sources PROVE Progress(u)'  BY <2>0 DEF Undisturbed, OneCommits, Progress
  <2>3. Quiet' => rtc' = [time |-> sys', running |-> TRUE]  BY <2>0 DEF Undisturbed, OneCommits, Progress, Quiet
  <2>4. QED  BY <2>1, <2>2, <2>3 DEF Undisturbed
<1>6. CASE BleStop
  <2> USE <1>6 DEF BleStop, Committing, CommitSteps, WifiSteps, BleSteps
  <2>0. disturbed = {} => Undisturbed  OBVIOUS
  <2>1. OneCommits'  BY <2>0 DEF Undisturbed, OneCommits
  <2>2. ASSUME NEW u \in Sources PROVE Progress(u)'  BY <2>0 DEF Undisturbed, OneCommits, Progress
  <2>3. Quiet' => rtc' = [time |-> sys', running |-> TRUE]  BY <2>0 DEF Undisturbed, OneCommits, Progress, Quiet
  <2>4. QED  BY <2>1, <2>2, <2>3 DEF Undisturbed
<1>12. CASE BleStopFails
  <2> USE <1>12 DEF BleStopFails, Committing, CommitSteps, WifiSteps, BleSteps
  <2>0. disturbed = {} => Undisturbed  OBVIOUS
  <2>1. OneCommits'  BY <2>0 DEF Undisturbed, OneCommits
  <2>2. ASSUME NEW u \in Sources PROVE Progress(u)'  BY <2>0 DEF Undisturbed, OneCommits, Progress
  <2>3. Quiet' => rtc' = [time |-> sys', running |-> TRUE]  BY <2>0 DEF Undisturbed, OneCommits, Progress, Quiet
  <2>4. QED  BY <2>1, <2>2, <2>3 DEF Undisturbed
<1>7. CASE BleDecide
  <2> USE <1>7 DEF BleDecide, Committing, CommitSteps, WifiSteps, BleSteps
  <2>0. disturbed = {} => Undisturbed  OBVIOUS
  <2>1. OneCommits'  BY <2>0 DEF Undisturbed, OneCommits
  <2>2. ASSUME NEW u \in Sources PROVE Progress(u)'  BY <2>0 DEF Undisturbed, OneCommits, Progress
  <2>3. Quiet' => rtc' = [time |-> sys', running |-> TRUE]  BY <2>0 DEF Undisturbed, OneCommits, Progress, Quiet
  <2>4. QED  BY <2>1, <2>2, <2>3 DEF Undisturbed
<1>8. CASE HostFails
  <2> USE <1>8 DEF HostFails, Committing, CommitSteps, WifiSteps, BleSteps
  <2>0. disturbed = {} => Undisturbed  OBVIOUS
  <2>1. OneCommits'  BY <2>0 DEF Undisturbed, OneCommits
  <2>2. ASSUME NEW u \in Sources PROVE Progress(u)'  BY <2>0 DEF Undisturbed, OneCommits, Progress
  <2>3. Quiet' => rtc' = [time |-> sys', running |-> TRUE]  BY <2>0 DEF Undisturbed, OneCommits, Progress, Quiet
  <2>4. QED  BY <2>1, <2>2, <2>3 DEF Undisturbed
<1>9. CASE HostApplies
  <2>1. \A u \in Sources \ {"ble"} : ~Committing(u)
    <3>1. SUFFICES ASSUME NEW u \in Sources \ {"ble"}, Committing(u) PROVE FALSE  OBVIOUS
    <3>2. disturbed' = disturbed \cup {"overlap"}  BY <1>9, <3>1 DEF HostApplies, SetsClock
    <3>3. "overlap" \in disturbed'  BY <3>2
    <3>4. QED  BY <3>3
  <2> USE <1>9 DEF HostApplies, SetsClock, Committing, CommitSteps, WifiSteps, BleSteps
  <2>2. \A u \in Sources \ {"ble"} : ~Committing(u)'  BY <2>1
  <2>3. "ble" \in Sources /\ Committing("ble")'  OBVIOUS
  <2>4. OneCommits' /\ ~Quiet'  BY <2>2, <2>3 DEF OneCommits, Quiet
  <2>5. ASSUME NEW u \in Sources PROVE Progress(u)'  BY <2>2, <2>3 DEF Progress
  <2>6. QED  BY <2>4, <2>5 DEF Undisturbed
<1>10. CASE HostStep("linking", "linked") \/ HostStep("linked", "reading") \/ HostStep("reading", "local")
  <2> USE <1>10 DEF Committing, CommitSteps, WifiSteps, BleSteps
  <2>0. disturbed = {} => Undisturbed  OBVIOUS
  <2>1. OneCommits'  BY <2>0 DEF Undisturbed, OneCommits
  <2>2. ASSUME NEW u \in Sources PROVE Progress(u)'  BY <2>0 DEF Undisturbed, OneCommits, Progress
  <2>3. Quiet' => rtc' = [time |-> sys', running |-> TRUE]  BY <2>0 DEF Undisturbed, OneCommits, Progress, Quiet
  <2>4. QED  BY <2>1, <2>2, <2>3 DEF Undisturbed
<1>11. QED  BY <1>1, <1>2, <1>3, <1>4, <1>5, <1>6, <1>7, <1>8, <1>9, <1>10, <1>12 DEF BleWorker, BleHost

(* A boot that reads the RTC comes back with its time; one that does not     *)
(* leaves it alone.                                                          *)
LEMMA ClockRestart ==
    ASSUME ClockInv, Restart
    PROVE  /\ disturbed' = {} => Undisturbed'
           /\ disturbed' = {"unread"} => Unread'
<1>1. \A t \in Sources : at'[t] = "idle"  BY DEF Restart
<1>2. \A t \in Sources : ~Committing(t)'
  BY <1>1 DEF Committing, CommitSteps, WifiSteps, BleSteps
<1> DEFINE sofar == IF Quiet THEN disturbed ELSE disturbed \cup {"cut"}
<1>3. ASSUME sofar \subseteq {"unread"} PROVE Quiet /\ rtc.running /\ sys \in {0, rtc.time}
  <2>1. "cut" \notin sofar  BY <1>3
  <2>2. Quiet /\ (disturbed = {} \/ disturbed = {"unread"})  BY <1>3, <2>1
  <2>3. QED  BY <2>2 DEF ClockInv, Undisturbed, Unread
<1>4. ASSUME disturbed = {}, Quiet PROVE rtc = [time |-> sys, running |-> TRUE]
  BY <1>4 DEF ClockInv, Undisturbed
<1>5. Boots  BY DEF Restart
<1>6. rtc \in [time : Times, running : BOOLEAN]  BY DEF ClockInv, TypeOK, TypeClock
<1>7. ASSUME disturbed' = {} PROVE Undisturbed'
  <2>1. sys' \in Loaded /\ rtc' = rtc /\ disturbed' = sofar \ {"unread"}
    BY <1>5, <1>7 DEF Boots
  <2>2. sofar \subseteq {"unread"}  BY <1>7, <2>1
  <2>3. rtc.running /\ sys \in {0, rtc.time}  BY <1>3, <2>2
  <2>4. sys' = rtc.time  BY <2>1, <2>3 DEF Loaded, AsReset
  <2>5. rtc' = [time |-> sys', running |-> TRUE]  BY <1>6, <2>1, <2>3, <2>4
  <2>6. QED  BY <1>1, <1>2, <2>5 DEF Undisturbed, OneCommits, Progress
<1>8. ASSUME disturbed' = {"unread"} PROVE Unread'
  <2>1. sys' \in AsReset /\ rtc' = rtc /\ disturbed' = sofar \cup {"unread"}
    BY <1>5, <1>8 DEF Boots
  <2>2. sofar \subseteq {"unread"}  BY <1>8, <2>1
  <2>3. rtc.running /\ sys \in {0, rtc.time}  BY <1>3, <2>2
  <2>4. QED  BY <1>2, <2>1, <2>3 DEF Unread, AsReset, Quiet
<1>9. QED  BY <1>7, <1>8

(* Until a boot reads the RTC or a synchronisation sets the clock, nothing   *)
(* touches the clock, the RTC or the history.                                *)
LEMMA UnreadRests ==
    ASSUME ClockInv, [Next]_vars, ~Restart, disturbed' = {"unread"}
    PROVE  disturbed = {"unread"} /\ Quiet' /\ UNCHANGED <<sys, rtc, hist, before>>
<1>1. \A why \in {"bus", "nvs"} : ~Fails(why)
  <2> SUFFICES ASSUME NEW why \in {"bus", "nvs"}, Fails(why) PROVE FALSE  OBVIOUS
  <2>1. why \in disturbed'  BY DEF Fails
  <2>2. QED  BY <2>1
<1>2. ASSUME NEW t, NEW j, NEW time, NEW wanted, SetsClock(t, j, time, wanted) PROVE FALSE
  <2>1. disturbed' = {} \/ "overlap" \in disturbed' \/ "late" \in disturbed'  BY <1>2 DEF SetsClock
  <2>2. QED  BY <2>1
<1>3. /\ \A t \in Sources : ~DirectSet(t) /\ ~BusFails(t)
      /\ ~SntpAnswer /\ ~HostApplies
  BY <1>1, <1>2 DEF DirectSet, BusFails, SntpAnswer, HostApplies
<1>4. disturbed = {"unread"}
  <2> USE DEF Works, ghosts
  <2>1. ASSUME NEW t \in Sources, Commit(t) PROVE disturbed' = disturbed
    BY <1>1, <2>1 DEF Commit, Aim, Stop, Regs, Run, Push, Publish
  <2>2. CASE WifiStart \/ WifiWorker
    BY <2>2 DEF WifiStart, WifiWorker, WifiStep, WifiJoinFails, WifiJoined, WifiTimeout, WifiSynced,
                WifiDown
  <2>3. CASE BleStart \/ BleWorker
    BY <2>3 DEF BleStart, BleWorker, BleStartFails, BleOpDone, BleTimeout, BleDrained, BleStop,
                BleStopFails, BleDecide
  <2>4. CASE BleHost  BY <1>3, <2>4 DEF BleHost, HostFails, HostStep
  <2>5. CASE UNCHANGED vars  BY <2>5 DEF vars
  <2>6. QED  BY <1>3, <2>1, <2>2, <2>3, <2>4, <2>5 DEF Next
<1>5. \A t \in Sources : ~Committing(t)  BY <1>4 DEF ClockInv, Unread, Quiet
<1>6. \A t \in Sources : ~Commit(t)
  BY <1>5 DEF Commit, Aim, Stop, Regs, Run, Push, Publish, Committing, CommitSteps
<1>7. at \in [Sources -> Where]  BY DEF ClockInv, TypeOK, TypeTasks
<1> USE DEF Works, ghosts, clocks, GoesTo, Quiet, Committing, CommitSteps, WifiSteps, BleSteps
<1>8. CASE WifiStart \/ WifiWorker
  BY <1>5, <1>7, <1>8 DEF WifiStart, Begins, WifiWorker, WifiStep, WifiJoinFails, WifiJoined,
                          WifiTimeout, WifiSynced, WifiDown, radios
<1>9. CASE BleStart
  BY <1>5, <1>7, <1>9 DEF BleStart, Begins
<1>10. CASE BleWorker
  BY <1>5, <1>7, <1>10 DEF BleWorker, BleStep, BleStartFails, BleOpDone, BleTimeout, BleDrained,
                           BleStop, BleStopFails, BleDecide
<1>11. CASE BleHost
  BY <1>3, <1>5, <1>11 DEF BleHost, HostFails, HostStep, HostUnchanged
<1>12. CASE UNCHANGED vars
  BY <1>5, <1>12 DEF vars, radios
<1>13. QED  BY <1>3, <1>4, <1>6, <1>8, <1>9, <1>10, <1>11, <1>12 DEF Next

LEMMA ClockInit == Init => ClockInv
<1> SUFFICES ASSUME Init PROVE Undisturbed /\ disturbed = {}  BY OwnedInit DEF ClockInv, Owned
<1>1. \A t \in Sources : ~Committing(t) /\ at[t] = "idle"  BY DEF Init, Committing, CommitSteps, WifiSteps, BleSteps
<1>2. QED  BY <1>1 DEF Init, Undisturbed, OneCommits, Progress

LEMMA ClockStep == ClockInv /\ [Next]_vars => ClockInv'
<1> SUFFICES ASSUME ClockInv, [Next]_vars PROVE ClockInv'  OBVIOUS
<1>1. Owned'  BY OwnedStep DEF ClockInv, Owned
<1>2. ASSUME disturbed' = {} PROVE Undisturbed'
  <2>1. CASE Next  BY <2>1, <1>2, ClockCommit, ClockWifi, ClockBle, ClockRestart DEF Next
  <2>2. CASE UNCHANGED vars
    BY <2>2, <1>2 DEF ClockInv, Undisturbed, OneCommits, Progress, Quiet, Committing,
                     vars, clocks, commit, radios, ghosts
  <2>3. QED  BY <2>1, <2>2
<1>3. ASSUME disturbed' = {"unread"} PROVE Unread'
  <2>1. CASE Restart  BY <1>3, <2>1, ClockRestart
  <2>2. CASE ~Restart
    <3>1. disturbed = {"unread"} /\ Quiet' /\ UNCHANGED <<sys, rtc>>  BY <1>3, <2>2, UnreadRests
    <3>2. QED  BY <3>1 DEF ClockInv, Unread
  <2>3. QED  BY <2>1, <2>2
<1>4. QED  BY <1>1, <1>2, <1>3 DEF ClockInv, Owned

(* For any number of tasks, synchronisations, failures and restarts: once a  *)
(* sync has set the clock alone and nothing but boots that cannot read the   *)
(* RTC disturbed it since, the RTC counts on, and holds the system clock's   *)
(* time unless the last of those boots left the clock unset.                 *)
THEOREM ClockIsKept == Spec => []ClockKept
<1>1. ClockInv => ClockKept
  <2> SUFFICES ASSUME ClockInv, disturbed \subseteq {"unread"}, Quiet
               PROVE  rtc.running /\ (sys = rtc.time \/ ("unread" \in disturbed /\ sys = 0))
    BY DEF ClockKept
  <2>1. CASE disturbed = {}  BY <2>1 DEF ClockInv, Undisturbed
  <2>2. CASE disturbed = {"unread"}  BY <2>2 DEF ClockInv, Unread
  <2>3. QED  BY <2>1, <2>2
<1>2. QED  BY ClockInit, ClockStep, <1>1, PTL DEF Spec

-----------------------------------------------------------------------------
(***************************************************************************)
(* What the Bluetooth tab tells of a synchronisation, and the history.     *)
(***************************************************************************)
(* Each synchronisation is one task's, and a task that is past setting the   *)
(* clock has set it; the Bluetooth worker goes by timeOk until it decides.   *)
JobsInv == /\ setBy \subseteq 1 .. started
           /\ \A t \in Sources : job[t] \in 0 .. started
           /\ \A t, u \in Sources : t # u /\ job[t] = job[u] => job[t] = 0
BleInv == "ble" \in Sources =>
    /\ at["ble"] = "idle" /\ ~left =>
                             /\ shown["ble"] = "failed" => job["ble"] \notin setBy
                             /\ shown["ble"] \in {"ok", "no rtc"} => job["ble"] \in setBy
    /\ at["ble"] \in BleSteps => (timeOk <=> job["ble"] \in setBy) /\ shown["ble"] = "busy"
    /\ at["ble"] \in CommitSteps => job["ble"] \in setBy
ToldInv == Owned /\ JobsInv /\ BleInv

LEMMA ToldInit == Init => JobsInv /\ BleInv
<1> SUFFICES ASSUME Init PROVE JobsInv /\ BleInv  OBVIOUS
<1>1. started = 0 /\ setBy = {} /\ job = [t \in Sources |-> 0]  BY DEF Init
<1>2. JobsInv  BY <1>1 DEF JobsInv
<1>3. BleInv  BY DEF Init, BleInv, CommitSteps, BleSteps
<1>4. QED  BY <1>2, <1>3

LEMMA JobsBegin ==
    ASSUME JobsInv, NEW t \in Sources, job \in [Sources -> 0 .. MaxJobs], started \in Nat,
           started' = started + 1, job' = [job EXCEPT ![t] = started + 1],
           setBy' \subseteq setBy \cup {started + 1}
    PROVE  JobsInv'
<1>1. setBy' \subseteq 1 .. started'
  <2>1. 1 .. started \subseteq 1 .. (started + 1) /\ started + 1 \in 1 .. (started + 1)  OBVIOUS
  <2>2. QED  BY <2>1 DEF JobsInv
<1>2. \A u \in Sources : job'[u] = IF u = t THEN started + 1 ELSE job[u]  OBVIOUS
<1>3. \A u \in Sources : job[u] \in 0 .. started  BY DEF JobsInv
<1>4. \A u \in Sources : job'[u] \in 0 .. started'  BY <1>2, <1>3
<1>5. \A u, w \in Sources : u # w /\ job'[u] = job'[w] => job'[u] = 0
  <2> SUFFICES ASSUME NEW u \in Sources, NEW w \in Sources, u # w, job'[u] = job'[w]
               PROVE  job'[u] = 0
    OBVIOUS
  <2>1. job[u] # started + 1 /\ job[w] # started + 1  BY <1>3
  <2>2. u # t /\ w # t  BY <1>2, <2>1
  <2>3. QED  BY <1>2, <2>2 DEF JobsInv
<1>6. QED  BY <1>1, <1>4, <1>5 DEF JobsInv

LEMMA JobsSet ==
    ASSUME JobsInv, NEW t \in Sources, job[t] # 0, started \in Nat,
           UNCHANGED <<job, started>>, setBy' = setBy \cup {job[t]}
    PROVE  JobsInv'
<1>1. job[t] \in 1 .. started  BY DEF JobsInv
<1>2. setBy' \subseteq 1 .. started'  BY <1>1 DEF JobsInv
<1>3. QED  BY <1>2 DEF JobsInv

(* The steps of every other action, one of the phone's among them.           *)
LEMMA JobsUntouched ==
    ASSUME NEW t \in Sources,
           Commit(t) \/ BusFails(t) \/ WifiWorker \/ BleWorker
             \/ (BleHost /\ ~HostApplies)
    PROVE  UNCHANGED <<setBy, job, started>>
<1> USE DEF ghosts, commit, clocks, radios, Works, Fails
<1>1. CASE Commit(t) \/ BusFails(t)
  BY <1>1 DEF Commit, BusFails, Aim, Stop, Regs, Run, Push, Publish
<1>2. CASE WifiWorker
  BY <1>2 DEF WifiWorker, WifiStep, WifiJoinFails, WifiJoined, WifiTimeout, WifiSynced, WifiDown
<1>3. CASE BleWorker
  BY <1>3 DEF BleWorker, BleStep, BleStartFails, BleOpDone, BleTimeout, BleDrained,
         BleStop, BleStopFails, BleDecide
<1>4. CASE BleHost /\ ~HostApplies
  BY <1>4 DEF BleHost, HostFails, HostStep, HostUnchanged
<1>5. QED  BY <1>1, <1>2, <1>3, <1>4

LEMMA JobsStep == Owned /\ JobsInv /\ [Next]_vars => JobsInv'
<1> SUFFICES ASSUME Owned, JobsInv, [Next]_vars PROVE JobsInv'  OBVIOUS
<1>1. job \in [Sources -> 0 .. MaxJobs] /\ started \in Nat
  BY MaxJobsAssumption DEF Owned, TypeOK, TypeJobs
<1>2. ASSUME NEW t \in Sources, DirectSet(t) PROVE JobsInv'
  <2>1. started' = started + 1 /\ job' = [job EXCEPT ![t] = started + 1]
        /\ setBy' = setBy \cup {started + 1}
    BY <1>2 DEF DirectSet, Begins, SetsClock
  <2>2. QED  BY <1>1, <2>1, JobsBegin
<1>3. ASSUME WifiStart \/ BleStart PROVE JobsInv'
  <2>1. PICK t \in Sources : started' = started + 1 /\ job' = [job EXCEPT ![t] = started + 1]
    BY <1>3 DEF WifiStart, BleStart, Begins
  <2>2. setBy' = setBy  BY <1>3 DEF WifiStart, BleStart, Works, ghosts
  <2>3. QED  BY <1>1, <2>1, <2>2, JobsBegin
<1>4. ASSUME SntpAnswer PROVE JobsInv'
  <2>1. setBy' = setBy \cup {job["wifi"]} /\ UNCHANGED <<job, started>> /\ sntp = "on"
    BY <1>4 DEF SntpAnswer, SetsClock
  <2>2. "wifi" \in Sources /\ job["wifi"] # 0
    BY <2>1, MaxJobsAssumption DEF Owned, RadioOwned
  <2>3. QED  BY <1>1, <2>1, <2>2, JobsSet
<1>5. ASSUME HostApplies PROVE JobsInv'
  <2>1. setBy' = setBy \cup {job["ble"]} /\ UNCHANGED <<job, started>> /\ host # "off"
    BY <1>5 DEF HostApplies, SetsClock, HostUnchanged
  <2>2. "ble" \in Sources /\ job["ble"] # 0
    BY <2>1, MaxJobsAssumption DEF Owned, RadioOwned
  <2>3. QED  BY <1>1, <2>1, <2>2, JobsSet
<1>6. ASSUME Restart PROVE JobsInv'
  <2>1. setBy' = setBy /\ started' = started /\ job' = [t \in Sources |-> 0]
    BY <1>6 DEF Restart
  <2>2. QED  BY <1>1, <2>1 DEF JobsInv
<1>7. ASSUME UNCHANGED <<setBy, job, started>> PROVE JobsInv'
  BY <1>7 DEF JobsInv
<1>8. ASSUME NEW t \in Sources, Commit(t) \/ BusFails(t) PROVE JobsInv'
  BY <1>7, <1>8, JobsUntouched
<1>9. ASSUME WifiWorker \/ BleWorker \/ (BleHost /\ ~HostApplies) PROVE JobsInv'
  <2>1. Sources # {}
    BY <1>9 DEF Owned, RadioOwned, WifiWorker, WifiStep, WifiJoinFails, WifiJoined, WifiTimeout,
       WifiSynced, WifiDown, BleWorker, BleStep, BleStartFails, BleOpDone, BleTimeout, BleDrained,
       BleStop, BleStopFails, BleDecide, BleHost, HostStep, HostFails
  <2>2. QED  BY <1>7, <1>9, <2>1, JobsUntouched
<1>10. UNCHANGED vars => JobsInv'  BY <1>7 DEF vars, ghosts
<1>11. QED  BY <1>2, <1>3, <1>4, <1>5, <1>6, <1>8, <1>9, <1>10 DEF Next

(* A synchronisation of another task says nothing of the Bluetooth tab's.    *)
LEMMA OthersTell ==
    ASSUME BleInv, UNCHANGED <<timeOk, left>>, NEW j, setBy' = setBy \cup {j},
           "ble" \in Sources => j # job["ble"] /\ at'["ble"] = at["ble"]
                                /\ job'["ble"] = job["ble"] /\ shown'["ble"] = shown["ble"]
    PROVE  BleInv'
<1>1. "ble" \in Sources => (job["ble"] \in setBy' <=> job["ble"] \in setBy)  OBVIOUS
<1>2. QED  BY <1>1 DEF BleInv

LEMMA ToldDirect == ASSUME ToldInv, NEW t \in Sources, DirectSet(t) PROVE BleInv'
<1>1. at \in [Sources -> Where] /\ job \in [Sources -> 0 .. MaxJobs]
        /\ shown \in [Sources -> Results]
  BY DEF ToldInv, Owned, TypeOK, TypeTasks, TypeJobs
<1>2. t # "ble" /\ at' = [at EXCEPT ![t] = "aim"] /\ job' = [job EXCEPT ![t] = started + 1]
        /\ shown' = [shown EXCEPT ![t] = "busy"] /\ timeOk' = timeOk /\ left' = left
        /\ setBy' = setBy \cup {started + 1}
  BY DEF DirectSet, Begins, SetsClock, GoesTo, radios
<1>3. "ble" \in Sources => started + 1 # job["ble"]
  BY MaxJobsAssumption DEF ToldInv, JobsInv, Owned, TypeOK, TypeJobs
<1>4. QED  BY <1>1, <1>2, <1>3, OthersTell DEF ToldInv

LEMMA ToldSntp == ASSUME ToldInv, SntpAnswer PROVE BleInv'
<1>1. UNCHANGED <<at, job, shown, timeOk, left>> /\ setBy' = setBy \cup {job["wifi"]} /\ sntp = "on"
  BY DEF SntpAnswer, SetsClock
<1>2. "wifi" \in Sources /\ job["wifi"] # 0
  BY <1>1, MaxJobsAssumption DEF ToldInv, Owned, RadioOwned
<1>3. "ble" \in Sources => job["wifi"] # job["ble"]  BY <1>2 DEF ToldInv, JobsInv
<1>4. QED  BY <1>1, <1>3, OthersTell DEF ToldInv

LEMMA ToldStart == ASSUME ToldInv, BleStart PROVE BleInv'
<1>1. "ble" \in Sources /\ (\E to \in {"link", "decide"} : at' = [at EXCEPT !["ble"] = to])
        /\ job' = [job EXCEPT !["ble"] = started + 1] /\ shown' = [shown EXCEPT !["ble"] = "busy"]
        /\ timeOk' = FALSE /\ setBy' = setBy
  BY DEF BleStart, Begins, GoesTo, Works, ghosts
<1>2. at \in [Sources -> Where] /\ job \in [Sources -> 0 .. MaxJobs]
        /\ shown \in [Sources -> Results]
  BY DEF ToldInv, Owned, TypeOK, TypeTasks, TypeJobs
<1>3. started + 1 \notin setBy
  <2>1. started \in Nat /\ setBy \subseteq 1 .. started
    BY MaxJobsAssumption DEF ToldInv, JobsInv, Owned, TypeOK, TypeJobs
  <2>2. QED  BY <2>1
<1>4. at'["ble"] \in {"link", "decide"} /\ job'["ble"] \notin setBy' /\ shown'["ble"] = "busy"
  BY <1>1, <1>2, <1>3
<1>5. QED  BY <1>1, <1>4 DEF BleInv, BleSteps, CommitSteps

LEMMA ToldApplies == ASSUME ToldInv, HostApplies PROVE BleInv'
<1>1. UNCHANGED <<at, job, shown, left>> /\ timeOk' = TRUE /\ setBy' = setBy \cup {job["ble"]}
        /\ host # "off"
  BY DEF HostApplies, SetsClock, HostUnchanged
<1>2. at["ble"] # "idle" \/ left
  BY <1>1 DEF ToldInv, Owned, RadioOwned
<1>3. job'["ble"] \in setBy'  BY <1>1
<1>4. QED  BY <1>1, <1>2, <1>3 DEF ToldInv, BleInv

LEMMA ToldCommit ==
    ASSUME ToldInv, NEW t \in Sources, Commit(t) \/ BusFails(t) \/ DirectSet(t)
    PROVE  BleInv'
<1>1. CASE DirectSet(t)
  BY <1>1, ToldDirect
<1> USE SourcesAssumption, MaxJobsAssumption DEF ToldInv, Owned, TypeOK,
        TypeClock, TypeTasks, TypeJobs, TypeCommit, TypeRadio, RadioOwned,
        OwnSteps, BleInv, clocks, commit, radios, ghosts, GoesTo, Works,
        CommitSteps, WifiSteps, BleSteps, Fails
<1>2. CASE Aim(t)
  BY <1>2 DEF Aim
<1>3. CASE Stop(t)
  BY <1>3 DEF Stop
<1>4. CASE Regs(t)
  BY <1>4 DEF Regs
<1>5. CASE Run(t)
  BY <1>5 DEF Run
<1>6. CASE Push(t)
  BY <1>6 DEF Push
<1>7. CASE Publish(t)
  BY <1>7 DEF Publish
<1>8. CASE BusFails(t)
  BY <1>8 DEF BusFails
<1>9. QED  BY <1>1, <1>2, <1>3, <1>4, <1>5, <1>6, <1>7, <1>8 DEF Commit

LEMMA ToldWifi ==
    ASSUME ToldInv, WifiStart \/ WifiWorker \/ SntpAnswer
    PROVE  BleInv'
<1>7. CASE SntpAnswer
  BY <1>7, ToldSntp
<1> USE SourcesAssumption, MaxJobsAssumption DEF ToldInv, Owned, TypeOK,
        TypeClock, TypeTasks, TypeJobs, TypeCommit, TypeRadio, RadioOwned,
        OwnSteps, BleInv, clocks, commit, radios, ghosts, GoesTo, Works,
        CommitSteps, WifiSteps, BleSteps, WifiStep
<1>1. CASE WifiStart
  BY <1>1 DEF WifiStart, Begins
<1>2. CASE WifiJoinFails
  BY <1>2 DEF WifiJoinFails
<1>3. CASE WifiJoined
  BY <1>3 DEF WifiJoined
<1>4. CASE WifiTimeout
  BY <1>4 DEF WifiTimeout
<1>5. CASE WifiSynced
  BY <1>5 DEF WifiSynced
<1>6. CASE WifiDown
  BY <1>6 DEF WifiDown
<1>8. QED  BY <1>1, <1>2, <1>3, <1>4, <1>5, <1>6, <1>7 DEF WifiWorker

LEMMA ToldBle ==
    ASSUME ToldInv, BleStart \/ BleWorker \/ BleHost
    PROVE  BleInv'
<1>1. CASE BleStart
  BY <1>1, ToldStart
<1>9. CASE HostApplies
  BY <1>9, ToldApplies
<1> USE SourcesAssumption, MaxJobsAssumption DEF ToldInv, Owned, TypeOK,
        TypeClock, TypeTasks, TypeJobs, TypeCommit, TypeRadio, RadioOwned,
        OwnSteps, BleInv, clocks, commit, radios, ghosts, GoesTo, Works,
        CommitSteps, WifiSteps, BleSteps, BleStep, HostUnchanged, HostStep
<1>2. CASE BleStartFails
  <2>1. /\ at["ble"] = "link" /\ (at'["ble"] = "decide" \/ at'["ble"] = "teardown")
        /\ UNCHANGED <<job, shown, timeOk, setBy, left>>
    BY <1>2 DEF BleStartFails
  <2>2. QED  BY <2>1
<1>3. CASE BleOpDone
  BY <1>3 DEF BleOpDone
<1>4. CASE BleTimeout
  BY <1>4 DEF BleTimeout
<1>5. CASE BleDrained
  BY <1>5 DEF BleDrained
<1>6. CASE BleStop
  BY <1>6 DEF BleStop
<1>12. CASE BleStopFails
  BY <1>12 DEF BleStopFails
<1>7. CASE BleDecide
  BY <1>7 DEF BleDecide
<1>8. CASE HostFails
  BY <1>8 DEF HostFails
<1>10. CASE HostStep("linking", "linked") \/ HostStep("linked", "reading")
              \/ HostStep("reading", "local")
  <2>1. UNCHANGED <<at, job, shown, timeOk, setBy, left>>  BY <1>10
  <2>2. QED  BY <2>1
<1>11. QED  BY <1>1, <1>2, <1>3, <1>4, <1>5, <1>6, <1>7, <1>8, <1>9, <1>10, <1>12 DEF BleWorker, BleHost

LEMMA ToldRestart ==
    ASSUME ToldInv, Restart
    PROVE  BleInv'
<1> USE SourcesAssumption, MaxJobsAssumption DEF ToldInv, Owned, TypeOK,
        TypeClock, TypeTasks, TypeJobs, TypeCommit, TypeRadio, RadioOwned,
        OwnSteps, BleInv, clocks, commit, radios, ghosts, GoesTo, Works,
        CommitSteps, WifiSteps, BleSteps
<1>1. CASE Restart
  BY <1>1 DEF Restart
<1>2. QED  BY <1>1

LEMMA ToldStep == ToldInv /\ [Next]_vars => ToldInv'
<1> SUFFICES ASSUME ToldInv, [Next]_vars PROVE ToldInv'  OBVIOUS
<1>1. Owned' /\ JobsInv'  BY OwnedStep, JobsStep DEF ToldInv
<1>2. CASE Next
  BY <1>1, <1>2, ToldCommit, ToldWifi, ToldBle, ToldRestart DEF Next, ToldInv
<1>3. CASE UNCHANGED vars
  BY <1>1, <1>3 DEF ToldInv, BleInv, vars, radios, ghosts
<1>4. QED  BY <1>2, <1>3

(* Whatever the phone answers, when it answers and whatever is cut: a tab    *)
(* that says it failed is one whose synchronisation left the clock alone.    *)
THEOREM BleIsTold == Spec => []BleTold
<1>1. ToldInv => BleTold  BY DEF ToldInv, BleInv, BleTold
<1>2. Init => ToldInv  BY OwnedInit, ToldInit DEF ToldInv
<1>3. QED  BY <1>1, <1>2, ToldStep, PTL DEF Spec

-----------------------------------------------------------------------------
(* The history. While nothing disturbs the clock, the task that is recording *)
(* has written the first step - 1 settings of its push: each entry that is   *)
(* moved comes from the history as it was before, the newest is made of the  *)
(* synchronisation in the clock. Place is the write that sets a field.       *)
Place(i, f) == 3 * (3 - i) + (IF f = "epoch" THEN 1 ELSE IF f = "delta" THEN 2 ELSE 3)
Entries(k, newest) == \A i \in 1 .. 3, f \in Fields :
    hist[i][f] = IF Place(i, f) >= k THEN before[i][f]
                 ELSE IF i = 1 THEN newest ELSE before[i - 1][f]
Written(k) == Entries(k, sys)
Past == CommitSteps \ {"aim"}
Recording(t) == /\ Committing(t) => job[t] = sys /\ sys # 0
                /\ at[t] \in Past => epoch[t] = sys
                /\ at[t] = "push" /\ step[t] > 1 => Written(step[t])
                /\ at[t] = "publish" => Written(10)
Recordings == /\ \A t \in Sources : Recording(t)
              /\ Quiet /\ sys # 0 => Written(10)
StepsAtOne == \A t \in Sources : at[t] # "push" => step[t] = 1
HistInv == /\ ClockInv /\ StepsAtOne
           /\ disturbed = {} => Recordings
           /\ disturbed = {"unread"} /\ rtc.time # 0 => Entries(10, rtc.time)

LEMMA PlaceOfWrite ==
    ASSUME NEW k \in 1 .. 9, NEW i \in 1 .. 3, NEW f \in Fields
    PROVE  Place(i, f) = k <=> i = Target(k) /\ f = Field(k)
<1>1. i = 1 \/ i = 2 \/ i = 3  OBVIOUS
<1>2. f = "epoch" \/ f = "delta" \/ f = "source"  BY DEF Fields
<1>3. k = 1 \/ k = 2 \/ k = 3 \/ k = 4 \/ k = 5 \/ k = 6 \/ k = 7 \/ k = 8 \/ k = 9  OBVIOUS
<1>4. Target(k) = IF k <= 3 THEN 3 ELSE IF k <= 6 THEN 2 ELSE 1  BY DEF Target
<1>5. Field(k) = IF k \in {1, 4, 7} THEN "epoch" ELSE IF k \in {2, 5, 8} THEN "delta" ELSE "source"
  <2>1. k % 3 = IF k \in {1, 4, 7} THEN 1 ELSE IF k \in {2, 5, 8} THEN 2 ELSE 0  OBVIOUS
  <2>2. QED  BY <1>3, <2>1 DEF Field
<1>6. QED  BY <1>1, <1>2, <1>3, <1>4, <1>5 DEF Place

(* One write of the push.                                                    *)
LEMMA WriteNext ==
    ASSUME TypeOK, NEW t \in Sources, NEW k \in 1 .. 9, hist' = Shifted(t, k), sys' = sys,
           before' = IF k = 1 THEN hist ELSE before, k > 1 => Written(k),
           epoch[t] = sys, job[t] = sys
    PROVE  Written(k + 1)'
<1> SUFFICES ASSUME NEW i \in 1 .. 3, NEW f \in Fields
             PROVE  hist'[i][f] = IF Place(i, f) >= k + 1 THEN before'[i][f]
                                  ELSE IF i = 1 THEN sys' ELSE before'[i - 1][f]
  BY DEF Written, Entries
<1>1. \A e \in 1 .. 3, g \in Fields : Place(e, g) \in 1 .. 9  BY DEF Place, Fields
<1>2. \A e \in 1 .. 3, g \in Fields :
        hist[e][g] = IF Place(e, g) >= k THEN before'[e][g]
                     ELSE IF e = 1 THEN sys ELSE before'[e - 1][g]
  <2>1. CASE k = 1  BY <1>1, <2>1
  <2>2. CASE k # 1  BY <2>2 DEF Written, Entries
  <2>3. QED  BY <2>1, <2>2
<1>3. CASE Place(i, f) # k
  <2>1. hist'[i][f] = hist[i][f]
    <3>1. i # Target(k) \/ f # Field(k)  BY <1>3, PlaceOfWrite
    <3>2. hist \in [1 .. 3 -> [Fields -> Times]]  BY DEF TypeOK, TypeClock
    <3>3. QED  BY <3>1, <3>2 DEF Shifted
  <2>2. Place(i, f) >= k <=> Place(i, f) >= k + 1  BY <1>1, <1>3
  <2>3. QED  BY <1>2, <2>1, <2>2
<1>4. CASE Place(i, f) = k
  <2>1. i = Target(k) /\ f = Field(k)  BY <1>4, PlaceOfWrite
  <2>2. hist'[i][f] = IF i > 1 THEN hist[i - 1][f] ELSE NewEntry(t)[f]
    <3>1. hist \in [1 .. 3 -> [Fields -> Times]]  BY DEF TypeOK, TypeClock
    <3>2. QED  BY <2>1, <3>1 DEF Shifted
  <2>3. NewEntry(t)[f] = sys  BY DEF NewEntry, Fields
  <2>4. CASE i = 1  BY <1>4, <2>2, <2>3, <2>4
  <2>5. CASE i > 1
    <3>1. i - 1 \in 1 .. 3 /\ Place(i - 1, f) >= k  BY <1>4, <2>5 DEF Place
    <3>2. hist[i - 1][f] = before'[i - 1][f]  BY <1>2, <3>1
    <3>3. QED  BY <1>4, <2>2, <2>5, <3>2
  <2>6. QED  BY <2>4, <2>5
<1>5. QED  BY <1>3, <1>4

LEMMA StepsStep == Owned /\ StepsAtOne /\ [Next]_vars => StepsAtOne'
<1> SUFFICES ASSUME Owned, StepsAtOne, [Next]_vars PROVE StepsAtOne'  OBVIOUS
<1>1. at \in [Sources -> Where] /\ step \in [Sources -> 1 .. 9]
  BY DEF Owned, TypeOK, TypeTasks, TypeCommit
<1> USE <1>1 DEF StepsAtOne, GoesTo, commit
<1>2. ASSUME NEW t \in Sources, DirectSet(t) PROVE StepsAtOne'
  BY <1>2 DEF DirectSet, Begins
<1>3. ASSUME NEW t \in Sources, Commit(t) PROVE StepsAtOne'
  <2>1. ASSUME Push(t) PROVE StepsAtOne'
    <3>1. at' = [at EXCEPT ![t] = IF step[t] = 9 THEN "publish" ELSE "push"]
          /\ step' = [step EXCEPT ![t] = (step[t] % 9) + 1]
      BY <2>1 DEF Push
    <3>2. step[t] = 9 => (step[t] % 9) + 1 = 1  OBVIOUS
    <3>3. QED  BY <3>1, <3>2
  <2>2. ASSUME Aim(t) \/ Stop(t) \/ Regs(t) \/ Run(t) \/ Publish(t) PROVE StepsAtOne'
    <3>1. at[t] # "push" /\ step' = step
        /\ \E w \in Where : at' = [at EXCEPT ![t] = w]
      BY <2>2 DEF Aim, Stop, Regs, Run, Publish, Where, CommitSteps, WifiSteps
    <3>2. QED  BY <3>1
  <2>3. QED  BY <1>3, <2>1, <2>2 DEF Commit
<1>4. ASSUME NEW t \in Sources, BusFails(t) PROVE StepsAtOne'
  BY <1>4 DEF BusFails
<1>5. CASE WifiStart  BY <1>5 DEF WifiStart, Begins
<1>6. CASE WifiWorker
  <2>1. "wifi" \in Sources /\ at["wifi"] # "push" /\ step' = step
        /\ \E w \in Where : at' = [at EXCEPT !["wifi"] = w]
    BY <1>6 DEF WifiWorker, WifiStep, WifiJoinFails, WifiJoined, WifiTimeout, WifiSynced, WifiDown,
                Where, CommitSteps, WifiSteps
  <2>2. QED  BY <2>1
<1>7. CASE BleStart  BY <1>7 DEF BleStart, Begins
<1>8. CASE BleWorker
  <2>1. "ble" \in Sources /\ at["ble"] # "push" /\ step' = step
        /\ \E w \in Where : at' = [at EXCEPT !["ble"] = w]
    BY <1>8 DEF BleWorker, BleStep, BleStartFails, BleOpDone, BleTimeout, BleDrained,
           BleStop, BleStopFails, BleDecide,
                Where, CommitSteps, BleSteps
  <2>2. QED  BY <2>1
<1>9. CASE SntpAnswer \/ BleHost \/ UNCHANGED vars
  BY <1>9 DEF SntpAnswer, BleHost, HostStep, HostFails, HostApplies, HostUnchanged, vars
<1>10. CASE Restart  BY <1>10 DEF Restart
<1>11. QED  BY <1>2, <1>3, <1>4, <1>5, <1>6, <1>7, <1>8, <1>9, <1>10 DEF Next

(* A step that neither begins nor ends a commit, nor writes the history.     *)
LEMMA Carried ==
    ASSUME HistInv, UNCHANGED <<sys, hist, before, disturbed, step>>,
           disturbed = {} => \A u \in Sources :
               /\ Committing(u)' <=> Committing(u)
               /\ Committing(u)' => job'[u] = job[u]
               /\ at'[u] \in Past => epoch'[u] = sys
               /\ at'[u] = "publish" => at[u] = "publish"
    PROVE  disturbed' = {} => Recordings'
<1> SUFFICES ASSUME disturbed = {} PROVE Recordings'  OBVIOUS
<1>1. Recordings /\ StepsAtOne  BY DEF HistInv
<1>2. \A k : Written(k)' <=> Written(k)  BY DEF Written, Entries
<1>3. ASSUME NEW u \in Sources PROVE Recording(u)'
  <2>1. Recording(u)  BY <1>1 DEF Recordings
  <2>2. Committing(u)' => job'[u] = sys' /\ sys' # 0  BY <2>1 DEF Recording
  <2>3. at'[u] \in Past => epoch'[u] = sys'  OBVIOUS
  <2>4. at'[u] = "push" /\ step'[u] > 1 => Written(step[u])'
    <3>1. step[u] > 1 => at[u] = "push"  BY <1>1 DEF StepsAtOne
    <3>2. QED  BY <1>2, <2>1, <3>1 DEF Recording
  <2>5. at'[u] = "publish" => Written(10)'  BY <1>2, <2>1 DEF Recording
  <2>6. QED  BY <2>2, <2>3, <2>4, <2>5 DEF Recording
<1>4. Quiet' /\ sys' # 0 => Written(10)'
  <2>1. Quiet' => Quiet  BY DEF Quiet
  <2>2. QED  BY <1>1, <1>2, <2>1 DEF Recordings
<1>5. QED  BY <1>3, <1>4 DEF Recordings

(* While no task is at a step of its commit there is nothing to say of it.   *)
LEMMA NothingToSay ==
    ASSUME NEW u \in Sources, ~Committing(u)'
    PROVE  Recording(u)'
BY DEF Committing, Recording, Past, CommitSteps

(* A clock that is set alone: its task has all of its commit to do.          *)
LEMMA SetAlone ==
    ASSUME NEW t \in Sources, NEW j, NEW time, NEW wanted \in BOOLEAN,
           SetsClock(t, j, time, wanted),
           wanted => time # 0 /\ job'[t] = time /\ Committing(t)' /\ at'[t] \notin Past,
           \A u \in Sources \ {t} : Committing(u)' => Committing(u)
    PROVE  disturbed' = {} => Recordings'
<1> SUFFICES ASSUME disturbed' = {} PROVE Recordings'  OBVIOUS
<1>1. wanted /\ sys' = time /\ \A u \in Sources \ {t} : ~Committing(u)  BY DEF SetsClock
<1>2. \A u \in Sources \ {t} : Recording(u)'
  <2> SUFFICES ASSUME NEW u \in Sources \ {t} PROVE Recording(u)'  OBVIOUS
  <2>1. ~Committing(u)'  BY <1>1
  <2>2. QED  BY <2>1, NothingToSay
<1>3. Recording(t)'  BY <1>1 DEF Recording, Past, CommitSteps
<1>4. ~Quiet'  BY <1>1 DEF Quiet
<1>5. QED  BY <1>2, <1>3, <1>4 DEF Recordings

LEMMA Alone ==
    ASSUME ClockInv, disturbed = {}, NEW t \in Sources, Committing(t), NEW u \in Sources, u # t
    PROVE  ~Committing(u)
BY DEF ClockInv, Undisturbed, OneCommits

LEMMA RecordPush ==
    ASSUME HistInv, NEW t \in Sources, Push(t)
    PROVE  disturbed' = {} => Recordings'
<1> SUFFICES ASSUME disturbed' = {} PROVE Recordings'  OBVIOUS
<1>1. PICK k \in 1 .. 9 : k = step[t]  BY DEF HistInv, ClockInv, TypeOK, TypeCommit
<1>2. /\ at[t] = "push"
      /\ disturbed = {} /\ hist' = Shifted(t, k) /\ before' = IF k = 1 THEN hist ELSE before
      /\ step' = [step EXCEPT ![t] = (k % 9) + 1]
      /\ at' = [at EXCEPT ![t] = IF k = 9 THEN "publish" ELSE "push"]
      /\ UNCHANGED <<sys, job, epoch, sntp, timeOk>>
  BY <1>1 DEF Push, Fails, GoesTo, radios
<1>3. TypeOK /\ at \in [Sources -> Where] /\ step \in [Sources -> 1 .. 9]
  BY DEF HistInv, ClockInv, TypeOK, TypeTasks, TypeCommit
<1>4. Recording(t) /\ Committing(t)
  BY <1>2 DEF HistInv, Recordings, Committing, CommitSteps
<1>5. epoch[t] = sys /\ job[t] = sys /\ sys # 0 /\ (k > 1 => Written(k))
  BY <1>2, <1>4, <1>1 DEF Recording, Past, CommitSteps
<1>6. Written(k + 1)'  BY <1>2, <1>3, <1>5, WriteNext
<1>7. Recording(t)'
  <2>1. CASE k = 9
    <3>1. at'[t] = "publish" /\ k + 1 = 10  BY <1>2, <1>3, <2>1
    <3>2. Written(10)'  BY <1>6, <3>1
    <3>3. QED  BY <1>2, <1>5, <3>1, <3>2 DEF Recording
  <2>2. CASE k # 9
    <3>1. at'[t] = "push" /\ (k % 9) + 1 = k + 1  BY <1>2, <1>3, <2>2
    <3>2. step'[t] = k + 1  BY <1>2, <1>3, <3>1
    <3>3. QED  BY <1>2, <1>5, <1>6, <3>1, <3>2 DEF Recording
  <2>3. QED  BY <2>1, <2>2
<1>8. ASSUME NEW u \in Sources, u # t PROVE Recording(u)'
  <2>1. ~Committing(u)  BY <1>2, <1>4, <1>8, Alone DEF HistInv
  <2>2. ~Committing(u)'  BY <1>2, <1>3, <1>8, <2>1 DEF Committing
  <2>3. QED  BY <2>2, NothingToSay
<1>9. ~Quiet'
  <2>1. at'[t] \in CommitSteps  BY <1>2, <1>3 DEF CommitSteps
  <2>2. QED  BY <2>1 DEF Quiet, Committing
<1>10. QED  BY <1>7, <1>8, <1>9 DEF Recordings

LEMMA RecordPublish ==
    ASSUME HistInv, NEW t \in Sources, Publish(t)
    PROVE  disturbed' = {} => Recordings'
<1> SUFFICES ASSUME disturbed' = {} PROVE Recordings'  OBVIOUS
<1>1. /\ at[t] = "publish" /\ disturbed = {}
      /\ at' = [at EXCEPT ![t] = IF t = "wifi" THEN "down" ELSE "idle"]
      /\ UNCHANGED <<sys, hist, before, sntp, timeOk>>
  BY DEF Publish, Works, ghosts, clocks, radios, GoesTo
<1>2. at \in [Sources -> Where]  BY DEF HistInv, ClockInv, TypeOK, TypeTasks
<1>3. Recording(t) /\ Committing(t)
  BY <1>1 DEF HistInv, Recordings, Committing, CommitSteps
<1>4. Written(10)'  BY <1>1, <1>3 DEF Recording, Written, Entries
<1>5. ASSUME NEW u \in Sources PROVE ~Committing(u)'
  <2>1. CASE u = t
    BY <1>1, <1>2, <2>1 DEF Committing, CommitSteps, BleSteps
  <2>2. CASE u # t
    <3>1. ~Committing(u)  BY <1>1, <1>3, <2>2, Alone DEF HistInv
    <3>2. QED  BY <1>1, <1>2, <2>2, <3>1 DEF Committing
  <2>3. QED  BY <2>1, <2>2
<1>6. \A u \in Sources : Recording(u)'  BY <1>5, NothingToSay
<1>7. QED  BY <1>4, <1>6 DEF Recordings

LEMMA RecordCommit ==
    ASSUME HistInv, NEW t \in Sources, Commit(t) \/ BusFails(t) \/ DirectSet(t)
    PROVE  disturbed' = {} => Recordings'
<1>1. at \in [Sources -> Where] /\ job \in [Sources -> 0 .. MaxJobs] /\ epoch \in [Sources -> Times]
  BY DEF HistInv, ClockInv, TypeOK, TypeTasks, TypeJobs, TypeCommit
<1>2. CASE DirectSet(t)
  <2>1. at' = [at EXCEPT ![t] = "aim"] /\ job' = [job EXCEPT ![t] = started + 1]
        /\ SetsClock(t, started + 1, started + 1, TRUE) /\ UNCHANGED <<sntp, timeOk>>
    BY <1>2 DEF DirectSet, Begins, GoesTo, radios
  <2>2. started + 1 # 0 /\ job'[t] = started + 1 /\ at'[t] \notin Past /\ Committing(t)'
    BY <1>1, <2>1, MaxJobsAssumption
    DEF HistInv, ClockInv, TypeOK, TypeJobs, Committing, Past, CommitSteps
  <2>3. \A u \in Sources \ {t} : Committing(u)' => Committing(u)
    BY <1>1, <2>1 DEF Committing
  <2>4. QED  BY <2>1, <2>2, <2>3, SetAlone
<1>3. CASE BusFails(t)  BY <1>3 DEF BusFails, Fails
<1>4. CASE Push(t)  BY <1>4, RecordPush
<1>5. CASE Publish(t)  BY <1>5, RecordPublish
<1>6. CASE Aim(t) \/ Stop(t) \/ Regs(t) \/ Run(t)
  <2>1. /\ at[t] \in CommitSteps /\ \E w \in Past \ {"publish"} : at' = [at EXCEPT ![t] = w]
        /\ UNCHANGED <<sys, hist, before, disturbed, step, job, sntp, timeOk>>
    BY <1>6 DEF Aim, Stop, Regs, Run, GoesTo, Works, ghosts, clocks, commit, radios,
           Past, CommitSteps
  <2>2. /\ at[t] = "aim" => epoch' = [epoch EXCEPT ![t] = IF t = "ui" THEN job[t] ELSE sys]
        /\ at[t] # "aim" => epoch' = epoch
    BY <1>6 DEF Aim, Stop, Regs, Run, commit
  <2>3. ASSUME disturbed = {}, NEW u \in Sources
        PROVE  /\ Committing(u)' <=> Committing(u)
               /\ Committing(u)' => job'[u] = job[u]
               /\ at'[u] \in Past => epoch'[u] = sys
               /\ at'[u] = "publish" => at[u] = "publish"
    <3>1. Recording(u) /\ (u = t => job[u] = sys)
      BY <2>1, <2>3 DEF HistInv, Recordings, Recording, Committing
    <3>2. CASE u = t
      <4>1. at'[u] \in CommitSteps /\ at'[u] # "publish"  BY <1>1, <2>1, <3>2 DEF Past
      <4>2. epoch'[u] = sys
        BY <1>1, <2>1, <2>2, <3>1, <3>2 DEF Recording, Past
      <4>3. QED  BY <2>1, <3>2, <4>1, <4>2 DEF Committing
    <3>3. CASE u # t
      <4>1. at'[u] = at[u] /\ epoch'[u] = epoch[u] /\ job'[u] = job[u]
        BY <1>1, <2>1, <2>2, <3>3
      <4>2. QED  BY <2>1, <3>1, <4>1 DEF Committing, Recording
    <3>4. QED  BY <3>2, <3>3
  <2>4. QED  BY <2>1, <2>3, Carried
<1>7. QED  BY <1>2, <1>3, <1>4, <1>5, <1>6 DEF Commit

LEMMA RecordRestart ==
    ASSUME HistInv, Restart
    PROVE  /\ disturbed' = {} => Recordings'
           /\ disturbed' = {"unread"} /\ rtc'.time # 0 => Entries(10, rtc.time)'
<1> SUFFICES ASSUME disturbed' = {} \/ disturbed' = {"unread"}
             PROVE  /\ disturbed' = {} => Recordings'
                    /\ disturbed' = {"unread"} /\ rtc'.time # 0 => Entries(10, rtc.time)'
  OBVIOUS
<1> DEFINE sofar == IF Quiet THEN disturbed ELSE disturbed \cup {"cut"}
<1>1. UNCHANGED <<hist, before, rtc>> /\ sofar \subseteq {"unread"}
  <2>1. Boots /\ UNCHANGED <<hist, before>>  BY DEF Restart
  <2>2. "drained" \notin disturbed' /\ disturbed' \subseteq {"unread"}  OBVIOUS
  <2>3. rtc' = rtc /\ (disturbed' = sofar \ {"unread"} \/ disturbed' = sofar \cup {"unread"})
    BY <2>1, <2>2 DEF Boots
  <2>4. QED  BY <2>1, <2>2, <2>3
<1>2. Quiet /\ (disturbed = {} \/ disturbed = {"unread"})
  <2>1. "cut" \notin sofar  BY <1>1
  <2>2. QED  BY <1>1, <2>1
<1>3. rtc.time # 0 => Entries(10, rtc.time)
  <2>1. CASE disturbed = {}
    <3>1. rtc.time = sys  BY <1>2, <2>1 DEF HistInv, ClockInv, Undisturbed
    <3>2. QED  BY <1>2, <2>1, <3>1 DEF HistInv, Recordings, Written
  <2>2. CASE disturbed = {"unread"}  BY <2>2 DEF HistInv
  <2>3. QED  BY <1>2, <2>1, <2>2
<1>4. rtc'.time # 0 => Entries(10, rtc.time)'  BY <1>1, <1>3 DEF Entries
<1>5. \A u \in Sources : ~Committing(u)'
  BY DEF Restart, Committing, CommitSteps, BleSteps
<1>6. ASSUME disturbed' = {} PROVE Recordings'
  <2>1. rtc' = [time |-> sys', running |-> TRUE]
    BY <1>5, <1>6, ClockRestart DEF HistInv, Undisturbed, Quiet
  <2>2. sys' # 0 => Written(10)'  BY <1>4, <2>1 DEF Written
  <2>3. QED  BY <1>5, <2>2, NothingToSay DEF Recordings
<1>7. QED  BY <1>4, <1>6

(* The workers' steps up to their commit neither begin nor end one.          *)
LEMMA RecordWifi ==
    ASSUME HistInv, WifiStart \/ WifiWorker \/ SntpAnswer
    PROVE  disturbed' = {} => Recordings'
<1>1. /\ at \in [Sources -> Where] /\ job \in [Sources -> 0 .. MaxJobs]
      /\ step \in [Sources -> 1 .. 9] /\ RadioOwned
  BY DEF HistInv, ClockInv, TypeOK, TypeTasks, TypeJobs, TypeCommit
<1>2. disturbed = {} => \A u \in Sources : Recording(u)  BY DEF HistInv, Recordings
<1>3. CASE SntpAnswer
  <2>1. PICK time \in {job["wifi"], 0} :
          SetsClock("wifi", job["wifi"], time, at["wifi"] = "sync" /\ time # 0)
    BY <1>3 DEF SntpAnswer
  <2>2. sntp = "on" /\ sntp' = "answered" /\ UNCHANGED <<at, job, timeOk>>  BY <1>3 DEF SntpAnswer
  <2>3. "wifi" \in Sources  BY <1>1, <2>2 DEF RadioOwned
  <2> DEFINE wanted == at["wifi"] = "sync" /\ time # 0
  <2>4. wanted => time # 0 /\ job'["wifi"] = time /\ Committing("wifi")' /\ at'["wifi"] \notin Past
    BY <2>2 DEF Committing, Past, CommitSteps
  <2>5. \A u \in Sources \ {"wifi"} : Committing(u)' => Committing(u)  BY <2>2 DEF Committing
  <2>6. wanted \in BOOLEAN  OBVIOUS
  <2>7. SetsClock("wifi", job["wifi"], time, wanted)  BY <2>1
  <2> HIDE DEF wanted
  <2>8. QED  BY <2>3, <2>4, <2>5, <2>6, <2>7, SetAlone
<1>4. CASE WifiStart \/ WifiWorker
  <2>1. /\ "wifi" \in Sources /\ UNCHANGED <<sys, hist, before, disturbed, step, epoch, timeOk>>
        /\ at["wifi"] \notin CommitSteps
    BY <1>4 DEF WifiStart, Begins, WifiWorker, WifiStep, WifiJoinFails, WifiJoined, WifiTimeout,
                WifiSynced, WifiDown, Works, clocks, commit, radios, ghosts, CommitSteps
  <2>2. PICK to \in {"join", "sync", "down", "idle", "aim"} : at' = [at EXCEPT !["wifi"] = to]
    BY <1>4 DEF WifiStart, Begins, WifiWorker, WifiStep, WifiJoinFails, WifiJoined, WifiTimeout,
                WifiSynced, WifiDown, GoesTo
  <2>3. \A u \in Sources \ {"wifi"} : at'[u] = at[u] /\ job'[u] = job[u]
    BY <1>1, <1>4, <2>2 DEF WifiStart, Begins, WifiWorker, WifiStep, WifiJoinFails, WifiJoined,
                WifiTimeout, WifiSynced, WifiDown
  <2>4. disturbed = {} =>
          /\ Committing("wifi")' <=> Committing("wifi")
          /\ Committing("wifi")' => job'["wifi"] = job["wifi"]
    <3> USE <1>1, <2>1 DEF Committing, CommitSteps, GoesTo
    <3>1. CASE WifiStart  BY <3>1 DEF WifiStart, Begins
    <3>2. CASE WifiJoinFails  BY <3>2 DEF WifiJoinFails, WifiStep
    <3>3. CASE WifiJoined  BY <3>3 DEF WifiJoined, WifiStep
    <3>4. CASE WifiTimeout  BY <3>4 DEF WifiTimeout, WifiStep
    <3>5. CASE WifiSynced
      <4>1. disturbed = {} => sys # 0  BY <1>2, <3>5 DEF WifiSynced, WifiStep, Recording
      <4>2. QED  BY <3>5, <4>1 DEF WifiSynced, WifiStep
    <3>6. CASE WifiDown  BY <3>6 DEF WifiDown, WifiStep
    <3>7. QED  BY <1>4, <3>1, <3>2, <3>3, <3>4, <3>5, <3>6 DEF WifiWorker
  <2>5. ASSUME disturbed = {}, NEW u \in Sources
        PROVE  /\ Committing(u)' <=> Committing(u)
               /\ Committing(u)' => job'[u] = job[u]
               /\ at'[u] \in Past => epoch'[u] = sys
               /\ at'[u] = "publish" => at[u] = "publish"
    <3>1. CASE u = "wifi"
      <4>1. at'[u] \notin Past /\ at'[u] # "publish"
        BY <1>1, <2>2, <3>1 DEF Past, CommitSteps
      <4>2. QED  BY <2>4, <2>5, <3>1, <4>1
    <3>2. CASE u # "wifi"
      <4>1. at'[u] = at[u] /\ job'[u] = job[u]  BY <2>3, <3>2
      <4>2. QED  BY <1>2, <2>1, <2>5, <3>2, <4>1 DEF Committing, Recording
    <3>3. QED  BY <3>1, <3>2
  <2>6. QED  BY <2>1, <2>5, Carried
<1>5. QED  BY <1>3, <1>4

LEMMA RecordBle ==
    ASSUME HistInv, BleStart \/ BleWorker \/ BleHost
    PROVE  disturbed' = {} => Recordings'
<1>1. /\ at \in [Sources -> Where] /\ job \in [Sources -> 0 .. MaxJobs]
      /\ step \in [Sources -> 1 .. 9] /\ RadioOwned
  BY DEF HistInv, ClockInv, TypeOK, TypeTasks, TypeJobs, TypeCommit
<1>2. disturbed = {} => \A u \in Sources : Recording(u)  BY DEF HistInv, Recordings
<1>3. CASE HostApplies
  <2> DEFINE wanted == at["ble"] \in BleSteps
  <2>1. /\ SetsClock("ble", job["ble"], job["ble"], wanted) /\ host # "off"
        /\ timeOk' = TRUE /\ UNCHANGED <<at, job, sntp>>
    BY <1>3 DEF HostApplies, HostUnchanged
  <2>2. "ble" \in Sources /\ job["ble"] # 0
    BY <1>1, <2>1, MaxJobsAssumption DEF RadioOwned
  <2>3. wanted => Committing("ble")' /\ at'["ble"] \notin Past /\ job'["ble"] = job["ble"]
    BY <2>1, <2>2 DEF Committing, Past, CommitSteps, BleSteps
  <2>4. \A u \in Sources \ {"ble"} : Committing(u)' => Committing(u)  BY <2>1 DEF Committing
  <2>5. wanted \in BOOLEAN  OBVIOUS
  <2> HIDE DEF wanted
  <2>6. QED  BY <2>1, <2>2, <2>3, <2>4, <2>5, SetAlone
<1>4. CASE BleHost /\ ~HostApplies
  <2>1. UNCHANGED <<sys, hist, before, disturbed, step, at, job, epoch, sntp, timeOk>>
    BY <1>4 DEF BleHost, HostFails, HostStep, HostUnchanged, ghosts, commit
  <2>2. QED  BY <1>2, <2>1, Carried DEF Committing, Recording
<1>5. CASE BleStart \/ BleWorker
  <2>1. /\ "ble" \in Sources /\ UNCHANGED <<sys, hist, before, disturbed, step, epoch, sntp>>
        /\ at["ble"] \notin CommitSteps
    BY <1>5 DEF BleStart, Begins, BleWorker, BleStep, BleStartFails, BleOpDone, BleTimeout,
                BleDrained, BleStop, BleStopFails, BleDecide, Works, clocks, commit, ghosts, CommitSteps
  <2>2. PICK to \in {"link", "drain", "teardown", "decide", "idle", "aim"} :
          at' = [at EXCEPT !["ble"] = to]
    BY <1>5 DEF BleStart, Begins, BleWorker, BleStep, BleStartFails, BleOpDone, BleTimeout,
                BleDrained, BleStop, BleStopFails, BleDecide, GoesTo
  <2>3. \A u \in Sources \ {"ble"} : at'[u] = at[u] /\ job'[u] = job[u]
    BY <1>1, <1>5, <2>2 DEF BleStart, Begins, BleWorker, BleStep, BleStartFails, BleOpDone,
                BleTimeout, BleDrained,
         BleStop, BleStopFails, BleDecide
  <2>4. /\ Committing("ble")' <=> Committing("ble")
        /\ Committing("ble")' => job'["ble"] = job["ble"]
    <3> USE <1>1, <2>1 DEF Committing, CommitSteps, BleSteps, GoesTo
    <3>1. CASE BleStart  BY <3>1 DEF BleStart, Begins
    <3>2. CASE BleStartFails  BY <3>2 DEF BleStartFails, BleStep
    <3>3. CASE BleOpDone  BY <3>3 DEF BleOpDone, BleStep
    <3>4. CASE BleTimeout  BY <3>4 DEF BleTimeout, BleStep
    <3>5. CASE BleDrained  BY <3>5 DEF BleDrained, BleStep
    <3>6. CASE BleStop  BY <3>6 DEF BleStop, BleStep
    <3>7. CASE BleDecide  BY <3>7 DEF BleDecide, BleStep
    <3>9. CASE BleStopFails  BY <3>9 DEF BleStopFails, BleStep
    <3>8. QED  BY <1>5, <3>1, <3>2, <3>3, <3>4, <3>5, <3>6, <3>7, <3>9 DEF BleWorker
  <2>5. ASSUME disturbed = {}, NEW u \in Sources
        PROVE  /\ Committing(u)' <=> Committing(u)
               /\ Committing(u)' => job'[u] = job[u]
               /\ at'[u] \in Past => epoch'[u] = sys
               /\ at'[u] = "publish" => at[u] = "publish"
    <3>1. CASE u = "ble"
      <4>1. at'[u] \notin Past /\ at'[u] # "publish"
        BY <1>1, <2>2, <3>1 DEF Past, CommitSteps
      <4>2. QED  BY <2>4, <2>5, <3>1, <4>1
    <3>2. CASE u # "ble"
      <4>1. at'[u] = at[u] /\ job'[u] = job[u]  BY <2>3, <3>2
      <4>2. QED  BY <1>2, <2>1, <2>5, <3>2, <4>1 DEF Committing, Recording
    <3>3. QED  BY <3>1, <3>2
  <2>6. QED  BY <2>1, <2>5, Carried
<1>6. QED  BY <1>3, <1>4, <1>5

LEMMA HistInit == Init => HistInv
<1> SUFFICES ASSUME Init PROVE HistInv  OBVIOUS
<1>1. ClockInv  BY ClockInit
<1>2. StepsAtOne  BY DEF Init, StepsAtOne
<1>3. \A t \in Sources : Recording(t)
  BY DEF Init, Recording, Committing, Past, CommitSteps, BleSteps
<1>4. sys = 0 /\ disturbed = {}  BY DEF Init
<1>5. QED  BY <1>1, <1>2, <1>3, <1>4 DEF HistInv, Recordings

LEMMA HistStep == HistInv /\ [Next]_vars => HistInv'
<1> SUFFICES ASSUME HistInv, [Next]_vars PROVE HistInv'  OBVIOUS
<1>1. ClockInv' /\ StepsAtOne'  BY ClockStep, StepsStep DEF HistInv, ClockInv, Owned
<1>2. disturbed' = {} => Recordings'
  <2>1. CASE Next  BY <2>1, RecordCommit, RecordWifi, RecordBle, RecordRestart DEF Next
  <2>2. CASE UNCHANGED vars
    <3>1. UNCHANGED <<sys, hist, before, disturbed, step, at, job, epoch, sntp, timeOk>>
      BY <2>2 DEF vars, clocks, commit, radios, ghosts
    <3>2. QED  BY <3>1, Carried DEF HistInv, Recordings, Committing, Recording
  <2>3. QED  BY <2>1, <2>2
<1>3. ASSUME disturbed' = {"unread"}, rtc'.time # 0 PROVE Entries(10, rtc.time)'
  <2>1. CASE Restart  BY <1>3, <2>1, RecordRestart
  <2>2. CASE ~Restart
    <3>1. disturbed = {"unread"} /\ UNCHANGED <<rtc, hist, before>>
      BY <1>3, <2>2, UnreadRests DEF HistInv
    <3>2. QED  BY <1>3, <3>1 DEF HistInv, Entries
  <2>3. QED  BY <2>1, <2>2
<1>4. QED  BY <1>1, <1>2, <1>3 DEF HistInv

(* Undisturbed but for boots that could not read the RTC, the newest entry   *)
(* is the synchronisation the RTC has and the others are those that were     *)
(* before it, for any tasks, syncs and faults.                               *)
THEOREM HistoryIsKept == Spec => []HistoryKept
<1>1. HistInv => HistoryKept
  <2> SUFFICES ASSUME HistInv, disturbed \subseteq {"unread"}, Quiet, rtc.time # 0
               PROVE  hist = <<Whole(rtc.time), before[1], before[2]>>
    BY DEF HistoryKept
  <2>1. Entries(10, rtc.time)
    <3>1. CASE disturbed = {}
      <4>1. rtc.time = sys  BY <3>1 DEF HistInv, ClockInv, Undisturbed
      <4>2. QED  BY <3>1, <4>1 DEF HistInv, Recordings, Written
    <3>2. CASE disturbed = {"unread"}  BY <3>2 DEF HistInv
    <3>3. QED  BY <3>1, <3>2
  <2>2. /\ hist \in [1 .. 3 -> [Fields -> Times]] /\ before \in [1 .. 3 -> [Fields -> Times]]
    BY DEF HistInv, ClockInv, TypeOK, TypeClock
  <2>3. \A i \in 1 .. 3, f \in Fields : hist[i][f] = IF i = 1 THEN rtc.time ELSE before[i - 1][f]
    BY <2>1 DEF Entries, Place, Fields
  <2>4. hist[1] = Whole(rtc.time)  BY <2>2, <2>3 DEF Whole
  <2>5. hist[2] = before[1] /\ hist[3] = before[2]
    <3>1. \A f \in Fields : hist[2][f] = before[1][f] /\ hist[3][f] = before[2][f]  BY <2>3
    <3>2. QED  BY <2>2, <3>1
  <2>6. QED  BY <2>2, <2>4, <2>5
<1>2. QED  BY <1>1, HistInit, HistStep, PTL DEF Spec
=============================================================================
