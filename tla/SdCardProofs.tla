---------------------------- MODULE SdCardProofs ----------------------------
(***************************************************************************)
(* Theorems about SdCard, for any names, cards, tasks and number of jobs   *)
(* and faults: types, what an export leaves and tells, what is wiped, and  *)
(* who has the card.                                                       *)
(***************************************************************************)
EXTENDS SdCard, TLAPS

-----------------------------------------------------------------------------
(***************************************************************************)
(* Types                                                                   *)
(***************************************************************************)
LEMMA TaskNames ==
    /\ "bk" \in Exporters /\ Exporters \subseteq Workers /\ "sd" \in Workers
    /\ Workers \subseteq Tasks /\ "ui" \in Tasks /\ "ui" \notin Workers /\ "sd" \notin Exporters
    /\ Tasks = Workers \cup {"ui"} /\ Workers = Exporters \cup {"sd"}
BY CardAssumption DEF Exporters, Workers, Tasks

LEMMA Files ==
    /\ Backups \cup Leftovers \cup {Tmp} = Names
    /\ Backups \cap Leftovers = {} /\ Tmp \notin Backups /\ Tmp \notin Leftovers
    /\ Data \cup {Absent, Torn, Zeros, Plain} = Contents
    /\ Absent \notin Data /\ Torn \notin Data /\ Zeros \notin Data /\ Torn # Absent
    /\ \A k \in DOMAIN Slots : Slots[k] \in Backups
BY CardAssumption DEF Names, Contents, Backups

LEMMA FreshCards ==
    ASSUME NEW f \in Fresh
    PROVE  /\ f \in [Names -> Contents] /\ f[Tmp] = Absent
           /\ \A n \in Backups : f[n] \in Data \cup {Absent}
<1>1. PICK c \in Cards, d \in Data :
        f = [n \in Names |-> IF n \notin c THEN Absent ELSE IF n \in Leftovers THEN Plain ELSE d]
  BY DEF Fresh
<1>2. Tmp \notin c  BY Files, CardAssumption
<1>3. QED  BY <1>1, <1>2, Files

LEMMA NextFile == left # {} => File \in left
BY DEF File

LEMMA TypeMount ==
    ASSUME TypeOK, NEW w \in Workers, MountCheck(w) \/ MountInit(w) \/ MountDone(w)
    PROVE  TypeOK'
<1> USE TaskNames, Files DEF TypeOK, TypeCard, TypeDriver, TypeTasks, TypeBackup, TypeCheck,
        TypeUi, TypeBounds,
        card, driver, backup, check, ui, bounds, Goes
<1>1. CASE MountCheck(w)
  <2> USE <1>1 DEF MountCheck, DriverKeeps
  <2>1. TypeCard'  OBVIOUS
  <2>2. TypeDriver'  OBVIOUS
  <2>3. TypeTasks'  BY DEF Steps, Idle
  <2>4. TypeBackup'  OBVIOUS
  <2>5. TypeCheck'  OBVIOUS
  <2>6. TypeUi'  OBVIOUS
  <2>7. TypeBounds'  BY CardAssumption DEF Crosses
  <2>8. QED  BY <2>1, <2>2, <2>3, <2>4, <2>5, <2>6, <2>7
<1>2. CASE MountInit(w)
  <2> USE <1>2 DEF MountInit, DriverKeeps, NoCard, Pulsed
  <2>1. TypeCard'  OBVIOUS
  <2>2. TypeDriver'  OBVIOUS
  <2>3. TypeTasks'  BY DEF Steps, Idle
  <2>4. TypeBackup'  OBVIOUS
  <2>5. TypeCheck'  OBVIOUS
  <2>6. TypeUi'  OBVIOUS
  <2>7. TypeBounds'  BY CardAssumption DEF Crosses
  <2>8. QED  BY <2>1, <2>2, <2>3, <2>4, <2>5, <2>6, <2>7
<1>3. CASE MountDone(w)
  <2> USE <1>3 DEF MountDone, DriverKeeps, NoCard
  <2>1. TypeCard'  OBVIOUS
  <2>2. TypeDriver'  OBVIOUS
  <2>3. TypeTasks'  BY DEF Steps, Idle
  <2>4. TypeBackup'  OBVIOUS
  <2>5. TypeCheck'  OBVIOUS
  <2>6. TypeUi'  OBVIOUS
  <2>7. TypeBounds'  BY CardAssumption DEF Crosses
  <2>8. QED  BY <2>1, <2>2, <2>3, <2>4, <2>5, <2>6, <2>7
<1>4. QED  BY <1>1, <1>2, <1>3

LEMMA TypeUnmount ==
    ASSUME TypeOK, NEW t \in Tasks, UnmountCall(t) \/ UnmountFlag(t)
    PROVE  TypeOK'
<1> USE TaskNames, Files DEF TypeOK, TypeCard, TypeDriver, TypeTasks, TypeBackup, TypeCheck,
        TypeUi, TypeBounds,
        card, driver, backup, check, ui, bounds, Goes
<1>1. CASE UnmountCall(t)
  <2> USE <1>1 DEF UnmountCall, DriverKeeps
  <2>1. TypeCard'  OBVIOUS
  <2>2. TypeDriver'  OBVIOUS
  <2>3. TypeTasks'  BY DEF Steps, Idle
  <2>4. TypeBackup'
    <3>1. fd' = fd \/ fd' = [w \in Exporters |-> FALSE]  OBVIOUS
    <3>2. UNCHANGED <<data, name, err>>  OBVIOUS
    <3>3. fd' \in [Exporters -> BOOLEAN]
      <4>1. CASE fd' = fd  BY <4>1
      <4>2. CASE fd' = [w \in Exporters |-> FALSE]  BY <4>2
      <4>3. QED  BY <3>1, <4>1, <4>2
    <3>4. QED  BY <3>2, <3>3
  <2>5. TypeCheck'  OBVIOUS
  <2>6. TypeUi'  OBVIOUS
  <2>7. TypeBounds'  BY CardAssumption DEF Crosses
  <2>8. QED  BY <2>1, <2>2, <2>3, <2>4, <2>5, <2>6, <2>7
<1>2. CASE UnmountFlag(t)
  <2> USE <1>2 DEF UnmountFlag, DriverKeeps
  <2>1. TypeCard'  OBVIOUS
  <2>2. TypeDriver'  OBVIOUS
  <2>3. TypeTasks'  BY DEF Steps, Idle
  <2>4. TypeBackup'  OBVIOUS
  <2>5. TypeCheck'  OBVIOUS
  <2>6. TypeUi'  OBVIOUS
  <2>7. TypeBounds'  BY CardAssumption DEF Crosses
  <2>8. QED  BY <2>1, <2>2, <2>3, <2>4, <2>5, <2>6, <2>7
<1>3. QED  BY <1>1, <1>2

LEMMA TypeUsb ==
    ASSUME TypeOK, RawCheck \/ RawOpen \/ Install
    PROVE  TypeOK'
<1> USE TaskNames, Files DEF TypeOK, TypeCard, TypeDriver, TypeTasks, TypeBackup, TypeCheck,
        TypeUi, TypeBounds,
        card, driver, backup, check, ui, bounds, Goes
<1>1. CASE RawCheck
  <2> USE <1>1 DEF RawCheck, DriverKeeps, Pulsed
  <2>1. TypeCard'  OBVIOUS
  <2>2. TypeDriver'  OBVIOUS
  <2>3. TypeTasks'  BY DEF Steps, Idle
  <2>4. TypeBackup'  OBVIOUS
  <2>5. TypeCheck'  OBVIOUS
  <2>6. TypeUi'  OBVIOUS
  <2>7. TypeBounds'  BY CardAssumption DEF Crosses
  <2>8. QED  BY <2>1, <2>2, <2>3, <2>4, <2>5, <2>6, <2>7
<1>2. CASE RawOpen
  <2> USE <1>2 DEF RawOpen, DriverKeeps, Pulsed
  <2>1. TypeCard'  OBVIOUS
  <2>2. TypeDriver'  OBVIOUS
  <2>3. TypeTasks'  BY DEF Steps, Idle
  <2>4. TypeBackup'  OBVIOUS
  <2>5. TypeCheck'  OBVIOUS
  <2>6. TypeUi'  OBVIOUS
  <2>7. TypeBounds'  BY CardAssumption DEF Crosses
  <2>8. QED  BY <2>1, <2>2, <2>3, <2>4, <2>5, <2>6, <2>7
<1>3. CASE Install
  <2> USE <1>3 DEF Install, DriverKeeps
  <2>1. TypeCard'  OBVIOUS
  <2>2. TypeDriver'  OBVIOUS
  <2>3. TypeTasks'  BY DEF Steps, Idle
  <2>4. TypeBackup'  OBVIOUS
  <2>5. TypeCheck'  OBVIOUS
  <2>6. TypeUi'  OBVIOUS
  <2>7. TypeBounds'  BY CardAssumption DEF Crosses
  <2>8. QED  BY <2>1, <2>2, <2>3, <2>4, <2>5, <2>6, <2>7
<1>4. QED  BY <1>1, <1>2, <1>3

LEMMA TypeExport ==
    ASSUME TypeOK, NEW w \in Exporters, StartJob(w) \/ Seal(w) \/ Reads(w) \/ PickName(w) \/
             Open(w) \/ Write(w) \/
             Rename(w) \/ Undo(w) \/ JobEnds(w)
    PROVE  TypeOK'
<1> USE TaskNames, Files DEF TypeOK, TypeCard, TypeDriver, TypeTasks, TypeBackup, TypeCheck,
        TypeUi, TypeBounds,
        card, driver, backup, check, ui, bounds, Goes
<1>1. CASE StartJob(w)
  <2> USE <1>1 DEF StartJob
  <2>1. TypeCard'  OBVIOUS
  <2>2. TypeDriver'  OBVIOUS
  <2>3. TypeTasks'  BY DEF Steps, Idle
  <2>4. TypeBackup'  OBVIOUS
  <2>5. TypeCheck'  OBVIOUS
  <2>6. TypeUi'  OBVIOUS
  <2>7. TypeBounds'  BY CardAssumption DEF Crosses
  <2>8. QED  BY <2>1, <2>2, <2>3, <2>4, <2>5, <2>6, <2>7
<1>2. CASE Seal(w)
  <2> USE <1>2 DEF Seal, ExportKeeps, Fail
  <2>1. TypeCard'  OBVIOUS
  <2>2. TypeDriver'  OBVIOUS
  <2>3. TypeTasks'  BY DEF Steps, Idle
  <2>4. TypeBackup'  OBVIOUS
  <2>5. TypeCheck'  OBVIOUS
  <2>6. TypeUi'  OBVIOUS
  <2>7. TypeBounds'  BY CardAssumption DEF Crosses
  <2>8. QED  BY <2>1, <2>2, <2>3, <2>4, <2>5, <2>6, <2>7
<1>3. CASE Reads(w)
  <2> USE <1>3 DEF Reads, ExportKeeps
  <2>1. TypeCard'  OBVIOUS
  <2>2. TypeDriver'  OBVIOUS
  <2>3. TypeTasks'  BY DEF Steps, Idle
  <2>4. TypeBackup'  OBVIOUS
  <2>5. TypeCheck'  OBVIOUS
  <2>6. TypeUi'  OBVIOUS
  <2>7. TypeBounds'  BY CardAssumption DEF Crosses
  <2>8. QED  BY <2>1, <2>2, <2>3, <2>4, <2>5, <2>6, <2>7
<1>4. CASE PickName(w)
  <2> USE <1>4 DEF PickName, ExportKeeps, Fail, Free
  <2>1. TypeCard'  OBVIOUS
  <2>2. TypeDriver'  OBVIOUS
  <2>3. TypeTasks'  BY DEF Steps, Idle
  <2>4. TypeBackup'  OBVIOUS
  <2>5. TypeCheck'  OBVIOUS
  <2>6. TypeUi'  OBVIOUS
  <2>7. TypeBounds'  BY CardAssumption DEF Crosses
  <2>8. QED  BY <2>1, <2>2, <2>3, <2>4, <2>5, <2>6, <2>7
<1>5. CASE Open(w)
  <2> USE <1>5 DEF Open, ExportKeeps, Fail
  <2>1. TypeCard'  OBVIOUS
  <2>2. TypeDriver'  OBVIOUS
  <2>3. TypeTasks'  BY DEF Steps, Idle
  <2>4. TypeBackup'
    <3>1. fd' = fd \/ fd' = [fd EXCEPT ![w] = TRUE]  OBVIOUS
    <3>2. err' = err \/ err' = [err EXCEPT ![w] = "error"]  OBVIOUS
    <3>3. UNCHANGED <<data, name>>  OBVIOUS
    <3>4. fd' \in [Exporters -> BOOLEAN]
      <4>1. CASE fd' = fd  BY <4>1
      <4>2. CASE fd' = [fd EXCEPT ![w] = TRUE]  BY <4>2
      <4>3. QED  BY <3>1, <4>1, <4>2
    <3>5. err' \in [Exporters -> {"none", "ok", "error"}]
      <4>1. CASE err' = err  BY <4>1
      <4>2. CASE err' = [err EXCEPT ![w] = "error"]  BY <4>2
      <4>3. QED  BY <3>2, <4>1, <4>2
    <3>6. QED  BY <3>3, <3>4, <3>5
  <2>5. TypeCheck'  OBVIOUS
  <2>6. TypeUi'  OBVIOUS
  <2>7. TypeBounds'  BY CardAssumption DEF Crosses
  <2>8. QED  BY <2>1, <2>2, <2>3, <2>4, <2>5, <2>6, <2>7
<1>6. CASE Write(w)
  <2> USE <1>6 DEF Write, ExportKeeps
  <2>1. TypeCard'  OBVIOUS
  <2>2. TypeDriver'  OBVIOUS
  <2>3. TypeTasks'  BY DEF Steps, Idle
  <2>4. TypeBackup'  OBVIOUS
  <2>5. TypeCheck'  OBVIOUS
  <2>6. TypeUi'  OBVIOUS
  <2>7. TypeBounds'  BY CardAssumption DEF Crosses
  <2>8. QED  BY <2>1, <2>2, <2>3, <2>4, <2>5, <2>6, <2>7
<1>7. CASE Rename(w)
  <2> USE <1>7 DEF Rename, ExportKeeps
  <2>1. TypeCard'  OBVIOUS
  <2>2. TypeDriver'  OBVIOUS
  <2>3. TypeTasks'  BY DEF Steps, Idle
  <2>4. TypeBackup'  OBVIOUS
  <2>5. TypeCheck'  OBVIOUS
  <2>6. TypeUi'  OBVIOUS
  <2>7. TypeBounds'  BY CardAssumption DEF Crosses
  <2>8. QED  BY <2>1, <2>2, <2>3, <2>4, <2>5, <2>6, <2>7
<1>8. CASE Undo(w)
  <2> USE <1>8 DEF Undo, ExportKeeps, Fail
  <2>1. TypeCard'  OBVIOUS
  <2>2. TypeDriver'  OBVIOUS
  <2>3. TypeTasks'  BY DEF Steps, Idle
  <2>4. TypeBackup'  OBVIOUS
  <2>5. TypeCheck'  OBVIOUS
  <2>6. TypeUi'  OBVIOUS
  <2>7. TypeBounds'  BY CardAssumption DEF Crosses
  <2>8. QED  BY <2>1, <2>2, <2>3, <2>4, <2>5, <2>6, <2>7
<1>9. CASE JobEnds(w)
  <2> USE <1>9 DEF JobEnds
  <2>1. TypeCard'  OBVIOUS
  <2>2. TypeDriver'  OBVIOUS
  <2>3. TypeTasks'  BY DEF Steps, Idle
  <2>4. TypeBackup'  OBVIOUS
  <2>5. TypeCheck'  OBVIOUS
  <2>6. TypeUi'  OBVIOUS
  <2>7. TypeBounds'  BY CardAssumption DEF Crosses
  <2>8. QED  BY <2>1, <2>2, <2>3, <2>4, <2>5, <2>6, <2>7
<1>10. QED  BY <1>1, <1>2, <1>3, <1>4, <1>5, <1>6, <1>7, <1>8, <1>9

LEMMA TypeSdCheck ==
    ASSUME TypeOK, Scan \/ WipeBegin \/ WipeZeros \/ WipeDelete \/ WipeEnd \/ Watch \/ CheckPoll \/
             Answer
    PROVE  TypeOK'
<1> USE TaskNames, Files DEF TypeOK, TypeCard, TypeDriver, TypeTasks, TypeBackup, TypeCheck,
        TypeUi, TypeBounds,
        card, driver, backup, check, ui, bounds, Goes
<1>1. CASE Scan
  <2> USE <1>1 DEF Scan, CheckKeeps, Present
  <2>1. TypeCard'  OBVIOUS
  <2>2. TypeDriver'  OBVIOUS
  <2>3. TypeTasks'  BY DEF Steps, Idle
  <2>4. TypeBackup'  OBVIOUS
  <2>5. TypeCheck'  OBVIOUS
  <2>6. TypeUi'  OBVIOUS
  <2>7. TypeBounds'  BY CardAssumption DEF Crosses
  <2>8. QED  BY <2>1, <2>2, <2>3, <2>4, <2>5, <2>6, <2>7
<1>2. CASE WipeBegin
  <2> USE <1>2 DEF WipeBegin, CheckKeeps
  <2>1. TypeCard'  OBVIOUS
  <2>2. TypeDriver'  OBVIOUS
  <2>3. TypeTasks'  BY DEF Steps, Idle
  <2>4. TypeBackup'  OBVIOUS
  <2>5. TypeCheck'  OBVIOUS
  <2>6. TypeUi'  OBVIOUS
  <2>7. TypeBounds'  BY CardAssumption DEF Crosses
  <2>8. QED  BY <2>1, <2>2, <2>3, <2>4, <2>5, <2>6, <2>7
<1>3. CASE WipeZeros
  <2> USE <1>3 DEF WipeZeros, CheckKeeps
  <2>1. TypeCard'  BY NextFile
  <2>2. TypeDriver'  OBVIOUS
  <2>3. TypeTasks'  BY DEF Steps, Idle
  <2>4. TypeBackup'  OBVIOUS
  <2>5. TypeCheck'  OBVIOUS
  <2>6. TypeUi'  OBVIOUS
  <2>7. TypeBounds'  BY CardAssumption DEF Crosses
  <2>8. QED  BY <2>1, <2>2, <2>3, <2>4, <2>5, <2>6, <2>7
<1>4. CASE WipeDelete
  <2> USE <1>4 DEF WipeDelete, CheckKeeps
  <2>1. TypeCard'  BY NextFile
  <2>2. TypeDriver'  OBVIOUS
  <2>3. TypeTasks'  BY DEF Steps, Idle
  <2>4. TypeBackup'  OBVIOUS
  <2>5. TypeCheck'  OBVIOUS
  <2>6. TypeUi'  OBVIOUS
  <2>7. TypeBounds'  BY CardAssumption DEF Crosses
  <2>8. QED  BY <2>1, <2>2, <2>3, <2>4, <2>5, <2>6, <2>7
<1>5. CASE WipeEnd
  <2> USE <1>5 DEF WipeEnd, CheckKeeps
  <2>1. TypeCard'  OBVIOUS
  <2>2. TypeDriver'  OBVIOUS
  <2>3. TypeTasks'  BY DEF Steps, Idle
  <2>4. TypeBackup'  OBVIOUS
  <2>5. TypeCheck'  OBVIOUS
  <2>6. TypeUi'  OBVIOUS
  <2>7. TypeBounds'  BY CardAssumption DEF Crosses
  <2>8. QED  BY <2>1, <2>2, <2>3, <2>4, <2>5, <2>6, <2>7
<1>6. CASE Watch
  <2> USE <1>6 DEF Watch, MayScan, StartCheck
  <2>1. TypeCard'  OBVIOUS
  <2>2. TypeDriver'  OBVIOUS
  <2>3. TypeTasks'  BY DEF Steps, Idle
  <2>4. TypeBackup'  OBVIOUS
  <2>5. TypeCheck'  OBVIOUS
  <2>6. TypeUi'  OBVIOUS
  <2>7. TypeBounds'  BY CardAssumption DEF Crosses
  <2>8. QED  BY <2>1, <2>2, <2>3, <2>4, <2>5, <2>6, <2>7
<1>7. CASE CheckPoll
  <2> USE <1>7 DEF CheckPoll, Forgotten
  <2>1. TypeCard'  OBVIOUS
  <2>2. TypeDriver'  OBVIOUS
  <2>3. TypeTasks'  BY DEF Steps, Idle
  <2>4. TypeBackup'  OBVIOUS
  <2>5. TypeCheck'  OBVIOUS
  <2>6. TypeUi'  OBVIOUS
  <2>7. TypeBounds'
    <3>1. crossed' = crossed \/ crossed' = crossed \cup {"relist"}  BY DEF Crosses
    <3>2. UNCHANGED bounds  OBVIOUS
    <3>3. QED  BY <3>1, <3>2, ZenonT(60)
  <2>8. QED  BY <2>1, <2>2, <2>3, <2>4, <2>5, <2>6, <2>7
<1>8. CASE Answer
  <2> USE <1>8 DEF Answer, StartCheck, Forgotten
  <2>1. TypeCard'  OBVIOUS
  <2>2. TypeDriver'  OBVIOUS
  <2>3. TypeTasks'  BY DEF Steps, Idle
  <2>4. TypeBackup'  OBVIOUS
  <2>5. TypeCheck'  OBVIOUS
  <2>6. TypeUi'  OBVIOUS
  <2>7. TypeBounds'  BY CardAssumption DEF Crosses
  <2>8. QED  BY <2>1, <2>2, <2>3, <2>4, <2>5, <2>6, <2>7
<1>9. QED  BY <1>1, <1>2, <1>3, <1>4, <1>5, <1>6, <1>7, <1>8

LEMMA TypeOutside ==
    ASSUME TypeOK, Navigate \/ LockChanges \/ StartUsb \/ Pull \/ Insert \/ PcEdits \/ Restart
    PROVE  TypeOK'
<1> USE TaskNames, Files DEF TypeOK, TypeCard, TypeDriver, TypeTasks, TypeBackup, TypeCheck,
        TypeUi, TypeBounds,
        card, driver, backup, check, ui, bounds, Goes
<1>1. CASE Navigate
  <2> USE <1>1 DEF Navigate, UiKeeps
  <2>1. TypeCard'  OBVIOUS
  <2>2. TypeDriver'  OBVIOUS
  <2>3. TypeTasks'  BY DEF Steps, Idle
  <2>4. TypeBackup'  OBVIOUS
  <2>5. TypeCheck'  OBVIOUS
  <2>6. TypeUi'  OBVIOUS
  <2>7. TypeBounds'  BY CardAssumption DEF Crosses
  <2>8. QED  BY <2>1, <2>2, <2>3, <2>4, <2>5, <2>6, <2>7
<1>2. CASE LockChanges
  <2> USE <1>2 DEF LockChanges, UiKeeps
  <2>1. TypeCard'  OBVIOUS
  <2>2. TypeDriver'  OBVIOUS
  <2>3. TypeTasks'  BY DEF Steps, Idle
  <2>4. TypeBackup'  OBVIOUS
  <2>5. TypeCheck'  OBVIOUS
  <2>6. TypeUi'  OBVIOUS
  <2>7. TypeBounds'  BY CardAssumption DEF Crosses
  <2>8. QED  BY <2>1, <2>2, <2>3, <2>4, <2>5, <2>6, <2>7
<1>3. CASE StartUsb
  <2> USE <1>3 DEF StartUsb, UiKeeps
  <2>1. TypeCard'  OBVIOUS
  <2>2. TypeDriver'  OBVIOUS
  <2>3. TypeTasks'  BY DEF Steps, Idle
  <2>4. TypeBackup'  OBVIOUS
  <2>5. TypeCheck'  OBVIOUS
  <2>6. TypeUi'  OBVIOUS
  <2>7. TypeBounds'  BY CardAssumption DEF Crosses
  <2>8. QED  BY <2>1, <2>2, <2>3, <2>4, <2>5, <2>6, <2>7
<1>4. CASE Pull
  <2> USE <1>4 DEF Pull, Fault, OutsideKeeps, Pulsed
  <2>1. TypeCard'  OBVIOUS
  <2>2. TypeDriver'  OBVIOUS
  <2>3. TypeTasks'  BY DEF Steps, Idle
  <2>4. TypeBackup'  OBVIOUS
  <2>5. TypeCheck'  OBVIOUS
  <2>6. TypeUi'  OBVIOUS
  <2>7. TypeBounds'  BY CardAssumption DEF Crosses
  <2>8. QED  BY <2>1, <2>2, <2>3, <2>4, <2>5, <2>6, <2>7
<1>5. CASE Insert
  <2> USE <1>5 DEF Insert, OutsideKeeps
  <2>1. TypeCard'  BY FreshCards
  <2>2. TypeDriver'  OBVIOUS
  <2>3. TypeTasks'  BY DEF Steps, Idle
  <2>4. TypeBackup'  OBVIOUS
  <2>5. TypeCheck'  OBVIOUS
  <2>6. TypeUi'  OBVIOUS
  <2>7. TypeBounds'  BY CardAssumption DEF Crosses
  <2>8. QED  BY <2>1, <2>2, <2>3, <2>4, <2>5, <2>6, <2>7
<1>6. CASE PcEdits
  <2> USE <1>6 DEF PcEdits, Fault, OutsideKeeps
  <2>1. TypeCard'  OBVIOUS
  <2>2. TypeDriver'  OBVIOUS
  <2>3. TypeTasks'  BY DEF Steps, Idle
  <2>4. TypeBackup'  OBVIOUS
  <2>5. TypeCheck'  OBVIOUS
  <2>6. TypeUi'  OBVIOUS
  <2>7. TypeBounds'  BY CardAssumption DEF Crosses
  <2>8. QED  BY <2>1, <2>2, <2>3, <2>4, <2>5, <2>6, <2>7
<1>7. CASE Restart
  <2> USE <1>7 DEF Restart, Fault, Booted
  <2>1. TypeCard'  OBVIOUS
  <2>2. TypeDriver'  OBVIOUS
  <2>3. TypeTasks'  BY DEF Steps, Idle
  <2>4. TypeBackup'  OBVIOUS
  <2>5. TypeCheck'  OBVIOUS
  <2>6. TypeUi'  OBVIOUS
  <2>7. TypeBounds'  BY CardAssumption DEF Crosses
  <2>8. QED  BY <2>1, <2>2, <2>3, <2>4, <2>5, <2>6, <2>7
<1>8. QED  BY <1>1, <1>2, <1>3, <1>4, <1>5, <1>6, <1>7

LEMMA TypeInit == Init => TypeOK
<1> SUFFICES ASSUME Init PROVE TypeOK  OBVIOUS
<1> USE TaskNames, Files DEF Init
<1>1. TypeCard  BY FreshCards DEF TypeCard
<1>2. TypeDriver /\ TypeTasks  BY DEF TypeDriver, TypeTasks, Steps, Idle
<1>3. TypeBackup  BY DEF TypeBackup
<1>4. TypeCheck /\ TypeUi  BY DEF TypeCheck, TypeUi
<1>5. TypeBounds  BY CardAssumption DEF TypeBounds
<1>6. QED  BY <1>1, <1>2, <1>3, <1>4, <1>5 DEF TypeOK

LEMMA TypeStep == TypeOK /\ [Next]_vars => TypeOK'
<1> SUFFICES ASSUME TypeOK, [Next]_vars PROVE TypeOK'  OBVIOUS
<1>1. ASSUME NEW w \in Workers, WorkerStep(w) PROVE TypeOK'
  <2>1. w \in Tasks  BY TaskNames
  <2>2. QED
    BY <1>1, <2>1, TypeMount, TypeUnmount, TypeExport, TypeSdCheck DEF WorkerStep
<1>2. ASSUME NEW w \in Exporters, StartJob(w) PROVE TypeOK'
  BY <1>2, TypeExport
<1>3. CASE UsbStep  BY <1>3, TaskNames, TypeUnmount, TypeUsb DEF UsbStep
<1>4. CASE Watch \/ CheckPoll \/ Answer  BY <1>4, TypeSdCheck
<1>5. CASE Navigate \/ LockChanges \/ StartUsb \/ Pull \/ Insert \/ PcEdits \/ Restart
  BY <1>5, TypeOutside
<1>6. CASE UNCHANGED vars
  BY <1>6 DEF TypeOK, TypeCard, TypeDriver, TypeTasks, TypeBackup, TypeCheck,
        TypeUi, TypeBounds,
              vars, card, driver, backup, check, ui, bounds
<1>7. QED  BY <1>1, <1>2, <1>3, <1>4, <1>5, <1>6 DEF Next

\* Every variable keeps to its type, and the lists of files to wipe to
\* leftovers (sdcard.c, backup.c, ui_sd_check.cpp).
THEOREM TypeCorrect == Spec => []TypeOK
BY TypeInit, TypeStep, PTL DEF Spec

-----------------------------------------------------------------------------
(***************************************************************************)
(* Exports.  Each knows what it writes (Jobs); one at a time is at the     *)
(* temporary file, and what it renames there is whole (Alone) and its own  *)
(* (Kept).                                                                 *)
(***************************************************************************)
Touching == {"write", "rename", "undo"}
Ending == {"unmount", "unflag", "done"}
Jobs == \A w \in Exporters :
    /\ pc[w] \in Touching \cup {"open"} => data[w] # Absent /\ name[w] \in Backups
    /\ err[w] = "ok" => pc[w] \in Ending /\ (data[w] # Absent => name[w] \in Backups)
Alone == "exports" \notin crossed =>
    /\ \A n \in Backups : files[n] # Torn
    /\ \A w \in Exporters : pc[w] = "rename" => files[Tmp] # Torn
    /\ \A w, x \in Exporters : pc[w] \in Touching /\ pc[x] \in Touching => w = x
Kept == crossed \cap {"exports", "pc"} = {} => \A w \in Exporters :
    /\ pc[w] = "rename" => files[Tmp] \in {data[w], Absent}
    /\ err[w] = "ok" /\ data[w] # Absent => files[name[w]] = data[w]
ExportInv == TypeOK /\ Jobs /\ Alone /\ Kept
Noted == crossed \cap {"exports", "pc"} \subseteq crossed'

(* A step that changes neither a backup, nor the temporary file, nor what    *)
(* an export knows.                                                          *)
LEMMA Carried ==
    ASSUME ExportInv, Noted, UNCHANGED <<data, name>>,
           \A n \in Backups \cup {Tmp} : files'[n] = files[n],
           \A w \in Exporters :
              /\ pc'[w] \in Touching \cup {"open"} => pc'[w] = pc[w]
              /\ err'[w] = "ok" => err[w] = "ok" /\ pc'[w] \in Ending
    PROVE  Jobs' /\ Alone' /\ Kept'
<1>1. Jobs'  BY DEF ExportInv, Jobs
<1>2. Alone'  BY DEF ExportInv, Alone, Noted, Touching
<1>3. Kept'  BY DEF ExportInv, Jobs, Kept, Noted, Touching
<1>4. QED  BY <1>1, <1>2, <1>3

LEMMA ExportMount ==
    ASSUME ExportInv, NEW w \in Workers, MountCheck(w) \/ MountInit(w) \/ MountDone(w)
    PROVE  Jobs' /\ Alone' /\ Kept'
<1>1. pc \in [Tasks -> Steps] /\ err \in [Exporters -> {"none", "ok", "error"}] /\ w \in Tasks
  BY TaskNames DEF ExportInv, TypeOK, TypeTasks, TypeBackup
<1>2. /\ UNCHANGED <<files, data, name>> /\ Noted
      /\ \E s \in {"use", "pulse", "init", "done"} : pc' = [pc EXCEPT ![w] = s]
      /\ err' = err \/ (w \in Exporters /\ err' = [err EXCEPT ![w] = "error"])
  BY TaskNames DEF MountCheck, MountInit, MountDone, NoCard, Goes, DriverKeeps, card, Crosses, Noted
<1>3. \A x \in Exporters : err[x] = "ok" => pc[x] \in Ending  BY DEF ExportInv, Jobs
<1>4. pc[w] \notin Ending  BY DEF MountCheck, MountInit, MountDone, Ending
<1>5. ASSUME NEW x \in Exporters
      PROVE  /\ pc'[x] \in Touching \cup {"open"} => pc'[x] = pc[x]
             /\ err'[x] = "ok" => err[x] = "ok" /\ pc'[x] \in Ending
  <2>1. x \in Tasks  BY TaskNames
  <2>2. x = w => pc'[x] \notin Touching \cup {"open"}  BY <1>1, <1>2 DEF Touching
  <2>3. x # w => pc'[x] = pc[x]  BY <1>1, <1>2, <2>1
  <2>4. err'[x] = "ok" => err[x] = "ok"  BY <1>1, <1>2
  <2>5. QED  BY <1>3, <1>4, <2>2, <2>3, <2>4
<1>6. QED  BY <1>2, <1>5, Carried

LEMMA ExportUnmount ==
    ASSUME ExportInv, NEW t \in Tasks, UnmountCall(t) \/ UnmountFlag(t)
    PROVE  Jobs' /\ Alone' /\ Kept'
<1>1. pc \in [Tasks -> Steps]  BY DEF ExportInv, TypeOK, TypeTasks
<1>2. /\ UNCHANGED <<files, data, name, err>> /\ Noted
      /\ \E s \in {"unflag", "raw", "done"} :
            pc' = [pc EXCEPT ![t] = s] /\ (s = "raw" => t = "ui")
  BY DEF UnmountCall, UnmountFlag, Goes, DriverKeeps, card, Crosses, Noted
<1>3. ASSUME NEW x \in Exporters
      PROVE  /\ pc'[x] \in Touching \cup {"open"} => pc'[x] = pc[x]
             /\ err'[x] = "ok" => err[x] = "ok" /\ pc'[x] \in Ending
  <2>1. x \in Tasks /\ x # "ui"  BY TaskNames
  <2>2. x = t => pc'[x] \in {"unflag", "done"}  BY <1>1, <1>2, <2>1
  <2>3. x # t => pc'[x] = pc[x]  BY <1>1, <1>2, <2>1
  <2>4. err[x] = "ok" => pc[x] \in Ending  BY DEF ExportInv, Jobs
  <2>5. QED  BY <1>2, <2>2, <2>3, <2>4 DEF Touching, Ending
<1>4. QED  BY <1>2, <1>3, Carried

(* The steps of the UI task, of the SD check and of the card's life that     *)
(* leave the exports as they are.                                            *)
LEMMA ExportOthers ==
    ASSUME ExportInv,
           \/ RawCheck \/ RawOpen \/ Install \/ Scan \/ WipeBegin \/ WipeZeros \/ WipeDelete
           \/ WipeEnd \/ Watch \/ CheckPoll \/ Answer \/ Navigate \/ LockChanges \/ StartUsb
           \/ Pull
    PROVE  Jobs' /\ Alone' /\ Kept'
<1>1. /\ pc \in [Tasks -> Steps] /\ files \in [Names -> Contents] /\ left \subseteq Leftovers
  BY DEF ExportInv, TypeOK, TypeTasks, TypeCard, TypeCheck
<1>2. UNCHANGED <<data, name, err>> /\ Noted
  BY DEF RawCheck, RawOpen, Install, DriverKeeps, Scan, WipeBegin, WipeZeros, WipeDelete, WipeEnd,
         CheckKeeps, Watch, CheckPoll, Answer, Navigate, LockChanges, StartUsb, UiKeeps, Pull,
         OutsideKeeps, backup, Crosses, Noted
<1>3. pc' = pc \/ \E t \in {"ui", "sd"}, s \in Steps : pc' = [pc EXCEPT ![t] = s]
  <2>1. CASE RawCheck \/ RawOpen \/ Install
    BY <2>1 DEF RawCheck, RawOpen, Install, Goes, Steps
  <2>2. CASE Scan \/ WipeBegin \/ WipeZeros \/ WipeDelete \/ WipeEnd
    BY <2>2 DEF Scan, WipeBegin, WipeZeros, WipeDelete, WipeEnd, CheckKeeps, Goes, Steps
  <2>3. CASE Watch \/ CheckPoll \/ Answer
    BY <2>3 DEF Watch, CheckPoll, Answer, MayScan, StartCheck, Goes, Steps
  <2>4. CASE Navigate \/ LockChanges \/ StartUsb \/ Pull
    BY <2>4 DEF Navigate, LockChanges, StartUsb, Pull, OutsideKeeps, Goes, Steps
  <2>5. QED  BY <2>1, <2>2, <2>3, <2>4
<1>4. \A n \in Backups \cup {Tmp} : files'[n] = files[n]
  <2>1. CASE WipeZeros \/ WipeDelete
    <3>1. File \in Leftovers  BY <1>1, <2>1, NextFile DEF WipeZeros, WipeDelete
    <3>2. files' = files \/ \E c \in {Zeros, Absent} : files' = [files EXCEPT ![File] = c]
      BY <2>1 DEF WipeZeros, WipeDelete
    <3>3. QED  BY <1>1, <3>1, <3>2, Files
  <2>2. CASE ~(WipeZeros \/ WipeDelete)
    BY <2>2 DEF RawCheck, RawOpen, Install, DriverKeeps, Scan, WipeBegin, WipeEnd, Watch, CheckPoll,
                Answer, Navigate, LockChanges, StartUsb, UiKeeps, Pull, card
  <2>3. QED  BY <2>1, <2>2
<1>5. \A x \in Exporters : pc'[x] = pc[x]
  <2>1. \A x \in Exporters : x \in Tasks /\ x # "ui" /\ x # "sd"  BY TaskNames
  <2>2. QED  BY <1>1, <1>3, <2>1
<1>6. \A x \in Exporters : err[x] = "ok" => pc[x] \in Ending  BY DEF ExportInv, Jobs
<1>7. QED  BY <1>2, <1>4, <1>5, <1>6, Carried

(* The steps of an export.                                                   *)
LEMMA ExportSteps ==
    ASSUME ExportInv, NEW w \in Exporters,
           \/ StartJob(w) \/ Seal(w) \/ Reads(w) \/ PickName(w) \/ Open(w) \/ Write(w)
           \/ Rename(w) \/ Undo(w) \/ JobEnds(w)
    PROVE  Jobs' /\ Alone' /\ Kept'
<1>1. /\ pc \in [Tasks -> Steps] /\ files \in [Names -> Contents]
      /\ data \in [Exporters -> Data \cup {Absent}] /\ name \in [Exporters -> Backups \cup {Tmp}]
      /\ err \in [Exporters -> {"none", "ok", "error"}]
  BY DEF ExportInv, TypeOK, TypeTasks, TypeCard, TypeBackup
<1>2. \A x \in Exporters : x \in Tasks  BY TaskNames
<1>3. Tmp \in Names /\ Backups \subseteq Names  BY Files
<1>4. \A x \in Exporters : err[x] = "ok" =>
           pc[x] \in Ending /\ (data[x] # Absent => name[x] \in Backups)
  BY DEF ExportInv, Jobs
<1> USE DEF Goes, ExportKeeps, Fail
<1>5. CASE StartJob(w)
  <2>1. UNCHANGED <<files, data, name, err, crossed>>  BY <1>5 DEF StartJob, card, backup
  <2>2. pc[w] = "none" /\ \E s \in {"seal", "mount"} : pc' = [pc EXCEPT ![w] = s]
    BY <1>5 DEF StartJob, Busy
  <2>3. ASSUME NEW x \in Exporters
        PROVE  /\ pc'[x] \in Touching \cup {"open"} => pc'[x] = pc[x]
               /\ err'[x] = "ok" => err[x] = "ok" /\ pc'[x] \in Ending
    <3>1. CASE x = w  BY <1>1, <1>2, <1>4, <2>1, <2>2, <3>1 DEF Touching, Ending
    <3>2. CASE x # w  BY <1>1, <1>2, <1>4, <2>1, <2>2, <3>2
    <3>3. QED  BY <3>1, <3>2
  <2>4. QED  BY <2>1, <2>3, Carried DEF Noted
<1>6. CASE Seal(w) \/ Reads(w) \/ PickName(w)
  <2>1. /\ UNCHANGED <<files, crossed>> /\ pc[w] \in {"seal", "use"}
        /\ \E s \in {"mount", "done", "unmount", "open"} :
              /\ pc' = [pc EXCEPT ![w] = s]
              /\ s = "open" => data[w] # Absent /\ data' = data
                               /\ \E k \in Free : name' = [name EXCEPT ![w] = Slots[k]]
              /\ s # "open" => name' = name
              /\ err'[w] = "ok" => s = "unmount" /\ data'[w] = Absent
    <3>1. err[w] # "ok"
      BY <1>4, <1>6 DEF Seal, Reads, PickName, Ending
    <3>2. CASE Seal(w)  BY <1>1, <3>1, <3>2 DEF Seal
    <3>3. CASE Reads(w)  BY <1>1, <3>1, <3>3 DEF Reads
    <3>4. CASE PickName(w)  BY <1>1, <3>1, <3>4 DEF PickName
    <3>5. QED  BY <1>6, <3>2, <3>3, <3>4
  <2>2. \A x \in Exporters \ {w} : data'[x] = data[x] /\ name'[x] = name[x] /\ err'[x] = err[x]
                                   /\ pc'[x] = pc[x]
    <3>1. \A x \in Exporters \ {w} : pc'[x] = pc[x]  BY <1>1, <1>2, <2>1
    <3>2. \A x \in Exporters \ {w} : data'[x] = data[x]
      BY <1>1, <1>6 DEF Seal, Reads, PickName
    <3>3. \A x \in Exporters \ {w} : name'[x] = name[x]
      BY <1>1, <1>6 DEF Seal, Reads, PickName
    <3>4. \A x \in Exporters \ {w} : err'[x] = err[x]
      BY <1>1, <1>6 DEF Seal, Reads, PickName
    <3>5. QED  BY <3>1, <3>2, <3>3, <3>4
  <2>3. /\ pc'[w] \in {"mount", "done", "unmount", "open"}
        /\ pc'[w] = "open" => data'[w] # Absent /\ name'[w] \in Backups
        /\ err'[w] = "ok" => pc'[w] = "unmount" /\ data'[w] = Absent
    <3>1. \A k \in Free : Slots[k] \in Backups  BY Files DEF Free
    <3>2. QED  BY <1>1, <1>2, <2>1, <3>1
  <2>4. Jobs'  BY <2>2, <2>3 DEF ExportInv, Jobs, Touching, Ending
  <2>5. Alone'  BY <2>1, <2>2, <2>3 DEF ExportInv, Alone, Touching
  <2>6. Kept'  BY <2>1, <2>2, <2>3 DEF ExportInv, Kept
  <2>7. QED  BY <2>4, <2>5, <2>6
<1>7. CASE Open(w)
  <2>1. /\ UNCHANGED <<data, name>> /\ pc[w] = "open" /\ Noted
        /\ "exports" \notin crossed' => "exports" \notin crossed /\ ~SharesTmp(w)
        /\ \E c \in Contents : files' = [files EXCEPT ![Tmp] = c]
        /\ \E s \in {"write", "unmount"} : pc' = [pc EXCEPT ![w] = s]
        /\ err' = err \/ err' = [err EXCEPT ![w] = "error"]
    <3>1. \E c \in Contents : files' = [files EXCEPT ![Tmp] = c]
      <4>1. files = [files EXCEPT ![Tmp] = files[Tmp]] /\ files[Tmp] \in Contents
        BY <1>1, <1>3
      <4>2. Torn \in Contents /\ Absent \in Contents  BY Files
      <4>3. QED  BY <1>7, <4>1, <4>2 DEF Open
    <3>2. QED  BY <1>7, <3>1 DEF Open, Crosses, Noted
  <2>2. \A n \in Backups : files'[n] = files[n]  BY <1>1, <1>3, <2>1, Files
  <2>3. \A x \in Exporters \ {w} : pc'[x] = pc[x]  BY <1>1, <1>2, <2>1
  <2>4. pc'[w] \in {"write", "unmount"}  BY <1>1, <1>2, <2>1
  <2>5. \A x \in Exporters : err'[x] = "ok" => err[x] = "ok" /\ x # w
    BY <1>1, <1>4, <2>1 DEF Ending
  <2>6. "exports" \notin crossed' => \A x \in Exporters \ {w} : pc[x] \notin Touching
    BY <2>1 DEF SharesTmp, Touching
  <2>7. Jobs'  BY <2>1, <2>3, <2>4, <2>5 DEF ExportInv, Jobs, Touching
  <2>8. Alone'  BY <2>1, <2>2, <2>3, <2>4, <2>6 DEF ExportInv, Alone, Touching
  <2>9. Kept'
    <3>1. crossed' \cap {"exports", "pc"} = {} => crossed \cap {"exports", "pc"} = {}
      BY <2>1 DEF Noted
    <3>2. QED  BY <1>4, <2>1, <2>2, <2>3, <2>4, <2>5, <2>6, <3>1 DEF ExportInv, Kept, Touching
  <2>10. QED  BY <2>7, <2>8, <2>9
<1>8. CASE Write(w)
  <2>1. /\ UNCHANGED <<data, name, err, crossed>> /\ pc[w] = "write"
        /\ \/ pc' = [pc EXCEPT ![w] = "undo"] /\ files' = files
           \/ /\ pc' = [pc EXCEPT ![w] = "rename"]
              /\ \E c \in {data[w]} \cup (IF SharesTmp(w) THEN {Torn} ELSE {}) :
                    files' = [files EXCEPT ![Tmp] = IF files[Tmp] = Absent THEN Absent ELSE c]
    BY <1>1, <1>3, <1>8 DEF Write
  <2>2. \A n \in Backups : files'[n] = files[n]  BY <1>1, <1>3, <2>1, Files
  <2>3. \A x \in Exporters \ {w} : pc'[x] = pc[x]  BY <1>1, <1>2, <2>1
  <2>4. pc'[w] \in {"rename", "undo"}  BY <1>1, <1>2, <2>1
  <2>5. "exports" \notin crossed => \A x \in Exporters \ {w} : pc[x] \notin Touching
    BY <2>1 DEF ExportInv, Alone, Touching
  <2>6. "exports" \notin crossed /\ pc'[w] = "rename" => files'[Tmp] \in {data[w], Absent}
    <3>1. "exports" \notin crossed => ~SharesTmp(w)  BY <2>5 DEF SharesTmp, Touching
    <3>2. QED  BY <1>1, <1>2, <1>3, <2>1, <3>1
  <2>7. data[w] # Torn /\ Absent # Torn  BY <1>1, Files
  <2>8. Jobs'  BY <1>4, <2>1, <2>3, <2>4 DEF ExportInv, Jobs, Touching, Ending
  <2>9. Alone'
    BY <2>1, <2>2, <2>3, <2>4, <2>5, <2>6, <2>7 DEF ExportInv, Alone, Touching
  <2>10. Kept'
    BY <1>4, <2>1, <2>2, <2>3, <2>4, <2>5, <2>6 DEF ExportInv, Kept, Touching, Ending
  <2>11. QED  BY <2>8, <2>9, <2>10
<1>9. CASE Rename(w)
  <2>1. /\ UNCHANGED <<data, name, crossed>> /\ pc[w] = "rename"
        /\ \/ pc' = [pc EXCEPT ![w] = "undo"] /\ files' = files /\ err' = err
           \/ /\ files[Tmp] # Absent /\ files[name[w]] = Absent
              /\ files' = [files EXCEPT ![name[w]] = files[Tmp], ![Tmp] = Absent]
              /\ err' = [err EXCEPT ![w] = "ok"] /\ pc' = [pc EXCEPT ![w] = "unmount"]
    BY <1>9 DEF Rename
  <2>2. data[w] # Absent /\ name[w] \in Backups /\ err[w] # "ok" /\ name[w] # Tmp
    BY <1>4, <2>1, Files DEF ExportInv, Jobs, Touching, Ending
  <2>3. \A x \in Exporters \ {w} : pc'[x] = pc[x] /\ err'[x] = err[x]  BY <1>1, <1>2, <2>1
  <2>4. \/ pc'[w] = "undo" /\ err'[w] # "ok"
        \/ pc'[w] = "unmount" /\ err'[w] = "ok"
    BY <1>1, <1>2, <2>1, <2>2
  <2>5. "exports" \notin crossed => \A x \in Exporters \ {w} : pc[x] \notin Touching
    BY <2>1 DEF ExportInv, Alone, Touching
  <2>6. \A n \in Backups : \/ files'[n] = files[n]
                           \/ n = name[w] /\ files[n] = Absent /\ files'[n] = files[Tmp]
    BY <1>1, <1>3, <2>1, <2>2, Files
  <2>7. pc'[w] = "unmount" => files'[name[w]] = files[Tmp] /\ files[Tmp] # Absent
    BY <1>1, <1>2, <1>3, <2>1, <2>2
  <2>8. Jobs'  BY <1>4, <2>1, <2>2, <2>3, <2>4 DEF ExportInv, Jobs, Touching, Ending
  <2>9. Alone'
    BY <2>1, <2>3, <2>4, <2>5, <2>6 DEF ExportInv, Alone, Touching
  <2>10. Kept'
    <3> SUFFICES ASSUME crossed \cap {"exports", "pc"} = {}, NEW x \in Exporters
                 PROVE  /\ pc'[x] = "rename" => files'[Tmp] \in {data[x], Absent}
                        /\ err'[x] = "ok" /\ data[x] # Absent => files'[name[x]] = data[x]
      BY <2>1 DEF Kept
    <3>1. CASE x = w  BY <2>1, <2>4, <2>7, <3>1 DEF ExportInv, Kept
    <3>2. CASE x # w
      <4>1. pc'[x] # "rename"  BY <2>3, <2>5, <3>2 DEF Touching
      <4>2. ASSUME err[x] = "ok", data[x] # Absent PROVE files'[name[x]] = data[x]
        <5>1. files[name[x]] = data[x] /\ name[x] \in Backups
          BY <1>4, <4>2 DEF ExportInv, Kept
        <5>2. QED  BY <2>6, <4>2, <5>1
      <4>3. QED  BY <2>3, <3>2, <4>1, <4>2
    <3>3. QED  BY <3>1, <3>2
  <2>11. QED  BY <2>8, <2>9, <2>10
<1>10. CASE Undo(w)
  <2>1. /\ UNCHANGED <<data, name, crossed>> /\ pc[w] = "undo"
        /\ pc' = [pc EXCEPT ![w] = "unmount"] /\ err' = [err EXCEPT ![w] = "error"]
        /\ files' = files \/ files' = [files EXCEPT ![Tmp] = Absent]
    <3>1. files = [files EXCEPT ![Tmp] = files[Tmp]]  BY <1>1, <1>3
    <3>2. QED  BY <1>10, <3>1 DEF Undo
  <2>2. \A n \in Backups : files'[n] = files[n]  BY <1>1, <1>3, <2>1, Files
  <2>3. \A x \in Exporters \ {w} : pc'[x] = pc[x] /\ err'[x] = err[x]  BY <1>1, <1>2, <2>1
  <2>4. pc'[w] = "unmount" /\ err'[w] # "ok"  BY <1>1, <1>2, <2>1
  <2>5. "exports" \notin crossed => \A x \in Exporters \ {w} : pc[x] \notin Touching
    BY <2>1 DEF ExportInv, Alone, Touching
  <2>6. Jobs'  BY <1>4, <2>1, <2>3, <2>4 DEF ExportInv, Jobs, Touching, Ending
  <2>7. Alone'  BY <2>1, <2>2, <2>3, <2>4, <2>5 DEF ExportInv, Alone, Touching
  <2>8. Kept'
    BY <1>4, <2>1, <2>2, <2>3, <2>4, <2>5 DEF ExportInv, Kept, Touching, Ending
  <2>9. QED  BY <2>6, <2>7, <2>8
<1>11. CASE JobEnds(w)
  <2>1. /\ UNCHANGED <<files, crossed>>
        /\ pc' = [pc EXCEPT ![w] = "none"] /\ err' = [err EXCEPT ![w] = "none"]
        /\ data' = [data EXCEPT ![w] = Absent] /\ name' = [name EXCEPT ![w] = Tmp]
    BY <1>11 DEF JobEnds, card
  <2>2. \A x \in Exporters \ {w} : pc'[x] = pc[x] /\ err'[x] = err[x]
                                   /\ data'[x] = data[x] /\ name'[x] = name[x]
    BY <1>1, <1>2, <2>1
  <2>3. pc'[w] = "none" /\ err'[w] = "none"  BY <1>1, <1>2, <2>1
  <2>4. Jobs'  BY <2>2, <2>3 DEF ExportInv, Jobs, Touching
  <2>5. Alone'  BY <2>1, <2>2, <2>3 DEF ExportInv, Alone, Touching
  <2>6. Kept'  BY <2>1, <2>2, <2>3 DEF ExportInv, Kept
  <2>7. QED  BY <2>4, <2>5, <2>6
<1>12. QED  BY <1>5, <1>6, <1>7, <1>8, <1>9, <1>10, <1>11

(* The card comes from a PC, or a PC has it, or the device restarts.         *)
LEMMA ExportOutside ==
    ASSUME ExportInv, Insert \/ PcEdits \/ Restart
    PROVE  Jobs' /\ Alone' /\ Kept'
<1>1. /\ files \in [Names -> Contents] /\ Tmp \in Names /\ Backups \subseteq Names
  BY Files DEF ExportInv, TypeOK, TypeCard
<1>2. CASE Insert \/ PcEdits
  <2>1. UNCHANGED <<pc, data, name, err>> /\ Noted
    BY <1>2 DEF Insert, PcEdits, OutsideKeeps, backup, Crosses, Noted
  <2>2. /\ \A n \in Backups : files'[n] = files[n] \/ files'[n] # Torn
        /\ files'[Tmp] = files[Tmp] \/ files'[Tmp] # Torn
    <3>1. CASE Insert
      <4>1. files' = files \/ files' \in Fresh  BY <3>1 DEF Insert
      <4>2. ASSUME files' \in Fresh
            PROVE  files'[Tmp] # Torn /\ \A n \in Backups : files'[n] # Torn
        BY <4>2, FreshCards, Files
      <4>3. QED  BY <4>1, <4>2
    <3>2. CASE PcEdits
      <4>1. PICK n \in Names :
              \E c \in {Absent} \cup (IF n \in Leftovers THEN {Plain} ELSE Data) :
                 files' = [files EXCEPT ![n] = c]
        BY <3>2 DEF PcEdits
      <4>2. n \notin Leftovers => files' = files \/ files'[n] # Torn
        BY <1>1, <4>1, Files
      <4>3. QED  BY <1>1, <4>1, <4>2, Files
    <3>3. QED  BY <1>2, <3>1, <3>2
  <2>3. Jobs'  BY <2>1 DEF ExportInv, Jobs
  <2>4. Alone'  BY <2>1, <2>2 DEF ExportInv, Alone, Noted
  <2>5. Kept'
    <3>1. CASE files' = files  BY <2>1, <3>1 DEF ExportInv, Kept, Noted
    <3>2. CASE files' # files
      <4>1. "pc" \notin crossed' => \A w \in Exporters : pc[w] = "none"
        BY <1>2, <3>2 DEF Insert, PcEdits, Crosses, Busy
      <4>2. \A w \in Exporters : pc[w] = "none" => err[w] # "ok"
        BY DEF ExportInv, Jobs, Ending
      <4>3. QED  BY <2>1, <4>1, <4>2 DEF Kept
    <3>3. QED  BY <3>1, <3>2
  <2>6. QED  BY <2>3, <2>4, <2>5
<1>3. CASE Restart
  <2>1. /\ UNCHANGED files /\ Noted /\ \A w \in Exporters : pc'[w] = "none" /\ err'[w] = "none"
    BY <1>3, TaskNames DEF Restart, Booted, Idle, card, Noted
  <2>2. Jobs'  BY <2>1 DEF Jobs, Touching
  <2>3. Alone'  BY <2>1 DEF ExportInv, Alone, Noted, Touching
  <2>4. Kept'  BY <2>1 DEF Kept
  <2>5. QED  BY <2>2, <2>3, <2>4
<1>4. QED  BY <1>2, <1>3

LEMMA ExportStep == ExportInv /\ [Next]_vars => ExportInv'
<1> SUFFICES ASSUME ExportInv, [Next]_vars PROVE ExportInv'  OBVIOUS
<1>1. TypeOK'  BY TypeStep DEF ExportInv
<1>2. Jobs' /\ Alone' /\ Kept'
  <2>1. ASSUME NEW w \in Workers, WorkerStep(w) PROVE Jobs' /\ Alone' /\ Kept'
    <3>1. w \in Tasks  BY TaskNames
    <3>2. QED
      BY <2>1, <3>1, ExportMount, ExportUnmount, ExportSteps, ExportOthers DEF WorkerStep
  <2>2. ASSUME NEW w \in Exporters, StartJob(w) PROVE Jobs' /\ Alone' /\ Kept'
    BY <2>2, ExportSteps
  <2>3. CASE UsbStep
    BY <2>3, TaskNames, ExportUnmount, ExportOthers DEF UsbStep
  <2>4. CASE Watch \/ CheckPoll \/ Answer \/ Navigate \/ LockChanges \/ StartUsb \/ Pull
    BY <2>4, ExportOthers
  <2>5. CASE Insert \/ PcEdits \/ Restart  BY <2>5, ExportOutside
  <2>6. CASE UNCHANGED vars
    BY <2>6 DEF ExportInv, Jobs, Alone, Kept, vars, card, backup
  <2>7. QED  BY <2>1, <2>2, <2>3, <2>4, <2>5, <2>6 DEF Next
<1>3. QED  BY <1>1, <1>2 DEF ExportInv

LEMMA ExportInit == Init => ExportInv
<1> SUFFICES ASSUME Init PROVE ExportInv  OBVIOUS
<1>1. TypeOK  BY TypeInit
<1>2. \A w \in Exporters : pc[w] = "none" /\ err[w] = "none"
  BY TaskNames DEF Init, Idle
<1>3. \A n \in Backups : files[n] # Torn
  <2>1. files \in Fresh  BY DEF Init
  <2>2. QED  BY <2>1, FreshCards, Files
<1>4. QED  BY <1>1, <1>2, <1>3 DEF ExportInv, Jobs, Alone, Kept, Touching

\* Wherever an export is cut, pulled or refused, no backup is left truncated,
\* unless two exports have been at the temporary file together (write_file).
THEOREM BackupsStayComplete == Spec => []BackupsComplete
<1>1. ExportInv => BackupsComplete  BY DEF ExportInv, Alone, BackupsComplete
<1>2. QED  BY <1>1, ExportInit, ExportStep, PTL DEF Spec

\* An export told as done is the file it sealed (backup_export).
THEOREM ExportIsTold == Spec => []ExportTold
<1>1. ExportInv => ExportTold  BY DEF ExportInv, Kept, ExportTold
<1>2. QED  BY <1>1, ExportInit, ExportStep, PTL DEF Spec

-----------------------------------------------------------------------------
(***************************************************************************)
(* Backups are kept, what is wiped was shown, and who has the card.        *)
(***************************************************************************)
LEMMA KeptStep ==
    ASSUME TypeOK, Next, NEW n \in Backups, files[n] \in Data
    PROVE  files'[n] = files[n] \/ usbUp \/ ~inSlot
<1>1. /\ files \in [Names -> Contents] /\ left \subseteq Leftovers
      /\ name \in [Exporters -> Backups \cup {Tmp}]
  BY DEF TypeOK, TypeCard, TypeCheck, TypeBackup
<1>2. n \in Names /\ n # Tmp /\ n \notin Leftovers /\ files[n] # Absent  BY Files
<1>3. CASE \E w \in Exporters : Open(w) \/ Write(w) \/ Undo(w)
  <2>1. files' = files \/ \E c : files' = [files EXCEPT ![Tmp] = c]
    BY <1>3 DEF Open, Write, Undo
  <2>2. QED  BY <1>1, <1>2, <2>1
<1>4. CASE \E w \in Exporters : Rename(w)
  <2>1. PICK w \in Exporters :
          \/ files' = files
          \/ /\ files[name[w]] = Absent
             /\ files' = [files EXCEPT ![name[w]] = files[Tmp], ![Tmp] = Absent]
    BY <1>4 DEF Rename
  <2>2. QED  BY <1>1, <1>2, <2>1
<1>5. CASE WipeZeros \/ WipeDelete
  <2>1. File \in Leftovers  BY <1>1, <1>5, NextFile DEF WipeZeros, WipeDelete
  <2>2. files' = files \/ \E c : files' = [files EXCEPT ![File] = c]
    BY <1>5 DEF WipeZeros, WipeDelete
  <2>3. QED  BY <1>1, <1>2, <2>1, <2>2
<1>6. CASE Insert \/ PcEdits  BY <1>6 DEF Insert, PcEdits
<1>7. CASE \E w \in Workers : MountCheck(w) \/ MountInit(w) \/ MountDone(w)
                              \/ UnmountCall(w) \/ UnmountFlag(w)
  BY <1>7 DEF MountCheck, MountInit, MountDone, UnmountCall, UnmountFlag, DriverKeeps, card
<1>8. CASE \E w \in Exporters : StartJob(w) \/ Seal(w) \/ Reads(w) \/ PickName(w) \/ JobEnds(w)
  BY <1>8 DEF StartJob, Seal, Reads, PickName, JobEnds, card
<1>9. CASE UsbStep
  BY <1>9 DEF UsbStep, UnmountCall, UnmountFlag, RawCheck, RawOpen, Install, DriverKeeps, card
<1>10. CASE Scan \/ WipeBegin \/ WipeEnd \/ Watch \/ CheckPoll \/ Answer \/ Navigate
            \/ LockChanges \/ StartUsb \/ Pull \/ Restart
  BY <1>10 DEF Scan, WipeBegin, WipeEnd, Watch, CheckPoll, Answer, Navigate, LockChanges, StartUsb,
               UiKeeps, Pull, Restart, card
<1>11. QED
  BY <1>3, <1>4, <1>5, <1>6, <1>7, <1>8, <1>9, <1>10 DEF Next, WorkerStep

\* A finished backup is changed by a PC only (backup.c, usb_disk.c).
THEOREM BackupsAreKept == Spec => BackupsKept
<1>1. TypeOK /\ [Next]_vars =>
        [\A n \in Backups : files[n] \in Data => files'[n] = files[n] \/ usbUp \/ ~inSlot]_vars
  BY KeptStep
<1>2. QED  BY <1>1, TypeInit, TypeStep, PTL DEF Spec, BackupsKept

-----------------------------------------------------------------------------
(***************************************************************************)
(* The SD check.  While the question is open, or a wipe runs, its list is  *)
(* the one that was shown.                                                 *)
(***************************************************************************)
WipeInv == "relist" \notin crossed =>
    /\ confirm = "wipe" => was /\ pc["sd"] = "none" /\ ~wipe /\ found \subseteq shown
    /\ wipe => pc["sd"] # "none" /\ found \subseteq shown
    /\ pc["sd"] = "wipe" => wipe /\ left \subseteq shown

LEMMA WipeCarried ==
    ASSUME WipeInv, UNCHANGED <<confirm, was, wipe, shown>>, found' \subseteq found,
           left' \subseteq left, "relist" \in crossed => "relist" \in crossed',
           pc'["sd"] = "none" <=> pc["sd"] = "none", pc'["sd"] = "wipe" => pc["sd"] = "wipe"
    PROVE  WipeInv'
BY DEF WipeInv

LEMMA WipeDriver ==
    ASSUME TypeOK, WipeInv, NEW t \in Tasks,
           (t \in Workers /\ (MountCheck(t) \/ MountInit(t) \/ MountDone(t)))
             \/ UnmountCall(t) \/ UnmountFlag(t)
    PROVE  WipeInv'
<1>1. pc \in [Tasks -> Steps] /\ "sd" \in Tasks  BY TaskNames DEF TypeOK, TypeTasks
<1>2. /\ UNCHANGED <<confirm, was, wipe, shown, left>> /\ found' \subseteq found
      /\ "relist" \in crossed => "relist" \in crossed'
  BY DEF MountCheck, MountInit, MountDone, UnmountCall, UnmountFlag, DriverKeeps, ui,
         NoCard, Crosses
<1>3. pc[t] # "none" /\ \E s \in {"use", "pulse", "init", "done", "unflag", "raw"} :
                           pc' = [pc EXCEPT ![t] = s]
  BY DEF MountCheck, MountInit, MountDone, UnmountCall, UnmountFlag, NoCard, Goes
<1>4. /\ pc'["sd"] = "none" <=> pc["sd"] = "none"
      /\ pc'["sd"] = "wipe" => pc["sd"] = "wipe"
  BY <1>1, <1>3
<1>5. QED  BY <1>2, <1>4, WipeCarried

LEMMA WipeOthers ==
    ASSUME TypeOK, WipeInv,
           \/ \E w \in Exporters : \/ StartJob(w) \/ Seal(w) \/ Reads(w) \/ PickName(w) \/ Open(w)
                                   \/ Write(w) \/ Rename(w) \/ Undo(w) \/ JobEnds(w)
           \/ RawCheck \/ RawOpen \/ Install \/ Navigate \/ LockChanges \/ StartUsb
           \/ Pull \/ Insert \/ PcEdits
    PROVE  WipeInv'
<1>1. pc \in [Tasks -> Steps] /\ "sd" \in Tasks  BY TaskNames DEF TypeOK, TypeTasks
<1>2. /\ UNCHANGED <<confirm, was, wipe, shown, found, left>>
      /\ "relist" \in crossed => "relist" \in crossed'
  <2>1. CASE \E w \in Exporters : \/ StartJob(w) \/ Seal(w) \/ Reads(w) \/ PickName(w) \/ Open(w)
                                  \/ Write(w) \/ Rename(w) \/ Undo(w) \/ JobEnds(w)
    BY <2>1 DEF StartJob, Seal, Reads, PickName, Open, Write, Rename, Undo, JobEnds, ExportKeeps,
                check, ui, Crosses
  <2>2. CASE RawCheck \/ RawOpen \/ Install
    BY <2>2 DEF RawCheck, RawOpen, Install, DriverKeeps, ui, Crosses
  <2>3. CASE Navigate \/ LockChanges \/ StartUsb
    BY <2>3 DEF Navigate, LockChanges, StartUsb, UiKeeps, check
  <2>4. CASE Pull \/ Insert \/ PcEdits
    BY <2>4 DEF Pull, Insert, PcEdits, OutsideKeeps, check, ui, Crosses
  <2>5. QED  BY <2>1, <2>2, <2>3, <2>4
<1>3. pc' = pc \/ \E t \in Tasks \ {"sd"}, s \in Steps : pc' = [pc EXCEPT ![t] = s]
  <2>1. CASE \E w \in Exporters : \/ StartJob(w) \/ Seal(w) \/ Reads(w) \/ PickName(w) \/ Open(w)
                                  \/ Write(w) \/ Rename(w) \/ Undo(w) \/ JobEnds(w)
    <3>1. PICK w \in Exporters : \E s \in Steps : pc' = [pc EXCEPT ![w] = s]
      BY <2>1 DEF StartJob, Seal, Reads, PickName, Open, Write, Rename, Undo,
             JobEnds, Goes, Fail, Steps
    <3>2. w \in Tasks \ {"sd"}  BY TaskNames
    <3>3. QED  BY <3>1, <3>2
  <2>2. CASE RawCheck \/ RawOpen \/ Install
    BY <2>2, TaskNames DEF RawCheck, RawOpen, Install, Goes, Steps
  <2>3. CASE Navigate \/ LockChanges \/ StartUsb
    BY <2>3, TaskNames DEF Navigate, LockChanges, StartUsb, Goes, Steps
  <2>4. CASE Pull \/ Insert \/ PcEdits
    BY <2>4 DEF Pull, Insert, PcEdits, OutsideKeeps
  <2>5. QED  BY <2>1, <2>2, <2>3, <2>4
<1>4. pc'["sd"] = pc["sd"]  BY <1>1, <1>3
<1>5. QED  BY <1>2, <1>4, WipeCarried

LEMMA WipeCheck ==
    ASSUME TypeOK, WipeInv,
           \/ Scan \/ WipeBegin \/ WipeZeros \/ WipeDelete \/ WipeEnd
           \/ Watch \/ CheckPoll \/ Answer \/ Restart
    PROVE  WipeInv'
<1>1. /\ pc \in [Tasks -> Steps] /\ "sd" \in Tasks /\ wipe \in BOOLEAN /\ was \in BOOLEAN
      /\ unlocked \in BOOLEAN
  BY TaskNames DEF TypeOK, TypeTasks, TypeCheck, TypeUi
<1> USE <1>1 DEF Goes, CheckKeeps, ui
<1>2. CASE Scan  BY <1>2 DEF Scan, WipeInv
<1>3. CASE WipeBegin  BY <1>3 DEF WipeBegin, WipeInv
<1>4. CASE WipeZeros \/ WipeDelete \/ WipeEnd
  <2>1. /\ UNCHANGED <<confirm, was, wipe, shown, found, crossed>> /\ left' \subseteq left
        /\ pc["sd"] = "wipe" /\ pc'["sd"] # "none"
    BY <1>4 DEF WipeZeros, WipeDelete, WipeEnd
  <2>2. QED  BY <2>1, WipeCarried
<1>5. CASE Watch
  <2>1. /\ UNCHANGED <<found, left, shown>> /\ was' = unlocked /\ was # unlocked
        /\ \/ pc' = pc /\ wipe' = wipe
           \/ /\ unlocked /\ pc["sd"] = "none" /\ wipe' = FALSE
              /\ pc' = [pc EXCEPT !["sd"] = "mount"]
        /\ confirm' = confirm \/ (~unlocked /\ confirm' = "none")
        /\ "relist" \notin crossed' =>
              "relist" \notin crossed /\ (~unlocked => confirm' # "wipe")
    BY <1>5 DEF Watch, MayScan, StartCheck, Busy, Crosses
  <2>2. QED  BY <2>1 DEF WipeInv
<1>6. CASE CheckPoll
  <2>1. /\ pc["sd"] = "done" /\ pc' = [pc EXCEPT !["sd"] = "none"] /\ was' = was
        /\ \/ /\ ~wipe /\ confirm = "none" /\ confirm' = "wipe" /\ shown' = found
              /\ UNCHANGED <<wipe, found, left>>
              /\ "relist" \notin crossed' => "relist" \notin crossed /\ was
           \/ /\ confirm = "wipe" /\ UNCHANGED <<wipe, found, left, shown, confirm, crossed>>
           \/ /\ confirm # "wipe" /\ wipe' = FALSE /\ UNCHANGED <<confirm, crossed>>
    BY <1>6 DEF CheckPoll, Crosses, Forgotten, check
  <2>2. QED  BY <2>1 DEF WipeInv
<1>7. CASE Answer
  <2>1. /\ UNCHANGED <<was, crossed>> /\ confirm = "wipe" /\ confirm' = "none"
        /\ \/ /\ pc["sd"] = "none" /\ wipe' = TRUE /\ pc' = [pc EXCEPT !["sd"] = "mount"]
              /\ UNCHANGED <<found, left, shown>>
           \/ /\ pc' = pc
              /\ \/ pc["sd"] # "none" /\ UNCHANGED <<wipe, found, left, shown>>
                 \/ pc["sd"] = "none" /\ wipe' = FALSE
    BY <1>7 DEF Answer, StartCheck, Forgotten, Busy, check
  <2>2. QED  BY <2>1 DEF WipeInv
<1>8. CASE Restart
  <2>1. pc'["sd"] = "none" /\ wipe' = FALSE /\ confirm' = "none"
    BY <1>8 DEF Restart, Booted, Idle
  <2>2. QED  BY <2>1 DEF WipeInv
<1>9. QED  BY <1>2, <1>3, <1>4, <1>5, <1>6, <1>7, <1>8

LEMMA WipeStep == TypeOK /\ WipeInv /\ [Next]_vars => WipeInv'
<1> SUFFICES ASSUME TypeOK, WipeInv, [Next]_vars PROVE WipeInv'  OBVIOUS
<1>1. ASSUME NEW w \in Workers, WorkerStep(w) PROVE WipeInv'
  <2>1. w \in Tasks  BY TaskNames
  <2>2. QED  BY <1>1, <2>1, WipeDriver, WipeOthers, WipeCheck DEF WorkerStep
<1>2. CASE UsbStep  BY <1>2, TaskNames, WipeDriver, WipeOthers DEF UsbStep
<1>3. CASE UNCHANGED vars  BY <1>3 DEF WipeInv, vars, check, ui
<1>4. QED  BY <1>1, <1>2, <1>3, WipeOthers, WipeCheck DEF Next

\* Whatever is locked, unlocked, scanned or answered meanwhile, a wipe takes
\* files of the list the user agreed to, unless the list was replaced under
\* an open question (ui_sd_check.cpp).
THEOREM WipesAreShown == Spec => []WipesShown
<1>1. Init => TypeOK /\ WipeInv
  <2>1. Init => pc["sd"] = "none" /\ ~wipe /\ confirm = "none"
    BY TaskNames DEF Init, Idle
  <2>2. QED  BY <2>1, TypeInit DEF WipeInv
<1>2. WipeInv => WipesShown  BY DEF WipeInv, WipesShown
<1>3. QED  BY <1>1, <1>2, TypeStep, WipeStep, PTL DEF Spec

-----------------------------------------------------------------------------
(***************************************************************************)
(* The driver.  USB disk mode starts once per boot (UsbInv).  While no two *)
(* calls of the driver overlap, one task at most is inside one, and flag,  *)
(* handle, host and volume go together but for the steps of that call; a   *)
(* mounted card has a user that will unmount it (DriverInv).               *)
(***************************************************************************)
UsbSteps == {"raw", "open_raw", "install"}
UsbInv ==
    /\ pc["ui"] \in {"none", "unmount", "unflag"} \cup UsbSteps
    /\ screen # "UsbDisk" => pc["ui"] = "none" /\ ~raw /\ ~usbUp
    /\ pc["ui"] \in {"unmount", "unflag", "raw", "open_raw"} => ~raw /\ ~usbUp
    /\ pc["ui"] = "install" => raw
    /\ usbUp => raw
    /\ \A w \in Workers : pc[w] \notin UsbSteps

Within == {"pulse", "init", "unflag", "open_raw"}
Using == {"use", "open", "write", "rename", "undo", "wipe", "unmount", "unflag"}
OneWithin == \A t, u \in Tasks : pc[t] \in Within /\ pc[u] \in Within => t = u
Phases == \A t \in Tasks :
    /\ pc[t] \in {"pulse", "init", "open_raw"} => ~mounted
    /\ pc[t] = "unflag" => mounted /\ fat = "none" /\ ~host
    /\ pc[t] = "init" => host /\ ~raw
    /\ pc[t] = "open_raw" => ~host
Unmounted == ~mounted => fat = "none" /\ (host => raw \/ \E t \in Tasks : pc[t] = "init")
Mounted == mounted => \/ fat # "none" /\ handle /\ host
                      \/ \E t \in Tasks : pc[t] = "unflag"
Used == mounted => \E t \in Tasks : pc[t] \in Using
RawAlone == raw => host /\ ~mounted
Together == OneWithin /\ Phases /\ Unmounted /\ Mounted /\ Used /\ RawAlone
DriverInv == "driver" \notin crossed => Together

LEMMA DriverCarried ==
    ASSUME DriverInv, UNCHANGED <<mounted, handle, host, raw>>,
           fat' = fat \/ (fat = "live" /\ fat' = "dead"),
           "driver" \in crossed => "driver" \in crossed',
           \A t \in Tasks : \/ pc'[t] = pc[t]
                            \/ /\ pc[t] \notin Within /\ pc'[t] \notin Within
                               /\ pc[t] \in Using => pc'[t] \in Using
    PROVE  DriverInv'
<1> SUFFICES ASSUME "driver" \notin crossed PROVE Together'  BY DEF DriverInv
<1>1. Together  BY DEF DriverInv
<1>2. \A t \in Tasks : pc[t] \in Within \/ pc'[t] \in Within => pc'[t] = pc[t]  OBVIOUS
<1>3. OneWithin'  BY <1>1, <1>2 DEF Together, OneWithin
<1>4. Phases'  BY <1>1, <1>2 DEF Together, Phases, Within
<1>5. Unmounted'  BY <1>1, <1>2 DEF Together, Unmounted, Within
<1>6. Mounted'  BY <1>1, <1>2 DEF Together, Mounted, Within
<1>7. Used'  BY <1>1 DEF Together, Used
<1>8. RawAlone'  BY <1>1 DEF Together, RawAlone
<1>9. QED  BY <1>3, <1>4, <1>5, <1>6, <1>7, <1>8 DEF Together

(* A call of the driver by one task; nobody else is inside one.              *)
LEMMA DriverMount ==
    ASSUME TypeOK, DriverInv, NEW w \in Workers, MountCheck(w) \/ MountInit(w) \/ MountDone(w)
    PROVE  DriverInv'
<1> SUFFICES ASSUME "driver" \notin crossed' PROVE Together'  BY DEF DriverInv
<1>1. pc \in [Tasks -> Steps] /\ w \in Tasks /\ mounted \in BOOLEAN /\ host \in BOOLEAN
  BY TaskNames DEF TypeOK, TypeTasks, TypeDriver
<1>2. "driver" \notin crossed /\ Together
  BY DEF MountCheck, MountInit, MountDone, Crosses, DriverInv
<1>3. \A u \in Tasks \ {w} : pc'[u] = pc[u]
  BY <1>1 DEF MountCheck, MountInit, MountDone, NoCard, Goes
<1>4. CASE MountCheck(w) /\ mounted
  <2>1. /\ UNCHANGED <<mounted, handle, host, fat, raw, crossed>>
        /\ pc[w] = "mount" /\ pc'[w] = "use"
    BY <1>1, <1>4 DEF MountCheck, Goes, driver, Crosses
  <2>2. QED  BY <1>2, <1>3, <2>1, DriverCarried DEF DriverInv, Within, Using
<1>5. ASSUME ~(MountCheck(w) /\ mounted), NEW u \in Tasks \ {w}
      PROVE  pc[u] \notin Within /\ pc'[u] = pc[u]
  <2>1. CASE MountCheck(w)
    BY <1>3, <1>5, <2>1 DEF MountCheck, Crosses, Overlaps, Inside, Within
  <2>2. CASE pc[w] \in Within
    BY <1>1, <1>2, <1>3, <2>2 DEF Together, OneWithin
  <2>3. QED  BY <2>1, <2>2 DEF MountInit, MountDone, Within
<1>6. CASE MountCheck(w) /\ ~mounted
  <2>1. /\ UNCHANGED <<mounted, handle, host, fat, raw>>
        /\ pc[w] = "mount" /\ pc'[w] = "pulse"
    BY <1>1, <1>6 DEF MountCheck, Goes, driver
  <2>2. QED
    BY <1>2, <1>5, <1>6, <2>1
    DEF Together, OneWithin, Phases, Unmounted, Mounted, Used, RawAlone, Within, Using
<1>7. CASE MountInit(w)
  <2>1. pc[w] = "pulse" /\ ~mounted /\ fat = "none" /\ (host => raw)
    BY <1>1, <1>2, <1>5, <1>7
    DEF MountInit, MountCheck, Together, Phases, Unmounted, Within
  <2>2. UNCHANGED <<mounted, raw, fat>>
    BY <1>7, <2>1 DEF MountInit, Pulsed
  <2>3. \/ host /\ host' = host /\ pc'[w] = "done"
        \/ ~host /\ host' = TRUE /\ pc'[w] = "init"
    BY <1>1, <1>7 DEF MountInit, NoCard, Goes
  <2>4. ~(MountCheck(w) /\ mounted)  BY <2>1
  <2>5. QED
    BY <1>1, <1>2, <1>5, <2>1, <2>2, <2>3, <2>4
    DEF Together, OneWithin, Phases, Unmounted, Mounted, Used, RawAlone, Within, Using
<1>8. CASE MountDone(w)
  <2>1. pc[w] = "init" /\ ~mounted /\ fat = "none" /\ host /\ ~raw
    BY <1>1, <1>2, <1>8 DEF MountDone, Together, Phases, Unmounted
  <2>2. raw' = raw /\ \/ /\ mounted' = TRUE /\ fat' = "live" /\ handle' = TRUE /\ host' = host
                         /\ pc'[w] = "use"
                      \/ UNCHANGED <<mounted, fat>> /\ host' = FALSE /\ pc'[w] = "done"
    BY <1>1, <1>8 DEF MountDone, NoCard, Goes
  <2>3. \A u \in Tasks \ {w} : pc[u] \notin Within /\ pc'[u] = pc[u]  BY <1>5, <2>1
  <2>4. \A u \in Tasks : pc'[u] \notin Within
    BY <2>2, <2>3 DEF Within
  <2>5. OneWithin' /\ Phases'  BY <2>4 DEF OneWithin, Phases, Within
  <2>6. CASE mounted'
    BY <1>1, <2>1, <2>2, <2>5, <2>6
    DEF Together, Unmounted, Mounted, Used, RawAlone, Using
  <2>7. CASE ~mounted'
    BY <1>1, <2>1, <2>2, <2>5, <2>7
    DEF Together, Unmounted, Mounted, Used, RawAlone
  <2>8. QED  BY <2>6, <2>7
<1>9. QED  BY <1>4, <1>6, <1>7, <1>8

LEMMA DriverUnmount ==
    ASSUME TypeOK, DriverInv, NEW t \in Tasks, UnmountCall(t) \/ UnmountFlag(t)
    PROVE  DriverInv'
<1> SUFFICES ASSUME "driver" \notin crossed' PROVE Together'  BY DEF DriverInv
<1>1. pc \in [Tasks -> Steps] /\ mounted \in BOOLEAN /\ host \in BOOLEAN
  BY DEF TypeOK, TypeTasks, TypeDriver
<1>2. "driver" \notin crossed /\ Together
  BY DEF UnmountCall, UnmountFlag, Crosses, DriverInv
<1>3. ASSUME NEW u \in Tasks \ {t} PROVE pc[u] \notin Within /\ pc'[u] = pc[u]
  <2>1. pc'[u] = pc[u]  BY <1>1 DEF UnmountCall, UnmountFlag, Goes
  <2>2. CASE UnmountCall(t)
    BY <2>1, <2>2 DEF UnmountCall, Crosses, Overlaps, Inside, Within
  <2>3. CASE UnmountFlag(t)
    <3>1. pc[t] \in Within  BY <2>3 DEF UnmountFlag, Within
    <3>2. QED  BY <1>2, <2>1, <3>1 DEF Together, OneWithin
  <2>4. QED  BY <2>2, <2>3
<1>4. CASE UnmountCall(t)
  <2>1. UNCHANGED <<mounted, handle, raw>> /\ pc[t] = "unmount"  BY <1>4 DEF UnmountCall
  <2>2. CASE mounted
    <3>1. fat # "none" /\ handle /\ ~raw
      <4>1. \A u \in Tasks : pc[u] # "unflag"  BY <1>3, <2>1 DEF Within
      <4>2. QED  BY <1>2, <2>2, <4>1 DEF Together, Mounted, RawAlone
    <3>2. fat' = "none" /\ host' = FALSE /\ pc'[t] = "unflag"
      BY <1>1, <1>4, <2>2, <3>1 DEF UnmountCall, Goes
    <3>3. QED
      BY <1>3, <2>1, <2>2, <3>1, <3>2
      DEF Together, OneWithin, Phases, Unmounted, Mounted, Used, RawAlone, Within, Using
  <2>3. CASE ~mounted
    <3>1. UNCHANGED <<fat, host>> /\ pc'[t] \in {"raw", "done"}
      BY <1>1, <1>4, <2>3 DEF UnmountCall, Goes
    <3>2. QED
      BY <1>2, <1>3, <2>1, <2>3, <3>1
      DEF Together, OneWithin, Phases, Unmounted, Mounted, Used,
         RawAlone, Within
  <2>4. QED  BY <2>2, <2>3
<1>5. CASE UnmountFlag(t)
  <2>1. pc[t] = "unflag" /\ fat = "none" /\ ~host /\ ~raw
    BY <1>1, <1>2, <1>5 DEF UnmountFlag, Together, Phases, RawAlone
  <2>2. mounted' = FALSE /\ UNCHANGED <<host, fat, raw>> /\ pc'[t] \in {"raw", "done"}
    BY <1>1, <1>5 DEF UnmountFlag, Goes
  <2>3. QED
    BY <1>3, <2>1, <2>2
    DEF Together, OneWithin, Phases, Unmounted, Mounted, Used,
         RawAlone, Within
<1>6. QED  BY <1>4, <1>5

LEMMA DriverRaw ==
    ASSUME TypeOK, UsbInv, DriverInv, RawCheck \/ RawOpen
    PROVE  DriverInv'
<1> SUFFICES ASSUME "driver" \notin crossed' PROVE Together'  BY DEF DriverInv
<1>1. pc \in [Tasks -> Steps] /\ "ui" \in Tasks /\ mounted \in BOOLEAN /\ host \in BOOLEAN
  BY TaskNames DEF TypeOK, TypeTasks, TypeDriver
<1>2. "driver" \notin crossed /\ Together
  BY DEF RawCheck, RawOpen, Crosses, DriverInv
<1>3. ASSUME NEW u \in Tasks \ {"ui"} PROVE pc[u] \notin Within /\ pc'[u] = pc[u]
  <2>1. pc'[u] = pc[u]  BY <1>1 DEF RawCheck, RawOpen, Goes
  <2>2. CASE RawCheck  BY <2>1, <2>2 DEF RawCheck, Crosses, Overlaps, Inside, Within
  <2>3. CASE RawOpen
    <3>1. pc["ui"] \in Within  BY <2>3 DEF RawOpen, Within
    <3>2. QED  BY <1>1, <1>2, <2>1, <3>1 DEF Together, OneWithin
  <2>4. QED  BY <2>2, <2>3
<1>4. ~raw  BY DEF UsbInv, RawCheck, RawOpen
<1>5. CASE RawCheck
  <2>1. UNCHANGED <<mounted, handle, host, raw>> /\ pc["ui"] = "raw"  BY <1>5 DEF RawCheck
  <2>2. CASE mounted
    <3>1. fat' = fat /\ pc'["ui"] = "none"  BY <1>1, <1>5, <2>2 DEF RawCheck, Goes
    <3>2. QED
      BY <1>1, <1>2, <1>3, <2>1, <2>2, <3>1
      DEF Together, OneWithin, Phases, Unmounted, Mounted, Used, RawAlone, Within, Using
  <2>3. CASE ~mounted
    <3>1. fat = "none" /\ ~host
      <4>1. \A u \in Tasks : pc[u] # "init"  BY <1>3, <2>1 DEF Within
      <4>2. QED  BY <1>2, <1>4, <2>3, <4>1 DEF Together, Unmounted
    <3>2. fat' = "none" /\ pc'["ui"] = "open_raw"
      BY <1>1, <1>5, <2>3, <3>1 DEF RawCheck, Goes, Pulsed
    <3>3. QED
      BY <1>1, <1>3, <1>4, <2>1, <2>3, <3>1, <3>2
      DEF Together, OneWithin, Phases, Unmounted, Mounted, Used,
         RawAlone, Within
  <2>4. QED  BY <2>2, <2>3
<1>6. CASE RawOpen
  <2>1. pc["ui"] = "open_raw" /\ ~mounted /\ fat = "none"
    BY <1>1, <1>2, <1>6 DEF RawOpen, Together, Phases, Unmounted
  <2>2. /\ mounted' = mounted /\ fat' = "none"
        /\ \/ host' = TRUE /\ raw' = TRUE /\ pc'["ui"] = "install"
           \/ host' = FALSE /\ raw' = raw /\ pc'["ui"] = "none"
    BY <1>1, <1>6, <2>1 DEF RawOpen, Goes, Pulsed
  <2>3. QED
    BY <1>1, <1>3, <1>4, <2>1, <2>2
    DEF Together, OneWithin, Phases, Unmounted, Mounted, Used,
         RawAlone, Within
<1>7. QED  BY <1>5, <1>6

(* Every other step leaves the driver alone, but for a card that is pulled.  *)
LEMMA DriverOthers ==
    ASSUME TypeOK, DriverInv,
           \/ \E w \in Exporters : \/ StartJob(w) \/ Seal(w) \/ Reads(w) \/ PickName(w) \/ Open(w)
                                   \/ Write(w) \/ Rename(w) \/ Undo(w) \/ JobEnds(w)
           \/ Install \/ Scan \/ WipeBegin \/ WipeZeros \/ WipeDelete \/ WipeEnd
           \/ Watch \/ CheckPoll \/ Answer \/ Navigate \/ LockChanges \/ StartUsb
           \/ Pull \/ Insert \/ PcEdits
    PROVE  DriverInv'
<1>1. pc \in [Tasks -> Steps]  BY DEF TypeOK, TypeTasks
<1>2. UNCHANGED <<mounted, handle, host, raw>> /\ (fat' = fat \/ (fat = "live" /\ fat' = "dead"))
      /\ ("driver" \in crossed => "driver" \in crossed')
  <2>1. CASE \E w \in Exporters : \/ StartJob(w) \/ Seal(w) \/ Reads(w) \/ PickName(w) \/ Open(w)
                                  \/ Write(w) \/ Rename(w) \/ Undo(w) \/ JobEnds(w)
    BY <2>1 DEF StartJob, Seal, Reads, PickName, Open, Write, Rename, Undo, JobEnds, ExportKeeps,
                driver, Crosses
  <2>2. CASE Install  BY <2>2 DEF Install
  <2>3. CASE Scan \/ WipeBegin \/ WipeZeros \/ WipeDelete \/ WipeEnd
    BY <2>3 DEF Scan, WipeBegin, WipeZeros, WipeDelete, WipeEnd, CheckKeeps, driver
  <2>4. CASE Watch \/ CheckPoll \/ Answer
    BY <2>4 DEF Watch, CheckPoll, Answer, driver, Crosses
  <2>5. CASE Navigate \/ LockChanges \/ StartUsb
    BY <2>5 DEF Navigate, LockChanges, StartUsb, UiKeeps, driver
  <2>6. CASE Pull  BY <2>6 DEF Pull, Pulsed
  <2>7. CASE Insert \/ PcEdits  BY <2>7 DEF Insert, PcEdits, driver, Crosses
  <2>8. QED  BY <2>1, <2>2, <2>3, <2>4, <2>5, <2>6, <2>7
<1>3. pc' = pc \/ \E t \in Tasks, s \in Steps :
        /\ pc' = [pc EXCEPT ![t] = s] /\ pc[t] \notin Within /\ s \notin Within
        /\ pc[t] \in Using => s \in Using
  <2> USE DEF Goes, Within, Using, Steps
  <2>1. CASE \E w \in Exporters : StartJob(w) \/ Seal(w) \/ Reads(w) \/ PickName(w) \/ JobEnds(w)
    BY <2>1, TaskNames DEF StartJob, Seal, Reads, PickName, JobEnds, Fail, Busy
  <2>2. CASE \E w \in Exporters : Open(w) \/ Write(w) \/ Rename(w) \/ Undo(w)
    BY <2>2, TaskNames DEF Open, Write, Rename, Undo, Fail
  <2>3. CASE Install  BY <2>3, TaskNames DEF Install
  <2>4. CASE Scan \/ WipeBegin \/ WipeZeros \/ WipeDelete \/ WipeEnd
    BY <2>4, TaskNames DEF Scan, WipeBegin, WipeZeros, WipeDelete, WipeEnd
  <2>5. CASE Watch \/ CheckPoll \/ Answer
    BY <2>5, TaskNames DEF Watch, CheckPoll, Answer, MayScan, StartCheck, Busy
  <2>6. CASE Navigate \/ LockChanges \/ StartUsb
    BY <2>6, TaskNames DEF Navigate, LockChanges, StartUsb, UiFree
  <2>7. CASE Pull \/ Insert \/ PcEdits  BY <2>7 DEF Pull, Insert, PcEdits, OutsideKeeps
  <2>8. QED  BY <2>1, <2>2, <2>3, <2>4, <2>5, <2>6, <2>7
<1>4. \A t \in Tasks : \/ pc'[t] = pc[t]
                       \/ /\ pc[t] \notin Within /\ pc'[t] \notin Within
                          /\ pc[t] \in Using => pc'[t] \in Using
  BY <1>1, <1>3
<1>5. QED  BY <1>2, <1>4, DriverCarried

LEMMA DriverRestart == ASSUME Restart PROVE DriverInv'
<1>1. /\ mounted' = FALSE /\ host' = FALSE /\ fat' = "none" /\ raw' = FALSE
      /\ \A t \in Tasks : pc'[t] = "none"
  BY DEF Restart, Booted, Idle
<1>2. QED
  BY <1>1 DEF DriverInv, Together, OneWithin, Phases, Unmounted, Mounted, Used,
         RawAlone, Within

-----------------------------------------------------------------------------
LEMMA UsbCarried ==
    ASSUME UsbInv, UNCHANGED <<raw, usbUp>>, pc'["ui"] = pc["ui"],
           screen' = screen \/ (screen # "UsbDisk" /\ screen' # "UsbDisk"),
           \A w \in Workers : pc'[w] \notin UsbSteps
    PROVE  UsbInv'
BY DEF UsbInv

LEMMA UsbWorkers ==
    ASSUME TypeOK, UsbInv, NEW w \in Workers, WorkerStep(w) \/ (w \in Exporters /\ StartJob(w))
    PROVE  UsbInv'
<1>1. pc \in [Tasks -> Steps] /\ w \in Tasks /\ w # "ui"  BY TaskNames DEF TypeOK, TypeTasks
<1>2. UNCHANGED <<raw, usbUp, screen>>
  <2>1. CASE MountCheck(w) \/ MountInit(w) \/ MountDone(w) \/ UnmountCall(w) \/ UnmountFlag(w)
    BY <2>1 DEF MountCheck, MountInit, MountDone, UnmountCall, UnmountFlag, DriverKeeps, driver, ui
  <2>2. CASE Seal(w) \/ Reads(w) \/ PickName(w) \/ Open(w) \/ Write(w) \/ Rename(w) \/ Undo(w)
               \/ JobEnds(w) \/ StartJob(w)
    BY <2>2 DEF StartJob, Seal, Reads, PickName, Open, Write, Rename, Undo, JobEnds, ExportKeeps,
                driver, ui
  <2>3. CASE Scan \/ WipeBegin \/ WipeZeros \/ WipeDelete \/ WipeEnd
    BY <2>3 DEF Scan, WipeBegin, WipeZeros, WipeDelete, WipeEnd, CheckKeeps, driver, ui
  <2>4. QED  BY <2>1, <2>2, <2>3 DEF WorkerStep
<1>3. pc' = pc \/ \E s \in Steps \ UsbSteps : pc' = [pc EXCEPT ![w] = s]
  <2> USE DEF Goes, Steps, UsbSteps
  <2>1. CASE MountCheck(w) \/ MountInit(w) \/ MountDone(w)
    BY <2>1 DEF MountCheck, MountInit, MountDone, NoCard
  <2>2. CASE UnmountCall(w) \/ UnmountFlag(w)
    BY <1>1, <2>2 DEF UnmountCall, UnmountFlag
  <2>3. CASE Seal(w) \/ Reads(w) \/ PickName(w) \/ JobEnds(w) \/ StartJob(w)
    BY <2>3 DEF StartJob, Seal, Reads, PickName, JobEnds, Fail
  <2>4. CASE Open(w) \/ Write(w) \/ Rename(w) \/ Undo(w)
    BY <2>4 DEF Open, Write, Rename, Undo, Fail
  <2>5. CASE w = "sd" /\ (Scan \/ WipeBegin \/ WipeZeros \/ WipeDelete \/ WipeEnd)
    BY <2>5 DEF Scan, WipeBegin, WipeZeros, WipeDelete, WipeEnd, CheckKeeps
  <2>6. QED  BY <2>1, <2>2, <2>3, <2>4, <2>5 DEF WorkerStep
<1>4. pc'["ui"] = pc["ui"] /\ \A x \in Workers : pc'[x] \notin UsbSteps
  <2>1. \A x \in Workers : x \in Tasks  BY TaskNames
  <2>2. QED  BY <1>1, <1>3, <2>1, TaskNames DEF UsbInv
<1>5. QED  BY <1>2, <1>4, UsbCarried

LEMMA UsbUi ==
    ASSUME TypeOK, UsbInv, UsbStep \/ StartUsb
    PROVE  UsbInv'
<1>1. pc \in [Tasks -> Steps] /\ "ui" \in Tasks /\ \A w \in Workers : w \in Tasks /\ w # "ui"
  BY TaskNames DEF TypeOK, TypeTasks
<1>2. \A w \in Workers : pc'[w] \notin UsbSteps
  <2>1. \E s : pc' = [pc EXCEPT !["ui"] = s]
    BY DEF UsbStep, StartUsb, UnmountCall, UnmountFlag, RawCheck, RawOpen, Install, Goes
  <2>2. QED  BY <1>1, <2>1 DEF UsbInv
<1> USE <1>1, <1>2 DEF UsbInv, UsbSteps, Goes, DriverKeeps, ui
<1>3. CASE UnmountCall("ui")  BY <1>3 DEF UnmountCall
<1>4. CASE UnmountFlag("ui")  BY <1>4 DEF UnmountFlag
<1>5. CASE RawCheck  BY <1>5 DEF RawCheck
<1>6. CASE RawOpen  BY <1>6 DEF RawOpen
<1>7. CASE Install  BY <1>7 DEF Install
<1>8. CASE StartUsb  BY <1>8 DEF StartUsb, UiKeeps, driver, UiFree
<1>9. QED  BY <1>3, <1>4, <1>5, <1>6, <1>7, <1>8 DEF UsbStep

LEMMA UsbOthers ==
    ASSUME TypeOK, UsbInv,
           Watch \/ CheckPoll \/ Answer \/ Navigate \/ LockChanges \/ Pull \/ Insert \/ PcEdits
    PROVE  UsbInv'
<1>1. pc \in [Tasks -> Steps] /\ "sd" \in Workers /\ \A w \in Workers : w \in Tasks /\ w # "ui"
  BY TaskNames DEF TypeOK, TypeTasks
<1>2. UNCHANGED <<raw, usbUp>>
  BY DEF Watch, CheckPoll, Answer, Navigate, LockChanges, UiKeeps, Pull, Insert, PcEdits, driver
<1>3. screen' = screen \/ (screen # "UsbDisk" /\ screen' # "UsbDisk")
  BY DEF Watch, CheckPoll, Answer, Navigate, LockChanges, Pull, Insert, PcEdits, OutsideKeeps, ui
<1>4. pc' = pc \/ \E s \in {"none", "mount"} : pc' = [pc EXCEPT !["sd"] = s]
  BY DEF Watch, CheckPoll, Answer, Navigate, LockChanges, Pull, Insert, PcEdits, OutsideKeeps,
         MayScan, StartCheck, Goes
<1>5. pc'["ui"] = pc["ui"] /\ \A w \in Workers : pc'[w] \notin UsbSteps
  BY <1>1, <1>4, TaskNames DEF UsbInv, UsbSteps
<1>6. QED  BY <1>2, <1>3, <1>5, UsbCarried

LEMMA UseStep == TypeOK /\ UsbInv /\ DriverInv /\ [Next]_vars => UsbInv' /\ DriverInv'
<1> SUFFICES ASSUME TypeOK, UsbInv, DriverInv, [Next]_vars PROVE UsbInv' /\ DriverInv'  OBVIOUS
<1>1. ASSUME NEW w \in Workers, WorkerStep(w) PROVE UsbInv' /\ DriverInv'
  <2>1. w \in Tasks  BY TaskNames
  <2>2. DriverInv'
    BY <1>1, <2>1, DriverMount, DriverUnmount, DriverOthers DEF WorkerStep
  <2>3. QED  BY <1>1, <2>2, UsbWorkers
<1>2. ASSUME NEW w \in Exporters, StartJob(w) PROVE UsbInv' /\ DriverInv'
  BY <1>2, TaskNames, UsbWorkers, DriverOthers
<1>3. CASE UsbStep
  <2>1. DriverInv'  BY <1>3, TaskNames, DriverUnmount, DriverRaw, DriverOthers DEF UsbStep
  <2>2. QED  BY <1>3, <2>1, UsbUi
<1>4. CASE StartUsb  BY <1>4, UsbUi, DriverOthers
<1>5. CASE Watch \/ CheckPoll \/ Answer \/ Navigate \/ LockChanges \/ Pull \/ Insert \/ PcEdits
  BY <1>5, UsbOthers, DriverOthers
<1>6. CASE Restart
  <2>1. UsbInv'  BY <1>6, TaskNames DEF Restart, Booted, Idle, UsbInv, UsbSteps
  <2>2. QED  BY <1>6, <2>1, DriverRestart
<1>7. CASE UNCHANGED vars
  BY <1>7 DEF UsbInv, DriverInv, Together, OneWithin, Phases, Unmounted, Mounted, Used, RawAlone,
              vars, driver, ui
<1>8. QED  BY <1>1, <1>2, <1>3, <1>4, <1>5, <1>6, <1>7 DEF Next

LEMMA UseInit == Init => UsbInv /\ DriverInv
<1> SUFFICES ASSUME Init PROVE UsbInv /\ DriverInv  OBVIOUS
<1>1. \A t \in Tasks : pc[t] = "none"  BY DEF Init, Idle
<1>2. UsbInv  BY <1>1, TaskNames DEF Init, UsbInv, UsbSteps
<1>3. DriverInv
  BY <1>1 DEF Init, DriverInv, Together, OneWithin, Phases, Unmounted, Mounted, Used,
         RawAlone, Within
<1>4. QED  BY <1>2, <1>3

\* With no two calls of the driver at once, the card is free when no task
\* uses it, whichever mount, pull or USB start failed half-way (sdcard.c).
THEOREM CardIsReleased == Spec => []CardReleased
<1>1. DriverInv => CardReleased
  <2> SUFFICES ASSUME Together, \A t \in Tasks : pc[t] \in {"none", "seal", "mount", "done"}
               PROVE  fat = "none" /\ ~mounted /\ (host => raw)
    BY DEF DriverInv, CardReleased
  <2>1. ~mounted  BY DEF Together, Used, Using
  <2>2. QED  BY <2>1 DEF Together, Unmounted
<1>2. QED  BY <1>1, TypeInit, TypeStep, UseInit, UseStep, PTL DEF Spec

\* Likewise, while the PC has the card nothing of it is mounted (usb_disk.c).
THEOREM PcIsAlone == Spec => []PcOwnsAlone
<1>1. UsbInv /\ DriverInv => PcOwnsAlone
  BY DEF UsbInv, DriverInv, Together, Unmounted, RawAlone, PcOwnsAlone
<1>2. QED  BY <1>1, TypeInit, TypeStep, UseInit, UseStep, PTL DEF Spec
=============================================================================
