-------------------------- MODULE BootRecoveryProofs --------------------------
(***************************************************************************)
(* Theorems about BootRecovery, for every number of cuts and faults.       *)
(***************************************************************************)
EXTENDS BootRecovery, TLAPS

RestoreSteps == {"wipe1", "wipe2", "put1", "put2", "clear"}

(***************************************************************************)
(* The inductive strengthening of SelectionKept.                           *)
(***************************************************************************)
Kept == picked /\ ~again /\ ~lossy

\* A switch copies otadata before it erases it, and began with a selection.
SwitchInv ==
    /\ pc \in {"eraseBackup", "writeBackup"} =>
          saved = ota /\ (picked /\ ~again => Selects(ota))
    /\ pc \in {"erase1", "erase2"} =>
          bak = saved /\ (picked /\ ~again => Selects(saved))

\* A restore has put back what its step says.
RestoreInv ==
    pc \in RestoreSteps =>
        /\ bak # NoBackup
        /\ ~lossy => /\ saved = bak
                     /\ pc \in {"wipe2", "put1"} => ota[1] = "blank"
                     /\ pc \in {"put1", "put2"} => ota[2] = "blank"
                     /\ pc = "put2" => ota[1] = saved[1]
                     /\ pc = "clear" => saved = Empty \/ ota = saved

\* A backup that selects nothing is not restored over a selection: the
\* factory firmware does not run before the next switch has replaced it.
StaleInv ==
    (Kept /\ bak # NoBackup /\ ~Selects(bak)) =>
        Selects(ota) /\ app0 = "good" /\ place # "factory"

\* Only a valid image is made the boot partition.
ImageInv == pc = "setBoot" => app0 = "good"

BootInv == SwitchInv /\ RestoreInv /\ StaleInv /\ SelectionKept /\ ImageInv

-----------------------------------------------------------------------------
(***************************************************************************)
(* Type correctness.                                                       *)
(***************************************************************************)
\* Neither an interrupted access nor a restored entry leaves its type.
LEMMA InterruptedType ==
    ASSUME TypeOK, Interrupted
    PROVE  ota' \in Pair /\ bak' \in Pair \cup {NoBackup} /\ app0' \in {"good", "bad"}
<1>1. Restored(1) \in Entry /\ Restored(2) \in Entry
  BY DEF TypeOK, Restored, Programmed, Pair, Entry
<1>2. ASSUME NEW i \in 1..2, NEW done \in Entry, TornEntry(i, done)
      PROVE  ota' \in Pair
  BY <1>2 DEF TypeOK, TornEntry, Pair, Entry
<1>3. Inactive \in 1..2 /\ 1 \in 1..2 /\ 2 \in 1..2
  BY DEF Inactive
<1>4. "blank" \in Entry /\ "select" \in Entry
  BY DEF Entry
<1> QED BY <1>1, <1>2, <1>3, <1>4 DEF Interrupted, TypeOK, storage

\* No step of a firmware, no cut and no fault breaks the types.
LEMMA NextType == TypeOK /\ [Next]_vars => TypeOK'
<1> SUFFICES ASSUME TypeOK, [Next]_vars PROVE TypeOK'
  OBVIOUS
<1> USE DEF TypeOK
<1>0. Empty \in Pair
  BY DEF Empty, Pair, Entry
<1>1. CASE HookHold
  BY <1>0, <1>1 DEF HookHold, BeginSwitch, storage
<1>2. CASE Boot
  BY <1>0, <1>2 DEF Boot, storage, terminal, history
<1>3. CASE EraseBackup
  BY <1>0, <1>3 DEF EraseBackup, terminal, history
<1>4. CASE WriteBackup
  BY <1>0, <1>4 DEF WriteBackup, terminal, history
<1>5. CASE EraseEntry1
  BY <1>0, <1>5 DEF EraseEntry1, terminal, history, Pair, Entry
<1>6. CASE EraseEntry2
  BY <1>0, <1>6 DEF EraseEntry2, Reset, history, Pair, Entry
<1>7. CASE ClaimSleep
  BY <1>0, <1>7 DEF ClaimSleep, storage, running, history
<1>8. CASE Sleep
  BY <1>0, <1>8 DEF Sleep, Reset, storage, history
<1>9. CASE SwitchToFactory
  BY <1>0, <1>9 DEF SwitchToFactory, BeginSwitch, storage
<1>10. CASE Load
  BY <1>0, <1>10 DEF Load, storage, terminal, history
<1>11. CASE RestoreStep
  <2>1. Restored(1) \in Entry /\ Restored(2) \in Entry
    BY DEF Restored, Programmed, Pair, Entry
  <2>2. ota' \in Pair
    BY <1>11, <2>1 DEF RestoreStep, Pair, Entry
  <2> QED BY <1>11, <2>2 DEF RestoreStep, terminal, history, AfterRestoreStep
<1>12. CASE Cancel
  BY <1>0, <1>12 DEF Cancel, Reset, storage, history
<1>13. CASE ActionBoot
  BY <1>0, <1>13 DEF ActionBoot, storage, terminal, history
<1>14. CASE SetBoot
  BY <1>0, <1>14 DEF SetBoot, Reset, Pair, Entry, Inactive
<1>15. CASE ActionFlash
  BY <1>0, <1>15 DEF ActionFlash, terminal, history
<1>16. CASE FlashDone
  BY <1>0, <1>16 DEF FlashDone, terminal, history
<1>17. CASE FlashFailed
  BY <1>0, <1>17 DEF FlashFailed, storage, terminal, history
<1>18. CASE Cut
  <2>1. ota' \in Pair /\ bak' \in Pair \cup {NoBackup} /\ app0' \in {"good", "bad"}
    BY <1>18, InterruptedType DEF Cut
  <2>2. cuts' \in Nat /\ faults' = faults
    BY <1>18 DEF Cut
  <2>3. Reset("hard") \/ Reset("sw")
    BY <1>18 DEF Cut
  <2>4. UNCHANGED history
    BY <1>18 DEF Cut
  <2> QED BY <1>0, <2>1, <2>2, <2>3, <2>4 DEF Reset, history
<1>19. CASE SwitchFault
  <2>1. ota' \in Pair /\ bak' \in Pair \cup {NoBackup} /\ app0' \in {"good", "bad"}
    BY <1>19, InterruptedType DEF SwitchFault, FaultAt
  <2>2. faults' \in Nat /\ UNCHANGED <<cuts, history>>
    BY <1>19 DEF SwitchFault, FaultAt
  <2>3. CASE Reset("sw")
    BY <1>0, <2>1, <2>2, <2>3 DEF Reset, history
  <2>4. CASE place = "app" /\ pc' = "idle" /\ saved' = Empty /\ claimed' = FALSE
             /\ UNCHANGED <<place, reset, sleeper>>
    BY <1>0, <2>1, <2>2, <2>4 DEF history
  <2> QED BY <1>19, <2>3, <2>4 DEF SwitchFault
<1>20. CASE LoadFault
  <2>1. saved' \in Pair
    BY <1>20 DEF LoadFault, Pair
  <2>2. pc' \in {"menu", "clear", "wipe1"} /\ lossy' \in BOOLEAN
    BY <1>20 DEF LoadFault
  <2>3. ota' \in Pair /\ bak' \in Pair \cup {NoBackup} /\ app0' \in {"good", "bad"}
    BY <1>20, InterruptedType DEF LoadFault, FaultAt
  <2> QED BY <1>20, <2>1, <2>2, <2>3, BootAssumption DEF LoadFault, FaultAt, terminal
<1>21. CASE RestoreFault
  <2>1. ota' \in Pair /\ bak' \in Pair \cup {NoBackup} /\ app0' \in {"good", "bad"}
    BY <1>21, InterruptedType DEF RestoreFault, FaultAt
  <2> QED BY <1>0, <1>21, <2>1, BootAssumption DEF RestoreFault, FaultAt, AfterRestoreStep, terminal
<1>22. CASE SetBootFault
  <2>1. ota' \in Pair /\ bak' \in Pair \cup {NoBackup} /\ app0' \in {"good", "bad"}
    BY <1>22, InterruptedType DEF SetBootFault, FaultAt
  <2> QED BY <1>0, <1>22, <2>1, BootAssumption DEF SetBootFault, FaultAt, terminal, history
<1>23. CASE UNCHANGED vars
  BY <1>23 DEF vars, storage, running, terminal, history
<1> QED
  BY <1>1, <1>2, <1>3, <1>4, <1>5, <1>6, <1>7, <1>8, <1>9, <1>10, <1>11, <1>12, <1>13, <1>14, <1>15, <1>16, <1>17, <1>18, <1>19, <1>20, <1>21, <1>22, <1>23
  DEF Next, Bootloader, Switch, Application, Factory, Fault

\* Every reachable state is well typed, and no firmware is ever found at a
\* step of another.
THEOREM TypeCorrect == Spec => []TypeOK
<1>1. ASSUME Init PROVE TypeOK
  <2>1. ota \in Pair /\ saved \in Pair
    BY <1>1 DEF Init, Empty, Pair, Entry
  <2>2. /\ claimed \in BOOLEAN /\ sleeper \in BOOLEAN
        /\ picked \in BOOLEAN /\ again \in BOOLEAN /\ lossy \in BOOLEAN
    BY <1>1, Zenon DEF Init
  <2> QED BY <1>1, <2>1, <2>2 DEF Init, TypeOK
<1> QED BY <1>1, NextType, PTL DEF Spec

-----------------------------------------------------------------------------
(***************************************************************************)
(* The selection of app0 is kept.                                          *)
(***************************************************************************)
SwitchSteps == {"eraseBackup", "writeBackup", "erase1", "erase2"}

\* A step that touches neither the flash nor a switch or restore under way.
LEMMA QuietStep ==
    ASSUME BootInv, UNCHANGED <<storage, history>>,
           pc' \notin SwitchSteps \cup RestoreSteps,
           pc' = "setBoot" => app0 = "good",
           place' = "factory" => place = "factory" \/ ~(Selects(ota) /\ app0 = "good")
    PROVE  BootInv'
<1>1. SwitchInv' /\ RestoreInv' /\ ImageInv'
  BY DEF SwitchInv, RestoreInv, ImageInv, SwitchSteps, RestoreSteps, storage
<1>2. UNCHANGED <<ota, bak, app0, picked, again, lossy>>
  BY DEF storage, history
<1>3. StaleInv' /\ SelectionKept'
  BY <1>2 DEF BootInv, StaleInv, SelectionKept, Kept, Selects
<1> QED BY <1>1, <1>3 DEF BootInv

\* A reset ends whatever was running.
LEMMA QuietReset ==
    ASSUME BootInv, UNCHANGED <<storage, history>>, NEW r, Reset(r)
    PROVE  BootInv'
BY QuietStep DEF Reset, SwitchSteps, RestoreSteps

\* A switch begins with a copy of otadata, or with no selection to lose.
LEMMA BeginStep ==
    ASSUME BootInv, BeginSwitch, place' # "factory"
    PROVE  BootInv'
<1>1. UNCHANGED <<ota, bak, app0, picked, lossy>> /\ saved' = ota /\ pc' = "eraseBackup"
  BY DEF BeginSwitch, storage
<1>2. again' = (again \/ (picked /\ ~Selects(ota)))
  BY DEF BeginSwitch
<1>3. Selects(ota)' = Selects(ota) /\ Selects(bak)' = Selects(bak)
  BY <1>1 DEF Selects
<1>4. SwitchInv'
  BY <1>1, <1>2, <1>3 DEF SwitchInv
<1>5. RestoreInv' /\ ImageInv'
  BY <1>1 DEF RestoreInv, RestoreSteps, ImageInv
<1>6. Kept' => Kept /\ Selects(ota)
  BY <1>1, <1>2 DEF Kept
<1>7. StaleInv' /\ SelectionKept'
  BY <1>1, <1>3, <1>6 DEF BootInv, StaleInv, SelectionKept, Kept
<1> QED BY <1>4, <1>5, <1>7 DEF BootInv

\* The selection is in otadata while the backup is replaced or cleared, and in
\* the backup while otadata is erased or written.
LEMMA WhereKept ==
    ASSUME TypeOK, BootInv, Kept
    PROVE  /\ pc \in {"eraseBackup", "writeBackup", "clear"} => Selects(ota)
           /\ pc = "writeBackup" => Selects(saved)
           /\ pc \in {"erase1", "erase2"} \cup RestoreSteps =>
                 bak # NoBackup /\ Selects(bak)
           /\ place = "factory" /\ bak # NoBackup => Selects(bak)
<1>1. place = "factory" /\ bak # NoBackup => Selects(bak)
  BY DEF BootInv, StaleInv
<1>2. pc \in {"eraseBackup", "writeBackup"} => Selects(ota) /\ saved = ota
  BY DEF BootInv, SwitchInv, Kept
<1>3. pc \in {"erase1", "erase2"} => bak # NoBackup /\ Selects(bak)
  BY BootAssumption DEF BootInv, SwitchInv, Kept, TypeOK
<1>4. pc \in RestoreSteps => bak # NoBackup /\ Selects(bak)
  BY <1>1 DEF BootInv, RestoreInv, RestoreSteps, TypeOK
<1>5. ASSUME pc = "clear" PROVE Selects(ota)
  <2>1. saved = bak /\ (saved = Empty \/ ota = saved)
    BY <1>5 DEF BootInv, RestoreInv, RestoreSteps, Kept
  <2>2. ~Selects(Empty)
    BY DEF Selects, Empty
  <2> QED BY <1>4, <1>5, <2>1, <2>2 DEF RestoreSteps
<1> QED BY <1>1, <1>2, <1>3, <1>4, <1>5

\* An interrupted access leaves the selection in one place or the other.
LEMMA InterruptedStep ==
    ASSUME TypeOK, BootInv, Interrupted, UNCHANGED history,
           pc' \notin SwitchSteps \cup RestoreSteps \cup {"setBoot"},
           place' = "factory" => place = "factory"
    PROVE  BootInv'
<1>1. SwitchInv' /\ RestoreInv' /\ ImageInv'
  BY DEF SwitchInv, RestoreInv, ImageInv, SwitchSteps, RestoreSteps
<1>2. Kept' = Kept
  BY DEF history, Kept
<1>3. UNCHANGED app0
  BY DEF Interrupted, storage
<1> SUFFICES ASSUME Kept PROVE StaleInv' /\ SelectionKept'
  BY <1>1, <1>2 DEF BootInv, StaleInv, SelectionKept, Kept
<1>4. CASE pc \in {"eraseBackup", "writeBackup", "clear"}
  <2>1. ota' = ota /\ Selects(ota)' /\ bak' \in {bak, NoBackup, saved}
    BY <1>4, WhereKept DEF Interrupted, Selects, storage
  <2>2. CASE bak' = bak
    BY <1>3, <2>1, <2>2 DEF BootInv, StaleInv, SelectionKept, Selects, Kept
  <2>3. CASE bak' = NoBackup
    BY <2>1, <2>3 DEF StaleInv, SelectionKept
  <2>4. CASE pc = "writeBackup" /\ bak' = saved
    BY <2>1, <2>4, WhereKept DEF StaleInv, SelectionKept, Selects
  <2> QED BY <1>4, <2>1, <2>2, <2>3, <2>4 DEF Interrupted, storage
<1>5. CASE pc \in {"erase1", "erase2", "wipe1", "wipe2", "put1", "put2"}
  <2>1. bak' = bak /\ bak # NoBackup /\ Selects(bak)
    BY <1>5, WhereKept DEF Interrupted, RestoreSteps, storage
  <2> QED BY <2>1 DEF StaleInv, SelectionKept, Selects
<1>6. CASE pc = "setBoot"
  <2>1. place = "factory" /\ bak' = bak
    BY <1>6 DEF TypeOK, Interrupted
  <2>2. Selects(ota) => Selects(ota)'
    BY <1>6 DEF Interrupted, TornEntry, Inactive, Selects, TypeOK, Pair, Entry
  <2> QED BY <2>1, <2>2, WhereKept DEF BootInv, StaleInv, SelectionKept, Selects, Kept
<1>7. CASE pc \in {"idle", "load", "menu", "flash"}
  <2>1. UNCHANGED <<ota, bak>>
    BY <1>7 DEF Interrupted, storage
  <2> QED BY <1>3, <2>1 DEF BootInv, StaleInv, SelectionKept, Selects, Kept
<1> QED BY <1>4, <1>5, <1>6, <1>7 DEF TypeOK

\* Every step keeps the selection where the phase of the switch or of the
\* restore says it is.
LEMMA NextBootInv == TypeOK /\ BootInv /\ [Next]_vars => BootInv'
<1> SUFFICES ASSUME TypeOK, BootInv, [Next]_vars PROVE BootInv'
  OBVIOUS
<1>1. CASE HookHold
  BY <1>1, BeginStep DEF HookHold
<1>2. CASE SwitchToFactory
  BY <1>2, BeginStep DEF SwitchToFactory
<1>3. CASE Boot
  BY <1>3, QuietStep DEF Boot, SwitchSteps, RestoreSteps
<1>4. CASE EraseBackup
  <2>1. UNCHANGED <<ota, app0, saved, picked, again, lossy>> /\ bak' = NoBackup
        /\ pc = "eraseBackup" /\ pc' = "writeBackup"
    BY <1>4 DEF EraseBackup, history
  <2>2. Kept => Selects(ota)
    BY <2>1, WhereKept
  <2> QED BY <2>1, <2>2 DEF BootInv, SwitchInv, RestoreInv, RestoreSteps, StaleInv, SelectionKept,
                            ImageInv, Kept, Selects
<1>5. CASE WriteBackup
  <2>1. UNCHANGED <<ota, app0, saved, picked, again, lossy>> /\ bak' = saved
        /\ pc = "writeBackup" /\ pc' = "erase1"
    BY <1>5 DEF WriteBackup, history
  <2>2. saved = ota /\ (picked /\ ~again => Selects(ota))
    BY <2>1 DEF BootInv, SwitchInv
  <2> QED BY <2>1, <2>2 DEF BootInv, SwitchInv, RestoreInv, RestoreSteps, StaleInv, SelectionKept,
                            ImageInv, Kept, Selects
<1>6. CASE EraseEntry1
  <2>1. UNCHANGED <<bak, app0, saved, picked, again, lossy>> /\ pc = "erase1" /\ pc' = "erase2"
    BY <1>6 DEF EraseEntry1, history
  <2>2. Kept => bak # NoBackup /\ Selects(bak)
    BY <2>1, WhereKept
  <2> QED BY <2>1, <2>2 DEF BootInv, SwitchInv, RestoreInv, RestoreSteps, StaleInv, SelectionKept,
                            ImageInv, Kept, Selects
<1>7. CASE EraseEntry2
  <2>1. UNCHANGED <<bak, app0, picked, again, lossy>> /\ pc = "erase2" /\ pc' = "idle"
    BY <1>7 DEF EraseEntry2, Reset, history
  <2>2. Kept => bak # NoBackup /\ Selects(bak)
    BY <2>1, WhereKept
  <2> QED BY <2>1, <2>2 DEF BootInv, SwitchInv, RestoreInv, RestoreSteps, StaleInv, SelectionKept,
                            ImageInv, Kept, Selects
<1>8. CASE ClaimSleep
  <2>1. UNCHANGED <<storage, history, pc, place, saved>>
    BY <1>8 DEF ClaimSleep, running
  <2> QED BY <2>1 DEF BootInv, SwitchInv, RestoreInv, StaleInv, SelectionKept, ImageInv, Kept,
                      Selects, storage, history
<1>9. CASE Sleep \/ Cancel
  BY <1>9, QuietReset DEF Sleep, Cancel
<1>10. CASE Load
  <2>1. CASE bak = NoBackup
    BY <1>10, <2>1, QuietStep DEF Load, SwitchSteps, RestoreSteps
  <2>2. CASE bak # NoBackup
    <3>1. UNCHANGED <<ota, bak, app0, place, picked, again, lossy>> /\ saved' = bak
          /\ pc' = IF bak = Empty THEN "clear" ELSE "wipe1"
      BY <1>10, <2>2 DEF Load, storage, history
    <3> QED BY <2>2, <3>1 DEF BootInv, SwitchInv, RestoreInv, RestoreSteps, StaleInv, SelectionKept,
                              ImageInv, Kept, Selects
  <2> QED BY <2>1, <2>2
<1>11. CASE RestoreStep
  <2>1. UNCHANGED <<app0, place, saved, picked, again, lossy>> /\ pc \in RestoreSteps
        /\ pc' = AfterRestoreStep
    BY <1>11 DEF RestoreStep, RestoreSteps, history
  <2>2. Kept' = Kept /\ place = "factory"
    BY <2>1 DEF Kept, TypeOK, RestoreSteps
  <2>3. CASE pc = "clear"
    <3>1. ota' = ota /\ bak' = NoBackup /\ pc' = "menu" /\ (Kept => Selects(ota))
      BY <1>11, <2>1, <2>3, WhereKept DEF RestoreStep, AfterRestoreStep
    <3> QED BY <2>1, <2>2, <3>1 DEF BootInv, SwitchInv, RestoreInv, RestoreSteps, StaleInv,
                                    SelectionKept, ImageInv, Kept, Selects
  <2>4. CASE pc # "clear"
    <3>1. bak' = bak /\ pc' \in RestoreSteps /\ bak # NoBackup /\ (Kept => Selects(bak))
      BY <1>11, <2>1, <2>4, WhereKept DEF RestoreStep, AfterRestoreStep, RestoreSteps,
                                          BootInv, RestoreInv
    <3>2. StaleInv' /\ SelectionKept' /\ SwitchInv' /\ ImageInv'
      BY <2>1, <2>2, <3>1 DEF StaleInv, SelectionKept, SwitchInv, ImageInv, Kept, Selects, RestoreSteps
    <3>3. ASSUME ~lossy PROVE /\ saved' = bak'
                              /\ pc' \in {"wipe2", "put1"} => ota'[1] = "blank"
                              /\ pc' \in {"put1", "put2"} => ota'[2] = "blank"
                              /\ pc' = "put2" => ota'[1] = saved'[1]
                              /\ pc' = "clear" => saved' = Empty \/ ota' = saved'
      <4>1. saved' = bak' /\ saved = bak
        BY <2>1, <3>1, <3>3 DEF BootInv, RestoreInv
      <4>2. CASE pc \in {"wipe1", "wipe2"}
        BY <1>11, <2>1, <3>3, <4>1, <4>2
        DEF RestoreStep, AfterRestoreStep, BootInv, RestoreInv, TypeOK, Pair
      <4>3. CASE pc = "put1"
        BY <1>11, <2>1, <3>3, <4>1, <4>3
        DEF RestoreStep, AfterRestoreStep, BootInv, RestoreInv, RestoreSteps, TypeOK, Pair, Restored, Programmed
      <4>4. CASE pc = "put2"
        <5>1. ota[1] = saved[1] /\ ota[2] = "blank"
          BY <2>1, <3>3, <4>4 DEF BootInv, RestoreInv
        <5>2. Restored(2) = saved[2]
          BY <5>1 DEF Restored, Programmed
        <5>3. ota' = [ota EXCEPT ![2] = saved[2]] /\ pc' = "clear"
          BY <1>11, <4>4, <5>2 DEF RestoreStep, AfterRestoreStep
        <5>4. ota' = saved
          BY <5>1, <5>3 DEF TypeOK, Pair
        <5> QED BY <2>1, <4>1, <5>3, <5>4
      <4> QED BY <2>1, <2>4, <4>2, <4>3, <4>4 DEF RestoreSteps
    <3> QED BY <2>1, <3>1, <3>2, <3>3 DEF BootInv, RestoreInv
  <2> QED BY <2>3, <2>4
<1>12. CASE ActionBoot
  BY <1>12, QuietStep DEF ActionBoot, SwitchSteps, RestoreSteps, TypeOK
<1>13. CASE SetBoot
  <2>1. UNCHANGED <<bak, app0, again, lossy>> /\ pc' = "idle" /\ place' = "reset"
        /\ app0 = "good"
    BY <1>13 DEF SetBoot, Reset, BootInv, ImageInv
  <2>2. Selects(ota)'
    BY <1>13 DEF SetBoot, Inactive, Selects, TypeOK, Pair, Entry
  <2> QED BY <2>1, <2>2 DEF BootInv, SwitchInv, RestoreInv, RestoreSteps, StaleInv, SelectionKept,
                            ImageInv, Kept
<1>14. CASE ActionFlash \/ FlashDone
  <2>1. UNCHANGED <<ota, bak, saved, picked, again, lossy>> /\ place = "factory"
        /\ pc' \in {"flash", "setBoot"} /\ (pc' = "setBoot" => app0' = "good")
    BY <1>14 DEF ActionFlash, FlashDone, history, TypeOK
  <2>2. Kept /\ bak # NoBackup => Selects(bak)
    BY <2>1, WhereKept
  <2> QED BY <2>1, <2>2 DEF BootInv, SwitchInv, RestoreInv, RestoreSteps, StaleInv, SelectionKept,
                            ImageInv, Kept, Selects
<1>15. CASE FlashFailed
  BY <1>15, QuietStep DEF FlashFailed, SwitchSteps, RestoreSteps, TypeOK
<1>16. CASE Cut
  <2>1. pc' = "idle" /\ place' = "reset" /\ UNCHANGED history /\ Interrupted
    BY <1>16 DEF Cut, Reset
  <2> QED BY <2>1, InterruptedStep DEF SwitchSteps, RestoreSteps
<1>17. CASE SwitchFault
  <2>1. pc' = "idle" /\ place' # "factory" /\ UNCHANGED history /\ Interrupted
    BY <1>17 DEF SwitchFault, FaultAt, Reset
  <2> QED BY <2>1, InterruptedStep DEF SwitchSteps, RestoreSteps
<1>18. CASE LoadFault
  <2>1. UNCHANGED storage /\ place' = place /\ pc = "load"
    BY <1>18 DEF LoadFault, FaultAt, Interrupted
  <2>2. CASE pc' = "menu" /\ UNCHANGED <<saved, lossy>>
    BY <1>18, <2>1, <2>2, QuietStep DEF LoadFault, SwitchSteps, RestoreSteps, history, TypeOK
  <2>3. CASE bak # NoBackup /\ lossy' = TRUE /\ pc' \in {"clear", "wipe1"}
    BY <2>1, <2>3 DEF BootInv, SwitchInv, RestoreInv, RestoreSteps, StaleInv, SelectionKept,
                      ImageInv, Kept, storage
  <2> QED BY <1>18, <2>2, <2>3 DEF LoadFault
<1>19. CASE RestoreFault
  <2>1. lossy' = TRUE /\ pc \in RestoreSteps /\ pc' = AfterRestoreStep /\ Interrupted
    BY <1>19 DEF RestoreFault, FaultAt, RestoreSteps
  <2>2. pc' \in {"wipe2", "put1", "put2", "clear", "menu"} /\ (pc' # "menu" => bak' = bak)
    BY <2>1 DEF AfterRestoreStep, Interrupted, RestoreSteps
  <2> QED BY <2>1, <2>2 DEF BootInv, SwitchInv, RestoreInv, RestoreSteps, StaleInv, SelectionKept,
                            ImageInv, Kept
<1>20. CASE SetBootFault
  <2>1. pc' = "menu" /\ UNCHANGED <<place, history>> /\ Interrupted
    BY <1>20 DEF SetBootFault, FaultAt
  <2> QED BY <2>1, InterruptedStep DEF SwitchSteps, RestoreSteps
<1>21. CASE UNCHANGED vars
  BY <1>21 DEF vars, storage, running, history, BootInv, SwitchInv, RestoreInv, StaleInv,
               SelectionKept, ImageInv, Kept, Selects
<1> QED
  BY <1>1, <1>2, <1>3, <1>4, <1>5, <1>6, <1>7, <1>8, <1>9, <1>10, <1>11, <1>12, <1>13, <1>14,
     <1>15, <1>16, <1>17, <1>18, <1>19, <1>20, <1>21
  DEF Next, Bootloader, Switch, Application, Factory, Fault

\* Wherever a switch to the factory firmware or its restore is cut, and
\* wherever a switch fails, the selection of app0 is in otadata or in a
\* backup that the factory firmware will restore.
THEOREM SelectionIsKept == Spec => []SelectionKept
<1>1. Init => BootInv
  BY DEF Init, BootInv, SwitchInv, RestoreInv, RestoreSteps, StaleInv, SelectionKept, ImageInv, Kept
<1>2. TypeOK /\ BootInv /\ [Next]_vars => BootInv'
  BY NextBootInv
<1>3. BootInv => SelectionKept
  BY DEF BootInv
<1> QED BY <1>1, <1>2, <1>3, TypeCorrect, PTL DEF Spec

-----------------------------------------------------------------------------
(***************************************************************************)
(* The claim of the terminal action.                                       *)
(***************************************************************************)
\* A sleeper holds the claim and finds no switch under way; a switch of the
\* application holds it until it fails.
ClaimInv ==
    /\ sleeper => claimed /\ place = "app" /\ pc = "idle"
    /\ place = "app" /\ pc # "idle" => claimed

LEMMA NextClaimInv == TypeOK /\ ClaimInv /\ [Next]_vars => ClaimInv'
<1> SUFFICES ASSUME TypeOK, ClaimInv, [Next]_vars PROVE ClaimInv'
  OBVIOUS
<1>1. CASE HookHold
  BY <1>1 DEF HookHold, BeginSwitch, ClaimInv
<1>2. CASE Boot
  BY <1>2 DEF Boot, terminal, ClaimInv
<1>3. CASE EraseBackup \/ WriteBackup \/ EraseEntry1
  BY <1>3 DEF EraseBackup, WriteBackup, EraseEntry1, terminal, ClaimInv
<1>4. CASE Reset("sw") \/ Reset("hard")
  BY <1>4 DEF Reset, ClaimInv
<1>5. CASE ClaimSleep
  BY <1>5 DEF ClaimSleep, running, ClaimInv
<1>6. CASE SwitchToFactory
  BY <1>6 DEF SwitchToFactory, BeginSwitch, ClaimInv
<1>7. CASE SwitchFault
  <2>1. pc # "idle" /\ ~sleeper
    BY <1>7 DEF SwitchFault, FaultAt, ClaimInv
  <2>2. CASE pc' = "idle" /\ UNCHANGED <<place, sleeper>>
    BY <2>1, <2>2 DEF ClaimInv
  <2>3. QED  BY <1>4, <1>7, <2>2 DEF SwitchFault
<1>8. CASE place = "factory" /\ UNCHANGED <<place, terminal>>
  BY <1>8 DEF terminal, ClaimInv
<1>9. CASE Load \/ RestoreStep \/ ActionBoot \/ ActionFlash \/ FlashDone \/ FlashFailed
  <2>1. place = "factory"
    BY <1>9 DEF Load, RestoreStep, ActionBoot, ActionFlash, FlashDone, FlashFailed, TypeOK
  <2>2. QED
    BY <1>8, <1>9, <2>1 DEF Load, RestoreStep, ActionBoot, ActionFlash, FlashDone, FlashFailed
<1>10. CASE LoadFault \/ RestoreFault \/ SetBootFault
  <2>1. place = "factory"
    BY <1>10 DEF LoadFault, RestoreFault, SetBootFault, FaultAt, TypeOK
  <2>2. QED  BY <1>8, <1>10, <2>1 DEF LoadFault, RestoreFault, SetBootFault
<1>11. CASE UNCHANGED vars
  BY <1>11 DEF vars, running, terminal, ClaimInv
<1>12. QED
  BY <1>1, <1>2, <1>3, <1>4, <1>5, <1>6, <1>7, <1>9, <1>10, <1>11
  DEF Next, Bootloader, Switch, Application, Factory, Fault, EraseEntry2, Sleep, Cancel, SetBoot, Cut

\* Whichever of the three tasks asks first, and wherever a switch fails, the
\* device is not put to sleep between two flash steps of a switch.
THEOREM NoSleepInsideSwitch == Spec => NoSleepInSwitch
<1>1. Init => ClaimInv
  BY DEF Init, ClaimInv
<1>2. ClaimInv /\ [Next]_vars => [Sleep => pc = "idle"]_vars
  BY DEF ClaimInv, Sleep
<1>3. QED
  BY <1>1, <1>2, NextClaimInv, TypeCorrect, PTL DEF Spec, NoSleepInSwitch

=============================================================================
