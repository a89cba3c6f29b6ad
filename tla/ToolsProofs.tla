----------------------------- MODULE ToolsProofs -----------------------------
(***************************************************************************)
(* Proofs about the card tools, for every set of settings, every package,  *)
(* card and list of files and every combination of failing calls: the      *)
(* settings file, the KELF files of an install, the export of a save and   *)
(* the two imports.                                                        *)
(***************************************************************************)
EXTENDS CardToolsSafety, SequenceTheorems, FiniteSetTheorems, TLAPS

-----------------------------------------------------------------------------
(* Proofs about the settings file: whatever call fails and whenever the    *)
(* power goes, MCINSPECTOR.CFG holds complete settings or is absent, and   *)
(* what a cut leaves is the old file, the new one, or the gap of the       *)
(* rename.                                                                 *)

SaveSteps == {"locate", "removeTemp", "write", "sync", "readBack", "removeOld",
              "rename", "syncFile", "giveUp", "renameFailed"}
OldStillThere == {"locate", "removeTemp", "write", "sync", "readBack", "removeOld",
                  "giveUp"}
Whole == Settings \cup {Absent}

(* Where the two files stand at each step of a save.                       *)
SaveInv ==
    /\ spc \in SaveSteps \cup {"idle"}
    /\ spc # "idle" => op = "settings" /\ mem \in Settings /\ outcome = "none"
    /\ op = "off" => disk \subseteq prior /\ outcome = "none"
    /\ spc \in OldStillThere => file = old
    /\ spc \in {"removeOld", "rename"} => temp = mem
    /\ spc \in {"rename", "renameFailed"} => file \in {old, Absent}
    /\ spc = "syncFile" => file = mem
SettingsIInv == ConfigWhole /\ SaveInv /\ SettingsSurvive

-----------------------------------------------------------------------------
(* Which operation a tool's step belongs to, before it and after it: the    *)
(* tools do not run while settings are saved, and do not switch off.       *)
ImportRuns == /\ op \in {"menu", "image"} /\ inserted' = inserted
              /\ op' = "image" \/ (op' = op /\ job' = job)
PsuRuns == /\ op \in {"menu", "import", "export"} /\ inserted' = inserted
           /\ op' \in {"import", "export"}
KelfRuns == /\ op \in {"menu", "install"} /\ inserted' = inserted
            /\ op' \in {"menu", "install"} /\ job' = job

LEMMA ImportOp == ImportNext => ImportRuns
<1>1. OpenBrowser => ImportRuns
  BY DEF OpenBrowser, ImportRuns, At, Stays
<1>2. RefreshDestination => ImportRuns
  BY DEF RefreshDestination, ImportRuns, At, Stays
<1>3. Select => ImportRuns
  BY DEF Select, ImportRuns, At, Stays
<1>4. CheckTarget => ImportRuns
  BY DEF CheckTarget, Refuse, ImportRuns, At, Stays
<1>5. EnterSave => ImportRuns
  BY DEF EnterSave, MakeDirectory, ImportRuns, At, Stays
<1>6. EnterDirectory => ImportRuns
  BY DEF EnterDirectory, InDirectory, MakeDirectory, ImportRuns, At, Stays
<1>7. CreateFile => ImportRuns
  BY DEF CreateFile, InDirectory, ImportRuns, At, Stays
<1>8. WriteFile => ImportRuns
  BY DEF WriteFile, ImportRuns, At, Stays
<1>9. VerifyImportedFile => ImportRuns
  BY DEF VerifyImportedFile, ImportRuns, At, Stays
<1>10. StampFile => ImportRuns
  BY DEF StampFile, ImportRuns, At, Stays
<1>11. LeaveDirectory => ImportRuns
  BY DEF LeaveDirectory, InDirectory, ImportRuns, At, Stays
<1>12. ImportDone => ImportRuns
  BY DEF ImportDone, Refuse, ImportRuns, At, Stays
<1>13. RollbackCreated => ImportRuns
  BY DEF RollbackCreated, Refuse, ImportRuns, At, Stays
<1> QED BY <1>1, <1>2, <1>3, <1>4, <1>5, <1>6, <1>7, <1>8, <1>9, <1>10, <1>11,
           <1>12, <1>13 DEF ImportNext

LEMMA PsuOp == PsuNext => PsuRuns
<1>1. PickContainer => PsuRuns
  BY DEF PickContainer, PsuRuns, At, Stays
<1>2. PsuCheckTarget => PsuRuns
  BY DEF PsuCheckTarget, Refuse, PsuRuns, At, Stays
<1>3. PsuMakeDirectory => PsuRuns
  BY DEF PsuMakeDirectory, PsuCommand, PsuRuns, At, Stays
<1>4. PsuCreateFile => PsuRuns
  BY DEF PsuCreateFile, PsuCommand, PsuRuns, At, Stays
<1>5. PsuWriteFile => PsuRuns
  BY DEF PsuWriteFile, PsuCommand, PsuRuns, At, Stays
<1>6. PsuVerifyFile => PsuRuns
  BY DEF PsuVerifyFile, PsuCommand, PsuRuns, At, Stays
<1>7. PsuStampFile => PsuRuns
  BY DEF PsuStampFile, PsuCommand, PsuRuns, At, Stays
<1>8. PsuFinish => PsuRuns
  BY DEF PsuFinish, PsuCommand, PsuRuns, At, Stays
<1>9. PsuRollback => PsuRuns
  BY DEF PsuRollback, Refuse, PsuRuns, At, Stays
<1>10. PrepareExportPath => PsuRuns
  BY DEF PrepareExportPath, PsuRuns, At, Stays
<1>11. ListSave => PsuRuns
  BY DEF ListSave, Refuse, PsuRuns, At, Stays
<1>12. CopyOut => PsuRuns
  BY DEF CopyOut, ExportStep, PsuRuns, At, Stays
<1>13. CloseExport => PsuRuns
  BY DEF CloseExport, ExportStep, PsuRuns, At, Stays
<1>14. VerifyPsuFileAgainstCard => PsuRuns
  BY DEF VerifyPsuFileAgainstCard, VerifyPsu, ExportStep, PsuRuns, At, Stays
<1>15. RemoveExport => PsuRuns
  BY DEF RemoveExport, ExportStep, PsuRuns, At, Stays
<1> QED BY <1>1, <1>2, <1>3, <1>4, <1>5, <1>6, <1>7, <1>8, <1>9, <1>10, <1>11,
           <1>12, <1>13, <1>14, <1>15 DEF PsuNext

LEMMA KelfOp == KelfNext => KelfRuns
<1>1. ProbeMagicGate => KelfRuns
  BY DEF ProbeMagicGate, KelfRuns, mediaVars
<1>2. StartInstall => KelfRuns
  BY DEF StartInstall, KelfRuns, mediaVars
<1>3. PreflightSource => KelfRuns
  BY DEF PreflightSource, KelfAt, Reject, EndInstall, KelfRuns, mediaVars
<1>4. PreflightDone => KelfRuns
  BY DEF PreflightDone, KelfAt, KelfRuns, mediaVars
<1>5. WriteBound => KelfRuns
  BY DEF WriteBound, KelfAt, EndInstall, KelfRuns, mediaVars
<1>6. WriteDone => KelfRuns
  BY DEF WriteDone, KelfAt, EndInstall, KelfRuns, mediaVars
<1>7. LeaveInstall => KelfRuns
  BY DEF LeaveInstall, KelfRuns, mediaVars
<1>8. RewritePackage => KelfRuns
  BY DEF RewritePackage, KelfRuns, mediaVars
<1> QED BY <1>1, <1>2, <1>3, <1>4, <1>5, <1>6, <1>7, <1>8 DEF KelfNext

-----------------------------------------------------------------------------
(* A save keeps the invariant, one action after the other.                 *)
LEMMA SaveKeeps == SettingsIInv /\ (SaveSettings \/ SettingsStep) => SettingsIInv'
<1> SUFFICES ASSUME SettingsIInv, SaveSettings \/ SettingsStep PROVE SettingsIInv'
  OBVIOUS
<1> USE SettingsAssumption
        DEF SettingsIInv, SaveInv, ConfigWhole, SettingsSurvive, SaveSteps,
            OldStillThere, Change, Step, Return, saveVars, filesVars
<1>a. file \in Settings \cup {Absent}
  <2>1. <<file, temp>>[1] \in Settings \cup {Absent} OBVIOUS
  <2> QED BY <2>1
<1>0. CASE SaveSettings BY <1>0 DEF SaveSettings, Survives
<1>1. CASE LocateConfig BY <1>1 DEF LocateConfig, Survives
<1>2. CASE RemoveTemp
  <2>1. ConfigWhole'
    <3>1. file' = file /\ disk' \subseteq disk \cup {<<file', temp'>>} BY <1>2 DEF RemoveTemp
    <3>2. <<file', temp'>>[1] \in Settings \cup {Absent} BY <1>a, <3>1
    <3> QED BY <3>1, <3>2
  <2>2. SaveInv' BY <1>2 DEF RemoveTemp
  <2>3. ASSUME NEW d \in disk \ prior PROVE Survives(d)'
    BY <1>2, <2>3 DEF RemoveTemp, Survives
  <2>4. Survives(<<file, temp>>)' BY <1>2 DEF RemoveTemp, Survives
  <2>5. prior' = prior /\ disk' \subseteq disk \cup {<<file', temp'>>} BY <1>2 DEF RemoveTemp
  <2>6. (outcome = "saved" => file = mem)' /\ (outcome = "failed" => file = old)'
    BY <1>2 DEF RemoveTemp
  <2> QED BY <2>1, <2>2, <2>3, <2>4, <2>5, <2>6
<1>3. CASE WriteTemp
  <2>1. ConfigWhole'
    <3>1. file' = file /\ disk' \subseteq disk \cup {<<file', temp'>>} BY <1>3 DEF WriteTemp
    <3>2. <<file', temp'>>[1] \in Settings \cup {Absent} BY <1>a, <3>1
    <3> QED BY <3>1, <3>2
  <2>2. SaveInv' BY <1>3 DEF WriteTemp
  <2>3. ASSUME NEW d \in disk \ prior PROVE Survives(d)'
    BY <1>3, <2>3 DEF WriteTemp, Survives
  <2>4. Survives(<<file, temp>>)' BY <1>3 DEF WriteTemp, Survives
  <2>5. prior' = prior /\ disk' \subseteq disk \cup {<<file', temp'>>} BY <1>3 DEF WriteTemp
  <2>6. (outcome = "saved" => file = mem)' /\ (outcome = "failed" => file = old)'
    BY <1>3 DEF WriteTemp
  <2> QED BY <2>1, <2>2, <2>3, <2>4, <2>5, <2>6
<1>4. CASE SyncTemp BY <1>4 DEF SyncTemp, Survives
<1>5. CASE ReadBack BY <1>5 DEF ReadBack, Survives
<1>6. CASE RemoveOld BY <1>6 DEF RemoveOld, Survives
<1>7. CASE Rename BY <1>7 DEF Rename, Survives
<1>8. CASE SyncFile BY <1>8 DEF SyncFile, Survives
<1>9. CASE GiveUp
  <2>1. ConfigWhole'
    <3>1. file' = file /\ disk' \subseteq disk \cup {<<file', temp'>>} BY <1>9 DEF GiveUp
    <3>2. <<file', temp'>>[1] \in Settings \cup {Absent} BY <1>a, <3>1
    <3> QED BY <3>1, <3>2
  <2>2. SaveInv' BY <1>9 DEF GiveUp
  <2>3. ASSUME NEW d \in disk \ prior PROVE Survives(d)'
    BY <1>9, <2>3 DEF GiveUp, Survives
  <2>4. Survives(<<file, temp>>)' BY <1>9 DEF GiveUp, Survives
  <2>5. prior' = prior /\ disk' \subseteq disk \cup {<<file', temp'>>} BY <1>9 DEF GiveUp
  <2>6. (outcome = "saved" => file = mem)' /\ (outcome = "failed" => file = old)'
    BY <1>9 DEF GiveUp
  <2> QED BY <2>1, <2>2, <2>3, <2>4, <2>5, <2>6
<1> QED BY <1>0, <1>1, <1>2, <1>3, <1>4, <1>5, <1>6, <1>7, <1>8, <1>9 DEF SettingsStep

(* A save starts at the menu and ends there.                               *)
LEMMA SettingsOp ==
    ASSUME SaveInv, SaveSettings \/ SettingsStep
    PROVE op \in {"menu", "settings"} /\ op' \in {"menu", "settings"}
<1>a. spc # "idle" => op = "settings" BY DEF SaveInv
<1>1. CASE SaveSettings BY <1>1 DEF SaveSettings
<1>2. CASE LocateConfig BY <1>2, <1>a DEF LocateConfig, Step, Return
<1>3. CASE RemoveTemp BY <1>3, <1>a DEF RemoveTemp, Step
<1>4. CASE WriteTemp BY <1>4, <1>a DEF WriteTemp, Step, Return
<1>5. CASE SyncTemp BY <1>5, <1>a DEF SyncTemp, Step
<1>6. CASE ReadBack BY <1>6, <1>a DEF ReadBack, Step
<1>7. CASE RemoveOld BY <1>7, <1>a DEF RemoveOld, Step
<1>8. CASE Rename BY <1>8, <1>a DEF Rename, Step
<1>9. CASE SyncFile BY <1>9, <1>a DEF SyncFile, Return
<1>10. CASE GiveUp BY <1>10, <1>a DEF GiveUp, Return
<1> QED BY <1>1, <1>2, <1>3, <1>4, <1>5, <1>6, <1>7,
           <1>8, <1>9, <1>10 DEF SettingsStep

-----------------------------------------------------------------------------
(* The steps that are not a save's.                                        *)
Untouched == UNCHANGED settingsVars /\ spc = "idle" /\ op' # "off"
LEMMA UntouchedKeeps == SettingsIInv /\ Untouched => SettingsIInv'
BY DEF Untouched, SettingsIInv, SaveInv, ConfigWhole, SettingsSurvive, Survives,
       OldStillThere, SaveSteps, settingsVars, filesVars, saveVars

LEMMA SettingsInvariance == Spec => []SettingsIInv
<1>1. Init => SettingsIInv
  BY SettingsAssumption
  DEF Init, MediaInit, SettingsInit, SettingsIInv, SaveInv, ConfigWhole,
      SettingsSurvive, SaveSteps, OldStillThere
<1>2. SettingsIInv /\ [Next]_vars => SettingsIInv'
  <2> SUFFICES ASSUME SettingsIInv, [Next]_vars PROVE SettingsIInv'
    OBVIOUS
  <2>a. spc # "idle" => op = "settings" BY DEF SettingsIInv, SaveInv
  <2>1. CASE ToolNext
    <3>1. CASE ImportNext /\ UNCHANGED <<psu, settingsVars, kelfVars>>
      BY <3>1, <2>a, ImportOp, UntouchedKeeps DEF ImportRuns, Untouched
    <3>2. CASE PsuNext /\ UNCHANGED <<settingsVars, kelfVars>>
      BY <3>2, <2>a, PsuOp, UntouchedKeeps DEF PsuRuns, Untouched
    <3>3. CASE SaveSettings \/ SettingsStep BY <3>3, SaveKeeps
    <3>4. CASE KelfNext /\ UNCHANGED <<psu, settingsVars>>
      BY <3>4, <2>a, KelfOp, UntouchedKeeps DEF KelfRuns, Untouched
    <3> QED BY <2>1, <3>1, <3>2, <3>3, <3>4 DEF ToolNext
  <2>2. CASE PullCard \/ InsertCard \/ UNCHANGED vars
    BY <2>2
    DEF PullCard, InsertCard, vars, mediaVars, SettingsIInv, SaveInv, ConfigWhole,
        SettingsSurvive, Survives, settingsVars, filesVars, saveVars
  <2>3. CASE Dismiss
    BY <2>3, <2>a, UntouchedKeeps DEF Dismiss, Untouched
  <2>4. CASE PowerCut
    BY <2>4, SettingsAssumption
    DEF PowerCut, SettingsCut, SettingsIInv, SaveInv, ConfigWhole, SettingsSurvive,
        SaveSteps, OldStillThere
  <2>5. CASE Boot
    BY <2>5, <2>a
    DEF Boot, LoadFromMass, filesVars, SettingsIInv, SaveInv, ConfigWhole,
        SettingsSurvive, Survives, SaveSteps, OldStillThere
  <2> QED BY <2>1, <2>2, <2>3, <2>4, <2>5 DEF Next
<1> QED BY <1>1, <1>2, PTL DEF Spec

(* MCINSPECTOR.CFG is never torn, whatever call fails and whenever the     *)
(* power goes (settings.c:395-425).                                        *)
THEOREM ConfigAlwaysWhole == Spec => []ConfigWhole
BY SettingsInvariance, PTL DEF SettingsIInv

(* A save loses no settings but through the gap between remove and rename  *)
(* (settings.c:424), and its result tells what the file holds.             *)
THEOREM SettingsAlwaysSurvive == Spec => []SettingsSurvive
BY SettingsInvariance, PTL DEF SettingsIInv

-----------------------------------------------------------------------------
(* A proof about the KELF files of an install: whatever happens to the     *)
(* stick between two reads, and whenever the card is pulled, what is       *)
(* written was bound from the bytes the transaction read, to the card it   *)
(* writes.                                                                 *)

Bindings == [raw : Raws, card : Cards]
BoundKelfs == [source : ToSet(Kelfs), raw : Raws, bound : Bindings]

(* Outside an import or an export no job is in hand, so no card is put     *)
(* into the slot while an install runs.                                    *)
JobFree == op \in {"menu", "install", "settings", "off"} => job.pc = "none"
KelfTypes ==
    /\ inserted \in Cards \cup {NoCard}
    /\ package \in [ToSet(Kelfs) -> Raws]
    /\ cache = NoCache \/ cache \in [source : ToSet(Kelfs), raw : Raws]
    /\ pre \in Seq(BoundKelfs)
    /\ wrote \in Seq([want : Bindings, bound : Bindings])
(* What the preflight keeps was bound from the bytes it keeps beside it,   *)
(* and to the card in the slot if there is still one.                      *)
PreBound ==
    \A k \in DOMAIN pre : /\ pre[k].bound.raw = pre[k].raw
                          /\ inserted # NoCard => pre[k].bound.card = inserted
KelfIInv ==
    /\ JobFree /\ KelfTypes /\ PreBound /\ BoundFromPackage
    /\ op # "install" => pre = <<>> /\ wrote = <<>>

-----------------------------------------------------------------------------
LEMMA KelfKeeps == KelfIInv /\ KelfNext => KelfIInv'
<1> SUFFICES ASSUME KelfIInv, KelfNext PROVE KelfIInv'
  OBVIOUS
<1>o. KelfRuns BY KelfOp
<1>j. JobFree' BY <1>o DEF KelfIInv, JobFree, KelfRuns
<1> USE PackagesAssumption
        DEF KelfIInv, KelfTypes, PreBound, BoundFromPackage, KelfRuns
<1>1. CASE ProbeMagicGate
  <2>1. Kelfs[1] \in ToSet(Kelfs) BY DEF ToSet
  <2> QED BY <1>1, <1>o, <1>j, <2>1 DEF ProbeMagicGate, mediaVars, foundVars
<1>2. CASE StartInstall BY <1>2, <1>o, <1>j DEF StartInstall
<1>3. CASE PreflightSource
  <2>1. PICK i \in DOMAIN Kelfs :
          \/ /\ Reads /\ cache' = Cloned(Kelfs[i])
             /\ pre' = Append(pre, Kept(Kelfs[i], cache'.raw))
             /\ op = "install" /\ UNCHANGED <<op, inserted, foundVars, wrote>>
          \/ pre' = <<>> /\ op = "install" /\ UNCHANGED <<op, inserted, foundVars, cache, wrote>>
    BY <1>3 DEF PreflightSource, Reject, EndInstall, KelfAt
  <2>2. CASE pre' = <<>> /\ op = "install" /\ UNCHANGED <<op, inserted, foundVars, cache, wrote>>
    BY <2>2, <1>j DEF foundVars
  <2>3. CASE /\ Reads /\ cache' = Cloned(Kelfs[i])
             /\ pre' = Append(pre, Kept(Kelfs[i], cache'.raw))
             /\ op = "install" /\ UNCHANGED <<op, inserted, foundVars, wrote>>
    <3>1. Kelfs[i] \in ToSet(Kelfs) BY DEF ToSet
    <3>2. cache' \in [source : ToSet(Kelfs), raw : Raws]
      BY <2>3, <3>1 DEF Cloned, Hit, NoCache
    <3>3. inserted \in Cards BY <2>3 DEF Reads
    <3>4. Kept(Kelfs[i], cache'.raw) \in BoundKelfs
      BY <3>1, <3>2, <3>3 DEF Kept, Bound, BoundKelfs, Bindings
    <3>5. pre' \in Seq(BoundKelfs) BY <2>3, <3>4
    <3>6. PreBound'
      <4> SUFFICES ASSUME NEW k \in DOMAIN pre'
                   PROVE pre'[k].bound.raw = pre'[k].raw /\ pre'[k].bound.card = inserted
        BY <2>3
      <4>1. CASE k = Len(pre) + 1
        <5>1. pre'[k] = Kept(Kelfs[i], cache'.raw) BY <2>3, <3>4, <4>1
        <5> QED BY <5>1 DEF Kept, Bound
      <4>2. CASE k \in DOMAIN pre
        <5>1. pre'[k] = pre[k] BY <2>3, <3>4, <4>2
        <5> QED BY <5>1, <4>2, <3>3, <2>3 DEF Reads
      <4> QED BY <2>3, <3>4, <4>1, <4>2
    <3> QED BY <2>3, <3>2, <3>5, <3>6, <1>j DEF foundVars
  <2> QED BY <2>1, <2>2, <2>3
<1>4. CASE PreflightDone
  BY <1>4, <1>o, <1>j DEF PreflightDone, mediaVars, foundVars
<1>5. CASE WriteBound
  <2>1. PICK i \in DOMAIN Targets :
          \/ \E k \in DOMAIN pre :
                /\ FirstOf(k, Matches(Targets[i])) /\ Reads
                /\ wrote' = Append(wrote, [want |-> Bound(package[Targets[i]]),
                                           bound |-> pre[k].bound])
                /\ pre' = pre /\ op = "install" /\ UNCHANGED <<op, inserted, foundVars, cache>>
          \/ /\ pre' \in {pre, <<>>} /\ op = "install"
             /\ UNCHANGED <<op, inserted, foundVars, cache, wrote>>
    BY <1>5 DEF WriteBound, EndInstall, KelfAt, KeptAfter
  <2>2. CASE /\ pre' \in {pre, <<>>} /\ op = "install"
             /\ UNCHANGED <<op, inserted, foundVars, cache, wrote>>
    <3>1. CASE pre' = pre BY <2>2, <3>1, <1>j DEF foundVars
    <3>2. CASE pre' = <<>> BY <2>2, <3>2, <1>j DEF foundVars
    <3> QED BY <2>2, <3>1, <3>2
  <2>3. ASSUME NEW k \in DOMAIN pre, FirstOf(k, Matches(Targets[i])), Reads,
               wrote' = Append(wrote, [want |-> Bound(package[Targets[i]]),
                                       bound |-> pre[k].bound]),
               pre' = pre, op = "install", UNCHANGED <<op, inserted, foundVars, cache>>
        PROVE KelfIInv'
    <3>1. pre[k].raw = package[Targets[i]] BY <2>3 DEF FirstOf, Matches
    <3>2. pre[k] \in BoundKelfs OBVIOUS
    <3>3. pre[k].bound = [raw |-> pre[k].raw, card |-> inserted]
      BY <2>3, <3>2 DEF BoundKelfs, Bindings, Reads
    <3>4. pre[k].bound = Bound(package[Targets[i]]) BY <3>1, <3>3 DEF Bound
    <3>5. pre[k].bound \in Bindings BY <3>2 DEF BoundKelfs
    <3> DEFINE w == [want |-> Bound(package[Targets[i]]), bound |-> pre[k].bound]
    <3>6. w \in [want : Bindings, bound : Bindings] /\ w.bound = w.want BY <3>4, <3>5
    <3> HIDE DEF w
    <3>7. wrote' = Append(wrote, w) BY <2>3 DEF w
    <3>8. wrote' \in Seq([want : Bindings, bound : Bindings]) BY <3>6, <3>7
    <3>9. \A n \in DOMAIN wrote' : wrote'[n] = w \/ (n \in DOMAIN wrote /\ wrote'[n] = wrote[n])
      BY <3>6, <3>7
    <3>10. BoundFromPackage' BY <3>6, <3>9
    <3> QED BY <2>3, <3>8, <3>10, <1>j DEF foundVars
  <2> QED BY <2>1, <2>2, <2>3
<1>6. CASE WriteDone BY <1>6, <1>o, <1>j DEF WriteDone, EndInstall, foundVars
<1>7. CASE LeaveInstall BY <1>7, <1>o, <1>j DEF LeaveInstall, foundVars
<1>8. CASE RewritePackage BY <1>8, <1>o, <1>j DEF RewritePackage, mediaVars
<1> QED BY <1>1, <1>2, <1>3, <1>4, <1>5, <1>6, <1>7, <1>8 DEF KelfNext

(* Steps of the other tools: nothing of the install exists.                *)
LEMMA KelfUntouched ==
    ASSUME KelfIInv, UNCHANGED <<kelfVars, inserted>>, JobFree',
           op # "install" <=> op' # "install"
    PROVE KelfIInv'
BY DEF KelfIInv, KelfTypes, PreBound, BoundFromPackage, kelfVars, foundVars

LEMMA KelfInvariance == Spec => []KelfIInv
<1>1. Init => KelfIInv
  BY PackagesAssumption
  DEF Init, MediaInit, KelfInit, KelfIInv, JobFree, KelfTypes, PreBound,
      BoundFromPackage, NoJob
<1>2. KelfIInv /\ SettingsIInv /\ [Next]_vars => KelfIInv'
  <2> SUFFICES ASSUME KelfIInv, SettingsIInv, [Next]_vars PROVE KelfIInv'
    OBVIOUS
  <2>b. JobFree BY DEF KelfIInv
  <2>1. CASE ToolNext
    <3>1. CASE ImportNext /\ UNCHANGED <<psu, settingsVars, kelfVars>>
      BY <3>1, <2>b, ImportOp, KelfUntouched DEF ImportRuns, JobFree
    <3>2. CASE PsuNext /\ UNCHANGED <<settingsVars, kelfVars>>
      BY <3>2, <2>b, PsuOp, KelfUntouched DEF PsuRuns, JobFree
    <3>3. CASE /\ SaveSettings \/ SettingsStep
               /\ UNCHANGED <<card, inserted, job, psu, kelfVars>>
      <4>1. op \in {"menu", "settings"} /\ op' \in {"menu", "settings"}
        BY <3>3, SettingsOp DEF SettingsIInv
      <4> QED BY <3>3, <4>1, <2>b, KelfUntouched DEF JobFree
    <3>4. CASE KelfNext BY <3>4, KelfKeeps
    <3> QED BY <2>1, <3>1, <3>2, <3>3, <3>4 DEF ToolNext
  <2>2. CASE UNCHANGED vars
    BY <2>2, <2>b, KelfUntouched DEF vars, mediaVars, JobFree
  <2>3. CASE PullCard
    BY <2>3 DEF PullCard, KelfIInv, JobFree, KelfTypes, PreBound, BoundFromPackage,
                kelfVars, foundVars
  <2>4. CASE InsertCard
    BY <2>4, WaitAssumption
    DEF InsertCard, KelfIInv, JobFree, KelfTypes, PreBound, BoundFromPackage,
        kelfVars, foundVars
  <2>5. CASE Dismiss
    BY <2>5, KelfUntouched DEF Dismiss, JobFree, NoJob
  <2>6. CASE PowerCut
    BY <2>6 DEF PowerCut, KelfCut, KelfIInv, JobFree, KelfTypes, PreBound,
                BoundFromPackage, NoJob
  <2>7. CASE Boot
    BY <2>7, <2>b, KelfUntouched DEF Boot, JobFree
  <2> QED BY <2>1, <2>2, <2>3, <2>4, <2>5, <2>6, <2>7 DEF Next
<1> QED BY <1>1, <1>2, SettingsInvariance, PTL DEF Spec

(* What the transaction writes for a KELF is bound from the bytes it read  *)
(* from the stick, and to the card it writes (app_main.c:137-169).         *)
THEOREM AlwaysBoundFromPackage == Spec => []BoundFromPackage
BY KelfInvariance, PTL DEF KelfIInv

(* The preflight has bound every source before the current one, and the    *)
(* transaction begins only when there is none left.                        *)
Has(s) == \E k \in DOMAIN pre : pre[k].source = s
Collected ==
    /\ kpc[1] = "preflight" => \A j \in DOMAIN Kelfs : j < kpc[2] => Has(Kelfs[j])
    /\ kpc[1] = "write" => \A s \in ToSet(Kelfs) : Has(s)

LEMMA HasKept == \A s : pre' = pre => (Has(s) <=> Has(s)')
BY DEF Has

LEMMA CollectedKept == Collected /\ UNCHANGED <<pre, kpc>> => Collected'
BY DEF Collected, Has

LEMMA KelfCollects == KelfTypes /\ Collected /\ KelfNext => Collected'
<1> SUFFICES ASSUME KelfTypes, Collected, KelfNext PROVE Collected'
  OBVIOUS
<1>1. CASE ProbeMagicGate BY <1>1, CollectedKept DEF ProbeMagicGate
<1>2. CASE StartInstall
  <2>1. kpc' = <<"preflight", 1>> BY <1>2 DEF StartInstall
  <2>2. \A j \in DOMAIN Kelfs : ~(j < 1) BY PackagesAssumption
  <2> QED BY <2>1, <2>2 DEF Collected
<1>3. CASE PreflightSource
  <2>1. PICK i \in DOMAIN Kelfs :
          /\ kpc = <<"preflight", i>>
          /\ \/ /\ pre' = Append(pre, Kept(Kelfs[i], cache'.raw))
                /\ kpc' = <<"preflight", i + 1>>
             \/ kpc' = <<"rejected", 0>>
    BY <1>3 DEF PreflightSource, Reject, EndInstall, KelfAt
  <2>2. CASE kpc' = <<"rejected", 0>> BY <2>2 DEF Collected
  <2>3. CASE /\ pre' = Append(pre, Kept(Kelfs[i], cache'.raw))
             /\ kpc' = <<"preflight", i + 1>>
    <3>1. \A j \in DOMAIN Kelfs : j < i => Has(Kelfs[j]) BY <2>1 DEF Collected
    <3>2. Kept(Kelfs[i], cache'.raw).source = Kelfs[i] BY DEF Kept
    <3> DEFINE e == Kept(Kelfs[i], cache'.raw)
    <3> HIDE DEF e
    <3>3. pre \in Seq(BoundKelfs) BY DEF KelfTypes
    <3>4. pre' = Append(pre, e) /\ e.source = Kelfs[i] BY <2>3, <3>2 DEF e
    <3>5. Has(Kelfs[i])'
      <4>1. Len(pre) + 1 \in DOMAIN pre' /\ pre'[Len(pre) + 1] = e BY <3>3, <3>4
      <4> QED BY <4>1, <3>4 DEF Has
    <3>6. \A s : Has(s) => Has(s)'
      <4>1. \A k \in DOMAIN pre : k \in DOMAIN pre' /\ pre'[k] = pre[k] BY <3>3, <3>4
      <4> QED BY <4>1 DEF Has
    <3>7. \A j \in DOMAIN Kelfs : j < i + 1 => j < i \/ j = i BY PackagesAssumption
    <3>8. \A j \in DOMAIN Kelfs : j < i + 1 => Has(Kelfs[j])'
      BY <3>1, <3>5, <3>6, <3>7
    <3> QED BY <2>3, <3>8 DEF Collected
  <2> QED BY <2>1, <2>2, <2>3
<1>4. CASE PreflightDone
  <2>1. /\ kpc = <<"preflight", Len(Kelfs) + 1>> /\ kpc' = <<"write", 1>>
        /\ pre' = pre
    BY <1>4 DEF PreflightDone, KelfAt
  <2>2. \A j \in DOMAIN Kelfs : j < Len(Kelfs) + 1 BY PackagesAssumption
  <2>3. \A s \in ToSet(Kelfs) : Has(s) BY <2>1, <2>2 DEF Collected, ToSet
  <2> QED BY <2>1, <2>3, HasKept DEF Collected
<1>5. CASE WriteBound
  <2>1. PICK i \in DOMAIN Targets :
          /\ kpc = <<"write", i>>
          /\ \/ kpc' = <<"missed", 0>>
             \/ kpc' = <<"write", i + 1>> /\ pre' = pre
             \/ kpc' = <<"failed", 0>>
    BY <1>5 DEF WriteBound, EndInstall, KelfAt, KeptAfter
  <2>2. CASE kpc' = <<"write", i + 1>> /\ pre' = pre
    BY <2>1, <2>2, HasKept DEF Collected
  <2>3. CASE kpc' \in {<<"missed", 0>>, <<"failed", 0>>} BY <2>3 DEF Collected
  <2> QED BY <2>1, <2>2, <2>3
<1>6. CASE WriteDone BY <1>6 DEF WriteDone, EndInstall, Collected
<1>7. CASE LeaveInstall BY <1>7 DEF LeaveInstall, Idle, Collected
<1>8. CASE RewritePackage BY <1>8, CollectedKept DEF RewritePackage
<1> QED BY <1>1, <1>2, <1>3, <1>4, <1>5, <1>6, <1>7, <1>8 DEF KelfNext

LEMMA CollectedAlways == KelfTypes /\ Collected /\ [Next]_vars => Collected'
<1> SUFFICES ASSUME KelfTypes, Collected, [Next]_vars PROVE Collected'
  OBVIOUS
<1>1. CASE UNCHANGED kelfVars BY <1>1, CollectedKept DEF kelfVars
<1>2. CASE KelfNext BY <1>2, KelfCollects
<1>3. CASE KelfCut BY <1>3 DEF KelfCut, Idle, Collected
<1>4. KelfNext \/ KelfCut \/ UNCHANGED kelfVars
  BY DEF Next, ToolNext, PullCard, InsertCard, Dismiss, PowerCut, Boot, vars
<1> QED BY <1>1, <1>2, <1>3, <1>4

(* Only the transaction refuses for want of a bound source, and what it    *)
(* looks for was bound under its name.                                     *)
LEMMA MissedStep ==
    ASSUME KelfTypes, Collected, [Next]_vars, kpc'[1] = "missed", kpc[1] = "write"
    PROVE \E k \in DOMAIN pre : /\ pre[k].source = Targets[kpc[2]]
                                /\ pre[k].raw # package[Targets[kpc[2]]]
<1>1. kpc' # kpc OBVIOUS
<1>2. KelfNext
  BY <1>1 DEF Next, ToolNext, PullCard, InsertCard, Dismiss, PowerCut, Boot, vars,
              kelfVars, KelfCut, Idle
<1>3. WriteBound
  BY <1>1, <1>2 DEF KelfNext, ProbeMagicGate, StartInstall, PreflightSource, KelfAt,
       PreflightDone, WriteDone, EndInstall, LeaveInstall, Idle, RewritePackage
<1>4. PICK i \in DOMAIN Targets : kpc = <<"write", i>> /\ Matches(Targets[i]) = {}
  BY <1>3 DEF WriteBound, KelfAt, EndInstall
<1>5. Targets[i] \in ToSet(Kelfs) BY TargetsAssumption
<1>6. PICK k \in DOMAIN pre : pre[k].source = Targets[i]
  BY <1>4, <1>5 DEF Collected, Has
<1>7. pre[k].raw # package[Targets[i]] BY <1>4 DEF Matches
<1> QED BY <1>4, <1>6, <1>7

(* A transaction is refused for want of a bound source only if the file on *)
(* the stick is not the one the preflight bound (app_main.c:137-169).      *)
THEOREM MissAlwaysMeansRewritten == Spec => MissMeansRewritten
<1>1. Init => Collected
  BY DEF Init, KelfInit, Idle, Collected
<1>2. KelfTypes /\ Collected /\ [Next]_vars => Collected'
  BY CollectedAlways
<1>3. KelfTypes /\ Collected /\ [Next]_vars =>
        [kpc'[1] = "missed" /\ kpc[1] = "write"
         => \E k \in DOMAIN pre : /\ pre[k].source = Targets[kpc[2]]
                                  /\ pre[k].raw # package[Targets[kpc[2]]]]_vars
  BY MissedStep
<1>4. KelfIInv => KelfTypes BY DEF KelfIInv
<1> QED BY <1>1, <1>2, <1>3, <1>4, KelfInvariance, PTL DEF Spec, MissMeansRewritten

-----------------------------------------------------------------------------
(* Proofs about the PSU export: a container that was reported PASS holds   *)
(* the files of the save as the card has them, and no container that was   *)
(* on the stick is touched, for every card and every list of names.        *)

JobFields == {"pc", "free", "conflict", "todo", "stack", "path", "created", "full",
              "before", "want", "file", "begun", "kept", "rb", "res"}
IsFcn(f) == f = [x \in DOMAIN f |-> f[x]]

(* The container being written and the files it is to hold.                *)
Copying ==
    /\ OutFile = Container(Exported, OutFile.files, OutFile.whole)
    /\ IsFcn(OutFile.files) /\ IsFcn(job.want)
    /\ inserted # NoCard => \A p \in DOMAIN job.want : job.want[p] = Here[p].data
    /\ job.pc = "verify" => OutFile.whole /\ DOMAIN OutFile.files = DOMAIN job.want
(* The faults an export has met since it began to choose a name.           *)
Since == job.begun \in Nat /\ faults \in Nat /\ job.begun <= faults
ExportStages ==
    /\ DOMAIN job = JobFields /\ IsFcn(job)
    /\ job.pc \in {"list", "copy", "verify", "remove", "done"}
    /\ job.pc # "done" => job.res = "none"
    /\ Since /\ IsFcn(job.kept)
    /\ job.pc = "list" => psu = job.kept
    /\ job.pc \in {"copy", "verify", "remove"} => job.file \in DOMAIN psu
    /\ job.pc \in {"copy", "verify"} => Copying
ExportIInv ==
    /\ IsFcn(psu)
    /\ op = "export" => ExportStages
    /\ ExportKeepsFiles /\ ExportedEqualsCard

(* What writing the container leaves of the other files of the stick.      *)
LEMMA PutPsu ==
    ASSUME NEW c, Put1(c), IsFcn(psu)
    PROVE /\ DOMAIN psu' = DOMAIN psu \cup {job.file} /\ psu'[job.file] = c
          /\ IsFcn(psu)' /\ Drop(psu', {job.file}) = Drop(psu, {job.file})
<1>1. psu' = [x \in {job.file} \cup DOMAIN psu |-> IF x = job.file THEN c ELSE psu[x]]
  BY DEF Put1, Put
<1>2. DOMAIN psu' = DOMAIN psu \cup {job.file} /\ psu'[job.file] = c BY <1>1
<1>3. \A x \in DOMAIN psu \ {job.file} : psu'[x] = psu[x] BY <1>1
<1>4. IsFcn(psu)' BY <1>1 DEF IsFcn
<1>5. Drop(psu', {job.file}) = Drop(psu, {job.file}) BY <1>2, <1>3 DEF Drop
<1> QED BY <1>2, <1>4, <1>5

(* The operation leaves the stick alone and exports nothing.               *)
LEMMA NoExport ==
    ASSUME ExportIInv, UNCHANGED psu, op' # "export" PROVE ExportIInv'
BY DEF ExportIInv, IsFcn, ExportKeepsFiles, ExportedEqualsCard

(* A fault once met stays counted.                                         *)
LEMMA SinceGrows ==
    ASSUME Since, FaultSpent \/ faults' = faults, job'.begun = job.begun
    PROVE Since' /\ (faults' = job'.begun => faults = job.begun)
BY DEF Since, FaultSpent

(* Without a fault since the choice, what the export leaves as it is stays *)
(* clean, and its own container is the only one that comes or goes.        *)
LEMMA KeepsFrom ==
    ASSUME ExportKeepsFiles, op = "export", op' = "export", ExportStages,
           job'.kept = job.kept, job'.file = job.file, job'.begun = job.begun,
           FaultSpent \/ faults' = faults,
           Drop(psu', {job.file}) = Drop(psu, {job.file}),
           job'.res \in {"none", "ok"} \/ (job.res = "none" /\ (psu' = job.kept \/ FaultSpent))
    PROVE ExportKeepsFiles' /\ Since'
<1>1. Since' /\ (faults' = job'.begun => faults = job.begun)
  BY SinceGrows DEF ExportStages
<1>2. FaultSpent => faults' # job'.begun
  BY DEF ExportStages, Since, FaultSpent
<1> QED BY <1>1, <1>2 DEF ExportKeepsFiles

-----------------------------------------------------------------------------
ImportOfPsu ==
    \/ PickContainer \/ PsuCheckTarget \/ PsuMakeDirectory \/ PsuCreateFile
    \/ PsuWriteFile \/ PsuVerifyFile \/ PsuStampFile \/ PsuFinish \/ PsuRollback
LEMMA ImportLeavesStick == ImportOfPsu => UNCHANGED psu /\ op' = "import"
<1>1. PickContainer => UNCHANGED psu /\ op' = "import" BY DEF PickContainer
<1>2. PsuCheckTarget => UNCHANGED psu /\ op' = "import"
  BY DEF PsuCheckTarget, Refuse, At, Stays
<1>3. PsuMakeDirectory => UNCHANGED psu /\ op' = "import"
  BY DEF PsuMakeDirectory, PsuCommand, At, Stays
<1>4. PsuCreateFile => UNCHANGED psu /\ op' = "import"
  BY DEF PsuCreateFile, PsuCommand, At, Stays
<1>5. PsuWriteFile => UNCHANGED psu /\ op' = "import"
  BY DEF PsuWriteFile, PsuCommand, At, Stays
<1>6. PsuVerifyFile => UNCHANGED psu /\ op' = "import"
  BY DEF PsuVerifyFile, PsuCommand, At, Stays
<1>7. PsuStampFile => UNCHANGED psu /\ op' = "import"
  BY DEF PsuStampFile, PsuCommand, At, Stays
<1>8. PsuFinish => UNCHANGED psu /\ op' = "import"
  BY DEF PsuFinish, PsuCommand, At, Stays
<1>9. PsuRollback => UNCHANGED psu /\ op' = "import"
  BY DEF PsuRollback, Refuse, At, Stays
<1> QED BY <1>1, <1>2, <1>3, <1>4, <1>5, <1>6, <1>7, <1>8, <1>9 DEF ImportOfPsu

(* The steps of an export.                                                 *)
LEMMA PreparePath == ExportIInv /\ faults \in Nat /\ PrepareExportPath => ExportIInv'
<1> SUFFICES ASSUME ExportIInv, faults \in Nat, PrepareExportPath PROVE ExportIInv'
  OBVIOUS
<1>1. PICK s, i :
        /\ \/ PsuNames[s][i] \notin DOMAIN psu /\ UNCHANGED faults
           \/ PsuNames[s][i] \in DOMAIN psu /\ FaultSpent
        /\ job' = [NoJob EXCEPT !.pc = "list", !.todo = <<s>>, !.kept = psu,
                                !.file = PsuNames[s][i], !.begun = faults]
  BY DEF PrepareExportPath
<1> DEFINE n == PsuNames[s][i]
<1>2. psu' = psu /\ op' = "export" BY DEF PrepareExportPath
<1>3. /\ DOMAIN job' = JobFields /\ job'.pc = "list" /\ job'.res = "none"
      /\ job'.kept = psu /\ job'.file = n /\ job'.begun = faults
  BY <1>1 DEF NoJob, JobFields
<1>4. IsFcn(job)' BY <1>1 DEF IsFcn, NoJob
<1>5. faults' = faults => n \notin DOMAIN psu
  BY <1>1 DEF FaultSpent
<1>6. ExportKeepsFiles'
  BY <1>2, <1>3, <1>5 DEF ExportKeepsFiles
<1>7. Since'
  BY <1>1, <1>3 DEF Since, FaultSpent
<1> QED BY <1>2, <1>3, <1>4, <1>6, <1>7
        DEF ExportIInv, ExportStages, IsFcn, ExportedEqualsCard

LEMMA ListKeeps == ExportIInv /\ ListSave => ExportIInv'
<1> SUFFICES ASSUME ExportIInv, ListSave PROVE ExportIInv'
  OBVIOUS
<1>1. /\ op = "export" /\ job.pc = "list" /\ op' = "export" /\ inserted' = inserted
      /\ ExportStages
  BY DEF ListSave, At, Stays, Refuse, ExportIInv
<1>2. job.res = "none" /\ psu = job.kept BY <1>1 DEF ExportStages
<1>s. FaultSpent \/ faults' = faults BY DEF ListSave, Reads, ReadFails
<1>3. CASE \E res \in {"unsupported", "unavailable"} : Refuse(res) /\ UNCHANGED psu
  <2>1. PICK res \in {"unsupported", "unavailable"} : job' = Ends(job, res)
    BY <1>3 DEF Refuse
  <2>2. /\ DOMAIN job' = JobFields /\ IsFcn(job)' /\ job'.pc = "done"
        /\ job'.res = res /\ job'.kept = job.kept /\ job'.file = job.file
        /\ job'.begun = job.begun
    BY <1>1, <2>1 DEF Ends, ExportStages, JobFields, IsFcn
  <2>3. ExportKeepsFiles' /\ Since'
    BY <1>1, <1>2, <1>3, <1>s, <2>2, KeepsFrom DEF ExportIInv
  <2> QED BY <1>1, <1>3, <2>1, <2>2, <2>3
          DEF ExportIInv, ExportStages, ExportedEqualsCard, IsFcn
<1>4. CASE /\ Reads /\ Put1(Container(Exported, NoTree, FALSE))
           /\ job' = [job EXCEPT !.pc = "copy", !.want = ContentOf(Here, Exported)]
  <2>1. /\ DOMAIN job' = JobFields /\ IsFcn(job)' /\ job'.pc = "copy"
        /\ job'.res = "none" /\ job'.kept = job.kept /\ job'.file = job.file
        /\ job'.begun = job.begun /\ job'.todo = job.todo
        /\ job'.want = ContentOf(Here, Exported)
    BY <1>1, <1>2, <1>4 DEF ExportStages, JobFields, IsFcn
  <2>2. /\ job.file \in DOMAIN psu' /\ psu'[job.file] = Container(Exported, NoTree, FALSE)
        /\ IsFcn(psu)' /\ Drop(psu', {job.file}) = Drop(psu, {job.file})
    BY <1>4, PutPsu DEF ExportIInv
  <2>3. ExportKeepsFiles' /\ Since'
    BY <1>1, <1>s, <2>1, <2>2, KeepsFrom DEF ExportIInv
  <2>4. Copying'
    <3>1. card' = card /\ inserted' = inserted BY <1>4, <1>1 DEF Reads
    <3>2. OutFile' = Container(Exported, NoTree, FALSE) /\ Exported' = Exported
      BY <2>1, <2>2 DEF OutFile, Exported
    <3>3. IsFcn(NoTree) BY DEF IsFcn, NoTree
    <3>4. IsFcn(ContentOf(Here, Exported)) BY DEF IsFcn, ContentOf
    <3>5. \A p \in DOMAIN ContentOf(Here, Exported) :
             ContentOf(Here, Exported)[p] = Here[p].data
      BY DEF ContentOf
    <3>6. Here' = Here BY <3>1 DEF Here
    <3> QED BY <2>1, <3>2, <3>3, <3>4, <3>5, <3>6 DEF Copying, Container, IsFcn
  <2> QED BY <1>1, <2>1, <2>2, <2>3, <2>4 DEF ExportIInv, ExportStages, ExportedEqualsCard
<1> QED BY <1>3, <1>4 DEF ListSave

LEMMA CopyKeeps == ExportIInv /\ CopyOut => ExportIInv'
<1> SUFFICES ASSUME ExportIInv, CopyOut PROVE ExportIInv'
  OBVIOUS
<1>1. /\ op = "export" /\ job.pc = "copy" /\ op' = "export" /\ inserted' = inserted
      /\ card' = card /\ ExportStages
  BY DEF CopyOut, ExportStep, At, Stays, ExportIInv
<1>2. job.res = "none" /\ Copying /\ job.file \in DOMAIN psu BY <1>1 DEF ExportStages
<1>s. FaultSpent \/ faults' = faults BY DEF CopyOut, Reads, ReadFails
<1>3. CASE ExportFails /\ UNCHANGED psu
  <2>1. /\ DOMAIN job' = JobFields /\ IsFcn(job)' /\ job'.pc = "remove"
        /\ job'.res = "none" /\ job'.kept = job.kept /\ job'.file = job.file
        /\ job'.begun = job.begun
    BY <1>1, <1>2, <1>3 DEF ExportFails, ExportStages, JobFields, IsFcn
  <2>2. ExportKeepsFiles' /\ Since'
    BY <1>1, <1>3, <1>s, <2>1, KeepsFrom DEF ExportIInv
  <2> QED BY <1>1, <1>2, <1>3, <2>1, <2>2
          DEF ExportIInv, ExportStages, ExportedEqualsCard, IsFcn
<1>4. CASE job' = job /\ \E p, d : ReadThenWrite(p, d)
  <2>1. PICK p, d : Put1(Container(Exported, Put(OutFile.files, p, d), FALSE))
    BY <1>4 DEF ReadThenWrite
  <2> DEFINE c == Container(Exported, Put(OutFile.files, p, d), FALSE)
  <2>2. /\ job.file \in DOMAIN psu' /\ psu'[job.file] = c
        /\ IsFcn(psu)' /\ Drop(psu', {job.file}) = Drop(psu, {job.file})
    BY <2>1, PutPsu DEF ExportIInv
  <2>3. ExportKeepsFiles' /\ Since'
    BY <1>1, <1>2, <1>4, <1>s, <2>2, KeepsFrom DEF ExportIInv
  <2>4. Copying'
    <3>1. OutFile' = c /\ Exported' = Exported /\ Here' = Here
      BY <1>1, <1>4, <2>2 DEF OutFile, Exported, Here
    <3>2. IsFcn(c.files) /\ c = Container(Exported, c.files, c.whole)
      BY DEF IsFcn, Put, Container
    <3> QED BY <1>1, <1>2, <1>4, <3>1, <3>2 DEF Copying, IsFcn
  <2> QED BY <1>1, <1>2, <1>4, <2>2, <2>3, <2>4
          DEF ExportIInv, ExportStages, ExportedEqualsCard, IsFcn
<1> QED BY <1>3, <1>4 DEF CopyOut

LEMMA CloseKeeps == ExportIInv /\ CloseExport => ExportIInv'
<1> SUFFICES ASSUME ExportIInv, CloseExport PROVE ExportIInv'
  OBVIOUS
<1>1. /\ op = "export" /\ job.pc = "copy" /\ op' = "export" /\ inserted' = inserted
      /\ card' = card /\ ExportStages
  BY DEF CloseExport, ExportStep, At, Stays, ExportIInv
<1>2. job.res = "none" /\ Copying /\ job.file \in DOMAIN psu BY <1>1 DEF ExportStages
<1> DEFINE c == Container(Exported, OutFile.files, TRUE)
<1>3. /\ job.file \in DOMAIN psu' /\ psu'[job.file] = c
      /\ IsFcn(psu)' /\ Drop(psu', {job.file}) = Drop(psu, {job.file})
  BY PutPsu DEF CloseExport, ExportIInv
<1>4. c.files = OutFile.files /\ c.whole = TRUE BY DEF Container
<1>5. PICK pc \in {"verify", "remove"} : job' = [job EXCEPT !.pc = pc]
  BY DEF CloseExport, ExportFails
<1>6. /\ DOMAIN job' = JobFields /\ IsFcn(job)' /\ job'.pc = pc
      /\ job'.res = "none" /\ job'.kept = job.kept /\ job'.file = job.file
      /\ job'.begun = job.begun /\ job'.todo = job.todo /\ job'.want = job.want
  BY <1>1, <1>2, <1>5 DEF ExportStages, JobFields, IsFcn
<1>7. ExportKeepsFiles' /\ Since'
  <2>1. FaultSpent \/ faults' = faults BY DEF CloseExport
  <2> QED BY <1>1, <1>3, <1>6, <2>1, KeepsFrom DEF ExportIInv
<1>8. Copying'
  <2>1. OutFile' = c /\ Exported' = Exported /\ Here' = Here
    BY <1>1, <1>3, <1>6 DEF OutFile, Exported, Here
  <2>2. DOMAIN OutFile.files = DOMAIN job.want BY DEF CloseExport
  <2>3. OutFile' = Container(Exported', OutFile'.files, OutFile'.whole)
    BY <1>4, <2>1
  <2>4. OutFile'.files = OutFile.files /\ OutFile'.whole BY <1>4, <2>1
  <2> HIDE DEF c
  <2> QED BY <1>1, <1>2, <1>6, <2>1, <2>2, <2>3, <2>4 DEF Copying, IsFcn
<1> QED BY <1>1, <1>3, <1>5, <1>6, <1>7, <1>8 DEF ExportIInv, ExportStages, ExportedEqualsCard

LEMMA VerifyKeeps == ExportIInv /\ VerifyPsuFileAgainstCard => ExportIInv'
<1> SUFFICES ASSUME ExportIInv, VerifyPsuFileAgainstCard PROVE ExportIInv'
  OBVIOUS
<1> USE DEF VerifyPsuFileAgainstCard, VerifyPsu
<1>1. /\ op = "export" /\ job.pc = "verify" /\ op' = "export" /\ psu' = psu
      /\ ExportStages
  BY DEF ExportStep, At, Stays, ExportIInv
<1>2. job.res = "none" /\ Copying /\ job.file \in DOMAIN psu BY <1>1 DEF ExportStages
<1>s. FaultSpent \/ faults' = faults BY DEF Reads, ReadFails
<1>3. CASE job' = [job EXCEPT !.pc = "remove"]
  <2>1. /\ DOMAIN job' = JobFields /\ IsFcn(job)' /\ job'.pc = "remove"
        /\ job'.res = "none" /\ job'.kept = job.kept /\ job'.file = job.file
        /\ job'.begun = job.begun
    BY <1>1, <1>2, <1>3 DEF ExportStages, JobFields, IsFcn
  <2>2. ExportKeepsFiles' /\ Since'
    BY <1>1, <1>s, <2>1, KeepsFrom DEF ExportIInv
  <2> QED BY <1>1, <1>2, <2>1, <2>2
          DEF ExportIInv, ExportStages, ExportedEqualsCard, IsFcn
<1>4. CASE Reads /\ SameAsCard /\ job' = Ends(job, "ok")
  <2>1. /\ DOMAIN job' = JobFields /\ IsFcn(job)' /\ job'.pc = "done"
        /\ job'.res = "ok" /\ job'.kept = job.kept /\ job'.file = job.file
        /\ job'.begun = job.begun /\ job'.todo = job.todo /\ job'.want = job.want
    BY <1>1, <1>2, <1>4 DEF Ends, ExportStages, JobFields, IsFcn
  <2>2. OutFile.files = job.want
    <3>1. DOMAIN OutFile.files = DOMAIN job.want
      BY <1>1, <1>2 DEF Copying
    <3>2. \A p \in DOMAIN job.want : OutFile.files[p] = job.want[p]
      BY <1>2, <1>4, <3>1 DEF Copying, SameAsCard, Reads
    <3> QED BY <1>2, <3>1, <3>2 DEF Copying, IsFcn
  <2>3. OutFile = Container(Exported, job.want, OutFile.whole) /\ OutFile.whole = TRUE
    <3>1. OutFile.whole = TRUE
      BY <1>1, <1>2 DEF Copying
    <3> QED BY <1>2, <2>2, <3>1 DEF Copying
  <2>4. ExportedEqualsCard'
    BY <1>1, <2>1, <2>3 DEF ExportedEqualsCard, OutFile, Exported
  <2>5. ExportKeepsFiles' /\ Since'
    BY <1>1, <1>s, <2>1, KeepsFrom DEF ExportIInv
  <2> QED BY <1>1, <2>1, <2>4, <2>5 DEF ExportIInv, ExportStages, IsFcn
<1>5. \/ job' = [job EXCEPT !.pc = "remove"]
      \/ Reads /\ SameAsCard /\ job' = Ends(job, "ok")
  BY DEF ExportFails
<1> QED BY <1>3, <1>4, <1>5

LEMMA RemoveKeeps == ExportIInv /\ RemoveExport => ExportIInv'
<1> SUFFICES ASSUME ExportIInv, RemoveExport PROVE ExportIInv'
  OBVIOUS
<1>1. /\ op = "export" /\ job.pc = "remove" /\ op' = "export" /\ ExportStages
  BY DEF RemoveExport, ExportStep, At, Stays, ExportIInv
<1>2. job.res = "none" /\ job.file \in DOMAIN psu BY <1>1 DEF ExportStages
<1>3. /\ DOMAIN job' = JobFields /\ IsFcn(job)' /\ job'.pc = "done"
      /\ job'.res = "failed" /\ job'.kept = job.kept /\ job'.file = job.file
      /\ job'.begun = job.begun
  BY <1>1 DEF RemoveExport, Ends, ExportStages, JobFields, IsFcn
<1>4. CASE FaultSpent /\ UNCHANGED psu
  <2>1. ExportKeepsFiles' /\ Since'
    BY <1>1, <1>2, <1>3, <1>4, KeepsFrom DEF ExportIInv
  <2> QED BY <1>1, <1>3, <1>4, <2>1
          DEF ExportIInv, ExportStages, ExportedEqualsCard, IsFcn
<1>5. CASE psu' = Without(job.file) /\ UNCHANGED faults
  <2>1. /\ psu' = Drop(psu, {job.file}) /\ IsFcn(psu)'
        /\ Drop(psu', {job.file}) = Drop(psu, {job.file})
    BY <1>5 DEF Without, Drop, IsFcn
  <2>2. job.file \notin DOMAIN job.kept => Drop(job.kept, {job.file}) = job.kept
    BY <1>1 DEF Drop, ExportStages, IsFcn
  <2>3. faults' = job'.begun => psu' = job.kept /\ job.file \notin DOMAIN job.kept
    BY <1>1, <1>3, <1>5, <2>1, <2>2 DEF ExportIInv, ExportKeepsFiles
  <2>4. ExportKeepsFiles'
    BY <1>1, <1>3, <2>1, <2>3 DEF ExportIInv, ExportKeepsFiles
  <2>5. Since' BY <1>1, <1>3, <1>5, SinceGrows DEF ExportStages
  <2> QED BY <1>1, <1>3, <2>1, <2>4, <2>5
          DEF ExportIInv, ExportStages, ExportedEqualsCard, IsFcn
<1> QED BY <1>4, <1>5 DEF RemoveExport

-----------------------------------------------------------------------------
(* Proofs about the two imports: an object that the job has not made is    *)
(* neither removed nor changed, and a job that failed and reports no error *)
(* of its rollback leaves the card as it was, for every image, container,  *)
(* card and size of the table of created objects, whatever call fails and  *)
(* whenever the card is pulled.                                            *)

IsTree(tree) == IsFcn(tree) /\ Rooted(tree)
Trees == DOMAIN card = Cards /\ \A c \in Cards : IsTree(card[c])

(* A container is flat, and so is what an export collects for one.         *)
FlatFiles == \A n \in DOMAIN psu : \A p \in DOMAIN psu[n].files : p = <<psu[n].save, p[2]>>
FlatCopy ==
    op = "export" /\ job.pc = "copy" =>
        /\ job.file \in DOMAIN psu /\ psu[job.file].save = Exported
        /\ \A p \in DOMAIN job.want : p = <<Exported, p[2]>>

(* The list of created objects while a job runs: none of them was there    *)
(* before, and until something fails the card holds them all, the          *)
(* directories being walked among them.                                    *)
JobShape == DOMAIN job = JobFields /\ IsFcn(job)
Active == {"walk", "write", "verify", "stamp"}
InJob == Importing /\ job.pc \in Active \cup {"rollback"}
Created == ToSet(job.created)
Listed ==
    InJob => /\ job.created \in Seq(Created) /\ \A p \in Created : IsPath(p)
             /\ Created \cap DOMAIN job.before = {} /\ IsTree(job.before)
Placed ==
    Importing /\ job.pc \in Active =>
        /\ job.rb = Ok /\ ~job.full
        /\ inserted # NoCard => Created \subseteq DOMAIN Here
        /\ job.pc # "walk" => job.path \in Created
        /\ op = "image" => /\ job.stack \in Seq([dir : Created, next : Nat])
                           /\ job.pc # "walk" => job.stack # <<>>
        /\ op = "import" => /\ job.file \in DOMAIN psu
                            /\ job.created # <<>> => <<Source.save>> \in Created
Unfinished == Importing /\ job.pc # "done" => job.res = "none"
Waiting == {"browse", "selected", "confirm"}
Unused ==
    Importing /\ job.pc \in Waiting =>
        /\ job.created = <<>> /\ job.stack = <<>> /\ job.rb = Ok /\ job.full = FALSE
        /\ op = "import" => job.file \in DOMAIN psu

(* What the card holds more than before: the created objects and, when one *)
(* did not fit in their table, that one.  It is in the root, or in a       *)
(* directory whose own removal is then bound to fail.                      *)
Stray(p) == Len(p) = 1 \/ (Front(p) \in Created /\ Front(p) \in DOMAIN Here)
Grown ==
    InJob /\ inserted # NoCard =>
        /\ DOMAIN job.before \subseteq DOMAIN Here
        /\ \A p \in DOMAIN job.before : Here[p] = job.before[p]
        /\ job.rb = Ok =>
             \A p \in DOMAIN Here \ (DOMAIN job.before \cup Created) : job.full /\ Stray(p)

ImportIInv ==
    /\ Trees /\ FlatFiles /\ FlatCopy /\ JobShape
    /\ Listed /\ Placed /\ Unfinished /\ Unused /\ Grown
    /\ "done" \notin WaitPoints => RolledBackMeansAsBefore
    /\ inserted \in Cards \cup {NoCard}

-----------------------------------------------------------------------------
(* Paths and lists *)

LEMMA OneOrMore == \A n \in Nat \ {0} : n = 1 \/ n > 1
OBVIOUS

LEMMA PathFacts ==
    ASSUME NEW p, IsPath(p)
    PROVE Len(p) \in Nat \ {0} /\ DOMAIN p = 1..Len(p) /\ (Len(p) = 1 \/ Len(p) > 1)
<1>1. Len(p) \in Nat \ {0} /\ DOMAIN p = 1..Len(p)
  BY EmptySeq, LenProperties DEF IsPath
<1> QED BY <1>1, OneOrMore, Zenon

LEMMA ListFacts ==
    ASSUME NEW s, s \in Seq(ToSet(s)), NEW x
    PROVE /\ Append(s, x) \in Seq(ToSet(Append(s, x)))
          /\ ToSet(Append(s, x)) = ToSet(s) \cup {x}
          /\ Len(Append(s, x)) = Len(s) + 1
          /\ Front(Append(s, x)) = s
          /\ Append(s, x) # <<>>
<1> DEFINE S == ToSet(s) \cup {x}
           t == Append(s, x)
<1>1. s \in Seq(S) /\ Len(s) \in Nat /\ DOMAIN s = 1..Len(s)
  BY SeqMonotonic, LenProperties
<1>2. t \in Seq(S) /\ Len(t) = Len(s) + 1 /\ DOMAIN t = 1..(Len(s) + 1)
      /\ t[Len(s) + 1] = x /\ \A i \in 1..Len(s) : t[i] = s[i]
  <2>1. t \in Seq(S) /\ Len(t) = Len(s) + 1
        /\ \A i \in 1..(Len(s) + 1) : t[i] = IF i <= Len(s) THEN s[i] ELSE x
    BY <1>1, AppendProperties
  <2>2. DOMAIN t = 1..(Len(s) + 1)
    BY <2>1, LenProperties
  <2> HIDE DEF t
  <2> QED BY <1>1, <2>1, <2>2
<1> HIDE DEF t
<1>3. ToSet(t) = S
  BY <1>1, <1>2 DEF ToSet
<1>4. SubSeq(t, 1, Len(s)) = s
  <2>1. SubSeq(t, 1, Len(s)) \in Seq(S) /\ Len(SubSeq(t, 1, Len(s))) = Len(s)
        /\ \A i \in 1..Len(s) : SubSeq(t, 1, Len(s))[i] = t[i]
    <3>1. \A i \in 1..Len(s) : t[i] \in S
      BY <1>1, <1>2 DEF ToSet
    <3>2. 1 \in Int /\ Len(s) \in Int BY <1>1
    <3>3. /\ SubSeq(t, 1, Len(s)) \in Seq(S)
          /\ Len(SubSeq(t, 1, Len(s))) = IF 1 <= Len(s) THEN Len(s) - 1 + 1 ELSE 0
          /\ \A i \in 1..(Len(s) - 1 + 1) : SubSeq(t, 1, Len(s))[i] = t[1 + i - 1]
      BY <3>1, <3>2, SubSeqProperties
    <3> QED BY <1>1, <3>3
  <2> QED BY <1>1, <1>2, <2>1, SeqEqual
<1>5. Front(t) = s
  BY <1>1, <1>2, <1>4 DEF Front
<1>6. t # <<>>
  BY <1>1, <1>2, EmptySeq
<1> QED BY <1>2, <1>3, <1>5, <1>6 DEF t

LEMMA ChildPath ==
    ASSUME NEW d, IsPath(d), NEW x
    PROVE /\ IsPath(Append(d, x)) /\ Front(Append(d, x)) = d /\ Len(Append(d, x)) > 1
<1>1. d \in Seq(ToSet(d)) /\ Len(d) \in Nat \ {0}
  BY PathFacts DEF IsPath
<1> QED BY <1>1, ListFacts DEF IsPath

LEMMA RootPath ==
    ASSUME NEW s
    PROVE IsPath(<<s>>) /\ Len(<<s>>) = 1
<1> DEFINE e == <<>>
           t == <<s>>
<1>1. t = Append(e, s) OBVIOUS
<1>2. e \in Seq(ToSet(e)) /\ Len(e) = 0 BY EmptySeq
<1> HIDE DEF e, t
<1>3. /\ Append(e, s) \in Seq(ToSet(Append(e, s)))
      /\ Len(Append(e, s)) = Len(e) + 1 /\ Append(e, s) # <<>>
  BY <1>2, ListFacts
<1>4. t \in Seq(ToSet(t)) /\ Len(t) = 1 /\ t # <<>> BY <1>1, <1>2, <1>3
<1> QED BY <1>4 DEF IsPath, t

(* The file of a container: its directory is the save.                     *)
LEMMA FlatPath ==
    ASSUME NEW s, NEW x
    PROVE IsPath(<<s, x>>) /\ Front(<<s, x>>) = <<s>> /\ Len(<<s, x>>) > 1
<1>1. <<s, x>> = Append(<<s>>, x) OBVIOUS
<1> QED BY <1>1, RootPath, ChildPath

(* The first part of a path, and the rest of a list without its last.      *)
LEMMA FrontFacts ==
    ASSUME NEW s, s \in Seq(ToSet(s)), s # <<>>
    PROVE /\ Len(s) \in Nat \ {0} /\ Last(s) \in ToSet(s)
          /\ Front(s) \in Seq(ToSet(Front(s)))
          /\ Len(Front(s)) = Len(s) - 1
          /\ \A i \in 1..(Len(s) - 1) : Front(s)[i] = s[i]
          /\ ToSet(s) = ToSet(Front(s)) \cup {Last(s)}
          /\ IsPrefix(Front(s), s)
<1> DEFINE m == Len(s) - 1
           t == SubSeq(s, 1, m)
<1>1. Len(s) \in Nat \ {0} /\ DOMAIN s = 1..Len(s) /\ m \in Nat
  BY EmptySeq, LenProperties
<1>2. \A i \in 1..m : s[i] \in {s[j] : j \in 1..m}
  OBVIOUS
<1>3. /\ t \in Seq({s[j] : j \in 1..m})
      /\ Len(t) = m
      /\ \A i \in 1..m : t[i] = s[i]
  <2>1. 1 \in Int /\ m \in Int BY <1>1
  <2> HIDE DEF m
  <2>2. /\ t \in Seq({s[j] : j \in 1..m})
        /\ Len(t) = IF 1 <= m THEN m - 1 + 1 ELSE 0
        /\ \A i \in 1..(m - 1 + 1) : t[i] = s[1 + i - 1]
    BY <1>2, <2>1, SubSeqProperties
  <2> QED BY <1>1, <2>2
<1>4. DOMAIN t = 1..m
  BY <1>3, LenProperties
<1>5. Front(s) = t
  BY DEF Front
<1> HIDE DEF t
<1>6. ToSet(t) = {s[j] : j \in 1..m}
  BY <1>3, <1>4 DEF ToSet
<1>7. Last(s) \in ToSet(s) /\ ToSet(s) = ToSet(t) \cup {Last(s)}
  <2>1. 1..Len(s) = (1..m) \cup {Len(s)} BY <1>1
  <2>2. ToSet(s) = {s[j] : j \in 1..Len(s)} BY <1>1 DEF ToSet
  <2> HIDE DEF m
  <2> QED BY <1>6, <2>1, <2>2 DEF Last
<1>8. IsPrefix(t, s)
  <2>1. SubSeq(t, 1, Len(t)) = t
    BY <1>3, SubSeqFull
  <2> QED BY <1>1, <1>3, <2>1 DEF IsPrefix, t
<1> QED BY <1>1, <1>3, <1>5, <1>6, <1>7, <1>8

(* An object stands right below its directory.                             *)
LEMMA BelowFront ==
    ASSUME NEW tree, NEW q \in DOMAIN tree, IsPath(q), Len(q) > 1
    PROVE q \in Below(tree, Front(q))
<1>1. Len(Front(q)) = Len(q) - 1 /\ Len(q) \in Nat /\ IsPrefix(Front(q), q)
  BY FrontFacts DEF IsPath
<1> QED BY <1>1 DEF Below

-----------------------------------------------------------------------------
(* What a card command may do to the cards: nothing, store one object in   *)
(* the card in the slot, or delete one.                                    *)

Alike(c) == DOMAIN c = DOMAIN card /\ \A k \in DOMAIN card : c[k] = card[k]
Stores(c, p) ==
    inserted # NoCard /\ \E o : c = [card EXCEPT ![inserted] = Put(Here, p, o)]
Deletes(c, p) ==
    inserted # NoCard /\ c = [card EXCEPT ![inserted] = Drop(Here, {p})]

LEMMA AlikeHere ==
    ASSUME Trees, inserted \in Cards, NEW rc, NEW n, NEW o, o = Outcome(rc, Here, n)
    PROVE Alike(o.card) /\ o.rc = rc
BY DEF Alike, Outcome, Here, Trees

LEMMA MkDirEffect ==
    ASSUME Trees, inserted \in Cards \cup {NoCard}, NEW p, NEW o \in McMkDir(p)
    PROVE \/ o.rc # Ok /\ Alike(o.card)
          \/ o.rc = Ok /\ inserted # NoCard /\ p \notin DOMAIN Here /\ Stores(o.card, p)
<1>1. CASE inserted = NoCard
  BY <1>1 DEF McMkDir, Command, Alike, Failed, Ok
<1>2. CASE inserted # NoCard
  <2>1. \/ p \in DOMAIN Here /\ o = Outcome(Failed, Here, 0)
        \/ p \notin DOMAIN Here /\ o = Outcome(Ok, Put(Here, p, Folder("fresh")), 0)
        \/ o = Outcome(Failed, Here, 1)
    BY <1>2 DEF McMkDir, Command
  <2>2. CASE \E n : o = Outcome(Failed, Here, n)
    BY <1>2, <2>2, AlikeHere DEF Failed, Ok
  <2>3. CASE p \notin DOMAIN Here /\ o = Outcome(Ok, Put(Here, p, Folder("fresh")), 0)
    BY <1>2, <2>3 DEF Outcome, Stores
  <2> QED BY <2>1, <2>2, <2>3
<1> QED BY <1>1, <1>2

LEMMA CreateEffect ==
    ASSUME Trees, inserted \in Cards \cup {NoCard}, NEW p, NEW o \in McCreate(p)
    PROVE \/ o.rc # Ok /\ Alike(o.card)
          \/ o.rc = Ok /\ inserted # NoCard /\ Stores(o.card, p)
<1>1. CASE inserted = NoCard
  BY <1>1 DEF McCreate, Command, Alike, Failed, Ok
<1>2. CASE inserted # NoCard
  <2>1. \/ o = Outcome(Ok, Put(Here, p, Object("empty", "fresh")), 0)
        \/ o = Outcome(Failed, Here, 1)
    BY <1>2 DEF McCreate, Command
  <2>2. CASE \E n : o = Outcome(Failed, Here, n)
    BY <1>2, <2>2, AlikeHere DEF Failed, Ok
  <2>3. CASE o = Outcome(Ok, Put(Here, p, Object("empty", "fresh")), 0)
    BY <1>2, <2>3 DEF Outcome, Stores
  <2> QED BY <2>1, <2>2, <2>3
<1> QED BY <1>1, <1>2

LEMMA WriteEffect ==
    ASSUME Trees, inserted \in Cards \cup {NoCard}, NEW p, NEW d, NEW o \in McWrite(p, d)
    PROVE Alike(o.card) \/ (inserted # NoCard /\ Stores(o.card, p))
<1>1. CASE inserted = NoCard
  BY <1>1 DEF McWrite, Command, Alike
<1>2. CASE inserted # NoCard
  <2> DEFINE stored(x) == Put(Here, p, Object(x, "fresh"))
  <2>1. \/ o = Outcome(Ok, stored(d), 0)
        \/ o = Outcome(Ok, stored("wrong"), 1)
        \/ \E x \in {"empty", "part", d} : o = Outcome(Failed, stored(x), 1)
    BY <1>2 DEF McWrite, Command
  <2>2. \E rc, x, n : o = Outcome(rc, Put(Here, p, x), n)
    BY <2>1
  <2>3. PICK rc, x, n : o = Outcome(rc, Put(Here, p, x), n)
    BY <2>2
  <2> QED BY <1>2, <2>3 DEF Outcome, Stores
<1> QED BY <1>1, <1>2

LEMMA SameEffect ==
    ASSUME Trees, inserted \in Cards \cup {NoCard}, NEW p, NEW d, NEW o \in McSame(p, d)
    PROVE Alike(o.card)
<1>1. CASE inserted = NoCard
  BY <1>1 DEF McSame, Command, Alike
<1>2. CASE inserted # NoCard
  <2>1. \/ o = Outcome(Ok, Here, 0)
        \/ o = Outcome(Failed, Here, 0)
        \/ o = Outcome(Failed, Here, 1)
    BY <1>2 DEF McSame, Command
  <2> QED BY <1>2, <2>1, AlikeHere
<1> QED BY <1>1, <1>2

LEMMA SetInfoEffect ==
    ASSUME Trees, inserted \in Cards \cup {NoCard}, NEW p, NEW o \in McSetInfo(p)
    PROVE Alike(o.card) \/ (inserted # NoCard /\ Stores(o.card, p))
<1>1. CASE inserted = NoCard
  BY <1>1 DEF McSetInfo, Command, Alike
<1>2. CASE inserted # NoCard
  <2> DEFINE x == Object(Here[p].data, "source")
  <2>1. \/ o = Outcome(Ok, Put(Here, p, x), 0)
        \/ o = Outcome(Failed, Here, 1)
    BY <1>2 DEF McSetInfo, Command
  <2>2. CASE o = Outcome(Ok, Put(Here, p, x), 0)
    BY <1>2, <2>2 DEF Outcome, Stores
  <2>3. CASE o = Outcome(Failed, Here, 1)
    BY <1>2, <2>3, AlikeHere
  <2> QED BY <2>1, <2>2, <2>3
<1> QED BY <1>1, <1>2

LEMMA DeleteEffect ==
    ASSUME Trees, inserted \in Cards \cup {NoCard}, NEW p, NEW o \in McDelete(p)
    PROVE \/ o.rc # Ok /\ Alike(o.card)
          \/ o.rc = Ok /\ inserted # NoCard /\ p \notin DOMAIN Here /\ Alike(o.card)
          \/ o.rc = Ok /\ inserted # NoCard /\ Below(Here, p) = {} /\ Deletes(o.card, p)
<1>1. CASE inserted = NoCard
  BY <1>1 DEF McDelete, Command, Alike, Failed, Ok
<1>2. CASE inserted # NoCard
  <2>1. \/ p \notin DOMAIN Here /\ o = Outcome(Ok, Here, 0)
        \/ \E n : o = Outcome(Failed, Here, n)
        \/ Below(Here, p) = {} /\ o = Outcome(Ok, Drop(Here, {p}), 0)
    BY <1>2 DEF McDelete, Command
  <2>2. CASE \E n : o = Outcome(Failed, Here, n)
    BY <1>2, <2>2, AlikeHere DEF Failed, Ok
  <2>3. CASE p \notin DOMAIN Here /\ o = Outcome(Ok, Here, 0)
    BY <1>2, <2>3, AlikeHere
  <2>4. CASE Below(Here, p) = {} /\ o = Outcome(Ok, Drop(Here, {p}), 0)
    BY <1>2, <2>4 DEF Outcome, Deletes
  <2> QED BY <2>1, <2>2, <2>3, <2>4
<1> QED BY <1>1, <1>2

(* Every effect leaves trees, and of the other objects nothing changes.    *)
Spares(P) ==
    \A c \in Cards : \A q \in DOMAIN card[c] :
        (c # inserted \/ q \notin P) => q \in DOMAIN card'[c] /\ card'[c][q] = card[c][q]

LEMMA AlikeKeeps ==
    ASSUME Trees, Alike(card')
    PROVE Trees' /\ Spares({}) /\ \A c \in Cards : card'[c] = card[c]
BY DEF Trees, Alike, Spares, IsTree, IsFcn, Rooted

LEMMA StoreKeeps ==
    ASSUME Trees, inserted \in Cards, inserted' = inserted, NEW p, Stores(card', p), IsPath(p),
           Len(p) > 1 => Front(p) \in DOMAIN Here
    PROVE /\ Trees' /\ Spares({p})
          /\ DOMAIN Here' = DOMAIN Here \cup {p}
          /\ \A q \in DOMAIN Here \ {p} : Here'[q] = Here[q]
<1>1. PICK o : card' = [card EXCEPT ![inserted] = Put(Here, p, o)]
  BY DEF Stores
<1> DEFINE tree == Put(Here, p, o)
<1>2. /\ DOMAIN tree = DOMAIN Here \cup {p} /\ IsFcn(tree)
      /\ \A q \in DOMAIN Here \ {p} : tree[q] = Here[q]
  BY DEF Put, IsFcn
<1>3. Rooted(tree)
  BY <1>2 DEF Trees, IsTree, Rooted, Here
<1> HIDE DEF tree
<1>4. /\ DOMAIN card' = Cards /\ card'[inserted] = tree
      /\ \A c \in Cards \ {inserted} : card'[c] = card[c]
  BY <1>1 DEF Trees, tree
<1>5. Trees'
  BY <1>2, <1>3, <1>4 DEF Trees, IsTree, IsFcn, Rooted
<1> QED BY <1>2, <1>4, <1>5 DEF Spares, Here

LEMMA DeleteKeeps ==
    ASSUME Trees, inserted \in Cards, inserted' = inserted, NEW p, Deletes(card', p),
           Below(Here, p) = {}
    PROVE /\ Trees' /\ Spares({p})
          /\ DOMAIN Here' = DOMAIN Here \ {p}
          /\ \A q \in DOMAIN Here \ {p} : Here'[q] = Here[q]
<1> DEFINE tree == Drop(Here, {p})
<1>1. /\ DOMAIN tree = DOMAIN Here \ {p} /\ IsFcn(tree)
      /\ \A q \in DOMAIN Here \ {p} : tree[q] = Here[q]
  BY DEF Drop, IsFcn
<1>2. Rooted(tree)
  <2> SUFFICES ASSUME NEW q \in DOMAIN tree
               PROVE IsPath(q) /\ (Len(q) > 1 => Front(q) \in DOMAIN tree)
    BY DEF Rooted
  <2>1. q \in DOMAIN Here /\ IsPath(q) /\ (Len(q) > 1 => Front(q) \in DOMAIN Here)
    BY <1>1 DEF Trees, IsTree, Rooted, Here
  <2>2. Len(q) > 1 => Front(q) # p
    BY <2>1, BelowFront
  <2> QED BY <1>1, <2>1, <2>2
<1> HIDE DEF tree
<1>3. /\ DOMAIN card' = Cards /\ card'[inserted] = tree
      /\ \A c \in Cards \ {inserted} : card'[c] = card[c]
  BY DEF Trees, Deletes, tree
<1>4. Trees'
  BY <1>1, <1>2, <1>3 DEF Trees, IsTree, IsFcn, Rooted
<1> QED BY <1>1, <1>3, <1>4 DEF Spares, Here

-----------------------------------------------------------------------------
(* A step of an import: what is stored is new or was created by the job.   *)

SavesStep ==
    \A c \in Cards : \A p \in DOMAIN card[c] :
        (p \notin DOMAIN card'[c] \/ card'[c][p] # card[c][p]) => p \in Created

LEMMA SparesSaves ==
    ASSUME NEW P, Spares(P), P \cap DOMAIN Here \subseteq Created
    PROVE SavesStep
BY DEF Spares, SavesStep, Here

LEMMA HereTree ==
    ASSUME Trees, inserted \in Cards
    PROVE IsTree(Here)
BY DEF Trees, Here

LEMMA AlikeGrows ==
    ASSUME ImportIInv, InJob, Alike(card'), Importing', inserted' = inserted,
           job'.before = job.before, job'.created = job.created, job'.rb = job.rb,
           job'.full = job.full
    PROVE /\ Trees' /\ Grown' /\ SavesStep
          /\ inserted # NoCard => DOMAIN Here' = DOMAIN Here
<1>1. Trees' /\ Spares({}) /\ \A c \in Cards : card'[c] = card[c]
  BY AlikeKeeps DEF ImportIInv
<1>2. SavesStep
  BY <1>1, SparesSaves
<1>3. inserted # NoCard => Here' = Here
  BY <1>1 DEF Here, ImportIInv
<1>4. Created' = Created /\ \A p : inserted # NoCard /\ Stray(p) => Stray(p)'
  BY <1>3 DEF Created, Stray
<1>5. Grown'
  BY <1>3, <1>4 DEF ImportIInv, Grown
<1> QED BY <1>1, <1>2, <1>3, <1>5

LEMMA HasDirectory ==
    ASSUME NEW p, Len(p) = 1 \/ Front(p) \in Created, Created \subseteq DOMAIN Here
    PROVE Len(p) > 1 => Front(p) \in DOMAIN Here
<1>1. CASE Len(p) = 1
  BY <1>1
<1>2. CASE Front(p) \in Created
  BY <1>2
<1> QED BY <1>1, <1>2

LEMMA StoreGrows ==
    ASSUME ImportIInv, Importing, job.pc \in Active, Importing', inserted' = inserted,
           job'.before = job.before, Created \subseteq Created',
           NEW p, inserted # NoCard, Stores(card', p), IsPath(p),
           Len(p) > 1 => Front(p) \in DOMAIN Here,
           p \notin DOMAIN job.before, p \in DOMAIN Here => p \in Created,
           p \in Created' \/ (job'.full /\ (Len(p) = 1 \/ Front(p) \in Created))
    PROVE /\ Trees' /\ Grown' /\ SavesStep
          /\ DOMAIN Here' = DOMAIN Here \cup {p}
<1>1. inserted \in Cards /\ Trees /\ Placed /\ Grown
  BY DEF ImportIInv
<1>2. /\ Trees' /\ Spares({p}) /\ DOMAIN Here' = DOMAIN Here \cup {p}
      /\ \A q \in DOMAIN Here \ {p} : Here'[q] = Here[q]
  BY <1>1, StoreKeeps
<1>3. SavesStep
  BY <1>2, SparesSaves
<1>4. /\ DOMAIN job.before \subseteq DOMAIN Here
      /\ \A q \in DOMAIN job.before : Here[q] = job.before[q]
      /\ DOMAIN Here \subseteq DOMAIN job.before \cup Created
      /\ Created \subseteq DOMAIN Here
  BY <1>1 DEF Grown, Placed, InJob
<1>5. Len(p) > 1 \/ Len(p) = 1
  BY PathFacts, Zenon
<1>6. ASSUME NEW q \in DOMAIN Here', q \notin DOMAIN job.before, q \notin Created'
      PROVE job'.full /\ Stray(q)'
  <2>1. q = p
    BY <1>2, <1>4, <1>6
  <2>2. job'.full /\ (Len(p) = 1 \/ Front(p) \in Created)
    BY <1>6, <2>1
  <2>3. Len(p) = 1 \/ (Front(p) \in Created' /\ Front(p) \in DOMAIN Here')
    BY <1>2, <1>5, <2>2
  <2> QED BY <2>1, <2>2, <2>3 DEF Stray
<1>7. \A q \in DOMAIN job.before : Here'[q] = job.before[q]
  BY <1>2, <1>4
<1> QED BY <1>2, <1>3, <1>4, <1>6, <1>7 DEF Grown

(* The entry of a directory that the job has made was not there before.    *)
LEMMA EntryIsNew ==
    ASSUME ImportIInv, Importing, job.pc \in Active, NEW p, IsPath(p), Len(p) > 1,
           Front(p) \in Created
    PROVE /\ p \notin DOMAIN job.before
          /\ inserted # NoCard => /\ Front(p) \in DOMAIN Here
                                  /\ p \in DOMAIN Here => p \in Created
<1>1. p \notin DOMAIN job.before
  BY DEF ImportIInv, Listed, InJob, IsTree, Rooted
<1>2. inserted # NoCard => Front(p) \in DOMAIN Here /\ (p \in DOMAIN Here => p \in Created)
  BY <1>1 DEF ImportIInv, Placed, Grown, InJob
<1> QED BY <1>1, <1>2

(* The rest of the invariant of a job that is not over.                    *)
LEMMA JobGoesOn ==
    ASSUME ImportIInv, Importing, op' = op, inserted' = inserted, psu' = psu, JobShape',
           job'.res = "none", job'.pc \in Active \cup {"rollback"},
           Trees', Listed', Placed', Grown'
    PROVE ImportIInv'
<1>1. FlatFiles' /\ FlatCopy'
  BY DEF ImportIInv, FlatFiles, FlatCopy, Importing
<1>2. Unfinished' /\ Unused' /\ RolledBackMeansAsBefore'
  BY DEF Unfinished, Unused, Active, Waiting, RolledBackMeansAsBefore
<1> QED BY <1>1, <1>2 DEF ImportIInv

(* A step that failed: the objects created so far are deleted next.        *)
LEMMA JobFails ==
    ASSUME ImportIInv, Importing, job.pc \in Active, op' = op, job' = Fails(job)
    PROVE /\ Importing' /\ JobShape' /\ job'.res = "none" /\ Listed' /\ Placed'
          /\ job'.before = job.before /\ job'.created = job.created
          /\ job'.rb = job.rb /\ job'.full = job.full /\ InJob /\ job'.pc = "rollback"
<1>1. /\ JobShape' /\ job'.pc = "rollback" /\ job'.res = job.res /\ job'.before = job.before
      /\ job'.created = job.created /\ job'.rb = job.rb /\ job'.full = job.full
  BY DEF Fails, ImportIInv, JobShape, JobFields, IsFcn
<1>2. job'.res = "none" /\ InJob /\ Importing'
  BY <1>1 DEF ImportIInv, Unfinished, Importing, InJob, Active
<1>3. Listed' /\ Placed'
  BY <1>1, <1>2 DEF ImportIInv, Listed, Placed, Created, Active
<1> QED BY <1>1, <1>2, <1>3

(* A command that touches, at most, an object the job has created.         *)
Touches == Alike(card') \/ \E p \in Created : inserted # NoCard /\ Stores(card', p)

LEMMA TouchGrows ==
    ASSUME ImportIInv, Importing, job.pc \in Active, Importing', inserted' = inserted,
           job'.before = job.before, job'.created = job.created, job'.rb = job.rb,
           job'.full = job.full, Touches
    PROVE /\ Trees' /\ Grown' /\ SavesStep
          /\ inserted # NoCard => DOMAIN Here' = DOMAIN Here
<1>1. InJob
  BY DEF InJob
<1>2. CASE Alike(card')
  BY <1>1, <1>2, AlikeGrows
<1>3. ASSUME NEW p \in Created, inserted # NoCard, Stores(card', p)
      PROVE Trees' /\ Grown' /\ SavesStep /\ DOMAIN Here' = DOMAIN Here
  <2>1. p \in DOMAIN Here /\ Created' = Created
    BY <1>3 DEF ImportIInv, Placed, Created
  <2>2. IsPath(p) /\ p \notin DOMAIN job.before
    BY <1>1, <2>1 DEF ImportIInv, Listed
  <2>3. Len(p) > 1 => Front(p) \in DOMAIN Here
    BY <1>3, <2>1, HereTree DEF ImportIInv, IsTree, Rooted
  <2>4. Trees' /\ Grown' /\ SavesStep /\ DOMAIN Here' = DOMAIN Here \cup {p}
    BY <1>3, <2>1, <2>2, <2>3, StoreGrows
  <2> QED BY <2>1, <2>4
<1> QED BY <1>2, <1>3 DEF Touches

LEMMA CommandFails ==
    ASSUME ImportIInv, Importing, job.pc \in Active, op' = op, inserted' = inserted, psu' = psu,
           job' = Fails(job), Touches
    PROVE ImportIInv' /\ SavesStep
<1>1. /\ Importing' /\ JobShape' /\ job'.res = "none" /\ Listed' /\ Placed'
      /\ job'.before = job.before /\ job'.created = job.created
      /\ job'.rb = job.rb /\ job'.full = job.full /\ job'.pc = "rollback"
  BY JobFails
<1>2. Trees' /\ Grown' /\ SavesStep
  BY <1>1, TouchGrows
<1> QED BY <1>1, <1>2, JobGoesOn

(* A step that goes on with what it has created so far.                    *)
LEMMA CommandDone ==
    ASSUME ImportIInv, Importing, job.pc \in Active, op' = op, inserted' = inserted, psu' = psu,
           JobShape', job'.pc \in Active, Touches,
           \A f \in {"before", "created", "rb", "full", "res", "file"} : job'[f] = job[f],
           job'.pc # "walk" => job.pc # "walk" /\ job'.path = job.path,
           op = "image" => /\ job'.stack \in Seq([dir : Created, next : Nat])
                           /\ job'.pc # "walk" => job'.stack # <<>>
    PROVE ImportIInv' /\ SavesStep
<1>1. /\ Importing' /\ job'.res = "none" /\ job'.before = job.before
      /\ job'.created = job.created /\ job'.rb = job.rb /\ job'.full = job.full
      /\ InJob /\ Created' = Created /\ Source' = Source
  BY DEF ImportIInv, Unfinished, Importing, InJob, Active, Created, Source
<1>2. /\ Trees' /\ Grown' /\ SavesStep
      /\ inserted # NoCard => DOMAIN Here' = DOMAIN Here
  BY <1>1, TouchGrows
<1>3. Listed'
  BY <1>1 DEF ImportIInv, Listed
<1>4. Placed'
  BY <1>1, <1>2 DEF ImportIInv, Placed
<1> QED BY <1>1, <1>2, <1>3, <1>4, JobGoesOn

-----------------------------------------------------------------------------
(* The image import, step by step.                                         *)

LEMMA TypedStack ==
    ASSUME NEW S, NEW T, S \subseteq T, NEW st \in Seq([dir : S, next : Nat]), NEW p \in T
    PROVE Append(st, [dir |-> p, next |-> 1]) \in Seq([dir : T, next : Nat])
<1> DEFINE R == [dir : T, next : Nat]
<1>1. st \in Seq(R)
  BY SeqMonotonic
<1>2. [dir |-> p, next |-> 1] \in R
  OBVIOUS
<1> HIDE DEF R
<1> QED BY <1>1, <1>2, AppendProperties DEF R

(* RecordCreated() after an object was stored.                             *)
LEMMA RecordKeeps ==
    ASSUME ImportIInv, At("image", "walk"), Stays, psu' = psu,
           NEW p, IsPath(p), inserted # NoCard, Stores(card', p),
           p \notin DOMAIN job.before, p \in DOMAIN Here => p \in Created,
           Len(p) = 1 \/ Front(p) \in Created,
           NEW j, job' = Record(j, p), DOMAIN j = JobFields, IsFcn(j),
           \A f \in {"before", "created", "rb", "full", "res"} : j[f] = job[f],
           j.pc \in Active, j.pc # "walk" => j.path = p /\ j.stack # <<>>,
           j.stack \in Seq([dir : Created \cup {p}, next : Nat])
    PROVE ImportIInv' /\ SavesStep
<1>1. /\ Importing /\ Importing' /\ job.pc \in Active /\ InJob /\ op' = op
      /\ inserted' = inserted /\ op = "image" /\ job.res = "none"
      /\ job.rb = Ok /\ ~job.full /\ Created \subseteq DOMAIN Here
  BY DEF At, Stays, Importing, InJob, Active, ImportIInv, Unfinished, Placed
<1>2. Len(p) > 1 => Front(p) \in DOMAIN Here
  BY <1>1, HasDirectory
<1>3. job.created \in Seq(Created) /\ \A q \in Created : IsPath(q)
  BY <1>1 DEF ImportIInv, Listed
<1>4. CASE Len(j.created) = CreatedMax
  <2>1. job' = [Fails(j) EXCEPT !.full = TRUE]
    BY <1>4 DEF Record
  <2>2. /\ JobShape' /\ job'.pc = "rollback" /\ job'.full = TRUE
        /\ job'.before = job.before /\ job'.created = job.created /\ job'.res = job.res
        /\ job'.rb = job.rb
    BY <2>1 DEF Fails, JobShape, JobFields, IsFcn
  <2>3. Created' = Created
    BY <2>2 DEF Created
  <2>4. Listed' /\ Placed'
    BY <1>1, <1>3, <2>2, <2>3 DEF ImportIInv, Listed, Placed, Active
  <2>5. Trees' /\ Grown' /\ SavesStep
    BY <1>1, <1>2, <2>2, <2>3, StoreGrows
  <2> QED BY <1>1, <2>2, <2>4, <2>5, JobGoesOn
<1>5. CASE Len(j.created) # CreatedMax
  <2>1. job' = [j EXCEPT !.created = Append(@, p)]
    BY <1>5 DEF Record
  <2>2. /\ JobShape' /\ job'.pc = j.pc /\ job'.full = job.full /\ job'.path = j.path
        /\ job'.before = job.before /\ job'.created = Append(job.created, p)
        /\ job'.res = job.res /\ job'.rb = job.rb /\ job'.stack = j.stack
    BY <2>1 DEF JobShape, JobFields, IsFcn
  <2>3. job'.created \in Seq(Created') /\ Created' = Created \cup {p}
    <3>1. /\ Append(job.created, p) \in Seq(ToSet(Append(job.created, p)))
          /\ ToSet(Append(job.created, p)) = Created \cup {p}
      BY <1>3, ListFacts DEF Created
    <3> QED BY <2>2, <3>1 DEF Created
  <2>4. Trees' /\ Grown' /\ SavesStep /\ DOMAIN Here' = DOMAIN Here \cup {p}
    BY <1>1, <1>2, <2>2, <2>3, StoreGrows
  <2>5. Listed'
    BY <1>1, <1>3, <2>2, <2>3 DEF ImportIInv, Listed
  <2>6. Placed'
    BY <1>1, <2>2, <2>3, <2>4 DEF Placed
  <2> QED BY <1>1, <2>2, <2>4, <2>5, <2>6, JobGoesOn
<1> QED BY <1>4, <1>5

LEMMA LastTyped ==
    ASSUME NEW S, NEW st \in Seq(S), st # <<>>
    PROVE /\ Last(st) \in S /\ Front(st) \in Seq(S) /\ Len(st) \in Nat \ {0}
          /\ Len(Front(st)) = Len(st) - 1
<1>1. Len(st) \in Nat \ {0} /\ DOMAIN st = 1..Len(st)
  BY EmptySeq, LenProperties
<1>2. \A i \in 1..Len(st) : st[i] \in S
  BY ElementOfSeq
<1>3. ToSet(st) \subseteq S /\ st \in Seq(ToSet(st))
  <2>1. ToSet(st) \subseteq S
    BY <1>1, <1>2 DEF ToSet
  <2>2. st = [i \in 1..Len(st) |-> st[i]]
    BY <1>1
  <2>3. \A i \in 1..Len(st) : st[i] \in ToSet(st)
    BY <1>1 DEF ToSet
  <2>4. st \in [1..Len(st) -> ToSet(st)]
    BY <2>2, <2>3
  <2> QED BY <1>1, <2>1, <2>4
<1>4. /\ Last(st) \in ToSet(st) /\ Front(st) \in Seq(ToSet(Front(st)))
      /\ Len(Front(st)) = Len(st) - 1 /\ ToSet(Front(st)) \subseteq ToSet(st)
  BY <1>3, FrontFacts
<1>5. Front(st) \in Seq(S)
  BY <1>3, <1>4, SeqMonotonic
<1> QED BY <1>1, <1>3, <1>4, <1>5

(* The directory being walked was made by the job, and what is made in it  *)
(* is a path below it.                                                     *)
LEMMA FrameCreated ==
    ASSUME ImportIInv, op = "image", job.pc \in Active, job.stack # <<>>
    PROVE /\ job.stack \in Seq([dir : Created, next : Nat])
          /\ Frame \in [dir : Created, next : Nat] /\ Frame.dir \in Created /\ IsPath(Frame.dir)
          /\ IsPath(NextEntry) /\ Front(NextEntry) = Frame.dir /\ Len(NextEntry) > 1
<1>1. /\ job.stack \in Seq([dir : Created, next : Nat])
      /\ \A q \in Created : IsPath(q)
  BY DEF ImportIInv, Placed, Listed, InJob, Importing
<1>2. Frame \in [dir : Created, next : Nat]
  <2> DEFINE R == [dir : Created, next : Nat]
  <2>1. job.stack \in Seq(R) BY <1>1
  <2> HIDE DEF R
  <2>2. Last(job.stack) \in R BY <2>1, LastTyped
  <2> QED BY <2>2 DEF Frame, R
<1>3. Frame.dir \in Created /\ IsPath(Frame.dir)
  BY <1>1, <1>2
<1>4. IsPath(NextEntry) /\ Front(NextEntry) = Frame.dir /\ Len(NextEntry) > 1
  BY <1>3, ChildPath DEF NextEntry
<1> QED BY <1>1, <1>2, <1>3, <1>4

LEMMA MakeDirectoryKeeps ==
    ASSUME ImportIInv, At("image", "walk"), NEW p, IsPath(p),
           Len(p) = 1 \/ Front(p) \in Created, MakeDirectory(p), psu' = psu
    PROVE ImportIInv' /\ SavesStep
<1>1. /\ Importing /\ job.pc = "walk" /\ job.pc \in Active /\ op = "image"
      /\ inserted \in Cards \cup {NoCard} /\ Trees /\ InJob
      /\ Stays /\ op' = op /\ inserted' = inserted
  BY DEF At, MakeDirectory, Stays, Importing, Active, InJob, ImportIInv
<1>2. PICK o \in McMkDir(p) :
         /\ card' = o.card /\ faults' = o.faults
         /\ job' = IF o.rc # Ok THEN Fails(job) ELSE Record(Entered(job, p), p)
  BY DEF MakeDirectory, Runs
<1>3. CASE o.rc # Ok /\ Alike(o.card)
  <2>1. job' = Fails(job) /\ Alike(card')
    BY <1>2, <1>3
  <2> QED BY <1>1, <2>1, CommandFails DEF Touches
<1>4. CASE o.rc = Ok /\ inserted # NoCard /\ p \notin DOMAIN Here /\ Stores(o.card, p)
  <2> DEFINE j == Entered(job, p)
  <2>1. job' = Record(j, p) /\ Stores(card', p)
    BY <1>2, <1>4
  <2>2. p \notin DOMAIN job.before
    BY <1>1, <1>4 DEF ImportIInv, Grown
  <2>3. /\ DOMAIN j = JobFields /\ IsFcn(j) /\ j.pc = "walk"
        /\ \A f \in {"before", "created", "rb", "full", "res"} : j[f] = job[f]
        /\ j.stack = Append(job.stack, [dir |-> p, next |-> 1])
    BY <1>1 DEF ImportIInv, JobShape, JobFields, IsFcn, Entered
  <2>4. job.stack \in Seq([dir : Created, next : Nat])
    BY <1>1 DEF ImportIInv, Placed
  <2> HIDE DEF j
  <2>5. j.stack \in Seq([dir : Created \cup {p}, next : Nat])
    <3> DEFINE T == Created \cup {p}
    <3>1. Created \subseteq T /\ p \in T OBVIOUS
    <3> HIDE DEF T
    <3>2. Append(job.stack, [dir |-> p, next |-> 1]) \in Seq([dir : T, next : Nat])
      BY <2>4, <3>1, TypedStack
    <3> QED BY <2>3, <3>2 DEF T
  <2>6. j.pc \in Active /\ (j.pc # "walk" => j.path = p /\ j.stack # <<>>)
    BY <2>3 DEF Active
  <2> QED BY <1>1, <1>4, <2>1, <2>2, <2>3, <2>5, <2>6, RecordKeeps
<1> QED BY <1>1, <1>3, <1>4, MkDirEffect

LEMMA EnterSaveKeeps ==
    ASSUME ImportIInv, EnterSave, psu' = psu
    PROVE ImportIInv' /\ SavesStep
<1>1. IsPath(<<Head(job.todo)>>) /\ Len(<<Head(job.todo)>>) = 1
  BY RootPath
<1> QED BY <1>1, MakeDirectoryKeeps DEF EnterSave

LEMMA EnterDirectoryKeeps ==
    ASSUME ImportIInv, EnterDirectory, psu' = psu
    PROVE ImportIInv' /\ SavesStep
<1>1. At("image", "walk") /\ job.stack # <<>> /\ MakeDirectory(NextEntry)
  BY DEF EnterDirectory, InDirectory
<1>2. op = "image" /\ job.pc \in Active
  BY <1>1 DEF At, Active
<1>3. IsPath(NextEntry) /\ Front(NextEntry) \in Created
  BY <1>1, <1>2, FrameCreated
<1> QED BY <1>1, <1>3, MakeDirectoryKeeps

LEMMA CreateFileKeeps ==
    ASSUME ImportIInv, CreateFile, psu' = psu
    PROVE ImportIInv' /\ SavesStep
<1> DEFINE p == NextEntry
<1>1. /\ Importing /\ job.pc = "walk" /\ job.pc \in Active /\ op = "image"
      /\ inserted \in Cards \cup {NoCard} /\ Trees /\ InJob /\ At("image", "walk")
      /\ Stays /\ op' = op /\ inserted' = inserted /\ job.stack # <<>>
  BY DEF At, CreateFile, InDirectory, Stays, Importing, Active, InJob, ImportIInv
<1>2. PICK o \in McCreate(p) :
         /\ card' = o.card /\ faults' = o.faults
         /\ job' = IF o.rc # Ok THEN Fails(job)
                   ELSE Record([job EXCEPT !.pc = "write", !.path = p], p)
  BY DEF CreateFile, Runs
<1>3. /\ IsPath(p) /\ Len(p) > 1 /\ Front(p) \in Created
      /\ job.stack \in Seq([dir : Created, next : Nat])
  BY <1>1, FrameCreated
<1> HIDE DEF p
<1>4. CASE o.rc # Ok /\ Alike(o.card)
  <2>1. job' = Fails(job) /\ Alike(card')
    BY <1>2, <1>4
  <2> QED BY <1>1, <2>1, CommandFails DEF Touches
<1>5. CASE o.rc = Ok /\ inserted # NoCard /\ Stores(o.card, p)
  <2> DEFINE j == [job EXCEPT !.pc = "write", !.path = p]
  <2>1. job' = Record(j, p) /\ Stores(card', p)
    BY <1>2, <1>5
  <2>2. p \notin DOMAIN job.before /\ (p \in DOMAIN Here => p \in Created)
    BY <1>1, <1>3, <1>5, EntryIsNew
  <2>3. /\ DOMAIN j = JobFields /\ IsFcn(j) /\ j.pc = "write" /\ j.path = p
        /\ \A f \in {"before", "created", "rb", "full", "res"} : j[f] = job[f]
        /\ j.stack = job.stack
    BY <1>1 DEF ImportIInv, JobShape, JobFields, IsFcn
  <2> HIDE DEF j
  <2>4. j.stack \in Seq([dir : Created \cup {p}, next : Nat])
    <3>1. [dir : Created, next : Nat] \subseteq [dir : Created \cup {p}, next : Nat]
      OBVIOUS
    <3> QED BY <1>3, <2>3, <3>1, SeqMonotonic
  <2>5. j.pc \in Active /\ (j.pc # "walk" => j.path = p /\ j.stack # <<>>)
    BY <1>1, <2>3 DEF Active
  <2> QED BY <1>1, <1>3, <1>5, <2>1, <2>2, <2>3, <2>4, <2>5, RecordKeeps
<1> QED BY <1>1, <1>4, <1>5, CreateEffect

(* What a command of the file being copied, or of the directory left, does *)
LEMMA WriteTouches ==
    ASSUME Trees, inserted \in Cards \cup {NoCard}, NEW p \in Created, NEW d,
           NEW o \in McWrite(p, d), card' = o.card
    PROVE Touches
BY WriteEffect DEF Touches

LEMMA SameTouches ==
    ASSUME Trees, inserted \in Cards \cup {NoCard}, NEW p, NEW d,
           NEW o \in McSame(p, d), card' = o.card
    PROVE Touches
BY SameEffect DEF Touches

LEMMA SetInfoTouches ==
    ASSUME Trees, inserted \in Cards \cup {NoCard}, NEW p \in Created,
           NEW o \in McSetInfo(p), card' = o.card
    PROVE Touches
BY SetInfoEffect DEF Touches

(* A step of a job between two places of the copy of one file.             *)
LEMMA Onward ==
    ASSUME ImportIInv, Importing, job.pc \in Active \ {"walk"}, op' = op,
           inserted' = inserted, psu' = psu, Touches, NEW pc \in Active,
           job' = [job EXCEPT !.pc = pc]
    PROVE ImportIInv' /\ SavesStep
<1>1. /\ JobShape' /\ job'.pc = pc /\ job'.path = job.path /\ job'.stack = job.stack
      /\ \A f \in {"before", "created", "rb", "full", "res", "file"} : job'[f] = job[f]
  BY DEF ImportIInv, JobShape, JobFields, IsFcn
<1>2. op = "image" => job.stack \in Seq([dir : Created, next : Nat]) /\ job.stack # <<>>
  BY DEF ImportIInv, Placed
<1> QED BY <1>1, <1>2, CommandDone

LEMMA WriteFileKeeps ==
    ASSUME ImportIInv, WriteFile, psu' = psu
    PROVE ImportIInv' /\ SavesStep
<1>1. /\ Importing /\ job.pc = "write" /\ job.pc \in Active \ {"walk"}
      /\ inserted \in Cards \cup {NoCard} /\ Trees /\ job.path \in Created
      /\ op' = op /\ inserted' = inserted
  BY DEF At, WriteFile, Stays, Importing, Active, ImportIInv, Placed
<1>2. PICK o \in McWrite(job.path, ImageData[job.path]) :
         /\ card' = o.card
         /\ job' = IF o.rc = Ok THEN [job EXCEPT !.pc = "verify"] ELSE Fails(job)
  BY DEF WriteFile, Runs
<1>3. Touches
  BY <1>1, <1>2, WriteTouches
<1>4. "verify" \in Active BY DEF Active
<1> QED BY <1>1, <1>2, <1>3, <1>4, Onward, CommandFails

LEMMA VerifyImportedFileKeeps ==
    ASSUME ImportIInv, VerifyImportedFile, psu' = psu
    PROVE ImportIInv' /\ SavesStep
<1>1. /\ Importing /\ job.pc = "verify" /\ job.pc \in Active \ {"walk"}
      /\ inserted \in Cards \cup {NoCard} /\ Trees
      /\ op' = op /\ inserted' = inserted
  BY DEF At, VerifyImportedFile, Stays, Importing, Active, ImportIInv, Placed
<1>2. PICK o \in McSame(job.path, ImageData[job.path]) :
         /\ card' = o.card
         /\ job' = IF o.rc = Ok THEN [job EXCEPT !.pc = "stamp"] ELSE Fails(job)
  BY DEF VerifyImportedFile, Runs
<1>3. Touches
  BY <1>1, <1>2, SameTouches
<1>4. "stamp" \in Active BY DEF Active
<1> QED BY <1>1, <1>2, <1>3, <1>4, Onward, CommandFails

(* The next entry of the directory on top of the walk.                     *)
LEMMA AdvanceTyped ==
    ASSUME NEW S, NEW st \in Seq([dir : S, next : Nat]), st # <<>>
    PROVE Advance(st) \in Seq([dir : S, next : Nat]) /\ Advance(st) # <<>>
<1> DEFINE R == [dir : S, next : Nat]
           n == Len(st)
           x == [st[n] EXCEPT !.next = @ + 1]
           u == [st EXCEPT ![n] = x]
<1>1. n \in Nat \ {0} /\ n \in 1..n /\ st \in Seq(R)
  BY EmptySeq, LenProperties
<1>2. st[n] \in R
  <2> HIDE DEF R, n
  <2> QED BY <1>1, ElementOfSeq DEF n
<1>3. x \in R
  BY <1>2
<1> HIDE DEF R, x
<1>4. u \in Seq(R) /\ Len(u) = n
  BY <1>1, <1>3, ExceptSeq
<1>5. Advance(st) = u
  BY DEF Advance, x
<1> HIDE DEF u, n
<1>6. u # <<>>
  BY <1>1, <1>4, EmptySeq
<1> QED BY <1>4, <1>5, <1>6 DEF R

LEMMA StampFileKeeps ==
    ASSUME ImportIInv, StampFile, psu' = psu
    PROVE ImportIInv' /\ SavesStep
<1>1. /\ Importing /\ op = "image" /\ job.pc = "stamp" /\ job.pc \in Active /\ "walk" \in Active
      /\ inserted \in Cards \cup {NoCard} /\ Trees /\ job.path \in Created
      /\ job.stack \in Seq([dir : Created, next : Nat]) /\ job.stack # <<>>
      /\ op' = op /\ inserted' = inserted
  BY DEF At, StampFile, Stays, Importing, Active, ImportIInv, Placed
<1>2. PICK o \in McSetInfo(job.path) :
         /\ card' = o.card
         /\ job' = IF o.rc = Ok THEN [job EXCEPT !.pc = "walk", !.stack = Advance(@)]
                   ELSE Fails(job)
  BY DEF StampFile, Runs
<1>3. Touches
  BY <1>1, <1>2, SetInfoTouches
<1>4. CASE job' = [job EXCEPT !.pc = "walk", !.stack = Advance(@)]
  <2>1. /\ JobShape' /\ job'.pc = "walk" /\ job'.stack = Advance(job.stack)
        /\ \A f \in {"before", "created", "rb", "full", "res", "file"} : job'[f] = job[f]
    BY <1>4 DEF ImportIInv, JobShape, JobFields, IsFcn
  <2>2. job'.stack \in Seq([dir : Created, next : Nat])
    BY <1>1, <2>1, AdvanceTyped
  <2> QED BY <1>1, <1>3, <2>1, <2>2, CommandDone
<1> QED BY <1>1, <1>2, <1>3, <1>4, CommandFails

LEMMA LeftKeeps ==
    ASSUME ImportIInv, InDirectory, job' = Left(job)
    PROVE /\ JobShape' /\ job'.pc = "walk"
          /\ job'.stack \in Seq([dir : Created, next : Nat])
          /\ \A f \in {"before", "created", "rb", "full", "res", "file"} : job'[f] = job[f]
<1> DEFINE up == Front(job.stack)
           R == [dir : Created, next : Nat]
<1>1. job.pc = "walk" /\ job.stack \in Seq(R) /\ job.stack # <<>>
  BY DEF InDirectory, At, ImportIInv, Placed, Importing, Active
<1>2. up \in Seq(R)
  <2> HIDE DEF R
  <2> QED BY <1>1, LastTyped
<1>3. CASE up = <<>>
  <2> HIDE DEF R
  <2>1. job' = [job EXCEPT !.stack = up, !.todo = Tail(@)]
    BY <1>3 DEF Left
  <2> HIDE DEF up
  <2>2. /\ JobShape' /\ job'.pc = "walk" /\ job'.stack = up
        /\ \A f \in {"before", "created", "rb", "full", "res", "file"} : job'[f] = job[f]
    BY <1>1, <2>1 DEF ImportIInv, JobShape, JobFields, IsFcn
  <2> QED BY <1>2, <2>2 DEF R
<1>4. CASE up # <<>>
  <2>1. Advance(up) \in Seq(R)
    <3> HIDE DEF up
    <3> QED BY <1>2, <1>4, AdvanceTyped
  <2> HIDE DEF R
  <2>2. job' = [job EXCEPT !.stack = Advance(up)]
    BY <1>4 DEF Left
  <2> HIDE DEF up
  <2>3. /\ JobShape' /\ job'.pc = "walk" /\ job'.stack = Advance(up)
        /\ \A f \in {"before", "created", "rb", "full", "res", "file"} : job'[f] = job[f]
    BY <1>1, <2>2 DEF ImportIInv, JobShape, JobFields, IsFcn
  <2> QED BY <2>1, <2>3 DEF R
<1> QED BY <1>3, <1>4

LEMMA LeaveDirectoryKeeps ==
    ASSUME ImportIInv, LeaveDirectory, psu' = psu
    PROVE ImportIInv' /\ SavesStep
<1>1. /\ Importing /\ op = "image" /\ job.pc = "walk" /\ job.pc \in Active /\ InDirectory
      /\ job.stack # <<>> /\ inserted \in Cards \cup {NoCard} /\ Trees
      /\ op' = op /\ inserted' = inserted
  BY DEF At, LeaveDirectory, InDirectory, Stays, Importing, Active, ImportIInv
<1>2. PICK o \in McSetInfo(Frame.dir) :
         card' = o.card /\ job' = IF o.rc = Ok THEN Left(job) ELSE Fails(job)
  BY DEF LeaveDirectory, Runs
<1>3. Touches
  <2>1. Frame.dir \in Created BY <1>1, FrameCreated
  <2> QED BY <1>1, <1>2, <2>1, SetInfoTouches
<1>4. CASE job' = Left(job)
  BY <1>1, <1>3, <1>4, LeftKeeps, CommandDone
<1> QED BY <1>1, <1>2, <1>3, <1>4, CommandFails

-----------------------------------------------------------------------------
(* The steps of both imports that copy nothing.                            *)

LEMMA CardSame ==
    ASSUME Trees, card' = card
    PROVE Trees' /\ SavesStep
BY DEF Trees, IsTree, IsFcn, Rooted, SavesStep

LEMMA Elsewhere ==
    ASSUME ImportIInv, card' = card, inserted' \in Cards \cup {NoCard}, FlatFiles', FlatCopy',
           JobShape', Importing' => job'.pc \notin Active \cup {"rollback"},
           Unfinished', Unused', RolledBackMeansAsBefore'
    PROVE ImportIInv' /\ SavesStep
<1>1. Trees' /\ SavesStep
  BY CardSame DEF ImportIInv
<1>2. Listed' /\ Placed' /\ Grown'
  BY DEF Listed, Placed, Grown, InJob
<1> QED BY <1>1, <1>2 DEF ImportIInv

LEMMA JobEnds ==
    ASSUME ImportIInv, Importing, card' = card, psu' = psu, NEW res,
           job' = Ends(job, res), Stays, RolledBackMeansAsBefore'
    PROVE ImportIInv' /\ SavesStep
<1>1. JobShape' /\ job'.pc = "done" /\ op' = op /\ inserted' = inserted
  BY DEF Ends, Stays, ImportIInv, JobShape, JobFields, IsFcn
<1>2. FlatFiles' /\ FlatCopy' /\ inserted' \in Cards \cup {NoCard}
  BY <1>1 DEF ImportIInv, FlatFiles, FlatCopy, Importing
<1>3. Unfinished' /\ Unused' /\ job'.pc \notin Active \cup {"rollback"}
  BY <1>1 DEF Unfinished, Unused, Waiting, Active
<1> QED BY <1>1, <1>2, <1>3, Elsewhere

LEMMA JobRefused ==
    ASSUME ImportIInv, Importing, card' = card, psu' = psu, NEW res, res # "failed", Refuse(res)
    PROVE ImportIInv' /\ SavesStep
<1>1. job' = Ends(job, res) /\ Stays /\ job'.res = res
  BY DEF Refuse, Ends, ImportIInv, JobShape, JobFields
<1> QED BY <1>1, JobEnds DEF RolledBackMeansAsBefore

LEMMA ImportDoneKeeps ==
    ASSUME ImportIInv, ImportDone, psu' = psu
    PROVE ImportIInv' /\ SavesStep
BY JobRefused DEF ImportDone, At, Importing

(* Before the copy: a job as NoJob has it, on a page that waits.           *)
LEMMA JobWaits ==
    ASSUME ImportIInv, card' = card, psu' = psu, inserted' = inserted, Importing',
           JobShape', job'.pc \in Waiting, job'.res = "none", job'.created = <<>>,
           job'.stack = <<>>, job'.rb = Ok, job'.full = FALSE,
           op' = "import" => job'.file \in DOMAIN psu
    PROVE ImportIInv' /\ SavesStep
<1>1. FlatFiles' /\ FlatCopy' /\ inserted' \in Cards \cup {NoCard}
  BY DEF ImportIInv, FlatFiles, FlatCopy, Importing
<1>2. Unfinished' /\ Unused' /\ RolledBackMeansAsBefore'
  BY DEF Unfinished, Unused, RolledBackMeansAsBefore
<1>3. job'.pc \notin Active \cup {"rollback"}
  BY DEF Active, Waiting
<1> QED BY <1>1, <1>2, <1>3, Elsewhere

(* The copy starts: the card is what it held before.                       *)
LEMMA JobStarts ==
    ASSUME ImportIInv, Importing, job.pc \in Waiting, card' = card, psu' = psu,
           inserted # NoCard, NEW tree, job' = Starting(job, tree), Stays
    PROVE ImportIInv' /\ SavesStep
<1>1. /\ inserted \in Cards /\ op' = op /\ inserted' = inserted /\ Importing' /\ Here' = Here
      /\ IsTree(Here)
  BY HereTree DEF ImportIInv, Stays, Importing, Here
<1>2. /\ JobShape' /\ job'.pc = "walk" /\ job'.before = Here /\ job'.res = "none"
      /\ job'.created = <<>> /\ job'.stack = <<>> /\ job'.rb = Ok /\ job'.full = FALSE
      /\ job'.file = job.file
  <2>1. /\ job.res = "none" /\ job.created = <<>> /\ job.stack = <<>> /\ job.rb = Ok
        /\ job.full = FALSE
    BY DEF ImportIInv, Unfinished, Unused, Waiting
  <2> QED BY <2>1 DEF Starting, ImportIInv, JobShape, JobFields, IsFcn
<1>3. Created' = {} /\ job'.created \in Seq(Created')
  <2>1. ToSet(<<>>) = {} /\ <<>> \in Seq({})
    BY EmptySeq DEF ToSet
  <2> QED BY <1>2, <2>1 DEF Created
<1>4. Listed'
  BY <1>1, <1>2, <1>3 DEF Listed, IsTree, IsFcn, Rooted
<1>5. Placed'
  <2>1. job'.stack \in Seq([dir : Created', next : Nat])
    BY <1>2, EmptySeq
  <2>2. op = "import" => job.file \in DOMAIN psu
    BY DEF ImportIInv, Unused
  <2> QED BY <1>1, <1>2, <1>3, <2>1, <2>2 DEF Placed
<1>6. Grown'
  BY <1>1, <1>2 DEF Grown
<1>7. Trees' /\ SavesStep
  BY CardSame DEF ImportIInv
<1>8. job'.pc \in Active BY <1>2 DEF Active
<1> QED BY <1>1, <1>2, <1>4, <1>5, <1>6, <1>7, <1>8, JobGoesOn

LEMMA OpenBrowserKeeps ==
    ASSUME ImportIInv, OpenBrowser, psu' = psu
    PROVE ImportIInv' /\ SavesStep
<1>1. card' = card /\ inserted' = inserted /\ op = "menu"
  BY DEF OpenBrowser, Reads, ReadFails
<1>2. CASE op' = "image" /\ job' = Viewed(NoJob)
  <2>1. /\ JobShape' /\ job'.pc = "browse" /\ job'.res = "none" /\ job'.created = <<>>
        /\ job'.stack = <<>> /\ job'.rb = Ok /\ job'.full = FALSE
    BY <1>2 DEF Viewed, NoJob, JobShape, JobFields, IsFcn
  <2> QED BY <1>1, <1>2, <2>1, JobWaits DEF Importing, Waiting
<1>3. CASE op' = op /\ job' = job
  <2>1. JobShape' /\ FlatFiles' /\ FlatCopy' /\ ~Importing'
    BY <1>1, <1>3 DEF ImportIInv, JobShape, IsFcn, FlatFiles, FlatCopy, Importing
  <2>2. Unfinished' /\ Unused' /\ RolledBackMeansAsBefore'
    BY <2>1 DEF Unfinished, Unused, RolledBackMeansAsBefore
  <2>3. inserted' \in Cards \cup {NoCard}
    BY <1>1 DEF ImportIInv
  <2> QED BY <1>1, <2>1, <2>2, <2>3, Elsewhere
<1> QED BY <1>2, <1>3 DEF OpenBrowser

(* The pages of the browser.                                               *)
LEMMA PageKeeps ==
    ASSUME ImportIInv, op = "image", job.pc \in Waiting, card' = card, psu' = psu, Stays,
           NEW j, job' = j, DOMAIN j = JobFields, IsFcn(j), j.pc \in Waiting,
           \A f \in {"created", "stack", "rb", "full", "res"} : j[f] = job[f]
    PROVE ImportIInv' /\ SavesStep
<1>1. /\ Importing /\ Importing' /\ inserted' = inserted /\ op' = "image"
      /\ job.res = "none" /\ job.created = <<>> /\ job.stack = <<>>
      /\ job.rb = Ok /\ job.full = FALSE
  BY DEF ImportIInv, Unfinished, Unused, Waiting, Importing, Stays
<1>2. JobShape' /\ job'.pc \in Waiting /\ job'.res = "none" /\ job'.created = <<>>
      /\ job'.stack = <<>> /\ job'.rb = Ok /\ job'.full = FALSE
  BY <1>1 DEF JobShape, IsFcn
<1> QED BY <1>1, <1>2, JobWaits

LEMMA RefreshDestinationKeeps ==
    ASSUME ImportIInv, RefreshDestination, psu' = psu
    PROVE ImportIInv' /\ SavesStep
<1>1. op = "image" /\ job.pc \in Waiting /\ card' = card /\ Stays
  BY DEF RefreshDestination, Waiting, Reads, ReadFails
<1>2. CASE job' = Viewed(job)
  <2> DEFINE j == Viewed(job)
  <2>1. /\ DOMAIN j = JobFields /\ IsFcn(j) /\ j.pc \in Waiting
        /\ \A f \in {"created", "stack", "rb", "full", "res"} : j[f] = job[f]
    BY DEF Viewed, ImportIInv, JobShape, JobFields, IsFcn, Waiting
  <2> HIDE DEF j
  <2>2. job' = j BY <1>2 DEF j
  <2> QED BY <1>1, <2>1, <2>2, PageKeeps
<1>3. CASE job' = [job EXCEPT !.pc = "browse", !.todo = <<>>]
  <2> DEFINE j == [job EXCEPT !.pc = "browse", !.todo = <<>>]
  <2>1. /\ DOMAIN j = JobFields /\ IsFcn(j) /\ j.pc \in Waiting
        /\ \A f \in {"created", "stack", "rb", "full", "res"} : j[f] = job[f]
    BY DEF ImportIInv, JobShape, JobFields, IsFcn, Waiting
  <2> HIDE DEF j
  <2>2. job' = j BY <1>3 DEF j
  <2> QED BY <1>1, <2>1, <2>2, PageKeeps
<1> QED BY <1>2, <1>3 DEF RefreshDestination

LEMMA SelectKeeps ==
    ASSUME ImportIInv, Select, psu' = psu
    PROVE ImportIInv' /\ SavesStep
<1>1. op = "image" /\ job.pc \in Waiting /\ card' = card /\ Stays
  BY DEF Select, At, Waiting, Stays
<1>2. PICK t : job' = [job EXCEPT !.pc = "selected", !.todo = t]
  BY DEF Select
<1> DEFINE j == [job EXCEPT !.pc = "selected", !.todo = t]
<1>3. /\ DOMAIN j = JobFields /\ IsFcn(j) /\ j.pc \in Waiting
      /\ \A f \in {"created", "stack", "rb", "full", "res"} : j[f] = job[f]
  BY DEF ImportIInv, JobShape, JobFields, IsFcn, Waiting
<1>4. job' = j BY <1>2
<1> HIDE DEF j
<1> QED BY <1>1, <1>3, <1>4, PageKeeps

LEMMA CheckTargetKeeps ==
    ASSUME ImportIInv, CheckTarget, psu' = psu
    PROVE ImportIInv' /\ SavesStep
<1>1. Importing /\ job.pc \in Waiting /\ card' = card
  BY DEF CheckTarget, At, Importing, Waiting, Reads, ReadFails
<1>2. \/ Refuse("conflict") \/ Refuse("full") \/ Refuse("unavailable")
      \/ inserted # NoCard /\ job' = Starting(job, TreeOf(Selected)) /\ Stays
  BY DEF CheckTarget, Reads
<1> QED BY <1>1, <1>2, JobRefused, JobStarts

-----------------------------------------------------------------------------
(* The rollback of both imports.                                           *)

LEMMA DeletedKeeps ==
    ASSUME ImportIInv, Importing, job.pc = "rollback", Stays, psu' = psu,
           job.created # <<>>, NEW o \in McDelete(Last(job.created)), card' = o.card,
           job' = Deleted(job, o.rc)
    PROVE ImportIInv' /\ SavesStep
<1> DEFINE p == Last(job.created)
<1>1. /\ InJob /\ op' = op /\ inserted' = inserted /\ Importing' /\ InJob'
      /\ inserted \in Cards \cup {NoCard} /\ Trees
  BY DEF InJob, Stays, Importing, ImportIInv, Deleted, JobShape, JobFields
<1>2. /\ p \in Created /\ Created = Created' \cup {p} /\ job'.created \in Seq(Created')
      /\ job'.created = Front(job.created)
  <2>1. job'.created = Front(job.created)
    BY DEF Deleted, ImportIInv, JobShape, JobFields
  <2>2. job.created \in Seq(ToSet(job.created))
    BY <1>1 DEF ImportIInv, Listed, Created
  <2>3. /\ p \in ToSet(job.created)
        /\ Front(job.created) \in Seq(ToSet(Front(job.created)))
        /\ ToSet(job.created) = ToSet(Front(job.created)) \cup {p}
    BY <2>2, FrontFacts
  <2> QED BY <2>1, <2>3 DEF Created
<1>3. /\ JobShape' /\ job'.pc = "rollback" /\ job'.res = "none" /\ job'.before = job.before
      /\ job'.full = job.full /\ job'.rb = IF job.rb = Ok THEN o.rc ELSE job.rb
  BY DEF Deleted, ImportIInv, JobShape, JobFields, IsFcn, Unfinished
<1> HIDE DEF p
<1>4. Listed' /\ Placed'
  BY <1>1, <1>2, <1>3 DEF ImportIInv, Listed, Placed, Active
<1>5. \A q \in Created : IsPath(q) /\ q \notin DOMAIN job.before
  BY <1>1 DEF ImportIInv, Listed
<1>6. inserted # NoCard =>
        /\ DOMAIN job.before \subseteq DOMAIN Here
        /\ \A q \in DOMAIN job.before : Here[q] = job.before[q]
        /\ job.rb = Ok =>
             \A q \in DOMAIN Here \ (DOMAIN job.before \cup Created) : job.full /\ Stray(q)
  BY <1>1 DEF ImportIInv, Grown
<1>7. CASE Alike(card') /\ (o.rc = Ok => inserted # NoCard /\ p \notin DOMAIN Here)
  <2>1. Trees' /\ Spares({}) /\ \A c \in Cards : card'[c] = card[c]
    BY <1>1, <1>7, AlikeKeeps
  <2>2. inserted # NoCard => Here' = Here
    BY <1>1, <2>1 DEF Here
  <2>3. ASSUME inserted # NoCard, job'.rb = Ok, NEW q \in DOMAIN Here',
               q \notin DOMAIN job.before, q \notin Created'
        PROVE job'.full /\ Stray(q)'
    <3>1. job.rb = Ok /\ o.rc = Ok
      BY <1>3, <2>3
    <3>2. p \notin DOMAIN Here /\ q \in DOMAIN Here /\ q # p
      BY <1>7, <2>2, <2>3, <3>1
    <3>3. job.full /\ Stray(q)
      BY <1>2, <1>6, <2>3, <3>1, <3>2
    <3> QED BY <1>2, <1>3, <2>2, <2>3, <3>2, <3>3 DEF Stray
  <2>4. Grown'
    BY <1>1, <1>3, <1>6, <2>2, <2>3 DEF Grown
  <2>5. SavesStep
    BY <2>1, SparesSaves
  <2> QED BY <1>1, <1>3, <1>4, <2>1, <2>4, <2>5, JobGoesOn
<1>8. CASE o.rc = Ok /\ inserted # NoCard /\ Below(Here, p) = {} /\ Deletes(card', p)
  <2>1. /\ Trees' /\ Spares({p}) /\ DOMAIN Here' = DOMAIN Here \ {p}
        /\ \A q \in DOMAIN Here \ {p} : Here'[q] = Here[q]
    BY <1>1, <1>8, DeleteKeeps
  <2>2. SavesStep
    BY <1>2, <2>1, SparesSaves
  <2>3. ASSUME job'.rb = Ok, NEW q \in DOMAIN Here',
               q \notin DOMAIN job.before, q \notin Created'
        PROVE job'.full /\ Stray(q)'
    <3>1. job.rb = Ok /\ q \in DOMAIN Here /\ q # p
      BY <1>3, <2>1, <2>3
    <3>2. job.full /\ Stray(q)
      BY <1>2, <1>6, <1>8, <2>3, <3>1
    <3>3. IsPath(q)
      BY <1>1, <1>8, <3>1, HereTree DEF IsTree, Rooted
    <3>4. Len(q) > 1 => Front(q) # p
      BY <1>8, <3>1, <3>3, BelowFront
    <3>5. Len(q) = 1 \/ Len(q) > 1
      BY <3>3, PathFacts, Zenon
    <3> QED BY <1>2, <1>3, <2>1, <3>2, <3>4, <3>5 DEF Stray
  <2>4. DOMAIN job.before \subseteq DOMAIN Here'
        /\ \A q \in DOMAIN job.before : Here'[q] = job.before[q]
    BY <1>2, <1>5, <1>6, <1>8, <2>1
  <2>5. Grown'
    BY <1>3, <2>3, <2>4 DEF Grown
  <2> QED BY <1>1, <1>3, <1>4, <2>1, <2>2, <2>5, JobGoesOn
<1>9. \/ o.rc # Ok /\ Alike(o.card)
      \/ o.rc = Ok /\ inserted # NoCard /\ p \notin DOMAIN Here /\ Alike(o.card)
      \/ o.rc = Ok /\ inserted # NoCard /\ Below(Here, p) = {} /\ Deletes(o.card, p)
  BY <1>1, DeleteEffect DEF p
<1> QED BY <1>7, <1>8, <1>9

(* What is left when every recorded object is gone.                        *)
LEMMA RollbackEndKeeps ==
    ASSUME ImportIInv, Importing, job.pc = "rollback", job.created = <<>>,
           Refuse(RollbackResult), card' = card, psu' = psu
    PROVE ImportIInv' /\ SavesStep
<1>1. /\ InJob /\ op' = op /\ inserted' = inserted /\ Here' = Here /\ Stays
      /\ job' = Ends(job, RollbackResult)
  BY DEF InJob, Refuse, Stays, Here
<1>2. /\ job'.res = RollbackResult /\ job'.before = job.before /\ job'.full = job.full
  BY <1>1 DEF Ends, ImportIInv, JobShape, JobFields
<1>3. ASSUME job'.res = "failed", inserted # NoCard
      PROVE Drop(Here', Unrecorded') = job'.before
  <2> DEFINE U == {q \in DOMAIN Here : Len(q) = 1} \ DOMAIN job.before
  <2>1. job.rb = Ok
    BY <1>2, <1>3 DEF RollbackResult
  <2>2. Created = {}
    BY DEF Created, ToSet
  <2>3. /\ DOMAIN job.before \subseteq DOMAIN Here
        /\ \A q \in DOMAIN job.before : Here[q] = job.before[q]
        /\ \A q \in DOMAIN Here \ DOMAIN job.before : job.full /\ Len(q) = 1
    BY <1>1, <1>3, <2>1, <2>2 DEF ImportIInv, Grown, Stray
  <2>4. DOMAIN Here \ Unrecorded' = DOMAIN job.before
    <3>1. Unrecorded' = IF job.full THEN U ELSE {}
      BY <1>1, <1>2 DEF Unrecorded
    <3> QED BY <2>3, <3>1
  <2>5. Drop(Here, Unrecorded') = [q \in DOMAIN job.before |-> job.before[q]]
    BY <2>3, <2>4 DEF Drop
  <2>6. job.before = [q \in DOMAIN job.before |-> job.before[q]]
    BY <1>1 DEF ImportIInv, Listed, IsTree, IsFcn
  <2> QED BY <1>1, <1>2, <2>5, <2>6
<1>4. RolledBackMeansAsBefore'
  BY <1>1, <1>3 DEF RolledBackMeansAsBefore
<1> QED BY <1>1, <1>4, JobEnds

LEMMA RollbackCreatedKeeps ==
    ASSUME ImportIInv, RollbackCreated, psu' = psu
    PROVE ImportIInv' /\ SavesStep
<1>1. Importing /\ job.pc = "rollback"
  BY DEF RollbackCreated, At, Importing
<1>2. CASE job.created = <<>>
  BY <1>1, <1>2, RollbackEndKeeps DEF RollbackCreated
<1>3. CASE job.created # <<>>
  <2>1. PICK o \in McDelete(Last(job.created)) :
           /\ card' = o.card
           /\ job' = [job EXCEPT !.created = Front(@), !.rb = IF @ = Ok THEN o.rc ELSE @]
    BY <1>3 DEF RollbackCreated, Runs
  <2>2. job' = Deleted(job, o.rc) /\ Stays
    BY <1>3, <2>1 DEF Deleted, RollbackCreated
  <2> QED BY <1>1, <1>3, <2>1, <2>2, DeletedKeeps
<1> QED BY <1>2, <1>3

LEMMA ImportKeeps ==
    ASSUME ImportIInv, ImportNext, psu' = psu
    PROVE ImportIInv' /\ SavesStep
BY OpenBrowserKeeps, RefreshDestinationKeeps, SelectKeeps, CheckTargetKeeps,
   EnterSaveKeeps, EnterDirectoryKeeps, CreateFileKeeps, WriteFileKeeps,
   VerifyImportedFileKeeps, StampFileKeeps, LeaveDirectoryKeeps, ImportDoneKeeps,
   RollbackCreatedKeeps
   DEF ImportNext

-----------------------------------------------------------------------------
(* The .psu import, step by step.                                          *)

LEMMA PickContainerKeeps ==
    ASSUME ImportIInv, PickContainer, inserted' = inserted
    PROVE ImportIInv' /\ SavesStep
<1>1. PICK n \in DOMAIN psu : job' = [NoJob EXCEPT !.pc = "confirm", !.file = n]
  BY DEF PickContainer
<1>2. /\ JobShape' /\ job'.pc = "confirm" /\ job'.res = "none" /\ job'.created = <<>>
      /\ job'.stack = <<>> /\ job'.rb = Ok /\ job'.full = FALSE /\ job'.file = n
  BY <1>1 DEF NoJob, JobShape, JobFields, IsFcn
<1>3. Importing' /\ card' = card /\ psu' = psu
  BY DEF PickContainer, Importing
<1> QED BY <1>2, <1>3, JobWaits DEF Waiting

LEMMA PsuCheckTargetKeeps ==
    ASSUME ImportIInv, PsuCheckTarget
    PROVE ImportIInv' /\ SavesStep
<1>1. Importing /\ job.pc \in Waiting /\ card' = card /\ psu' = psu
  BY DEF PsuCheckTarget, At, Importing, Waiting, Reads, ReadFails
<1>2. \/ Refuse("invalid") \/ Refuse("conflict") \/ Refuse("full") \/ Refuse("unavailable")
      \/ inserted # NoCard /\ job' = Starting(job, PsuTree(Source)) /\ Stays
  BY DEF PsuCheckTarget, Reads
<1> QED BY <1>1, <1>2, JobRefused, JobStarts

(* An object is made and recorded; the container has no more of them than  *)
(* the list of created objects takes.                                      *)
LEMMA PsuRecordKeeps ==
    ASSUME ImportIInv, At("import", "walk"), Stays, psu' = psu,
           NEW p, IsPath(p), inserted # NoCard, Stores(card', p),
           p \notin DOMAIN job.before, p \in DOMAIN Here => p \in Created,
           Len(p) = 1 \/ Front(p) \in Created, p = <<Source.save>> \/ job.created # <<>>,
           NEW j, job' = PsuRecord(j, p), DOMAIN j = JobFields, IsFcn(j),
           \A f \in {"before", "created", "rb", "full", "res", "file"} : j[f] = job[f],
           j.pc \in Active, j.pc # "walk" => j.path = p
    PROVE ImportIInv' /\ SavesStep
<1>1. /\ Importing /\ Importing' /\ job.pc \in Active /\ InJob /\ op' = op
      /\ inserted' = inserted /\ op = "import" /\ job.res = "none"
      /\ job.rb = Ok /\ ~job.full /\ Created \subseteq DOMAIN Here
      /\ job.file \in DOMAIN psu /\ (job.created # <<>> => <<Source.save>> \in Created)
  BY DEF At, Stays, Importing, InJob, Active, ImportIInv, Unfinished, Placed
<1>2. Len(p) > 1 => Front(p) \in DOMAIN Here
  BY <1>1, HasDirectory
<1>3. job.created \in Seq(Created) /\ \A q \in Created : IsPath(q)
  BY <1>1 DEF ImportIInv, Listed
<1>4. /\ JobShape' /\ job'.pc = j.pc /\ job'.full = job.full /\ job'.path = j.path
      /\ job'.before = job.before /\ job'.created = Append(job.created, p)
      /\ job'.res = job.res /\ job'.rb = job.rb /\ job'.file = job.file
  BY DEF PsuRecord, JobShape, JobFields, IsFcn
<1>5. job'.created \in Seq(Created') /\ Created' = Created \cup {p}
  <2>1. /\ Append(job.created, p) \in Seq(ToSet(Append(job.created, p)))
        /\ ToSet(Append(job.created, p)) = Created \cup {p}
    BY <1>3, ListFacts DEF Created
  <2> QED BY <1>4, <2>1 DEF Created
<1>6. Trees' /\ Grown' /\ SavesStep /\ DOMAIN Here' = DOMAIN Here \cup {p}
  BY <1>1, <1>2, <1>4, <1>5, StoreGrows
<1>7. Listed'
  BY <1>1, <1>3, <1>4, <1>5 DEF ImportIInv, Listed
<1>8. Source' = Source
  BY <1>4 DEF Source
<1>9. Placed'
  BY <1>1, <1>4, <1>5, <1>6, <1>8 DEF Placed
<1> QED BY <1>1, <1>4, <1>6, <1>7, <1>9, JobGoesOn

LEMMA PsuMakeDirectoryKeeps ==
    ASSUME ImportIInv, PsuMakeDirectory
    PROVE ImportIInv' /\ SavesStep
<1> DEFINE p == <<Source.save>>
<1>1. /\ Importing /\ job.pc = "walk" /\ job.pc \in Active /\ At("import", "walk")
      /\ inserted \in Cards \cup {NoCard} /\ Trees /\ InJob
      /\ Stays /\ op' = op /\ inserted' = inserted /\ psu' = psu
  BY DEF At, PsuMakeDirectory, PsuCommand, Stays, Importing, Active, InJob, ImportIInv
<1>2. PICK o \in McMkDir(p) :
         card' = o.card /\ job' = IF o.rc = Ok THEN PsuRecord(job, p) ELSE Fails(job)
  BY DEF PsuMakeDirectory, PsuCommand, Runs
<1>3. IsPath(p) /\ Len(p) = 1
  BY RootPath
<1>4. p = <<Source.save>> OBVIOUS
<1> HIDE DEF p
<1>5. CASE o.rc # Ok /\ Alike(o.card)
  <2>1. job' = Fails(job) /\ Touches
    BY <1>2, <1>5 DEF Touches
  <2> QED BY <1>1, <2>1, CommandFails
<1>6. CASE o.rc = Ok /\ inserted # NoCard /\ p \notin DOMAIN Here /\ Stores(o.card, p)
  <2>1. job' = PsuRecord(job, p) /\ Stores(card', p)
    BY <1>2, <1>6
  <2>2. p \notin DOMAIN job.before
    BY <1>1, <1>6 DEF ImportIInv, Grown
  <2>3. DOMAIN job = JobFields /\ IsFcn(job)
    BY DEF ImportIInv, JobShape
  <2> QED BY <1>1, <1>3, <1>4, <1>6, <2>1, <2>2, <2>3, PsuRecordKeeps
<1> QED BY <1>1, <1>5, <1>6, MkDirEffect

LEMMA PsuCreateFileKeeps ==
    ASSUME ImportIInv, PsuCreateFile
    PROVE ImportIInv' /\ SavesStep
<1>1. PICK p \in DOMAIN Source.files \ ToSet(job.created) :
         PsuCommand("walk", McCreate(p),
                    LAMBDA j : PsuRecord([j EXCEPT !.pc = "write", !.path = p], p))
  BY DEF PsuCreateFile
<1>2. /\ Importing /\ job.pc = "walk" /\ job.pc \in Active /\ At("import", "walk")
      /\ inserted \in Cards \cup {NoCard} /\ Trees /\ InJob /\ job.created # <<>>
      /\ Stays /\ op' = op /\ inserted' = inserted /\ psu' = psu /\ op = "import"
  BY <1>1 DEF At, PsuCreateFile, PsuCommand, Stays, Importing, Active, InJob, ImportIInv
<1>3. job.file \in DOMAIN psu /\ <<Source.save>> \in Created
  BY <1>2 DEF ImportIInv, Placed
<1>4. p = <<Source.save, p[2]>>
  BY <1>1, <1>3 DEF ImportIInv, FlatFiles, Source
<1>5. IsPath(p) /\ Front(p) \in Created /\ Len(p) > 1
  <2> DEFINE s == Source.save
             x == p[2]
  <2>1. IsPath(<<s, x>>) /\ Front(<<s, x>>) = <<s>> /\ Len(<<s, x>>) > 1
    BY FlatPath
  <2>2. p = <<s, x>> /\ <<s>> \in Created BY <1>3, <1>4
  <2> HIDE DEF s, x
  <2> QED BY <2>1, <2>2
<1>6. PICK o \in McCreate(p) :
         /\ card' = o.card
         /\ job' = IF o.rc = Ok THEN PsuRecord([job EXCEPT !.pc = "write", !.path = p], p)
                   ELSE Fails(job)
  BY <1>1 DEF PsuCommand, Runs
<1>7. CASE o.rc # Ok /\ Alike(o.card)
  <2>1. job' = Fails(job) /\ Touches
    BY <1>6, <1>7 DEF Touches
  <2> QED BY <1>2, <2>1, CommandFails
<1>8. CASE o.rc = Ok /\ inserted # NoCard /\ Stores(o.card, p)
  <2> DEFINE j == [job EXCEPT !.pc = "write", !.path = p]
  <2>1. job' = PsuRecord(j, p) /\ Stores(card', p)
    BY <1>6, <1>8
  <2>2. p \notin DOMAIN job.before /\ (p \in DOMAIN Here => p \in Created)
    BY <1>2, <1>5, <1>8, EntryIsNew
  <2>3. /\ DOMAIN j = JobFields /\ IsFcn(j) /\ j.pc = "write" /\ j.path = p
        /\ \A f \in {"before", "created", "rb", "full", "res", "file"} : j[f] = job[f]
    BY <1>2 DEF ImportIInv, JobShape, JobFields, IsFcn
  <2> HIDE DEF j
  <2>4. j.pc \in Active BY <2>3 DEF Active
  <2> QED BY <1>2, <1>5, <1>8, <2>1, <2>2, <2>3, <2>4, PsuRecordKeeps
<1> QED BY <1>2, <1>7, <1>8, CreateEffect

LEMMA PsuWriteFileKeeps ==
    ASSUME ImportIInv, PsuWriteFile
    PROVE ImportIInv' /\ SavesStep
<1>1. /\ Importing /\ job.pc = "write" /\ job.pc \in Active \ {"walk"}
      /\ inserted \in Cards \cup {NoCard} /\ Trees /\ job.path \in Created
      /\ op' = op /\ inserted' = inserted /\ psu' = psu
  BY DEF At, PsuWriteFile, PsuCommand, Stays, Importing, Active, ImportIInv, Placed
<1>2. PICK o \in McWrite(job.path, Source.files[job.path]) :
         /\ card' = o.card
         /\ job' = IF o.rc = Ok THEN [job EXCEPT !.pc = "verify"] ELSE Fails(job)
  BY DEF PsuWriteFile, PsuCommand, Runs
<1>3. Touches
  BY <1>1, <1>2, WriteTouches
<1>4. "verify" \in Active BY DEF Active
<1> QED BY <1>1, <1>2, <1>3, <1>4, Onward, CommandFails

LEMMA PsuVerifyFileKeeps ==
    ASSUME ImportIInv, PsuVerifyFile
    PROVE ImportIInv' /\ SavesStep
<1>1. /\ Importing /\ job.pc = "verify" /\ job.pc \in Active \ {"walk"}
      /\ inserted \in Cards \cup {NoCard} /\ Trees
      /\ op' = op /\ inserted' = inserted /\ psu' = psu
  BY DEF At, PsuVerifyFile, PsuCommand, Stays, Importing, Active, ImportIInv
<1>2. PICK o \in McSame(job.path, Source.files[job.path]) :
         /\ card' = o.card
         /\ job' = IF o.rc = Ok THEN [job EXCEPT !.pc = "stamp"] ELSE Fails(job)
  BY DEF PsuVerifyFile, PsuCommand, Runs
<1>3. Touches
  BY <1>1, <1>2, SameTouches
<1>4. "stamp" \in Active BY DEF Active
<1> QED BY <1>1, <1>2, <1>3, <1>4, Onward, CommandFails

LEMMA PsuStampFileKeeps ==
    ASSUME ImportIInv, PsuStampFile
    PROVE ImportIInv' /\ SavesStep
<1>1. /\ Importing /\ job.pc = "stamp" /\ job.pc \in Active \ {"walk"}
      /\ inserted \in Cards \cup {NoCard} /\ Trees /\ job.path \in Created
      /\ op' = op /\ inserted' = inserted /\ psu' = psu
  BY DEF At, PsuStampFile, PsuCommand, Stays, Importing, Active, ImportIInv, Placed
<1>2. PICK o \in McSetInfo(job.path) :
         /\ card' = o.card
         /\ job' = IF o.rc = Ok THEN [job EXCEPT !.pc = "walk"] ELSE Fails(job)
  BY DEF PsuStampFile, PsuCommand, Runs
<1>3. Touches
  BY <1>1, <1>2, SetInfoTouches
<1>4. "walk" \in Active BY DEF Active
<1> QED BY <1>1, <1>2, <1>3, <1>4, Onward, CommandFails

LEMMA PsuFinishKeeps ==
    ASSUME ImportIInv, PsuFinish
    PROVE ImportIInv' /\ SavesStep
<1>1. /\ Importing /\ op = "import" /\ job.pc = "walk" /\ job.pc \in Active
      /\ inserted \in Cards \cup {NoCard} /\ Trees /\ <<Source.save>> \in Created
      /\ op' = op /\ inserted' = inserted /\ psu' = psu
  BY DEF At, PsuFinish, PsuCommand, Stays, Importing, Active, ImportIInv, Placed
<1>2. PICK o \in McSetInfo(<<Source.save>>) :
         card' = o.card /\ job' = IF o.rc = Ok THEN Ends(job, "ok") ELSE Fails(job)
  BY DEF PsuFinish, PsuCommand, Runs
<1>3. Touches
  BY <1>1, <1>2, SetInfoTouches
<1>4. CASE job' = Ends(job, "ok")
  <2>1. /\ JobShape' /\ job'.pc = "done" /\ job'.res = "ok" /\ job'.before = job.before
        /\ job'.created = job.created /\ job'.rb = job.rb /\ job'.full = job.full
    BY <1>4 DEF Ends, ImportIInv, JobShape, JobFields, IsFcn
  <2>2. Trees' /\ SavesStep
    BY <1>1, <1>3, <2>1, TouchGrows DEF Importing
  <2>3. Listed' /\ Placed' /\ Grown' /\ Unfinished' /\ Unused' /\ RolledBackMeansAsBefore'
    BY <2>1 DEF Listed, Placed, Grown, InJob, Active, Unfinished, Unused, Waiting,
                RolledBackMeansAsBefore
  <2>4. FlatFiles' /\ FlatCopy'
    BY <1>1 DEF ImportIInv, FlatFiles, FlatCopy
  <2> QED BY <1>1, <2>1, <2>2, <2>3, <2>4 DEF ImportIInv
<1> QED BY <1>1, <1>2, <1>3, <1>4, CommandFails

LEMMA PsuRollbackKeeps ==
    ASSUME ImportIInv, PsuRollback
    PROVE ImportIInv' /\ SavesStep
<1>1. Importing /\ job.pc = "rollback" /\ psu' = psu
  BY DEF PsuRollback, At, Importing
<1>2. CASE job.created = <<>>
  BY <1>1, <1>2, RollbackEndKeeps DEF PsuRollback, RollbackResult
<1>3. CASE job.created # <<>>
  <2>1. PICK o \in McDelete(Last(job.created)) : card' = o.card /\ job' = Deleted(job, o.rc)
    BY <1>3 DEF PsuRollback, Runs
  <2>2. Stays
    BY <1>3 DEF PsuRollback
  <2> QED BY <1>1, <1>3, <2>1, <2>2, DeletedKeeps
<1> QED BY <1>2, <1>3

-----------------------------------------------------------------------------
(* The export: it reads the card, and its container stays flat.            *)

LEMMA ExportElsewhere ==
    ASSUME ImportIInv, card' = card, inserted' = inserted, op' = "export",
           FlatFiles', FlatCopy', JobShape'
    PROVE ImportIInv' /\ SavesStep
<1>1. ~Importing' BY DEF Importing
<1>2. Unfinished' /\ Unused' /\ RolledBackMeansAsBefore'
  BY <1>1 DEF Unfinished, Unused, RolledBackMeansAsBefore
<1>3. inserted' \in Cards \cup {NoCard} BY DEF ImportIInv
<1> QED BY <1>1, <1>2, <1>3, Elsewhere

(* What the directory of a save holds when it is flat.                     *)
LEMMA FlatContent ==
    ASSUME NEW tree, IsTree(tree), NEW s, Flat(tree, s), NEW p \in FilesOf(tree, s)
    PROVE p = <<s, p[2]>>
<1>1. p \in DOMAIN tree /\ p[1] = s /\ p # <<s>> /\ Len(p) <= 2 /\ IsPath(p)
  BY DEF FilesOf, Subtree, Flat, IsTree, Rooted
<1>2. Len(p) \in Nat \ {0} /\ p \in Seq(ToSet(p)) /\ DOMAIN p = 1..Len(p)
  BY <1>1, PathFacts DEF IsPath
<1>3. CASE Len(p) = 1
  <2>1. p = [i \in 1..1 |-> p[i]] BY <1>2, <1>3
  <2>2. <<s>> = [i \in 1..1 |-> s] OBVIOUS
  <2>3. p = <<s>> BY <1>1, <2>1, <2>2
  <2> QED BY <1>1, <2>3
<1>4. CASE Len(p) = 2
  <2> DEFINE t == <<s, p[2]>>
             S == ToSet(p) \cup {s, p[2]}
  <2>1. t \in Seq(S) /\ Len(t) = 2 /\ t[1] = s /\ t[2] = p[2]
    OBVIOUS
  <2>2. p \in Seq(S) BY <1>2, SeqMonotonic
  <2> HIDE DEF t, S
  <2>3. \A i \in 1..Len(p) : p[i] = t[i]
    BY <1>1, <1>4, <2>1
  <2>4. p = t BY <1>4, <2>1, <2>2, <2>3, SeqEqual
  <2> QED BY <2>4 DEF t
<1> QED BY <1>1, <1>2, <1>3, <1>4

LEMMA FlatStored ==
    ASSUME FlatFiles, NEW n, NEW c, psu' = Put(psu, n, c),
           \A p \in DOMAIN c.files : p = <<c.save, p[2]>>
    PROVE FlatFiles' /\ n \in DOMAIN psu' /\ psu'[n] = c
BY DEF FlatFiles, Put

(* The steps of an export that leave the container as it is.               *)
LEMMA ExportIdles ==
    ASSUME ImportIInv, card' = card, inserted' = inserted, op' = "export", psu' = psu,
           JobShape', job'.pc # "copy"
    PROVE ImportIInv' /\ SavesStep
BY ExportElsewhere DEF ImportIInv, FlatFiles, FlatCopy

LEMMA JobEdits ==
    ASSUME JobShape, \/ \E pc : job' = [job EXCEPT !.pc = pc]
                     \/ \E res : job' = Ends(job, res)
                     \/ \E want : job' = [job EXCEPT !.pc = "copy", !.want = want]
                     \/ job' = job
    PROVE JobShape' /\ job'.todo = job.todo /\ job'.file = job.file
BY DEF JobShape, JobFields, IsFcn, Ends

LEMMA PrepareExportPathKeeps ==
    ASSUME ImportIInv, PrepareExportPath
    PROVE ImportIInv' /\ SavesStep
<1>1. PICK s, i : job' = [NoJob EXCEPT !.pc = "list", !.todo = <<s>>, !.kept = psu,
                                       !.file = PsuNames[s][i], !.begun = faults]
  BY DEF PrepareExportPath
<1>2. JobShape' /\ job'.pc = "list"
  BY <1>1 DEF NoJob, JobShape, JobFields, IsFcn
<1> QED BY <1>2, ExportIdles DEF PrepareExportPath

LEMMA ListSaveKeeps ==
    ASSUME ImportIInv, ListSave
    PROVE ImportIInv' /\ SavesStep
<1>1. /\ op = "export" /\ card' = card /\ inserted' = inserted /\ op' = "export" /\ JobShape
      /\ FlatFiles
  BY DEF ListSave, At, Refuse, Stays, Reads, ReadFails, ImportIInv
<1>2. CASE \E res : job' = Ends(job, res) /\ psu' = psu
  <2>1. job'.pc = "done" BY <1>1, <1>2 DEF Ends, JobShape, JobFields
  <2> QED BY <1>1, <1>2, <2>1, JobEdits, ExportIdles
<1>3. CASE /\ inserted # NoCard /\ Flat(Here, Exported)
           /\ Put1(Container(Exported, NoTree, FALSE))
           /\ job' = [job EXCEPT !.pc = "copy", !.want = ContentOf(Here, Exported)]
  <2> DEFINE c == Container(Exported, NoTree, FALSE)
  <2>1. psu' = Put(psu, job.file, c) /\ c.save = Exported /\ DOMAIN c.files = {}
    BY <1>3, EmptySeq DEF Put1, Container, NoTree
  <2> HIDE DEF c
  <2>2. FlatFiles' /\ job.file \in DOMAIN psu' /\ psu'[job.file] = c
    BY <1>1, <2>1, FlatStored
  <2>3. JobShape' /\ job'.todo = job.todo /\ job'.file = job.file
    BY <1>1, <1>3, JobEdits
  <2>4. IsTree(Here)
    BY <1>3, HereTree DEF ImportIInv
  <2>5. job'.want = ContentOf(Here, Exported)
    BY <1>1, <1>3 DEF JobShape, JobFields
  <2>6. \A p \in DOMAIN job'.want : p = <<Exported, p[2]>>
    BY <1>3, <2>4, <2>5, FlatContent DEF ContentOf
  <2>7. FlatCopy'
    BY <2>1, <2>2, <2>3, <2>6 DEF FlatCopy, Exported
  <2> QED BY <1>1, <2>2, <2>3, <2>7, ExportElsewhere
<1> QED BY <1>2, <1>3 DEF ListSave, Refuse, Reads

LEMMA CopyOutKeeps ==
    ASSUME ImportIInv, CopyOut
    PROVE ImportIInv' /\ SavesStep
<1>1. /\ op = "export" /\ card' = card /\ inserted' = inserted /\ op' = "export" /\ JobShape
      /\ FlatFiles /\ job.pc = "copy"
  BY DEF CopyOut, ExportStep, At, Stays, ImportIInv
<1>2. /\ job.file \in DOMAIN psu /\ psu[job.file].save = Exported
      /\ \A p \in DOMAIN job.want : p = <<Exported, p[2]>>
  BY <1>1 DEF ImportIInv, FlatCopy
<1>3. PICK p \in DOMAIN job.want :
         \/ ReadThenWrite(p, Here[p].data) /\ UNCHANGED job
         \/ ReadThenWrite(p, "wrong") /\ UNCHANGED job
         \/ ExportFails /\ UNCHANGED psu
  BY DEF CopyOut
<1>4. ASSUME NEW d, ReadThenWrite(p, d), UNCHANGED job
      PROVE ImportIInv' /\ SavesStep
  <2> DEFINE c == Container(Exported, Put(OutFile.files, p, d), FALSE)
  <2>1. psu' = Put(psu, job.file, c) /\ c.save = Exported
    BY <1>4 DEF ReadThenWrite, Put1, Container
  <2>2. DOMAIN c.files = DOMAIN OutFile.files \cup {p}
    BY DEF Container, Put
  <2>3. \A q \in DOMAIN c.files : q = <<c.save, q[2]>>
    <3>1. \A q \in DOMAIN OutFile.files : q = <<Exported, q[2]>>
      BY <1>1, <1>2 DEF FlatFiles, OutFile
    <3>2. p = <<Exported, p[2]>>
      BY <1>2
    <3> QED BY <2>1, <2>2, <3>1, <3>2
  <2> HIDE DEF c
  <2>4. FlatFiles' /\ job.file \in DOMAIN psu' /\ psu'[job.file] = c
    BY <1>1, <2>1, <2>3, FlatStored
  <2>5. JobShape' /\ job' = job
    BY <1>1, <1>4, JobEdits
  <2>6. FlatCopy'
    BY <1>2, <2>1, <2>4, <2>5 DEF FlatCopy, Exported
  <2> QED BY <1>1, <2>4, <2>5, <2>6, ExportElsewhere
<1>5. CASE ExportFails /\ UNCHANGED psu
  <2>1. job'.pc = "remove" /\ JobShape'
    BY <1>1, <1>5, JobEdits DEF ExportFails, JobShape, JobFields
  <2> QED BY <1>1, <1>5, <2>1, ExportIdles
<1> QED BY <1>3, <1>4, <1>5

LEMMA CloseExportKeeps ==
    ASSUME ImportIInv, CloseExport
    PROVE ImportIInv' /\ SavesStep
<1>1. /\ op = "export" /\ card' = card /\ inserted' = inserted /\ op' = "export" /\ JobShape
      /\ FlatFiles /\ job.pc = "copy"
  BY DEF CloseExport, ExportStep, At, Stays, ImportIInv
<1>2. job.file \in DOMAIN psu /\ psu[job.file].save = Exported
  BY <1>1 DEF ImportIInv, FlatCopy
<1> DEFINE c == Container(Exported, OutFile.files, TRUE)
<1>3. psu' = Put(psu, job.file, c) /\ c.save = Exported /\ c.files = OutFile.files
  BY DEF CloseExport, Put1, Container
<1> HIDE DEF c
<1>4. FlatFiles'
  BY <1>1, <1>2, <1>3, FlatStored DEF FlatFiles, OutFile
<1>5. JobShape' /\ job'.pc # "copy"
  BY <1>1, JobEdits DEF CloseExport, ExportFails, JobShape, JobFields
<1> QED BY <1>1, <1>4, <1>5, ExportElsewhere DEF FlatCopy

LEMMA VerifyPsuKeeps ==
    ASSUME ImportIInv, VerifyPsuFileAgainstCard
    PROVE ImportIInv' /\ SavesStep
<1>1. /\ card' = card /\ inserted' = inserted /\ op' = "export" /\ JobShape /\ psu' = psu
      /\ \/ job' = Ends(job, "ok")
         \/ job' = [job EXCEPT !.pc = "remove"]
  BY DEF VerifyPsuFileAgainstCard, VerifyPsu, ExportStep, ExportFails, At, Stays, ImportIInv
<1>2. JobShape' /\ job'.pc # "copy"
  BY <1>1, JobEdits DEF Ends, JobShape, JobFields
<1> QED BY <1>1, <1>2, ExportIdles

LEMMA RemoveExportKeeps ==
    ASSUME ImportIInv, RemoveExport
    PROVE ImportIInv' /\ SavesStep
<1>1. /\ card' = card /\ inserted' = inserted /\ op' = "export" /\ JobShape /\ FlatFiles
      /\ \E res : job' = Ends(job, res)
  BY DEF RemoveExport, ExportStep, At, Stays, ImportIInv
<1>2. JobShape' /\ job'.pc # "copy"
  BY <1>1, JobEdits DEF Ends, JobShape, JobFields
<1>3. FlatFiles'
  BY <1>1 DEF RemoveExport, Without, Drop, FlatFiles
<1> QED BY <1>1, <1>2, <1>3, ExportElsewhere DEF FlatCopy

LEMMA PsuKeeps ==
    ASSUME ImportIInv, PsuNext
    PROVE ImportIInv' /\ SavesStep
<1>1. CASE PickContainer
  BY <1>1, PsuOp, PickContainerKeeps DEF PsuNext, PsuRuns
<1> QED BY <1>1, PsuCheckTargetKeeps, PsuMakeDirectoryKeeps, PsuCreateFileKeeps,
           PsuWriteFileKeeps, PsuVerifyFileKeeps, PsuStampFileKeeps, PsuFinishKeeps,
           PsuRollbackKeeps, PrepareExportPathKeeps, ListSaveKeeps, CopyOutKeeps,
           CloseExportKeeps, VerifyPsuKeeps, RemoveExportKeeps
        DEF PsuNext

-----------------------------------------------------------------------------
(* The other tools, and the user.                                          *)

LEMMA KelfCard == KelfNext => card' = card
<1>1. ProbeMagicGate => card' = card
  BY DEF ProbeMagicGate, mediaVars
<1>2. StartInstall => card' = card
  BY DEF StartInstall, mediaVars
<1>3. PreflightSource => card' = card
  BY DEF PreflightSource, KelfAt, Reject, EndInstall, Reads, ReadFails
<1>4. PreflightDone => card' = card
  BY DEF PreflightDone, KelfAt, mediaVars
<1>5. WriteBound => card' = card
  BY DEF WriteBound, KelfAt, EndInstall, Reads, ReadFails
<1>6. WriteDone => card' = card
  BY DEF WriteDone, KelfAt, EndInstall, mediaVars
<1>7. LeaveInstall => card' = card
  BY DEF LeaveInstall, mediaVars
<1>8. RewritePackage => card' = card
  BY DEF RewritePackage, mediaVars
<1> QED BY <1>1, <1>2, <1>3, <1>4, <1>5, <1>6, <1>7, <1>8 DEF KelfNext

LEMMA OtherToolKeeps ==
    ASSUME ImportIInv, card' = card, inserted' \in Cards \cup {NoCard}, psu' = psu, JobShape',
           op' \notin {"image", "import", "export"}
    PROVE ImportIInv' /\ SavesStep
<1>1. ~Importing' BY DEF Importing
<1>2. Unfinished' /\ Unused' /\ RolledBackMeansAsBefore'
  BY <1>1 DEF Unfinished, Unused, RolledBackMeansAsBefore
<1>3. FlatFiles' /\ FlatCopy'
  BY DEF ImportIInv, FlatFiles, FlatCopy
<1> QED BY <1>1, <1>2, <1>3, Elsewhere

LEMMA PullCardKeeps ==
    ASSUME ImportIInv, PullCard
    PROVE ImportIInv' /\ SavesStep
<1>1. /\ inserted' = NoCard /\ op' = op /\ card' = card /\ job' = job /\ psu' = psu
  BY DEF PullCard
<1>2. Trees' /\ SavesStep
  BY <1>1, CardSame DEF ImportIInv
<1>3. Listed' /\ Placed' /\ Unfinished' /\ Unused'
  BY <1>1 DEF ImportIInv, Listed, Placed, Unfinished, Unused, Importing, InJob, Created,
              IsTree, IsFcn, Rooted, Source
<1>4. Grown' /\ RolledBackMeansAsBefore'
  BY <1>1 DEF Grown, RolledBackMeansAsBefore
<1>5. FlatFiles' /\ FlatCopy' /\ JobShape'
  BY <1>1 DEF ImportIInv, FlatFiles, FlatCopy, JobShape, IsFcn, Exported
<1> QED BY <1>1, <1>2, <1>3, <1>4, <1>5 DEF ImportIInv

(* A card is put in while no job runs.                                     *)
LEMMA InsertCardKeeps ==
    ASSUME ImportIInv, InsertCard
    PROVE ImportIInv' /\ SavesStep
<1>1. /\ inserted' \in Cards /\ op' = op /\ card' = card /\ job' = job /\ psu' = psu
      /\ op = "menu" \/ job.pc \in WaitPoints
  BY DEF InsertCard
<1>2. Trees' /\ SavesStep
  BY <1>1, CardSame DEF ImportIInv
<1>3. ~InJob' /\ ~(Importing' /\ job'.pc \in Active)
  BY <1>1, WaitAssumption DEF InJob, Importing, Active
<1>4. Listed' /\ Placed' /\ Grown'
  BY <1>3 DEF Listed, Placed, Grown
<1>5. Unfinished' /\ Unused'
  BY <1>1 DEF ImportIInv, Unfinished, Unused, Importing
<1>6. "done" \notin WaitPoints => RolledBackMeansAsBefore'
  BY <1>1 DEF RolledBackMeansAsBefore, ImportIInv, Unfinished, Importing
<1>7. FlatFiles' /\ FlatCopy' /\ JobShape'
  BY <1>1 DEF ImportIInv, FlatFiles, FlatCopy, JobShape, IsFcn, Exported
<1> QED BY <1>1, <1>2, <1>4, <1>5, <1>6, <1>7 DEF ImportIInv

LEMMA StepKeeps ==
    ASSUME ImportIInv, SaveInv, [Next]_vars
    PROVE ImportIInv' /\ SavesStep
<1>1. CASE ToolNext
  <2>1. CASE ImportNext /\ UNCHANGED psu
    BY <2>1, ImportKeeps
  <2>2. CASE PsuNext
    BY <2>2, PsuKeeps
  <2>3. CASE (SaveSettings \/ SettingsStep) /\ UNCHANGED <<card, inserted, job, psu>>
    <3>1. JobShape'
      BY <2>3 DEF ImportIInv, JobShape, IsFcn
    <3>2. op' \in {"menu", "settings"}
      BY <2>3, SettingsOp
    <3>3. inserted' \in Cards \cup {NoCard} BY <2>3 DEF ImportIInv
    <3> QED BY <2>3, <3>1, <3>2, <3>3, OtherToolKeeps
  <2>4. CASE KelfNext /\ UNCHANGED psu
    <3>1. job' = job /\ card' = card /\ inserted' = inserted /\ op' \in {"menu", "install"}
      BY <2>4, KelfCard, KelfOp DEF KelfRuns
    <3>2. JobShape' /\ inserted' \in Cards \cup {NoCard}
      BY <3>1 DEF ImportIInv, JobShape, IsFcn
    <3> QED BY <2>4, <3>1, <3>2, OtherToolKeeps
  <2> QED BY <1>1, <2>1, <2>2, <2>3, <2>4 DEF ToolNext
<1>2. CASE Dismiss \/ PowerCut
  <2>1. /\ job' = NoJob /\ card' = card /\ psu' = psu /\ inserted' = inserted
        /\ op' \in {"menu", "off"}
    BY <1>2 DEF Dismiss, PowerCut
  <2>2. JobShape' /\ inserted' \in Cards \cup {NoCard}
    BY <2>1 DEF ImportIInv, NoJob, JobShape, JobFields, IsFcn
  <2> QED BY <2>1, <2>2, OtherToolKeeps
<1>3. CASE Boot
  <2>1. /\ job' = job /\ card' = card /\ psu' = psu /\ inserted' = inserted /\ op' = "menu"
    BY <1>3 DEF Boot
  <2>2. JobShape' /\ inserted' \in Cards \cup {NoCard}
    BY <2>1 DEF ImportIInv, JobShape, IsFcn
  <2> QED BY <2>1, <2>2, OtherToolKeeps
<1>4. CASE UNCHANGED vars
  <2>1. /\ op' = op /\ card' = card /\ job' = job /\ psu' = psu /\ inserted' = inserted
    BY <1>4 DEF vars, mediaVars
  <2>2. ImportIInv' <=> ImportIInv
    BY <2>1 DEF ImportIInv, Trees, IsTree, IsFcn, Rooted, FlatFiles, FlatCopy, Exported,
                JobShape, Listed, Placed, Unfinished, Unused, Grown, Stray, Importing, InJob,
                Created, Here, Source, RolledBackMeansAsBefore, Unrecorded
  <2> QED BY <2>1, <2>2, CardSame DEF ImportIInv
<1> QED BY <1>1, <1>2, <1>3, <1>4, PullCardKeeps, InsertCardKeeps DEF Next

LEMMA ImportInvariance == Spec => []ImportIInv
<1>1. Init => ImportIInv
  <2> SUFFICES ASSUME Init PROVE ImportIInv
    OBVIOUS
  <2>1. op = "menu" /\ card = FirstCard /\ job = NoJob /\ inserted \in Cards /\ psu = FirstPsu
    BY DEF Init, MediaInit, PsuInit
  <2>2. Trees
    BY <2>1, FirstCardAssumption DEF Trees, IsTree, IsFcn
  <2>3. FlatFiles
    BY <2>1, FlatAssumption DEF FlatFiles
  <2>4. JobShape
    BY <2>1 DEF JobShape, NoJob, JobFields, IsFcn
  <2> QED BY <2>1, <2>2, <2>3, <2>4 DEF ImportIInv, FlatCopy, Listed, Placed, Unfinished,
             Unused, Grown, InJob, Importing, RolledBackMeansAsBefore
<1>2. ImportIInv /\ SettingsIInv /\ [Next]_vars => ImportIInv'
  BY StepKeeps DEF SettingsIInv
<1> QED BY <1>1, <1>2, SettingsInvariance, PTL DEF Spec

-----------------------------------------------------------------------------
(* No step of any tool removes or changes an object of a card that the job *)
(* in hand has not made and recorded itself (save_transfer_psu.c:310-316,  *)
(* card_image_fs.c:706-711), for every image, container and card.          *)
THEOREM SavesAlwaysKept == Spec => SavesKept
<1>1. ImportIInv /\ SettingsIInv /\ [Next]_vars =>
        [\A c \in Cards : \A p \in DOMAIN card[c] :
            (p \notin DOMAIN card'[c] \/ card'[c][p] # card[c][p])
                => p \in ToSet(job.created)]_vars
  BY StepKeeps DEF SettingsIInv, SavesStep, Created
<1> QED BY <1>1, ImportInvariance, SettingsInvariance, PTL DEF Spec, SavesKept

(* An import that failed and reports no error of its rollback left the     *)
(* card as it found it, but for a directory made when the table of created *)
(* objects was full (app_main_v2.c:262); the user puts no other card in    *)
(* while the result is shown.                                              *)
THEOREM FailedImportRestores ==
    ASSUME "done" \notin WaitPoints
    PROVE Spec => []RolledBackMeansAsBefore
<1>1. ImportIInv => RolledBackMeansAsBefore
  BY DEF ImportIInv
<1> QED BY <1>1, ImportInvariance, PTL

-----------------------------------------------------------------------------
(* Proofs about the whole copy: an import that reports PASS has left the   *)
(* card with what it held and all of the chosen saves, for every image,    *)
(* container and card.  First, where the walk of an image is: every object *)
(* is done, being done, or still ahead.                                    *)

WalkStack == Seq([dir : DOMAIN ImageDir, next : Nat])
Entry(d, i) == Append(d, ImageDir[d][i])
(* The entry a directory of the walk goes on with.                         *)
NextOf(st, k) == IF k = Len(st) THEN st[k].next ELSE st[k].next + 1
InRoot(st, td, q) == \E i \in DOMAIN td : (st = <<>> \/ i > 1) /\ q[1] = td[i]
InFrame(st, k, q) ==
    \E i \in DOMAIN ImageDir[st[k].dir] :
        NextOf(st, k) <= i /\ IsPrefix(Entry(st[k].dir, i), q)
Ahead(st, td, q) == InRoot(st, td, q) \/ \E k \in DOMAIN st : InFrame(st, k, q)
DirsOf(st) == {st[k].dir : k \in DOMAIN st}

LEMMA StackFacts ==
    ASSUME NEW st \in WalkStack
    PROVE /\ Len(st) \in Nat /\ DOMAIN st = 1..Len(st)
          /\ \A k \in DOMAIN st : /\ st[k] \in [dir : DOMAIN ImageDir, next : Nat]
                                  /\ st[k].dir \in DOMAIN ImageDir /\ st[k].next \in Nat
          /\ DirsOf(st) \subseteq DOMAIN ImageDir
          /\ st # <<>> => /\ Len(st) \in DOMAIN st /\ Last(st) = st[Len(st)]
                          /\ Last(st).dir \in DirsOf(st)
<1> DEFINE R == [dir : DOMAIN ImageDir, next : Nat]
<1>1. st \in Seq(R)
  BY DEF WalkStack
<1> HIDE DEF R
<1>2. Len(st) \in Nat /\ DOMAIN st = 1..Len(st) /\ \A k \in 1..Len(st) : st[k] \in R
  BY <1>1, LenProperties, ElementOfSeq
<1>3. st # <<>> => Len(st) # 0
  BY <1>1, EmptySeq
<1>4. st # <<>> => Len(st) \in DOMAIN st
  BY <1>2, <1>3
<1>5. Last(st) = st[Len(st)]
  BY DEF Last
<1>6. \A k \in DOMAIN st : st[k].dir \in DOMAIN ImageDir /\ st[k].next \in Nat
  BY <1>2 DEF R
<1> QED BY <1>2, <1>4, <1>5, <1>6 DEF R, DirsOf

LEMMA PushFacts ==
    ASSUME NEW st \in WalkStack, NEW f, f \in [dir : DOMAIN ImageDir, next : Nat],
           NEW up, up = Append(st, f)
    PROVE /\ up \in WalkStack /\ Len(up) = Len(st) + 1 /\ up # <<>>
          /\ up[Len(st) + 1] = f /\ \A k \in DOMAIN st : up[k] = st[k]
          /\ DirsOf(up) = DirsOf(st) \cup {f.dir}
<1> DEFINE R == [dir : DOMAIN ImageDir, next : Nat]
<1>1. st \in Seq(R) /\ Len(st) \in Nat /\ DOMAIN st = 1..Len(st)
  BY StackFacts DEF WalkStack
<1>2. f \in R
  OBVIOUS
<1> HIDE DEF R
<1>3. /\ up \in Seq(R) /\ Len(up) = Len(st) + 1
      /\ \A i \in 1..(Len(st) + 1) : up[i] = IF i <= Len(st) THEN st[i] ELSE f
  BY <1>1, <1>2, AppendProperties
<1>4. up[Len(st) + 1] = f /\ \A k \in 1..Len(st) : up[k] = st[k]
  BY <1>1, <1>3
<1>5. DOMAIN up = 1..(Len(st) + 1) /\ up # <<>>
  BY <1>1, <1>3, LenProperties, EmptySeq
<1>6. 1..(Len(st) + 1) = (1..Len(st)) \cup {Len(st) + 1}
  BY <1>1
<1>7. DirsOf(up) = DirsOf(st) \cup {f.dir}
  BY <1>1, <1>4, <1>5, <1>6 DEF DirsOf
<1>8. up \in WalkStack
  BY <1>3 DEF WalkStack, R
<1> QED BY <1>3, <1>4, <1>5, <1>7, <1>8

LEMMA PushDirs ==
    ASSUME NEW st \in WalkStack, NEW p \in DOMAIN ImageDir, NEW f,
           f \in [dir : DOMAIN ImageDir, next : Nat], f.dir = p, NEW up, up = Append(st, f)
    PROVE DirsOf(up) = DirsOf(st) \cup {p}
BY PushFacts

LEMMA AdvanceFacts ==
    ASSUME NEW st \in WalkStack, st # <<>>
    PROVE /\ Advance(st) \in WalkStack /\ Len(Advance(st)) = Len(st) /\ Advance(st) # <<>>
          /\ Advance(st)[Len(st)].dir = st[Len(st)].dir
          /\ Advance(st)[Len(st)].next = st[Len(st)].next + 1
          /\ \A k \in 1..Len(st) : k # Len(st) => Advance(st)[k] = st[k]
          /\ DirsOf(Advance(st)) = DirsOf(st)
<1> DEFINE D == DOMAIN ImageDir
           n == Len(st)
           u == Advance(st)
<1>1. n \in Nat /\ DOMAIN st = 1..n /\ n \in DOMAIN st
      /\ st[n] \in [dir : D, next : Nat]
  BY StackFacts
<1>2. u = [st EXCEPT ![n] = [st[n] EXCEPT !.next = @ + 1]]
  BY DEF Advance
<1>3. st \in Seq([dir : D, next : Nat])
  BY DEF WalkStack
<1> HIDE DEF D
<1>4. u \in Seq([dir : D, next : Nat]) /\ u # <<>>
  BY <1>3, AdvanceTyped
<1> HIDE DEF n, u
<1>5. /\ DOMAIN u = DOMAIN st /\ u[n].dir = st[n].dir /\ u[n].next = st[n].next + 1
      /\ \A k \in 1..n : k # n => u[k] = st[k]
  BY <1>1, <1>2
<1>6. Len(u) = n
  BY <1>1, <1>4, <1>5, LenProperties
<1>7. \A k \in DOMAIN st : u[k].dir = st[k].dir
  BY <1>1, <1>5
<1>8. DirsOf(u) = DirsOf(st)
  BY <1>5, <1>7 DEF DirsOf
<1>9. u \in WalkStack
  BY <1>4 DEF WalkStack, D
<1> QED BY <1>4, <1>5, <1>6, <1>8, <1>9 DEF n, u

LEMMA FrontStack ==
    ASSUME NEW st \in WalkStack, st # <<>>
    PROVE /\ Front(st) \in WalkStack /\ Len(Front(st)) = Len(st) - 1
          /\ \A k \in 1..(Len(st) - 1) : Front(st)[k] = st[k]
          /\ DirsOf(st) = DirsOf(Front(st)) \cup {Last(st).dir}
<1> DEFINE R == [dir : DOMAIN ImageDir, next : Nat]
           n == Len(st)
           u == Front(st)
           m == n - 1
<1>1. st \in Seq(R)
  BY DEF WalkStack
<1>2. n \in Nat /\ DOMAIN st = 1..n /\ n \in DOMAIN st /\ Last(st) = st[n]
  BY StackFacts
<1> HIDE DEF R
<1>3. st \in Seq(ToSet(st))
  <2>1. \A k \in 1..n : st[k] \in ToSet(st)
    BY <1>2 DEF ToSet
  <2>2. st = [k \in 1..n |-> st[k]]
    BY <1>1, <1>2
  <2> QED BY <1>2, <2>1, <2>2
<1>4. u \in Seq(R)
  BY <1>1, LastTyped
<1>5. Len(u) = m /\ \A i \in 1..m : u[i] = st[i]
  BY <1>3, FrontFacts
<1> HIDE DEF u
<1>6. DOMAIN u = 1..m
  BY <1>4, <1>5, LenProperties
<1>7. 1..n = (1..m) \cup {n}
  BY <1>2
<1> HIDE DEF m
<1>8. DirsOf(st) = DirsOf(u) \cup {Last(st).dir}
  BY <1>2, <1>5, <1>6, <1>7 DEF DirsOf
<1>9. u \in WalkStack
  BY <1>4 DEF WalkStack, R
<1> QED BY <1>5, <1>8, <1>9 DEF u, m, n

LEMMA RootPrefix ==
    ASSUME NEW q, IsPath(q), NEW r, r = <<q[1]>>
    PROVE IsPrefix(r, q)
<1> DEFINE S == ToSet(q)
           u == SubSeq(q, 1, 1)
<1>1. q \in Seq(S) /\ Len(q) \in Nat /\ 1 <= Len(q) /\ DOMAIN q = 1..Len(q)
  BY PathFacts DEF IsPath
<1>2. q[1] \in S
  BY <1>1 DEF ToSet
<1> HIDE DEF S
<1>3. r \in Seq(S) /\ Len(r) = 1 /\ r[1] = q[1]
  BY <1>2
<1>4. \A i \in 1..1 : q[i] \in S
  BY <1>2
<1>5. u \in Seq(S) /\ Len(u) = 1 /\ u[1] = q[1]
  <2>1. 1 \in Int OBVIOUS
  <2>2. /\ SubSeq(q, 1, 1) \in Seq(S)
        /\ Len(SubSeq(q, 1, 1)) = IF 1 <= 1 THEN 1 - 1 + 1 ELSE 0
        /\ \A i \in 1..(1 - 1 + 1) : SubSeq(q, 1, 1)[i] = q[1 + i - 1]
    BY <1>4, <2>1, SubSeqProperties
  <2> QED BY <2>2
<1> HIDE DEF u
<1>6. u = r
  BY <1>3, <1>5, SeqEqual
<1>7. SubSeq(r, 1, 1) = r
  BY <1>3, SubSeqFull
<1> QED BY <1>1, <1>3, <1>6, <1>7 DEF IsPrefix, u

(* A directory that has other objects below it lists the way to each.      *)
LEMMA ListedBelow ==
    ASSUME NEW d \in DOMAIN ImageDir, NEW q \in DOMAIN ImageTree, q # d, IsPrefix(d, q)
    PROVE \E i \in DOMAIN ImageDir[d] : i \in Nat /\ 1 <= i /\ IsPrefix(Entry(d, i), q)
<1>1. PICK i \in DOMAIN ImageDir[d] : IsPrefix(Entry(d, i), q)
  BY ListingAssumption DEF Entry
<1>2. ImageDir[d] \in Seq(ToSet(ImageDir[d]))
  BY ListingAssumption
<1>3. DOMAIN ImageDir[d] = 1..Len(ImageDir[d]) /\ Len(ImageDir[d]) \in Nat
  BY <1>2, LenProperties
<1> QED BY <1>1, <1>3

(* Entering a save or a directory leaves only itself to be done.           *)
LEMMA FirstAhead ==
    ASSUME NEW st \in WalkStack, st = <<>>, NEW td, td \in Seq(ToSet(td)), td # <<>>,
           NEW q \in DOMAIN ImageTree, Ahead(st, td, q),
           NEW p \in DOMAIN ImageDir, p = <<Head(td)>>, q # p,
           NEW f, f \in [dir : DOMAIN ImageDir, next : Nat], f.dir = p, f.next = 1,
           NEW up, up = Append(st, f)
    PROVE Ahead(up, td, q)
<1>1. Len(st) = 0 /\ DOMAIN st = {}
  <2>1. Len(st) = 0 BY EmptySeq
  <2>2. DOMAIN st = 1..Len(st) BY StackFacts
  <2> QED BY <2>1, <2>2
<1>2. /\ up \in WalkStack /\ Len(up) = 1 /\ up[1].dir = p /\ up[1].next = 1
  <2>1. up \in WalkStack /\ Len(up) = Len(st) + 1
    BY PushFacts
  <2>3. up # <<>>
    BY PushFacts
  <2>4. up[Len(st) + 1] = f
    BY PushFacts
  <2>2. Len(st) + 1 = 1
    BY <1>1
  <2> QED BY <2>1, <2>2, <2>4
<1>3. DOMAIN up = 1..1
  BY <1>2, StackFacts
<1>4. DOMAIN td = 1..Len(td) /\ Len(td) \in Nat \ {0} /\ Head(td) = td[1]
  BY EmptySeq, LenProperties
<1>5. PICK i \in DOMAIN td : q[1] = td[i]
  BY <1>1 DEF Ahead, InRoot
<1>6. CASE i > 1
  BY <1>5, <1>6 DEF Ahead, InRoot
<1>7. CASE i = 1
  <2>1. p = <<q[1]>>
    BY <1>4, <1>5, <1>7
  <2>2. IsPath(q)
    BY ListingAssumption
  <2>3. IsPrefix(p, q)
    BY <2>1, <2>2, RootPrefix
  <2>4. PICK k \in DOMAIN ImageDir[p] : k \in Nat /\ 1 <= k /\ IsPrefix(Entry(p, k), q)
    BY <2>3, ListedBelow
  <2>5. NextOf(up, 1) = 1
    BY <1>2 DEF NextOf
  <2>6. InFrame(up, 1, q)
    BY <1>2, <2>4, <2>5 DEF InFrame
  <2> QED BY <1>3, <2>6 DEF Ahead
<1> QED BY <1>4, <1>5, <1>6, <1>7

LEMMA PushAhead ==
    ASSUME NEW st \in WalkStack, st # <<>>, NEW td, NEW q \in DOMAIN ImageTree,
           Ahead(st, td, q),
           NEW p \in DOMAIN ImageDir, p = Entry(Last(st).dir, Last(st).next), q # p,
           NEW f, f \in [dir : DOMAIN ImageDir, next : Nat], f.dir = p, f.next = 1,
           NEW up, up = Append(st, f)
    PROVE Ahead(up, td, q)
<1> DEFINE n == Len(st)
<1>1. /\ n \in Nat /\ n >= 1 /\ DOMAIN st = 1..n /\ Last(st) = st[n]
      /\ \A k \in 1..n : st[k].next \in Nat /\ st[k].dir \in DOMAIN ImageDir
  BY StackFacts
<1>2. /\ up \in WalkStack /\ Len(up) = n + 1 /\ up # <<>>
      /\ up[n + 1].dir = p /\ up[n + 1].next = 1
      /\ \A k \in 1..n : up[k] = st[k]
  <2>1. up \in WalkStack /\ Len(up) = Len(st) + 1
    BY PushFacts
  <2>3. up # <<>>
    BY PushFacts
  <2>4. up[Len(st) + 1] = f
    BY PushFacts
  <2>2. \A k \in DOMAIN st : up[k] = st[k]
    BY PushFacts
  <2> QED BY <1>1, <2>1, <2>2, <2>3, <2>4
<1>3. DOMAIN up = 1..(n + 1)
  BY <1>2, StackFacts
<1>4. CASE InRoot(st, td, q)
  BY <1>2, <1>4 DEF Ahead, InRoot
<1>5. ASSUME NEW k \in 1..n, InFrame(st, k, q)
      PROVE Ahead(up, td, q)
  <2>1. PICK i \in DOMAIN ImageDir[st[k].dir] :
           NextOf(st, k) <= i /\ IsPrefix(Entry(st[k].dir, i), q)
    BY <1>5 DEF InFrame
  <2>2. up[k] = st[k] /\ k \in DOMAIN up /\ k # n + 1
    BY <1>1, <1>2, <1>3, <1>5
  <2>3. NextOf(up, k) = st[k].next + 1
    BY <1>2, <2>2 DEF NextOf
  <2>4. i \in Nat /\ st[k].next \in Nat
    <3>1. ImageDir[st[k].dir] \in Seq(ToSet(ImageDir[st[k].dir]))
      BY <1>1, ListingAssumption
    <3>2. DOMAIN ImageDir[st[k].dir] = 1..Len(ImageDir[st[k].dir])
      BY <3>1, LenProperties
    <3> QED BY <1>1, <2>1, <3>1, <3>2, LenProperties
  <2>5. CASE NextOf(up, k) <= i
    <3>1. InFrame(up, k, q)
      BY <2>1, <2>2, <2>5 DEF InFrame
    <3> QED BY <2>2, <3>1 DEF Ahead
  <2>6. CASE ~(NextOf(up, k) <= i)
    <3>1. k = n /\ i = st[n].next
      <4>1. CASE k = n
        <5>1. st[n].next <= i
          BY <2>1, <4>1 DEF NextOf
        <5> QED BY <2>3, <2>4, <2>6, <4>1, <5>1
      <4>2. CASE k # n
        <5>1. st[k].next + 1 <= i
          BY <2>1, <4>2 DEF NextOf
        <5> QED BY <2>3, <2>6, <5>1
      <4> QED BY <4>1, <4>2
    <3>2. IsPrefix(p, q)
      BY <1>1, <2>1, <3>1
    <3>3. PICK j \in DOMAIN ImageDir[p] : j \in Nat /\ 1 <= j /\ IsPrefix(Entry(p, j), q)
      BY <3>2, ListedBelow
    <3>4. NextOf(up, n + 1) = 1
      BY <1>2 DEF NextOf
    <3>5. InFrame(up, n + 1, q)
      BY <1>2, <3>3, <3>4 DEF InFrame
    <3>6. n + 1 \in DOMAIN up
      BY <1>1, <1>3
    <3> QED BY <3>5, <3>6 DEF Ahead
  <2> QED BY <2>5, <2>6
<1> QED BY <1>1, <1>4, <1>5 DEF Ahead

(* A file that is done is not ahead any more, and nothing else goes.       *)
LEMMA AdvanceAhead ==
    ASSUME NEW st \in WalkStack, st # <<>>, NEW td, NEW q \in DOMAIN ImageTree,
           Ahead(st, td, q),
           NEW p \in DOMAIN ImageData, p = Entry(Last(st).dir, Last(st).next), q # p
    PROVE Ahead(Advance(st), td, q)
<1> DEFINE n == Len(st)
           u == Advance(st)
<1>1. /\ n \in Nat /\ n >= 1 /\ DOMAIN st = 1..n /\ Last(st) = st[n]
      /\ \A k \in 1..n : st[k].next \in Nat /\ st[k].dir \in DOMAIN ImageDir
  BY StackFacts
<1>2. /\ u \in WalkStack /\ Len(u) = n /\ u # <<>>
      /\ u[n].dir = st[n].dir /\ u[n].next = st[n].next + 1
      /\ \A k \in 1..n : k # n => u[k] = st[k]
  BY AdvanceFacts
<1> HIDE DEF u
<1>3. DOMAIN u = 1..n
  BY <1>2, StackFacts
<1>4. CASE InRoot(st, td, q)
  BY <1>2, <1>4 DEF Ahead, InRoot, u
<1>5. ASSUME NEW k \in 1..n, InFrame(st, k, q)
      PROVE InFrame(u, k, q)
  <2>1. PICK i \in DOMAIN ImageDir[st[k].dir] :
           NextOf(st, k) <= i /\ IsPrefix(Entry(st[k].dir, i), q)
    BY <1>5 DEF InFrame
  <2>2. i \in Nat /\ st[k].next \in Nat
    <3>1. ImageDir[st[k].dir] \in Seq(ToSet(ImageDir[st[k].dir]))
      BY <1>1, ListingAssumption
    <3>2. DOMAIN ImageDir[st[k].dir] = 1..Len(ImageDir[st[k].dir])
      BY <3>1, LenProperties
    <3> QED BY <1>1, <2>1, <3>1, <3>2, LenProperties
  <2>3. u[k].dir = st[k].dir
    BY <1>2
  <2>4. CASE k # n
    <3>1. NextOf(u, k) = NextOf(st, k)
      BY <1>2, <2>4 DEF NextOf
    <3> QED BY <2>1, <2>3, <3>1 DEF InFrame
  <2>5. CASE k = n
    <3>1. st[n].next <= i
      BY <2>1, <2>5 DEF NextOf
    <3>2. i # st[n].next
      <4>1. SUFFICES ASSUME i = st[n].next PROVE FALSE
        OBVIOUS
      <4>2. IsPrefix(p, q)
        BY <1>1, <2>1, <2>5, <4>1
      <4> QED BY <4>2, ListingAssumption
    <3>3. NextOf(u, n) = st[n].next + 1
      BY <1>2 DEF NextOf
    <3>4. st[n].next + 1 <= i
      BY <2>2, <2>5, <3>1, <3>2
    <3> QED BY <2>1, <2>3, <2>5, <3>3, <3>4 DEF InFrame
  <2> QED BY <2>4, <2>5
<1> QED BY <1>1, <1>3, <1>4, <1>5 DEF Ahead, u

(* Nothing is ahead in a directory whose entries are done.                 *)
LEMMA LeaveAhead ==
    ASSUME NEW st \in WalkStack, st # <<>>, Last(st).next > Len(ImageDir[Last(st).dir]),
           NEW td, td \in Seq(ToSet(td)), td # <<>>, NEW q \in DOMAIN ImageTree,
           Ahead(st, td, q), NEW up, up = Front(st)
    PROVE IF up = <<>> THEN Ahead(up, Tail(td), q) ELSE Ahead(Advance(up), td, q)
<1> DEFINE n == Len(st)
           m == n - 1
<1>1. /\ n \in Nat /\ n >= 1 /\ DOMAIN st = 1..n /\ Last(st) = st[n]
      /\ \A k \in 1..n : st[k].next \in Nat /\ st[k].dir \in DOMAIN ImageDir
  BY StackFacts
<1>2. up \in WalkStack /\ Len(up) = m /\ \A k \in 1..m : up[k] = st[k]
  BY FrontStack
<1>3. DOMAIN up = 1..m /\ m \in Nat
  BY <1>1, <1>2, StackFacts
<1>4. ~InFrame(st, n, q)
  <2>1. SUFFICES ASSUME InFrame(st, n, q) PROVE FALSE
    OBVIOUS
  <2> DEFINE l == ImageDir[st[n].dir]
  <2>2. PICK i \in DOMAIN l : NextOf(st, n) <= i
    BY <2>1 DEF InFrame
  <2>3. l \in Seq(ToSet(l))
    BY <1>1, ListingAssumption
  <2>4. DOMAIN l = 1..Len(l) /\ Len(l) \in Nat
    BY <2>3, LenProperties
  <2>5. NextOf(st, n) = st[n].next /\ st[n].next > Len(l) /\ st[n].next \in Nat
    BY <1>1 DEF NextOf
  <2> HIDE DEF l
  <2> QED BY <2>2, <2>4, <2>5
<1>5. CASE InRoot(st, td, q)
  <2>1. PICK i \in DOMAIN td : i > 1 /\ q[1] = td[i]
    BY <1>5 DEF InRoot
  <2>2. CASE up = <<>>
    <3> DEFINE r == Tail(td)
               j == i - 1
    <3>1. Len(td) \in Nat /\ DOMAIN td = 1..Len(td)
      BY LenProperties
    <3>2. Len(r) = Len(td) - 1 /\ DOMAIN r = 1..(Len(td) - 1) /\ r[j] = td[j + 1]
      <4>1. r \in Seq(ToSet(td)) /\ Len(r) = Len(td) - 1
            /\ \A k \in 1..(Len(td) - 1) : r[k] = td[k + 1]
        BY HeadTailProperties
      <4>2. j \in 1..(Len(td) - 1)
        BY <2>1, <3>1
      <4> QED BY <4>1, <4>2, LenProperties
    <3>3. j \in DOMAIN r /\ r[j] = q[1]
      BY <2>1, <3>1, <3>2
    <3> HIDE DEF r, j
    <3>4. InRoot(up, r, q)
      BY <2>2, <3>3 DEF InRoot
    <3> QED BY <2>2, <3>4 DEF Ahead, r
  <2>3. CASE up # <<>>
    BY <2>1, <2>3 DEF Ahead, InRoot
  <2> QED BY <2>2, <2>3
<1>6. ASSUME NEW k \in 1..n, InFrame(st, k, q)
      PROVE up # <<>> /\ Ahead(Advance(up), td, q)
  <2>1. k \in 1..m
    BY <1>1, <1>4, <1>6
  <2>2. up # <<>> /\ m # 0
    BY <1>2, <1>3, <2>1, EmptySeq
  <2> DEFINE u == Advance(up)
  <2>3. /\ u \in WalkStack /\ Len(u) = m
        /\ u[m].dir = up[m].dir /\ u[m].next = up[m].next + 1
        /\ \A l \in 1..m : l # m => u[l] = up[l]
    BY <1>2, <2>2, AdvanceFacts
  <2> HIDE DEF u
  <2>4. DOMAIN u = 1..m
    BY <2>3, StackFacts
  <2>5. k # n /\ u[k].dir = st[k].dir
    BY <1>2, <1>3, <2>1, <2>3
  <2>6. NextOf(st, k) = st[k].next + 1
    BY <2>5 DEF NextOf
  <2>7. NextOf(u, k) = st[k].next + 1
    <3>1. CASE k = m
      BY <1>2, <2>1, <2>3, <3>1 DEF NextOf
    <3>2. CASE k # m
      BY <1>2, <2>1, <2>3, <3>2 DEF NextOf
    <3> QED BY <3>1, <3>2
  <2>8. InFrame(u, k, q)
    BY <1>6, <2>5, <2>6, <2>7 DEF InFrame
  <2> QED BY <2>1, <2>2, <2>4, <2>8 DEF Ahead, u
<1> QED BY <1>1, <1>5, <1>6 DEF Ahead

-----------------------------------------------------------------------------
(* What a command that is done has left on the card.                       *)

LEMMA PutFacts ==
    ASSUME NEW tree, NEW p, NEW x
    PROVE /\ DOMAIN Put(tree, p, x) = DOMAIN tree \cup {p} /\ Put(tree, p, x)[p] = x
          /\ \A q \in DOMAIN tree : q # p => Put(tree, p, x)[q] = tree[q]
BY DEF Put

LEMMA HereAfter ==
    ASSUME Trees, inserted \in Cards, inserted' = inserted, NEW rc, NEW tree, NEW n,
           NEW o, o = Outcome(rc, tree, n), card' = o.card
    PROVE Here' = tree /\ o.rc = rc
BY DEF Trees, Outcome, Here

LEMMA MkDirDone ==
    ASSUME Trees, inserted \in Cards \cup {NoCard}, inserted' = inserted, NEW p,
           NEW o \in McMkDir(p), o.rc = Ok, card' = o.card
    PROVE inserted # NoCard /\ Here' = Put(Here, p, Folder("fresh"))
<1>1. inserted # NoCard
  BY DEF McMkDir, Command, Failed, Ok
<1>2. \/ o = Outcome(Failed, Here, 0)
      \/ o = Outcome(Ok, Put(Here, p, Folder("fresh")), 0)
      \/ o = Outcome(Failed, Here, 1)
  BY <1>1 DEF McMkDir, Command
<1> QED BY <1>1, <1>2, HereAfter DEF Failed, Ok

LEMMA CreateDone ==
    ASSUME Trees, inserted \in Cards \cup {NoCard}, inserted' = inserted, NEW p,
           NEW o \in McCreate(p), o.rc = Ok, card' = o.card
    PROVE inserted # NoCard /\ Here' = Put(Here, p, Object("empty", "fresh"))
<1>1. inserted # NoCard
  BY DEF McCreate, Command, Failed, Ok
<1>2. \/ o = Outcome(Ok, Put(Here, p, Object("empty", "fresh")), 0)
      \/ o = Outcome(Failed, Here, 1)
  BY <1>1 DEF McCreate, Command
<1> QED BY <1>1, <1>2, HereAfter DEF Failed, Ok

LEMMA WriteStored ==
    ASSUME Trees, inserted \in Cards \cup {NoCard}, inserted' = inserted, NEW p, NEW d,
           NEW o \in McWrite(p, d), o.rc = Ok, card' = o.card
    PROVE inserted # NoCard /\ \E x : Here' = Put(Here, p, x)
<1>1. inserted # NoCard
  BY DEF McWrite, Command, Failed, Ok
<1>2. \E rc, x, n : o = Outcome(rc, Put(Here, p, x), n)
  BY <1>1 DEF McWrite, Command
<1> QED BY <1>1, <1>2, HereAfter

LEMMA SameDone ==
    ASSUME Trees, inserted \in Cards \cup {NoCard}, inserted' = inserted, NEW p, NEW d,
           NEW o \in McSame(p, d), o.rc = Ok, card' = o.card
    PROVE inserted # NoCard /\ Here' = Here /\ Here[p].data = d
<1>1. inserted # NoCard
  BY DEF McSame, Command, Failed, Ok
<1>2. \/ Here[p].data = d /\ o = Outcome(Ok, Here, 0)
      \/ o = Outcome(Failed, Here, 0)
      \/ o = Outcome(Failed, Here, 1)
  BY <1>1 DEF McSame, Command
<1> QED BY <1>1, <1>2, HereAfter DEF Failed, Ok

LEMMA SetInfoDone ==
    ASSUME Trees, inserted \in Cards \cup {NoCard}, inserted' = inserted, NEW p,
           NEW o \in McSetInfo(p), o.rc = Ok, card' = o.card
    PROVE inserted # NoCard /\ Here' = Put(Here, p, Object(Here[p].data, "source"))
<1>1. inserted # NoCard
  BY DEF McSetInfo, Command, Failed, Ok
<1>2. \/ o = Outcome(Ok, Put(Here, p, Object(Here[p].data, "source")), 0)
      \/ o = Outcome(Failed, Here, 1)
  BY <1>1 DEF McSetInfo, Command
<1> QED BY <1>1, <1>2, HereAfter DEF Failed, Ok

-----------------------------------------------------------------------------
(* What has been copied at every point of an import.  A directory being    *)
(* walked and the file in hand are not done yet.                           *)

Doing(p) == p \in DirsOf(job.stack) \/ (job.pc # "walk" /\ p = job.path)
Copied ==
    inserted # NoCard =>
        /\ \A p \in Created : Doing(p) \/ Here[p] = ImageTree[p]
        /\ \A p \in DirsOf(job.stack) : Here[p].data = "dir"
        /\ job.pc = "stamp" => Here[job.path].data = ImageData[job.path]
WalkAt ==
    /\ job.stack \in WalkStack /\ job.todo \in Seq(ToSet(job.todo))
    /\ ToSet(job.todo) \subseteq ToSet(ImageSaves)
    /\ job.stack # <<>> => job.todo # <<>>
    /\ job.pc # "walk" => /\ job.path = Entry(Last(job.stack).dir, Last(job.stack).next)
                          /\ job.path \in DOMAIN ImageData
Wants(T) ==
    /\ job.want = Onto(job.before, TreeOf(T)) /\ ToSet(job.todo) \subseteq T
    /\ Created \subseteq DOMAIN TreeOf(T)
    /\ \A q \in DOMAIN TreeOf(T) : q \in Created \/ Ahead(job.stack, job.todo, q)
WalkInv ==
    op = "image" /\ job.pc \in Active =>
        WalkAt /\ Copied /\ \E T \in SUBSET ToSet(ImageSaves) : Wants(T)
Marked ==
    op = "image" /\ job.pc = "selected" =>
        job.todo \in Seq(ToSet(job.todo)) /\ ToSet(job.todo) \subseteq ToSet(ImageSaves)

PsuWants ==
    /\ job.want = Onto(job.before, PsuTree(Source))
    /\ Created \subseteq DOMAIN PsuTree(Source)
    /\ IsFiniteSet(Created) /\ Cardinality(Created) = Len(job.created)
    /\ job.pc # "walk" => job.path \in DOMAIN Source.files
PsuCopiedSoFar ==
    inserted # NoCard =>
        /\ \A p \in Created : \/ p = <<Source.save>> \/ (job.pc # "walk" /\ p = job.path)
                              \/ Here[p] = Object(Source.files[p], "source")
        /\ <<Source.save>> \in Created => Here[<<Source.save>>].data = "dir"
        /\ job.pc = "stamp" => Here[job.path].data = Source.files[job.path]
PsuInv == op = "import" /\ job.pc \in Active => PsuWants /\ PsuCopiedSoFar
FiniteFiles == \A n \in DOMAIN psu : IsFiniteSet(DOMAIN psu[n].files)

CopyIInv ==
    /\ WalkInv /\ Marked /\ PsuInv /\ FiniteFiles
    /\ "done" \notin WaitPoints => PassMeansCopied

(* Outside the copy there is nothing to show.                              *)
LEMMA NotCopying ==
    ASSUME FiniteFiles', job'.pc \notin Active \cup {"selected"}, job'.res # "ok"
    PROVE CopyIInv'
BY DEF CopyIInv, WalkInv, Marked, PsuInv, PassMeansCopied

LEMMA CopyFails ==
    ASSUME ImportIInv, CopyIInv, Importing, job.pc \in Active, op' = op, psu' = psu,
           job' = Fails(job)
    PROVE CopyIInv'
<1>1. job'.pc = "rollback" /\ job'.res = "none"
  BY JobFails
<1>2. FiniteFiles'
  BY DEF CopyIInv, FiniteFiles
<1> QED BY <1>1, <1>2, NotCopying DEF Active

LEMMA NotImporting ==
    ASSUME op' \notin {"image", "import"}, FiniteFiles'
    PROVE CopyIInv'
BY DEF CopyIInv, WalkInv, Marked, PsuInv, PassMeansCopied, Importing

LEMMA WalkGoesOn ==
    ASSUME op' = "image", job'.res = "none", FiniteFiles', job'.pc \in Active,
           WalkAt', Copied', \E T \in SUBSET ToSet(ImageSaves) : Wants(T)'
    PROVE CopyIInv'
BY DEF CopyIInv, WalkInv, Marked, PsuInv, PassMeansCopied, Active

(* What is known while the image is walked.                                *)
LEMMA WalkFacts ==
    ASSUME ImportIInv, CopyIInv, op = "image", job.pc \in Active
    PROVE /\ WalkAt /\ Copied /\ \E T \in SUBSET ToSet(ImageSaves) : Wants(T)
          /\ Importing /\ Trees /\ inserted \in Cards \cup {NoCard} /\ FiniteFiles
          /\ job.res = "none" /\ JobShape /\ job.created \in Seq(Created)
          /\ inserted # NoCard => Created \subseteq DOMAIN Here
          /\ job.pc # "walk" => job.path \in Created
          /\ DirsOf(job.stack) \subseteq Created
          /\ \A T : Wants(T) => \A q \in Created : q \in DOMAIN ImageTree /\ q[1] \in T
<1>1. /\ WalkAt /\ Copied /\ \E T \in SUBSET ToSet(ImageSaves) : Wants(T)
      /\ Importing /\ Trees /\ inserted \in Cards \cup {NoCard} /\ FiniteFiles
      /\ job.res = "none" /\ JobShape /\ job.created \in Seq(Created)
      /\ inserted # NoCard => Created \subseteq DOMAIN Here
      /\ job.pc # "walk" => job.path \in Created
      /\ job.stack \in Seq([dir : Created, next : Nat])
  BY DEF CopyIInv, WalkInv, ImportIInv, Placed, Unfinished, Importing, Listed, InJob, Active
<1>2. DirsOf(job.stack) \subseteq Created
  <2> DEFINE R == [dir : Created, next : Nat]
  <2>1. job.stack \in Seq(R) BY <1>1
  <2> HIDE DEF R
  <2>2. \A k \in DOMAIN job.stack : job.stack[k] \in R
    BY <2>1, ElementOfSeq, LenProperties
  <2> QED BY <2>2 DEF DirsOf, R
<1>3. \A T : Wants(T) => \A q \in Created : q \in DOMAIN ImageTree /\ q[1] \in T
  BY DEF Wants, TreeOf, Subtree
<1> QED BY <1>1, <1>2, <1>3

(* A directory was made: it is the new end of the walk.                    *)
LEMMA DirectoryCopied ==
    ASSUME ImportIInv, CopyIInv, At("image", "walk"), Stays, psu' = psu,
           NEW p \in DOMAIN ImageDir, MakeDirectory(p), job.todo # <<>>,
           \A T \in SUBSET ToSet(ImageSaves) : Wants(T) => p[1] \in T,
           NEW f, f = [dir |-> p, next |-> 1], NEW up, up = Append(job.stack, f),
           up \in WalkStack, up # <<>>, DirsOf(up) = DirsOf(job.stack) \cup {p},
           \A q \in DOMAIN ImageTree \ {p} :
              Ahead(job.stack, job.todo, q) => Ahead(up, job.todo, q)
    PROVE CopyIInv'
<1>1. /\ op = "image" /\ op' = op /\ inserted' = inserted /\ job.pc = "walk" /\ job.pc \in Active
  BY DEF At, Stays, Active
<1>2. /\ WalkAt /\ Copied /\ Importing /\ Trees /\ inserted \in Cards \cup {NoCard}
      /\ job.res = "none" /\ JobShape /\ job.created \in Seq(Created)
      /\ inserted # NoCard => Created \subseteq DOMAIN Here
      /\ DirsOf(job.stack) \subseteq Created
  BY <1>1, WalkFacts
<1>3. FiniteFiles'
  BY DEF CopyIInv, FiniteFiles
<1>4. PICK o \in McMkDir(p) :
         card' = o.card /\ job' = IF o.rc # Ok THEN Fails(job) ELSE Record(Entered(job, p), p)
  BY DEF MakeDirectory, Runs
<1>5. CASE o.rc # Ok
  BY <1>1, <1>2, <1>4, <1>5, CopyFails
<1>6. CASE o.rc = Ok /\ Len(job.created) = CreatedMax
  <2> DEFINE j == Entered(job, p)
  <2>1. /\ DOMAIN j = JobFields /\ IsFcn(j) /\ j.created = job.created /\ j.res = job.res
    BY <1>2 DEF JobShape, JobFields, IsFcn, Entered
  <2>2. job' = Record(j, p)
    BY <1>4, <1>6
  <2> HIDE DEF j
  <2>3. job' = [Fails(j) EXCEPT !.full = TRUE]
    BY <1>6, <2>1, <2>2 DEF Record
  <2>4. job'.pc = "rollback" /\ job'.res = job.res
    BY <2>1, <2>3 DEF Fails, JobFields
  <2> QED BY <1>2, <1>3, <2>4, NotCopying DEF Active
<1>7. CASE o.rc = Ok /\ Len(job.created) # CreatedMax
  <2>1. inserted # NoCard /\ Here' = Put(Here, p, Folder("fresh"))
    BY <1>1, <1>2, <1>4, <1>7, MkDirDone
  <2> DEFINE j == Entered(job, p)
  <2>2. /\ DOMAIN j = JobFields /\ IsFcn(j) /\ j.pc = job.pc /\ j.stack = up
        /\ \A x \in {"created", "res", "todo", "want", "before", "path"} : j[x] = job[x]
    BY <1>2 DEF JobShape, JobFields, IsFcn, Entered
  <2>3. job' = Record(j, p)
    BY <1>4, <1>7
  <2> HIDE DEF j
  <2>4. job' = [j EXCEPT !.created = Append(job.created, p)]
    BY <1>7, <2>2, <2>3 DEF Record
  <2>5. /\ job'.pc = "walk" /\ job'.stack = up /\ job'.res = "none" /\ job'.todo = job.todo
        /\ job'.want = job.want /\ job'.before = job.before
        /\ job'.created = Append(job.created, p)
    BY <1>1, <1>2, <2>2, <2>4 DEF JobFields
  <2>6. Created' = Created \cup {p}
    <3>1. ToSet(Append(job.created, p)) = Created \cup {p}
      BY <1>2, ListFacts DEF Created
    <3> QED BY <2>5, <3>1 DEF Created
  <2>10. WalkAt'
    BY <1>2, <2>5 DEF WalkAt
  <2>11. /\ Here'[p] = Folder("fresh") /\ \A q \in Created : q # p => Here'[q] = Here[q]
    <3> DEFINE x == Folder("fresh")
    <3>1. Here' = Put(Here, p, x) BY <2>1
    <3> HIDE DEF x
    <3>2. Here'[p] = x BY <3>1 DEF Put
    <3>3. \A q \in Created : q # p => Here'[q] = Here[q]
      BY <1>2, <2>1, <3>1 DEF Put
    <3> QED BY <3>2, <3>3 DEF x
  <2>12. Copied'
    <3>1. ASSUME NEW q \in Created' PROVE Doing(q)' \/ Here'[q] = ImageTree[q]
      <4>1. CASE q \in DirsOf(up)
        BY <2>5, <4>1 DEF Doing
      <4>2. CASE q \notin DirsOf(up)
        <5>1. q # p /\ q \in Created /\ q \notin DirsOf(job.stack)
          BY <2>6, <4>2
        <5>2. Here[q] = ImageTree[q]
          BY <1>1, <1>2, <2>1, <5>1 DEF Copied, Doing
        <5> QED BY <2>11, <5>1, <5>2
      <4> QED BY <4>1, <4>2
    <3>2. ASSUME NEW q \in DirsOf(up) PROVE Here'[q].data = "dir"
      <4>1. CASE q = p
        BY <2>11, <4>1 DEF Folder, Object
      <4>2. CASE q # p
        <5>1. q \in DirsOf(job.stack) /\ q \in Created
          BY <1>2, <4>2
        <5>2. Here[q].data = "dir"
          BY <1>2, <2>1, <5>1 DEF Copied
        <5> QED BY <2>11, <4>2, <5>1, <5>2
      <4> QED BY <4>1, <4>2
    <3> QED BY <2>5, <3>1, <3>2 DEF Copied
  <2>13. PICK T \in SUBSET ToSet(ImageSaves) : Wants(T)
    BY <1>1, WalkFacts
  <2>14. p \in DOMAIN ImageTree /\ p[1] \in T
    BY <2>13 DEF ImageTree
  <2>15. Wants(T)'
    <3>1. p \in DOMAIN TreeOf(T) /\ DOMAIN TreeOf(T) \subseteq DOMAIN ImageTree
      BY <2>14 DEF TreeOf, Subtree
    <3>2. \A q \in DOMAIN TreeOf(T) : q \in Created' \/ Ahead(up, job.todo, q)
      BY <2>6, <2>13, <3>1 DEF Wants
    <3> QED BY <2>5, <2>6, <2>13, <3>1, <3>2 DEF Wants
  <2>16. job'.pc \in Active
    BY <2>5 DEF Active
  <2> QED BY <1>1, <1>3, <2>5, <2>10, <2>12, <2>15, <2>16, WalkGoesOn
<1> QED BY <1>5, <1>6, <1>7

LEMMA SaveCopied ==
    ASSUME ImportIInv, CopyIInv, EnterSave, psu' = psu
    PROVE CopyIInv'
<1> DEFINE s == Head(job.todo)
           p == <<s>>
           f == [dir |-> p, next |-> 1]
<1>1. /\ At("image", "walk") /\ job.stack = <<>> /\ job.todo # <<>> /\ MakeDirectory(p) /\ Stays
      /\ op = "image" /\ job.pc \in Active
  BY DEF EnterSave, MakeDirectory, At, Active
<1>2. WalkAt
  BY <1>1, WalkFacts
<1>3. s \in ToSet(job.todo)
  BY <1>1, <1>2, EmptySeq, LenProperties DEF WalkAt, ToSet
<1>4. p \in DOMAIN ImageDir
  BY <1>2, <1>3, ListingAssumption DEF WalkAt
<1>5. \A T \in SUBSET ToSet(ImageSaves) : Wants(T) => p[1] \in T
  BY <1>3 DEF Wants
<1>6. /\ job.stack \in WalkStack /\ job.todo \in Seq(ToSet(job.todo))
      /\ f \in [dir : DOMAIN ImageDir, next : Nat] /\ f.dir = p /\ f.next = 1
  BY <1>2, <1>4 DEF WalkAt
<1>7. p = <<Head(job.todo)>> /\ f = [dir |-> p, next |-> 1]
  OBVIOUS
<1> DEFINE up == Append(job.stack, f)
<1>8. up = Append(job.stack, f)
  OBVIOUS
<1> HIDE DEF s, p, f, up
<1>9. ASSUME NEW q \in DOMAIN ImageTree \ {p}, Ahead(job.stack, job.todo, q)
      PROVE Ahead(up, job.todo, q)
  BY <1>1, <1>4, <1>6, <1>7, <1>8, <1>9, FirstAhead
<1>10. up \in WalkStack /\ up # <<>>
  BY <1>6, <1>8, PushFacts
<1>11. DirsOf(up) = DirsOf(job.stack) \cup {p}
  BY <1>4, <1>6, <1>8, PushDirs
<1> QED BY <1>1, <1>4, <1>5, <1>7, <1>8, <1>9, <1>10, <1>11, DirectoryCopied

LEMMA FirstOfEntry ==
    ASSUME NEW d, IsPath(d), NEW i
    PROVE Entry(d, i)[1] = d[1]
<1>1. d \in Seq(ToSet(d)) /\ Len(d) \in Nat \ {0}
  BY PathFacts DEF IsPath
<1> DEFINE x == ImageDir[d][i]
           S == ToSet(d) \cup {x}
<1>2. d \in Seq(S) /\ x \in S
  BY <1>1, SeqMonotonic
<1> HIDE DEF x, S
<1>3. \A k \in 1..(Len(d) + 1) : Append(d, x)[k] = IF k <= Len(d) THEN d[k] ELSE x
  BY <1>2, AppendProperties
<1> QED BY <1>1, <1>3 DEF Entry, x

LEMMA SubdirectoryCopied ==
    ASSUME ImportIInv, CopyIInv, EnterDirectory, psu' = psu
    PROVE CopyIInv'
<1> DEFINE p == NextEntry
           f == [dir |-> p, next |-> 1]
<1>1. /\ At("image", "walk") /\ job.stack # <<>> /\ MakeDirectory(p) /\ Stays
      /\ op = "image" /\ job.pc \in Active /\ p \in DOMAIN ImageDir
  BY DEF EnterDirectory, InDirectory, MakeDirectory, At, Active
<1>2. WalkAt /\ DirsOf(job.stack) \subseteq Created
      /\ \A T : Wants(T) => \A q \in Created : q \in DOMAIN ImageTree /\ q[1] \in T
  BY <1>1, WalkFacts
<1>3. p = Entry(Last(job.stack).dir, Last(job.stack).next)
  BY DEF NextEntry, Entry, Entries, Frame
<1>4. Last(job.stack).dir \in Created /\ IsPath(Last(job.stack).dir)
  BY <1>1, FrameCreated DEF Frame
<1>5. \A T \in SUBSET ToSet(ImageSaves) : Wants(T) => p[1] \in T
  BY <1>2, <1>3, <1>4, FirstOfEntry
<1>6. /\ job.stack \in WalkStack /\ job.todo # <<>>
      /\ f \in [dir : DOMAIN ImageDir, next : Nat] /\ f.dir = p /\ f.next = 1
  BY <1>1, <1>2 DEF WalkAt
<1>7. f = [dir |-> p, next |-> 1]
  OBVIOUS
<1> DEFINE up == Append(job.stack, f)
<1>8. up = Append(job.stack, f)
  OBVIOUS
<1> HIDE DEF p, f, up
<1>9. ASSUME NEW q \in DOMAIN ImageTree \ {p}, Ahead(job.stack, job.todo, q)
      PROVE Ahead(up, job.todo, q)
  BY <1>1, <1>3, <1>6, <1>8, <1>9, PushAhead
<1>10. up \in WalkStack /\ up # <<>>
  BY <1>6, <1>8, PushFacts
<1>11. DirsOf(up) = DirsOf(job.stack) \cup {p}
  BY <1>1, <1>6, <1>8, PushDirs
<1> QED BY <1>1, <1>5, <1>6, <1>7, <1>8, <1>9, <1>10, <1>11, DirectoryCopied

(* A file of the image: made, written, compared, its times set.            *)
LEMMA FileMade ==
    ASSUME ImportIInv, CopyIInv, CreateFile, psu' = psu
    PROVE CopyIInv'
<1> DEFINE p == NextEntry
<1>1. /\ op = "image" /\ op' = op /\ inserted' = inserted /\ job.pc = "walk" /\ job.pc \in Active
      /\ p \in DOMAIN ImageData /\ job.stack # <<>>
  BY DEF CreateFile, InDirectory, At, Stays, Active
<1>2. /\ WalkAt /\ Copied /\ Importing /\ Trees /\ inserted \in Cards \cup {NoCard}
      /\ job.res = "none" /\ JobShape /\ job.created \in Seq(Created)
      /\ inserted # NoCard => Created \subseteq DOMAIN Here
      /\ DirsOf(job.stack) \subseteq Created
      /\ \A T : Wants(T) => \A q \in Created : q \in DOMAIN ImageTree /\ q[1] \in T
  BY <1>1, WalkFacts
<1>3. FiniteFiles'
  BY DEF CopyIInv, FiniteFiles
<1>4. PICK o \in McCreate(p) :
         /\ card' = o.card
         /\ job' = IF o.rc # Ok THEN Fails(job)
                   ELSE Record([job EXCEPT !.pc = "write", !.path = p], p)
  BY DEF CreateFile, Runs
<1>5. p = Entry(Last(job.stack).dir, Last(job.stack).next)
  BY DEF NextEntry, Entry, Entries, Frame
<1>6. Last(job.stack).dir \in Created /\ IsPath(Last(job.stack).dir)
  BY <1>1, FrameCreated DEF Frame
<1>7. \A T \in SUBSET ToSet(ImageSaves) : Wants(T) => p[1] \in T
  BY <1>2, <1>5, <1>6, FirstOfEntry
<1>8. p \notin DirsOf(job.stack)
  BY <1>1, <1>2, StackFacts, ImageAssumption DEF WalkAt
<1> HIDE DEF p
<1>9. CASE o.rc # Ok
  BY <1>1, <1>2, <1>4, <1>9, CopyFails
<1>10. CASE o.rc = Ok /\ Len(job.created) = CreatedMax
  <2> DEFINE j == [job EXCEPT !.pc = "write", !.path = p]
  <2>1. /\ DOMAIN j = JobFields /\ IsFcn(j) /\ j.created = job.created /\ j.res = job.res
    BY <1>2 DEF JobShape, JobFields, IsFcn
  <2>2. job' = Record(j, p)
    BY <1>4, <1>10
  <2> HIDE DEF j
  <2>3. job' = [Fails(j) EXCEPT !.full = TRUE]
    BY <1>10, <2>1, <2>2 DEF Record
  <2>4. job'.pc = "rollback" /\ job'.res = job.res
    BY <2>1, <2>3 DEF Fails, JobFields
  <2> QED BY <1>2, <1>3, <2>4, NotCopying DEF Active
<1>11. CASE o.rc = Ok /\ Len(job.created) # CreatedMax
  <2> DEFINE x == Object("empty", "fresh")
  <2>1. inserted # NoCard /\ Here' = Put(Here, p, x)
    BY <1>1, <1>2, <1>4, <1>11, CreateDone
  <2> HIDE DEF x
  <2> DEFINE j == [job EXCEPT !.pc = "write", !.path = p]
  <2>2. /\ DOMAIN j = JobFields /\ IsFcn(j) /\ j.pc = "write" /\ j.path = p
        /\ \A f \in {"created", "res", "todo", "want", "before", "stack"} : j[f] = job[f]
    BY <1>2 DEF JobShape, JobFields, IsFcn
  <2>3. job' = Record(j, p)
    BY <1>4, <1>11
  <2> HIDE DEF j
  <2>4. job' = [j EXCEPT !.created = Append(job.created, p)]
    BY <1>11, <2>2, <2>3 DEF Record
  <2>5. /\ job'.pc = "write" /\ job'.path = p /\ job'.res = "none" /\ job'.todo = job.todo
        /\ job'.stack = job.stack /\ job'.want = job.want /\ job'.before = job.before
        /\ job'.created = Append(job.created, p)
    BY <1>2, <2>2, <2>4 DEF JobFields
  <2>6. Created' = Created \cup {p}
    <3>1. ToSet(Append(job.created, p)) = Created \cup {p}
      BY <1>2, ListFacts DEF Created
    <3> QED BY <2>5, <3>1 DEF Created
  <2>7. WalkAt'
    BY <1>1, <1>2, <1>5, <2>5 DEF WalkAt, Entry
  <2>8. \A q \in Created : q # p => Here'[q] = Here[q]
    BY <1>2, <2>1 DEF Put
  <2>9. Copied'
    <3>1. ASSUME NEW q \in Created' PROVE Doing(q)' \/ Here'[q] = ImageTree[q]
      <4>1. CASE q = p \/ q \in DirsOf(job.stack)
        BY <2>5, <4>1 DEF Doing
      <4>2. CASE q # p /\ q \notin DirsOf(job.stack)
        <5>1. q \in Created /\ Here[q] = ImageTree[q]
          BY <1>1, <1>2, <2>1, <2>6, <4>2 DEF Copied, Doing
        <5> QED BY <2>8, <4>2, <5>1
      <4> QED BY <4>1, <4>2
    <3>2. ASSUME NEW q \in DirsOf(job.stack) PROVE Here'[q].data = "dir"
      <4>1. q # p /\ q \in Created
        BY <1>2, <1>8
      <4>2. Here[q].data = "dir"
        BY <1>2, <2>1 DEF Copied
      <4> QED BY <2>8, <4>1, <4>2
    <3> QED BY <2>5, <3>1, <3>2 DEF Copied
  <2>10. PICK T \in SUBSET ToSet(ImageSaves) : Wants(T)
    BY <1>1, WalkFacts
  <2>11. p \in DOMAIN ImageTree /\ p[1] \in T
    BY <1>1, <1>7, <2>10 DEF ImageTree
  <2>12. Wants(T)'
    <3>1. p \in DOMAIN TreeOf(T)
      BY <2>11 DEF TreeOf, Subtree
    <3> QED BY <2>5, <2>6, <2>10, <3>1 DEF Wants
  <2>13. job'.pc \in Active
    BY <2>5 DEF Active
  <2> QED BY <1>1, <1>3, <2>5, <2>7, <2>9, <2>12, <2>13, WalkGoesOn
<1> QED BY <1>9, <1>10, <1>11

(* The file in hand is worked on, and nothing else.                        *)
LEMMA FileGoesOn ==
    ASSUME ImportIInv, CopyIInv, op = "image", job.pc \in Active \ {"walk"}, Stays, psu' = psu,
           inserted # NoCard, NEW pc \in {"verify", "stamp"}, job' = [job EXCEPT !.pc = pc],
           \A q \in Created : q # job.path => Here'[q] = Here[q],
           pc = "stamp" => Here'[job.path].data = ImageData[job.path]
    PROVE CopyIInv'
<1>1. /\ op' = "image" /\ inserted' = inserted /\ job.pc \in Active /\ job.pc # "walk"
  BY DEF Stays
<1>2. /\ WalkAt /\ Copied /\ JobShape /\ job.res = "none" /\ DirsOf(job.stack) \subseteq Created
  BY <1>1, WalkFacts
<1>3. FiniteFiles'
  BY DEF CopyIInv, FiniteFiles
<1>4. /\ job'.pc = pc
      /\ \A f \in {"created", "res", "todo", "want", "before", "stack", "path"} : job'[f] = job[f]
  BY <1>2 DEF JobShape, JobFields, IsFcn
<1>5. Created' = Created
  BY <1>4 DEF Created
<1>6. WalkAt'
  BY <1>1, <1>2, <1>4 DEF WalkAt, Entry
<1>7. job.path \notin DirsOf(job.stack)
  BY <1>1, <1>2, StackFacts, ImageAssumption DEF WalkAt
<1>8. Copied'
  <2>1. ASSUME NEW q \in Created' PROVE Doing(q)' \/ Here'[q] = ImageTree[q]
    <3>1. CASE q = job.path \/ q \in DirsOf(job.stack)
      BY <1>4, <3>1 DEF Doing
    <3>2. CASE q # job.path /\ q \notin DirsOf(job.stack)
      BY <1>2, <1>5, <3>2 DEF Copied, Doing
    <3> QED BY <3>1, <3>2
  <2>2. ASSUME NEW q \in DirsOf(job.stack) PROVE Here'[q].data = "dir"
    BY <1>2, <1>7 DEF Copied
  <2> QED BY <1>4, <2>1, <2>2 DEF Copied
<1>9. PICK T \in SUBSET ToSet(ImageSaves) : Wants(T)
  BY <1>1, WalkFacts
<1>10. Wants(T)'
  BY <1>4, <1>5, <1>9 DEF Wants
<1>11. job'.pc \in Active
  BY <1>4 DEF Active
<1> QED BY <1>1, <1>2, <1>3, <1>4, <1>6, <1>8, <1>10, <1>11, WalkGoesOn

LEMMA FileWritten ==
    ASSUME ImportIInv, CopyIInv, WriteFile, psu' = psu
    PROVE CopyIInv'
<1>1. /\ op = "image" /\ job.pc = "write" /\ job.pc \in Active \ {"walk"} /\ Stays
      /\ op' = op /\ inserted' = inserted
  BY DEF At, WriteFile, Stays, Active
<1>2. /\ Importing /\ Trees /\ inserted \in Cards \cup {NoCard}
      /\ inserted # NoCard => Created \subseteq DOMAIN Here
  BY <1>1, WalkFacts
<1>3. PICK o \in McWrite(job.path, ImageData[job.path]) :
         /\ card' = o.card
         /\ job' = IF o.rc = Ok THEN [job EXCEPT !.pc = "verify"] ELSE Fails(job)
  BY DEF WriteFile, Runs
<1>4. CASE o.rc # Ok
  BY <1>1, <1>2, <1>3, <1>4, CopyFails
<1>5. CASE o.rc = Ok
  <2>1. inserted # NoCard /\ \E x : Here' = Put(Here, job.path, x)
    BY <1>1, <1>2, <1>3, <1>5, WriteStored
  <2>2. PICK x : Here' = Put(Here, job.path, x)
    BY <2>1
  <2>3. \A q \in Created : q # job.path => Here'[q] = Here[q]
    BY <1>2, <2>1, <2>2 DEF Put
  <2> QED BY <1>1, <1>3, <1>5, <2>1, <2>3, FileGoesOn
<1> QED BY <1>4, <1>5

LEMMA FileCompared ==
    ASSUME ImportIInv, CopyIInv, VerifyImportedFile, psu' = psu
    PROVE CopyIInv'
<1>1. /\ op = "image" /\ job.pc = "verify" /\ job.pc \in Active \ {"walk"} /\ Stays
      /\ op' = op /\ inserted' = inserted
  BY DEF At, VerifyImportedFile, Stays, Active
<1>2. /\ Importing /\ Trees /\ inserted \in Cards \cup {NoCard}
  BY <1>1, WalkFacts
<1>3. PICK o \in McSame(job.path, ImageData[job.path]) :
         /\ card' = o.card
         /\ job' = IF o.rc = Ok THEN [job EXCEPT !.pc = "stamp"] ELSE Fails(job)
  BY DEF VerifyImportedFile, Runs
<1>4. CASE o.rc # Ok
  BY <1>1, <1>2, <1>3, <1>4, CopyFails
<1>5. CASE o.rc = Ok
  <2>1. /\ inserted # NoCard /\ Here' = Here
        /\ Here[job.path].data = ImageData[job.path]
    BY <1>1, <1>2, <1>3, <1>5, SameDone
  <2> QED BY <1>1, <1>3, <1>5, <2>1, FileGoesOn
<1> QED BY <1>4, <1>5

LEMMA FileStamped ==
    ASSUME ImportIInv, CopyIInv, StampFile, psu' = psu
    PROVE CopyIInv'
<1>1. /\ op = "image" /\ job.pc = "stamp" /\ job.pc \in Active /\ job.pc # "walk"
      /\ op' = op /\ inserted' = inserted
  BY DEF At, StampFile, Stays, Active
<1>2. /\ WalkAt /\ Copied /\ JobShape /\ job.res = "none" /\ DirsOf(job.stack) \subseteq Created
      /\ Importing /\ Trees /\ inserted \in Cards \cup {NoCard}
      /\ inserted # NoCard => Created \subseteq DOMAIN Here
      /\ job.path \in Created
  BY <1>1, WalkFacts
<1>3. job.stack # <<>> /\ job.stack \in WalkStack
  BY <1>1, <1>2 DEF WalkAt, ImportIInv, Placed
<1>4. PICK o \in McSetInfo(job.path) :
         /\ card' = o.card
         /\ job' = IF o.rc = Ok THEN [job EXCEPT !.pc = "walk", !.stack = Advance(@)]
                   ELSE Fails(job)
  BY DEF StampFile, Runs
<1>5. CASE o.rc # Ok
  BY <1>1, <1>2, <1>4, <1>5, CopyFails
<1>6. CASE o.rc = Ok
  <2> DEFINE x == Object(Here[job.path].data, "source")
  <2>1. inserted # NoCard /\ Here' = Put(Here, job.path, x)
    BY <1>1, <1>2, <1>4, <1>6, SetInfoDone
  <2> HIDE DEF x
  <2>2. Here'[job.path] = x /\ \A q \in Created : q # job.path => Here'[q] = Here[q]
    BY <1>2, <2>1 DEF Put
  <2>3. x = ImageTree[job.path]
    <3>1. Here[job.path].data = ImageData[job.path]
      BY <1>1, <1>2, <2>1 DEF Copied
    <3>2. job.path \in DOMAIN ImageData /\ job.path \notin DOMAIN ImageDir
      BY <1>1, <1>2, ImageAssumption DEF WalkAt
    <3> QED BY <3>1, <3>2 DEF x, ImageTree
  <2> DEFINE u == Advance(job.stack)
  <2>4. u \in WalkStack /\ u # <<>> /\ DirsOf(u) = DirsOf(job.stack)
    BY <1>3, AdvanceFacts
  <2>5. job' = [job EXCEPT !.pc = "walk", !.stack = u]
    BY <1>4, <1>6
  <2> HIDE DEF u
  <2>6. /\ job'.pc = "walk" /\ job'.stack = u
        /\ \A f \in {"created", "res", "todo", "want", "before"} : job'[f] = job[f]
    BY <1>2, <2>5 DEF JobShape, JobFields, IsFcn
  <2>7. Created' = Created
    BY <2>6 DEF Created
  <2>8. WalkAt'
    BY <1>2, <1>3, <2>4, <2>6 DEF WalkAt
  <2>9. job.path \notin DirsOf(job.stack)
    BY <1>1, <1>2, <1>3, StackFacts, ImageAssumption DEF WalkAt
  <2>10. Copied'
    <3>1. ASSUME NEW q \in Created' PROVE Doing(q)' \/ Here'[q] = ImageTree[q]
      <4>1. CASE q = job.path
        BY <2>2, <2>3, <4>1
      <4>2. CASE q \in DirsOf(job.stack)
        BY <2>4, <2>6, <4>2 DEF Doing
      <4>3. CASE q # job.path /\ q \notin DirsOf(job.stack)
        BY <1>2, <2>1, <2>2, <2>7, <4>3 DEF Copied, Doing
      <4> QED BY <4>1, <4>2, <4>3
    <3>2. ASSUME NEW q \in DirsOf(job.stack) PROVE Here'[q].data = "dir"
      BY <1>2, <2>1, <2>2, <2>9 DEF Copied
    <3> QED BY <2>4, <2>6, <3>1, <3>2 DEF Copied
  <2>11. PICK T \in SUBSET ToSet(ImageSaves) : Wants(T)
    BY <1>1, WalkFacts
  <2>12. ASSUME NEW q \in DOMAIN TreeOf(T) PROVE q \in Created \/ Ahead(u, job.todo, q)
    <3>1. CASE q \in Created
      BY <3>1
    <3>2. CASE q \notin Created
      <4>1. q \in DOMAIN ImageTree /\ q # job.path
        BY <1>2, <3>2 DEF TreeOf, Subtree
      <4>2. Ahead(job.stack, job.todo, q)
        BY <2>11, <3>2 DEF Wants
      <4>3. /\ job.path = Entry(Last(job.stack).dir, Last(job.stack).next)
            /\ job.path \in DOMAIN ImageData
        BY <1>1, <1>2 DEF WalkAt
      <4> QED BY <1>3, <4>1, <4>2, <4>3, AdvanceAhead DEF u
    <3> QED BY <3>1, <3>2
  <2>13. Wants(T)'
    BY <2>6, <2>7, <2>11, <2>12 DEF Wants
  <2>14. job'.pc \in Active /\ FiniteFiles'
    BY <2>6 DEF Active, CopyIInv, FiniteFiles
  <2> QED BY <1>1, <1>2, <2>6, <2>8, <2>10, <2>13, <2>14, WalkGoesOn
<1> QED BY <1>5, <1>6

(* The end of a directory: its times are set, and it is done.              *)
LEMMA DirectoryLeft ==
    ASSUME ImportIInv, CopyIInv, LeaveDirectory, psu' = psu
    PROVE CopyIInv'
<1> DEFINE d == Frame.dir
           up == Front(job.stack)
<1>1. /\ op = "image" /\ job.pc = "walk" /\ job.pc \in Active /\ InDirectory
      /\ job.stack # <<>> /\ op' = op /\ inserted' = inserted
      /\ Last(job.stack).next > Len(ImageDir[Last(job.stack).dir])
  BY DEF At, LeaveDirectory, InDirectory, Stays, Active, Frame, Entries
<1>2. /\ WalkAt /\ Copied /\ JobShape /\ job.res = "none" /\ DirsOf(job.stack) \subseteq Created
      /\ Importing /\ Trees /\ inserted \in Cards \cup {NoCard}
      /\ inserted # NoCard => Created \subseteq DOMAIN Here
  BY <1>1, WalkFacts
<1>3. /\ job.stack \in WalkStack /\ job.todo \in Seq(ToSet(job.todo)) /\ job.todo # <<>>
      /\ ToSet(job.todo) \subseteq ToSet(ImageSaves)
  BY <1>1, <1>2 DEF WalkAt
<1>4. /\ d = Last(job.stack).dir /\ d \in DirsOf(job.stack) /\ d \in DOMAIN ImageDir
  BY <1>1, <1>3, StackFacts DEF Frame
<1>5. /\ up \in WalkStack /\ DirsOf(job.stack) = DirsOf(up) \cup {d}
  BY <1>1, <1>3, <1>4, FrontStack
<1>6. PICK o \in McSetInfo(d) :
         card' = o.card /\ job' = IF o.rc = Ok THEN Left(job) ELSE Fails(job)
  BY DEF LeaveDirectory, Runs
<1> HIDE DEF d
<1>7. CASE o.rc # Ok
  BY <1>1, <1>2, <1>6, <1>7, CopyFails
<1>8. CASE o.rc = Ok
  <2> DEFINE x == Object(Here[d].data, "source")
  <2>1. inserted # NoCard /\ Here' = Put(Here, d, x)
    BY <1>1, <1>2, <1>6, <1>8, SetInfoDone
  <2> HIDE DEF x
  <2>2. Here'[d] = x /\ \A q \in Created : q # d => Here'[q] = Here[q]
    BY <1>2, <2>1 DEF Put
  <2>3. Here[d].data = "dir"
    BY <1>2, <1>4, <2>1 DEF Copied
  <2>4. x = ImageTree[d] /\ x.data = "dir"
    BY <1>4, <2>3 DEF x, ImageTree, Folder, Object
  <2> DEFINE st == IF up = <<>> THEN up ELSE Advance(up)
             td == IF up = <<>> THEN Tail(job.todo) ELSE job.todo
  <2>5. st \in WalkStack /\ DirsOf(st) = DirsOf(up) /\ (st # <<>> => up # <<>>)
    <3> HIDE DEF up
    <3> QED BY <1>5, AdvanceFacts
  <2>6. td \in Seq(ToSet(td)) /\ ToSet(td) \subseteq ToSet(job.todo) /\ (up # <<>> => td # <<>>)
    <3>1. CASE up # <<>>
      BY <1>3, <3>1
    <3>2. CASE up = <<>>
      <4> DEFINE r == Tail(job.todo)
                 n == Len(job.todo)
      <4>1. n \in Nat /\ n # 0 /\ DOMAIN job.todo = 1..n
        BY <1>3, EmptySeq, LenProperties
      <4>2. r \in Seq(ToSet(job.todo)) /\ Len(r) = n - 1
            /\ \A k \in 1..(n - 1) : r[k] = job.todo[k + 1]
        BY <1>3, HeadTailProperties
      <4> HIDE DEF r, n
      <4>3. DOMAIN r = 1..(n - 1) /\ r = [k \in 1..(n - 1) |-> r[k]] /\ n - 1 \in Nat
        BY <4>1, <4>2, LenProperties
      <4>4. \A k \in 1..(n - 1) : r[k] \in ToSet(r) /\ r[k] \in ToSet(job.todo)
        BY <4>1, <4>2, <4>3 DEF ToSet
      <4>5. r \in Seq(ToSet(r))
        BY <4>3, <4>4
      <4>6. ToSet(r) \subseteq ToSet(job.todo)
        BY <4>3, <4>4 DEF ToSet
      <4> QED BY <3>2, <4>5, <4>6 DEF r
    <3> QED BY <3>1, <3>2
  <2>7. job' = [job EXCEPT !.stack = st, !.todo = td]
    <3>1. job' = Left(job)
      BY <1>6, <1>8
    <3>2. CASE up = <<>>
      BY <3>1, <3>2 DEF Left
    <3>3. CASE up # <<>>
      <4>1. job' = [job EXCEPT !.stack = st]
        BY <3>1, <3>3 DEF Left
      <4>2. td = job.todo
        BY <3>3
      <4> HIDE DEF st, td, up
      <4> QED BY <1>2, <4>1, <4>2 DEF JobShape, JobFields, IsFcn
    <3> QED BY <3>2, <3>3
  <2>8. ASSUME NEW q \in DOMAIN ImageTree, Ahead(job.stack, job.todo, q)
        PROVE Ahead(st, td, q)
    <3>1. IF up = <<>> THEN Ahead(up, Tail(job.todo), q) ELSE Ahead(Advance(up), job.todo, q)
      BY <1>1, <1>3, <2>8, LeaveAhead
    <3> QED BY <3>1
  <2> HIDE DEF st, td, up
  <2>9. /\ job'.pc = "walk" /\ job'.stack = st /\ job'.todo = td
        /\ \A f \in {"created", "res", "want", "before"} : job'[f] = job[f]
    BY <1>1, <1>2, <2>7 DEF JobShape, JobFields, IsFcn
  <2>10. Created' = Created
    BY <2>9 DEF Created
  <2>11. WalkAt'
    BY <1>3, <2>5, <2>6, <2>9 DEF WalkAt
  <2>12. Copied'
    <3>1. ASSUME NEW q \in Created' PROVE Doing(q)' \/ Here'[q] = ImageTree[q]
      <4>1. CASE q = d
        BY <2>2, <2>4, <4>1
      <4>2. CASE q \in DirsOf(st)
        BY <2>9, <4>2 DEF Doing
      <4>3. CASE q # d /\ q \notin DirsOf(st)
        <5>1. q \in Created /\ q \notin DirsOf(job.stack)
          BY <1>5, <2>5, <2>10, <4>3
        <5>2. Here[q] = ImageTree[q]
          BY <1>1, <1>2, <2>1, <5>1 DEF Copied, Doing
        <5> QED BY <2>2, <4>3, <5>1, <5>2
      <4> QED BY <4>1, <4>2, <4>3
    <3>2. ASSUME NEW q \in DirsOf(st) PROVE Here'[q].data = "dir"
      <4>1. CASE q = d
        BY <2>2, <2>4, <4>1
      <4>2. CASE q # d
        <5>1. q \in DirsOf(job.stack) /\ q \in Created
          BY <1>2, <1>5, <2>5
        <5>2. Here[q].data = "dir"
          BY <1>2, <2>1, <5>1 DEF Copied
        <5> QED BY <2>2, <4>2, <5>1, <5>2
      <4> QED BY <4>1, <4>2
    <3> QED BY <2>9, <3>1, <3>2 DEF Copied
  <2>13. PICK T \in SUBSET ToSet(ImageSaves) : Wants(T)
    BY <1>1, WalkFacts
  <2>14. Wants(T)'
    <3>1. DOMAIN TreeOf(T) \subseteq DOMAIN ImageTree
      BY DEF TreeOf, Subtree
    <3>2. \A q \in DOMAIN TreeOf(T) : q \in Created \/ Ahead(st, td, q)
      BY <2>8, <2>13, <3>1 DEF Wants
    <3> QED BY <2>6, <2>9, <2>10, <2>13, <3>2 DEF Wants
  <2>15. job'.pc \in Active /\ FiniteFiles'
    BY <2>9 DEF Active, CopyIInv, FiniteFiles
  <2> QED BY <1>1, <1>2, <2>9, <2>11, <2>12, <2>14, <2>15, WalkGoesOn
<1> QED BY <1>7, <1>8

(* Nothing is ahead and nothing is being done: all of it is there.         *)
LEMMA PassedCopy ==
    ASSUME ImportIInv, CopyIInv, Importing, job.pc \in Active, job.created = job.created,
           inserted # NoCard, NEW tree, job.want = Onto(job.before, tree),
           NEW here, DOMAIN here = DOMAIN Here, IsFcn(here),
           \A p \in DOMAIN Here \ Created : here[p] = Here[p],
           DOMAIN tree = Created, \A p \in Created : here[p] = tree[p]
    PROVE here = job.want
<1>1. /\ InJob /\ job.rb = Ok /\ ~job.full /\ Created \subseteq DOMAIN Here
      /\ Created \cap DOMAIN job.before = {}
  BY DEF InJob, ImportIInv, Placed, Listed
<1>2. /\ DOMAIN job.before \subseteq DOMAIN Here
      /\ \A p \in DOMAIN job.before : Here[p] = job.before[p]
      /\ DOMAIN Here \subseteq DOMAIN job.before \cup Created
  BY <1>1 DEF ImportIInv, Grown
<1>3. DOMAIN here = DOMAIN tree \cup DOMAIN job.before
  BY <1>1, <1>2
<1>4. ASSUME NEW p \in DOMAIN here
      PROVE here[p] = IF p \in DOMAIN tree THEN tree[p] ELSE job.before[p]
  BY <1>1, <1>2, <1>4
<1> QED BY <1>3, <1>4 DEF Onto, IsFcn

LEMMA CopyPassed ==
    ASSUME FiniteFiles', job'.pc = "done", PassMeansCopied'
    PROVE CopyIInv'
BY DEF CopyIInv, WalkInv, Marked, PsuInv, Active

LEMMA ImportPassed ==
    ASSUME ImportIInv, CopyIInv, ImportDone, psu' = psu
    PROVE CopyIInv'
<1>1. /\ op = "image" /\ job.pc = "walk" /\ job.pc \in Active /\ job.stack = <<>>
      /\ job.todo = <<>> /\ job' = Ends(job, "ok") /\ inserted' = inserted /\ Here' = Here
  BY DEF ImportDone, At, Refuse, Stays, Active, Here
<1>2. /\ WalkAt /\ Copied /\ JobShape /\ Importing /\ FiniteFiles /\ Trees
      /\ inserted \in Cards \cup {NoCard}
  BY <1>1, WalkFacts
<1>3. job'.pc = "done" /\ job'.want = job.want
  BY <1>1, <1>2 DEF Ends, JobShape, JobFields
<1>4. DOMAIN job.stack = {} /\ DOMAIN job.todo = {}
  BY <1>1
<1>5. PICK T \in SUBSET ToSet(ImageSaves) : Wants(T)
  BY <1>1, WalkFacts
<1>6. DOMAIN TreeOf(T) = Created
  BY <1>4, <1>5 DEF Wants, Ahead, InRoot
<1>7. \A p \in Created : TreeOf(T)[p] = ImageTree[p]
  BY <1>6 DEF TreeOf
<1>8. ASSUME inserted # NoCard PROVE Here = job.want
  <2>1. \A p \in Created : Here[p] = ImageTree[p]
    BY <1>1, <1>2, <1>4, <1>8 DEF Copied, Doing, DirsOf
  <2>2. IsFcn(Here)
    BY <1>2, <1>8, HereTree DEF IsTree
  <2>3. job.want = Onto(job.before, TreeOf(T))
    BY <1>5 DEF Wants
  <2> QED BY <1>1, <1>2, <1>6, <1>7, <1>8, <2>1, <2>2, <2>3, PassedCopy
<1>9. PassMeansCopied'
  BY <1>1, <1>3, <1>8 DEF PassMeansCopied
<1>10. FiniteFiles'
  BY <1>2 DEF FiniteFiles
<1> QED BY <1>3, <1>9, <1>10, CopyPassed

(* Before the copy: the browser, the choice, the check of the card.        *)
LEMMA Browsed ==
    ASSUME ImportIInv, CopyIInv, OpenBrowser \/ RefreshDestination, psu' = psu
    PROVE CopyIInv'
<1>1. FiniteFiles'
  BY DEF CopyIInv, FiniteFiles
<1>2. CASE op' = op /\ job' = job /\ op = "menu"
  BY <1>1, <1>2, NotImporting
<1>3. CASE job' = Viewed(NoJob)
  <2>1. job'.pc = "browse" /\ job'.res = "none"
    BY <1>3 DEF Viewed, NoJob
  <2> QED BY <1>1, <2>1, NotCopying DEF Active
<1>4. CASE /\ op = "image" /\ job.pc \in {"browse", "selected"}
           /\ \/ job' = Viewed(job)
              \/ job' = [job EXCEPT !.pc = "browse", !.todo = <<>>]
  <2>1. job.res = "none" /\ JobShape
    BY <1>4 DEF ImportIInv, Unfinished, Importing
  <2>2. job'.pc = "browse" /\ job'.res = job.res
    BY <1>4, <2>1 DEF Viewed, JobShape, JobFields
  <2> QED BY <1>1, <2>1, <2>2, NotCopying DEF Active
<1> QED BY <1>2, <1>3, <1>4 DEF OpenBrowser, RefreshDestination

LEMMA SavesChosen ==
    ASSUME ImportIInv, CopyIInv, Select, psu' = psu
    PROVE CopyIInv'
<1>1. op = "image" /\ op' = "image" /\ job.pc = "browse" /\ JobShape /\ job.res = "none"
  BY DEF Select, At, ImportIInv, Unfinished, Importing
<1>2. PICK c \in Selections : job' = [job EXCEPT !.pc = "selected", !.todo = Chosen(c)]
  BY DEF Select
<1>3. PICK n \in 1..Len(ImageSaves) : c \in [1..n -> DOMAIN ImageSaves]
  BY DEF Selections
<1> DEFINE t == Chosen(c)
<1>4. DOMAIN t = 1..n /\ t = [i \in 1..n |-> t[i]] /\ \A i \in 1..n : t[i] = ImageSaves[c[i]]
  BY <1>3 DEF Chosen
<1>5. n \in Nat
  BY <1>3
<1> HIDE DEF t
<1>6. \A i \in 1..n : t[i] \in ToSet(t) /\ t[i] \in ToSet(ImageSaves)
  BY <1>3, <1>4 DEF ToSet
<1>7. t \in Seq(ToSet(t))
  BY <1>4, <1>5, <1>6
<1>8. ToSet(t) \subseteq ToSet(ImageSaves)
  BY <1>4, <1>6 DEF ToSet
<1>9. job'.pc = "selected" /\ job'.todo = t /\ job'.res = "none"
  BY <1>1, <1>2 DEF JobShape, JobFields, t
<1>10. FiniteFiles'
  BY DEF CopyIInv, FiniteFiles
<1> QED BY <1>1, <1>7, <1>8, <1>9, <1>10
      DEF CopyIInv, WalkInv, Marked, PsuInv, PassMeansCopied, Active

LEMMA Refused ==
    ASSUME ImportIInv, CopyIInv, Importing, psu' = psu, NEW res, res # "ok", Refuse(res)
    PROVE CopyIInv'
<1>1. job'.pc = "done" /\ job'.res = res
  BY DEF Refuse, Ends, ImportIInv, JobShape, JobFields
<1>2. FiniteFiles'
  BY DEF CopyIInv, FiniteFiles
<1> QED BY <1>1, <1>2, NotCopying DEF Active

LEMMA ImportStarts ==
    ASSUME ImportIInv, CopyIInv, At("image", "selected"), psu' = psu, inserted # NoCard,
           job' = Starting(job, TreeOf(Selected)), Stays
    PROVE CopyIInv'
<1>1. /\ op = "image" /\ op' = "image" /\ job.pc = "selected" /\ Importing
      /\ job.pc \in Waiting
  BY DEF At, Stays, Importing, Waiting
<1>2. JobShape /\ job.res = "none" /\ job.created = <<>> /\ job.stack = <<>>
  BY <1>1 DEF ImportIInv, Unfinished, Unused
<1>3. job.todo \in Seq(ToSet(job.todo)) /\ ToSet(job.todo) \subseteq ToSet(ImageSaves)
  BY <1>1 DEF CopyIInv, Marked
<1>11. PICK T : T = ToSet(job.todo)
  OBVIOUS
<1>4. /\ job'.pc = "walk" /\ job'.res = "none" /\ job'.created = <<>> /\ job'.stack = <<>>
      /\ job'.todo = job.todo /\ job'.want = Onto(job'.before, TreeOf(T))
  BY <1>2, <1>11 DEF Starting, JobShape, JobFields, IsFcn, Selected
<1>5. Created' = {} /\ DirsOf(job'.stack) = {}
  BY <1>4 DEF Created, ToSet, DirsOf
<1>6. WalkAt'
  BY <1>3, <1>4, EmptySeq DEF WalkAt, WalkStack
<1>7. Copied'
  BY <1>4, <1>5 DEF Copied
<1>8. ASSUME NEW q \in DOMAIN TreeOf(T) PROVE Ahead(job'.stack, job'.todo, q)
  <2>1. q[1] \in T
    BY <1>8 DEF TreeOf, Subtree
  <2>2. PICK i \in DOMAIN job.todo : q[1] = job.todo[i]
    BY <1>11, <2>1 DEF ToSet
  <2> QED BY <1>4, <2>2 DEF Ahead, InRoot
<1>9. T \in SUBSET ToSet(ImageSaves) /\ Wants(T)'
  BY <1>3, <1>4, <1>5, <1>8, <1>11 DEF Wants
<1>10. FiniteFiles' /\ job'.pc \in Active
  BY <1>4 DEF CopyIInv, FiniteFiles, Active
<1> QED BY <1>1, <1>4, <1>6, <1>7, <1>9, <1>10, WalkGoesOn

LEMMA TargetChecked ==
    ASSUME ImportIInv, CopyIInv, CheckTarget, psu' = psu
    PROVE CopyIInv'
<1>1. Importing /\ At("image", "selected")
  BY DEF CheckTarget, At, Importing
<1>2. \/ Refuse("conflict") \/ Refuse("full") \/ Refuse("unavailable")
      \/ inserted # NoCard /\ job' = Starting(job, TreeOf(Selected)) /\ Stays
  BY DEF CheckTarget, Reads
<1> QED BY <1>1, <1>2, Refused, ImportStarts

(* A rollback goes on or ends; it is no success.                           *)
LEMMA RolledBack ==
    ASSUME ImportIInv, CopyIInv, RollbackCreated \/ PsuRollback, psu' = psu
    PROVE CopyIInv'
<1>1. Importing /\ job.pc = "rollback" /\ JobShape /\ job.res = "none"
  BY DEF RollbackCreated, PsuRollback, At, ImportIInv, Unfinished, Importing
<1>2. CASE \E res \in {"failed", "rollbackFailed"} : Refuse(res)
  BY <1>1, <1>2, Refused
<1>3. CASE \E rc : job' = Deleted(job, rc)
  <2>1. job'.pc = "rollback" /\ job'.res = "none"
    BY <1>1, <1>3 DEF Deleted, JobShape, JobFields
  <2>2. FiniteFiles'
    BY DEF CopyIInv, FiniteFiles
  <2> QED BY <2>1, <2>2, NotCopying DEF Active
<1>4. CASE RollbackCreated
  BY <1>2, <1>3, <1>4 DEF RollbackCreated, RollbackResult, Runs, Deleted
<1>5. CASE PsuRollback
  BY <1>2, <1>3, <1>5 DEF PsuRollback, Runs
<1> QED BY <1>4, <1>5

LEMMA ImportCopies ==
    ASSUME ImportIInv, CopyIInv, ImportNext, psu' = psu
    PROVE CopyIInv'
BY Browsed, SavesChosen, TargetChecked, SaveCopied, SubdirectoryCopied, FileMade,
   FileWritten, FileCompared, FileStamped, DirectoryLeft, ImportPassed, RolledBack
   DEF ImportNext

-----------------------------------------------------------------------------
(* The same of a .psu container.                                           *)

LEMMA PsuFacts ==
    ASSUME ImportIInv, CopyIInv, op = "import", job.pc \in Active
    PROVE /\ PsuWants /\ PsuCopiedSoFar /\ job.file \in DOMAIN psu
          /\ \A p \in DOMAIN Source.files : p # <<Source.save>>
          /\ Importing /\ Trees /\ inserted \in Cards \cup {NoCard} /\ FiniteFiles
          /\ job.res = "none" /\ JobShape /\ job.created \in Seq(Created)
          /\ inserted # NoCard => Created \subseteq DOMAIN Here
          /\ job.pc # "walk" => job.path \in Created
          /\ job.created # <<>> => <<Source.save>> \in Created
<1>1. /\ PsuWants /\ PsuCopiedSoFar /\ job.file \in DOMAIN psu
      /\ Importing /\ Trees /\ inserted \in Cards \cup {NoCard} /\ FiniteFiles
      /\ job.res = "none" /\ JobShape /\ job.created \in Seq(Created)
      /\ inserted # NoCard => Created \subseteq DOMAIN Here
      /\ job.pc # "walk" => job.path \in Created
      /\ job.created # <<>> => <<Source.save>> \in Created
  BY DEF CopyIInv, PsuInv, ImportIInv, Placed, Unfinished, Importing, Listed, InJob, Active
<1>2. ASSUME NEW p \in DOMAIN Source.files PROVE p # <<Source.save>>
  <2> DEFINE s == Source.save
             x == p[2]
  <2>1. p = <<s, x>>
    BY <1>1, <1>2 DEF ImportIInv, FlatFiles, Source
  <2>2. Len(<<s, x>>) > 1
    BY FlatPath
  <2>3. Len(<<s>>) = 1
    BY RootPath
  <2> HIDE DEF s, x
  <2>4. p # <<s>>
    BY <2>1, <2>2, <2>3
  <2> QED BY <2>4 DEF s
<1> QED BY <1>1, <1>2

LEMMA PsuGoesOn ==
    ASSUME op' = "import", job'.res = "none", FiniteFiles', job'.pc \in Active,
           PsuWants', PsuCopiedSoFar'
    PROVE CopyIInv'
BY DEF CopyIInv, WalkInv, Marked, PsuInv, PassMeansCopied, Active

LEMMA ContainerPicked ==
    ASSUME CopyIInv, PickContainer
    PROVE CopyIInv'
<1>1. job'.pc = "confirm" /\ job'.res = "none"
  BY DEF PickContainer, NoJob
<1>2. FiniteFiles'
  BY DEF PickContainer, CopyIInv, FiniteFiles
<1> QED BY <1>1, <1>2, NotCopying DEF Active

LEMMA PsuStarts ==
    ASSUME ImportIInv, CopyIInv, At("import", "confirm"), psu' = psu, inserted # NoCard,
           job' = Starting(job, PsuTree(Source)), Stays
    PROVE CopyIInv'
<1>1. op' = "import" /\ Importing /\ job.pc \in Waiting
  BY DEF At, Stays, Importing, Waiting
<1>2. JobShape /\ job.res = "none" /\ job.created = <<>>
  BY <1>1 DEF ImportIInv, Unfinished, Unused, Waiting
<1>3. /\ job'.pc = "walk" /\ job'.res = "none" /\ job'.created = <<>>
      /\ job'.file = job.file /\ job'.want = Onto(job'.before, PsuTree(Source))
  BY <1>2 DEF Starting, JobShape, JobFields, IsFcn
<1>4. Created' = {} /\ Source' = Source /\ Len(job'.created) = 0
  BY <1>3, EmptySeq DEF Created, ToSet, Source
<1>5. PsuTree(Source)' = PsuTree(Source)
  BY <1>4 DEF PsuTree
<1>6. IsFiniteSet({}) /\ Cardinality({}) = 0
  BY FS_EmptySet
<1>7. PsuWants'
  BY <1>3, <1>4, <1>5, <1>6 DEF PsuWants
<1>8. PsuCopiedSoFar'
  BY <1>3, <1>4 DEF PsuCopiedSoFar
<1>9. FiniteFiles' /\ job'.pc \in Active
  BY <1>3 DEF CopyIInv, FiniteFiles, Active
<1> QED BY <1>1, <1>3, <1>7, <1>8, <1>9, PsuGoesOn

LEMMA PsuTargetChecked ==
    ASSUME ImportIInv, CopyIInv, PsuCheckTarget
    PROVE CopyIInv'
<1>1. Importing /\ At("import", "confirm") /\ psu' = psu
  BY DEF PsuCheckTarget, At, Importing
<1>2. \/ Refuse("invalid") \/ Refuse("conflict") \/ Refuse("full") \/ Refuse("unavailable")
      \/ inserted # NoCard /\ job' = Starting(job, PsuTree(Source)) /\ Stays
  BY DEF PsuCheckTarget, Reads
<1> QED BY <1>1, <1>2, Refused, PsuStarts

(* One more object is made and recorded.                                   *)
LEMMA PsuObjectMade ==
    ASSUME ImportIInv, CopyIInv, At("import", "walk"), Stays, psu' = psu, inserted # NoCard,
           NEW p \in DOMAIN PsuTree(Source) \ Created, NEW x, Here' = Put(Here, p, x),
           NEW pc \in {"walk", "write"}, pc = "walk" => p = <<Source.save>> /\ x.data = "dir",
           pc = "write" => p \in DOMAIN Source.files,
           NEW j, DOMAIN j = JobFields, IsFcn(j), j.pc = pc, pc = "write" => j.path = p,
           \A f \in {"created", "res", "want", "before", "file"} : j[f] = job[f],
           job' = PsuRecord(j, p)
    PROVE CopyIInv'
<1>1. /\ op = "import" /\ op' = "import" /\ inserted' = inserted /\ job.pc = "walk"
      /\ job.pc \in Active
  BY DEF At, Stays, Active
<1>2. /\ PsuWants /\ PsuCopiedSoFar /\ \A q \in DOMAIN Source.files : q # <<Source.save>>
      /\ FiniteFiles /\ job.res = "none" /\ job.created \in Seq(Created)
      /\ Created \subseteq DOMAIN Here
  BY <1>1, PsuFacts
<1>3. /\ job'.pc = pc /\ job'.path = j.path /\ job'.res = "none" /\ job'.want = job.want
      /\ job'.before = job.before /\ job'.file = job.file
      /\ job'.created = Append(job.created, p)
  BY <1>2 DEF PsuRecord, JobFields, IsFcn
<1>4. Created' = Created \cup {p} /\ Len(job'.created) = Len(job.created) + 1
  <2>1. /\ ToSet(Append(job.created, p)) = Created \cup {p}
        /\ Len(Append(job.created, p)) = Len(job.created) + 1
    BY <1>2, ListFacts DEF Created
  <2> QED BY <1>3, <2>1 DEF Created
<1>5. Source' = Source /\ PsuTree(Source)' = PsuTree(Source)
  BY <1>3 DEF Source, PsuTree
<1>6. IsFiniteSet(Created') /\ Cardinality(Created') = Len(job'.created)
  <2>1. IsFiniteSet(Created) /\ Cardinality(Created) = Len(job.created) /\ p \notin Created
    BY <1>2 DEF PsuWants
  <2>2. /\ IsFiniteSet(Created \cup {p})
        /\ Cardinality(Created \cup {p}) = Cardinality(Created) + 1
    BY <2>1, FS_AddElement
  <2> QED BY <1>4, <2>1, <2>2
<1>7. PsuWants'
  BY <1>2, <1>3, <1>4, <1>5, <1>6 DEF PsuWants
<1>8. Here'[p] = x /\ \A q \in Created : Here'[q] = Here[q]
  <2>1. \A q \in Created : q \in DOMAIN Here /\ q # p
    BY <1>2
  <2> QED BY <2>1 DEF Put
<1>9. PsuCopiedSoFar'
  <2>1. ASSUME NEW q \in Created'
        PROVE \/ q = <<Source.save>> \/ (pc # "walk" /\ q = job'.path)
              \/ Here'[q] = Object(Source.files[q], "source")
    <3>1. CASE q = p
      BY <1>3, <3>1
    <3>2. CASE q # p
      <4>1. q \in Created
        BY <1>4, <3>2
      <4>2. q = <<Source.save>> \/ Here[q] = Object(Source.files[q], "source")
        BY <1>1, <1>2, <4>1 DEF PsuCopiedSoFar
      <4> QED BY <1>8, <4>1, <4>2
    <3> QED BY <3>1, <3>2
  <2>2. ASSUME <<Source.save>> \in Created' PROVE Here'[<<Source.save>>].data = "dir"
    <3>1. CASE <<Source.save>> \in Created
      BY <1>2, <1>8, <3>1 DEF PsuCopiedSoFar
    <3>2. CASE <<Source.save>> \notin Created
      <4>1. p = <<Source.save>>
        BY <1>4, <2>2, <3>2
      <4>2. pc = "walk"
        BY <1>2, <4>1
      <4> QED BY <1>8, <4>1, <4>2
    <3> QED BY <3>1, <3>2
  <2>3. job'.pc # "stamp"
    BY <1>3
  <2> QED BY <1>3, <1>5, <2>1, <2>2, <2>3 DEF PsuCopiedSoFar
<1>10. FiniteFiles' /\ job'.pc \in Active
  BY <1>2, <1>3 DEF FiniteFiles, Active
<1> QED BY <1>1, <1>3, <1>7, <1>9, <1>10, PsuGoesOn

LEMMA PsuDirectoryMade ==
    ASSUME ImportIInv, CopyIInv, PsuMakeDirectory
    PROVE CopyIInv'
<1> DEFINE p == <<Source.save>>
<1>1. /\ op = "import" /\ job.pc = "walk" /\ job.pc \in Active /\ At("import", "walk")
      /\ Stays /\ op' = op /\ inserted' = inserted /\ psu' = psu /\ job.created = <<>>
  BY DEF At, PsuMakeDirectory, PsuCommand, Stays, Active
<1>2. Importing /\ Trees /\ inserted \in Cards \cup {NoCard} /\ JobShape
  BY <1>1, PsuFacts
<1>3. PICK o \in McMkDir(p) :
         card' = o.card /\ job' = IF o.rc = Ok THEN PsuRecord(job, p) ELSE Fails(job)
  BY DEF PsuMakeDirectory, PsuCommand, Runs
<1>4. Created = {}
  BY <1>1 DEF Created, ToSet
<1>5. p = <<Source.save>> /\ p \in DOMAIN PsuTree(Source) \ Created
  BY <1>4 DEF PsuTree
<1> HIDE DEF p
<1>6. CASE o.rc # Ok
  BY <1>1, <1>2, <1>3, <1>6, CopyFails
<1>7. CASE o.rc = Ok
  <2> DEFINE x == Folder("fresh")
  <2>1. inserted # NoCard /\ Here' = Put(Here, p, x)
    BY <1>1, <1>2, <1>3, <1>7, MkDirDone
  <2>2. x.data = "dir"
    BY DEF Folder, Object
  <2> HIDE DEF x
  <2>3. job' = PsuRecord(job, p)
    BY <1>3, <1>7
  <2> DEFINE j == job
  <2>4. /\ DOMAIN j = JobFields /\ IsFcn(j) /\ j.pc = "walk"
        /\ \A f \in {"created", "res", "want", "before", "file"} : j[f] = job[f]
    BY <1>1, <1>2 DEF JobShape
  <2> QED BY <1>1, <1>5, <2>1, <2>2, <2>3, <2>4, PsuObjectMade
<1> QED BY <1>6, <1>7

LEMMA PsuFileMade ==
    ASSUME ImportIInv, CopyIInv, PsuCreateFile
    PROVE CopyIInv'
<1>1. PICK p \in DOMAIN Source.files \ ToSet(job.created) :
         PsuCommand("walk", McCreate(p),
                    LAMBDA j : PsuRecord([j EXCEPT !.pc = "write", !.path = p], p))
  BY DEF PsuCreateFile
<1>2. /\ op = "import" /\ job.pc = "walk" /\ job.pc \in Active /\ At("import", "walk")
      /\ Stays /\ op' = op /\ inserted' = inserted /\ psu' = psu
  BY <1>1 DEF At, PsuCommand, Stays, Active
<1>3. Importing /\ Trees /\ inserted \in Cards \cup {NoCard} /\ JobShape
  BY <1>2, PsuFacts
<1>4. PICK o \in McCreate(p) :
         /\ card' = o.card
         /\ job' = IF o.rc = Ok THEN PsuRecord([job EXCEPT !.pc = "write", !.path = p], p)
                   ELSE Fails(job)
  BY <1>1 DEF PsuCommand, Runs
<1>5. p \in DOMAIN PsuTree(Source) \ Created
  BY <1>1 DEF PsuTree, Created
<1>6. CASE o.rc # Ok
  BY <1>2, <1>3, <1>4, <1>6, CopyFails
<1>7. CASE o.rc = Ok
  <2> DEFINE x == Object("empty", "fresh")
             j == [job EXCEPT !.pc = "write", !.path = p]
  <2>1. inserted # NoCard /\ Here' = Put(Here, p, x)
    BY <1>2, <1>3, <1>4, <1>7, CreateDone
  <2> HIDE DEF x
  <2>2. job' = PsuRecord(j, p)
    BY <1>4, <1>7
  <2>3. /\ DOMAIN j = JobFields /\ IsFcn(j) /\ j.pc = "write" /\ j.path = p
        /\ \A f \in {"created", "res", "want", "before", "file"} : j[f] = job[f]
    BY <1>3 DEF JobShape, JobFields, IsFcn
  <2> HIDE DEF j
  <2> QED BY <1>1, <1>2, <1>5, <2>1, <2>2, <2>3, PsuObjectMade
<1> QED BY <1>6, <1>7

(* The file of the container that is in hand.                              *)
LEMMA PsuFileGoesOn ==
    ASSUME ImportIInv, CopyIInv, op = "import", job.pc \in Active \ {"walk"}, Stays,
           psu' = psu, inserted # NoCard, NEW pc \in {"walk", "verify", "stamp"},
           job' = [job EXCEPT !.pc = pc],
           \A q \in Created : q # job.path => Here'[q] = Here[q],
           pc = "stamp" => Here'[job.path].data = Source.files[job.path],
           pc = "walk" => Here'[job.path] = Object(Source.files[job.path], "source")
    PROVE CopyIInv'
<1>1. op' = "import" /\ inserted' = inserted /\ job.pc \in Active /\ job.pc # "walk"
  BY DEF Stays
<1>2. /\ PsuWants /\ PsuCopiedSoFar /\ \A q \in DOMAIN Source.files : q # <<Source.save>>
      /\ FiniteFiles /\ job.res = "none" /\ JobShape
  BY <1>1, PsuFacts
<1>3. /\ job'.pc = pc
      /\ \A f \in {"created", "res", "want", "before", "path", "file"} : job'[f] = job[f]
  BY <1>2 DEF JobShape, JobFields, IsFcn
<1>4. Created' = Created /\ Source' = Source /\ PsuTree(Source)' = PsuTree(Source)
  BY <1>3 DEF Created, Source, PsuTree
<1>5. job.path \in DOMAIN Source.files /\ job.path # <<Source.save>>
  BY <1>1, <1>2 DEF PsuWants
<1>6. PsuWants'
  BY <1>2, <1>3, <1>4, <1>5 DEF PsuWants
<1>7. PsuCopiedSoFar'
  <2>1. ASSUME NEW q \in Created
        PROVE \/ q = <<Source.save>> \/ (pc # "walk" /\ q = job.path)
              \/ Here'[q] = Object(Source.files[q], "source")
    <3>1. CASE q = job.path
      BY <3>1
    <3>2. CASE q # job.path
      BY <1>2, <3>2 DEF PsuCopiedSoFar
    <3> QED BY <3>1, <3>2
  <2>2. <<Source.save>> \in Created => Here'[<<Source.save>>].data = "dir"
    BY <1>2, <1>5 DEF PsuCopiedSoFar
  <2> QED BY <1>3, <1>4, <2>1, <2>2 DEF PsuCopiedSoFar
<1>8. FiniteFiles' /\ job'.pc \in Active
  BY <1>2, <1>3 DEF FiniteFiles, Active
<1> QED BY <1>1, <1>2, <1>3, <1>6, <1>7, <1>8, PsuGoesOn

LEMMA PsuFileWritten ==
    ASSUME ImportIInv, CopyIInv, PsuWriteFile
    PROVE CopyIInv'
<1>1. /\ op = "import" /\ job.pc = "write" /\ job.pc \in Active \ {"walk"} /\ Stays
      /\ op' = op /\ inserted' = inserted /\ psu' = psu
  BY DEF At, PsuWriteFile, PsuCommand, Stays, Active
<1>2. /\ Importing /\ Trees /\ inserted \in Cards \cup {NoCard}
      /\ inserted # NoCard => Created \subseteq DOMAIN Here
  BY <1>1, PsuFacts
<1>3. PICK o \in McWrite(job.path, Source.files[job.path]) :
         /\ card' = o.card
         /\ job' = IF o.rc = Ok THEN [job EXCEPT !.pc = "verify"] ELSE Fails(job)
  BY DEF PsuWriteFile, PsuCommand, Runs
<1>4. CASE o.rc # Ok
  BY <1>1, <1>2, <1>3, <1>4, CopyFails
<1>5. CASE o.rc = Ok
  <2>1. inserted # NoCard /\ \E x : Here' = Put(Here, job.path, x)
    BY <1>1, <1>2, <1>3, <1>5, WriteStored
  <2>2. PICK x : Here' = Put(Here, job.path, x)
    BY <2>1
  <2>3. \A q \in Created : q # job.path => Here'[q] = Here[q]
    BY <1>2, <2>1, <2>2 DEF Put
  <2> QED BY <1>1, <1>3, <1>5, <2>1, <2>3, PsuFileGoesOn
<1> QED BY <1>4, <1>5

LEMMA PsuFileCompared ==
    ASSUME ImportIInv, CopyIInv, PsuVerifyFile
    PROVE CopyIInv'
<1>1. /\ op = "import" /\ job.pc = "verify" /\ job.pc \in Active \ {"walk"} /\ Stays
      /\ op' = op /\ inserted' = inserted /\ psu' = psu
  BY DEF At, PsuVerifyFile, PsuCommand, Stays, Active
<1>2. Importing /\ Trees /\ inserted \in Cards \cup {NoCard}
  BY <1>1, PsuFacts
<1>3. PICK o \in McSame(job.path, Source.files[job.path]) :
         /\ card' = o.card
         /\ job' = IF o.rc = Ok THEN [job EXCEPT !.pc = "stamp"] ELSE Fails(job)
  BY DEF PsuVerifyFile, PsuCommand, Runs
<1>4. CASE o.rc # Ok
  BY <1>1, <1>2, <1>3, <1>4, CopyFails
<1>5. CASE o.rc = Ok
  <2>1. /\ inserted # NoCard /\ Here' = Here
        /\ Here[job.path].data = Source.files[job.path]
    BY <1>1, <1>2, <1>3, <1>5, SameDone
  <2> QED BY <1>1, <1>3, <1>5, <2>1, PsuFileGoesOn
<1> QED BY <1>4, <1>5

LEMMA PsuFileStamped ==
    ASSUME ImportIInv, CopyIInv, PsuStampFile
    PROVE CopyIInv'
<1>1. /\ op = "import" /\ job.pc = "stamp" /\ job.pc \in Active \ {"walk"} /\ Stays
      /\ op' = op /\ inserted' = inserted /\ psu' = psu
  BY DEF At, PsuStampFile, PsuCommand, Stays, Active
<1>2. /\ Importing /\ Trees /\ inserted \in Cards \cup {NoCard} /\ PsuCopiedSoFar
      /\ inserted # NoCard => Created \subseteq DOMAIN Here
  BY <1>1, PsuFacts
<1>3. PICK o \in McSetInfo(job.path) :
         /\ card' = o.card
         /\ job' = IF o.rc = Ok THEN [job EXCEPT !.pc = "walk"] ELSE Fails(job)
  BY DEF PsuStampFile, PsuCommand, Runs
<1>4. CASE o.rc # Ok
  BY <1>1, <1>2, <1>3, <1>4, CopyFails
<1>5. CASE o.rc = Ok
  <2> DEFINE x == Object(Here[job.path].data, "source")
  <2>1. inserted # NoCard /\ Here' = Put(Here, job.path, x)
    BY <1>1, <1>2, <1>3, <1>5, SetInfoDone
  <2>2. x = Object(Source.files[job.path], "source")
    BY <1>1, <1>2, <2>1 DEF PsuCopiedSoFar
  <2> HIDE DEF x
  <2>3. Here'[job.path] = x /\ \A q \in Created : q # job.path => Here'[q] = Here[q]
    BY <1>2, <2>1 DEF Put
  <2> QED BY <1>1, <1>3, <1>5, <2>1, <2>2, <2>3, PsuFileGoesOn
<1> QED BY <1>4, <1>5

(* All files are there, the directory is stamped last.                     *)
LEMMA PsuPassed ==
    ASSUME ImportIInv, CopyIInv, PsuFinish
    PROVE CopyIInv'
<1> DEFINE p == <<Source.save>>
           tree == PsuTree(Source)
<1>1. /\ op = "import" /\ job.pc = "walk" /\ job.pc \in Active
      /\ op' = op /\ inserted' = inserted /\ psu' = psu /\ job.created # <<>>
      /\ Len(job.created) - 1 = Cardinality(DOMAIN Source.files)
  BY DEF At, PsuFinish, PsuCommand, PsuCopied, Stays, Active
<1>2. /\ PsuWants /\ PsuCopiedSoFar /\ job.file \in DOMAIN psu
      /\ \A q \in DOMAIN Source.files : q # p
      /\ Importing /\ Trees /\ inserted \in Cards \cup {NoCard} /\ FiniteFiles
      /\ JobShape /\ job.created \in Seq(Created)
      /\ inserted # NoCard => Created \subseteq DOMAIN Here
      /\ p \in Created
  BY <1>1, PsuFacts
<1>3. PICK o \in McSetInfo(p) :
         card' = o.card /\ job' = IF o.rc = Ok THEN Ends(job, "ok") ELSE Fails(job)
  BY DEF PsuFinish, PsuCommand, Runs
<1>4. p = <<Source.save>> /\ DOMAIN tree = DOMAIN Source.files \cup {p} /\ p \notin DOMAIN Source.files
  BY <1>2 DEF PsuTree
<1>5. Created = DOMAIN tree
  <2> DEFINE F == DOMAIN Source.files
  <2>1. IsFiniteSet(F)
    BY <1>2 DEF FiniteFiles, Source
  <2>2. /\ IsFiniteSet(F \cup {p}) /\ Cardinality(F \cup {p}) = Cardinality(F) + 1
        /\ Cardinality(F) \in Nat
    BY <1>4, <2>1, FS_AddElement, FS_CardinalityType
  <2>3. Created \subseteq F \cup {p} /\ Cardinality(Created) = Len(job.created)
    BY <1>2, <1>4 DEF PsuWants
  <2>4. Len(job.created) \in Nat
    BY <1>2, LenProperties
  <2> HIDE DEF F, p, tree
  <2>5. Cardinality(Created) = Cardinality(F \cup {p})
    BY <1>1, <2>2, <2>3, <2>4 DEF F
  <2>6. Created = F \cup {p}
    BY <2>2, <2>3, <2>5, FS_Subset
  <2> QED BY <1>4, <2>6 DEF F
<1>6. /\ tree[p] = Object("dir", "source")
      /\ \A q \in DOMAIN Source.files : tree[q] = Object(Source.files[q], "source")
  BY <1>4 DEF PsuTree, Folder
<1>7. job.want = Onto(job.before, tree)
  BY <1>2 DEF PsuWants
<1> HIDE DEF tree, p
<1>8. CASE o.rc # Ok
  BY <1>1, <1>2, <1>3, <1>8, CopyFails
<1>9. CASE o.rc = Ok
  <2> DEFINE x == Object(Here[p].data, "source")
             here == Put(Here, p, x)
  <2>1. inserted # NoCard /\ Here' = here
    BY <1>1, <1>2, <1>3, <1>9, SetInfoDone
  <2>2. x = tree[p]
    <3>1. Here[p].data = "dir"
      BY <1>2, <1>4, <2>1 DEF PsuCopiedSoFar
    <3> QED BY <1>6, <3>1
  <2> HIDE DEF x
  <2>3. DOMAIN here = DOMAIN Here /\ IsFcn(here) /\ here[p] = x
        /\ \A q \in DOMAIN Here : q # p => here[q] = Here[q]
    BY <1>2, <2>1 DEF Put, IsFcn
  <2> HIDE DEF here
  <2>4. ASSUME NEW q \in Created PROVE here[q] = tree[q]
    <3>1. CASE q = p
      BY <2>2, <2>3, <3>1
    <3>2. CASE q # p
      <4>1. q \in DOMAIN Source.files /\ q \in DOMAIN Here
        BY <1>2, <1>4, <1>5, <2>1, <3>2
      <4>2. Here[q] = Object(Source.files[q], "source")
        BY <1>1, <1>2, <1>4, <2>1, <3>2 DEF PsuCopiedSoFar
      <4> QED BY <1>6, <2>3, <3>2, <4>1, <4>2
    <3> QED BY <3>1, <3>2
  <2>5. \A q \in DOMAIN Here \ Created : here[q] = Here[q]
    BY <1>2, <2>3
  <2>6. here = job.want
    BY <1>1, <1>2, <1>5, <1>7, <2>1, <2>3, <2>4, <2>5, PassedCopy
  <2>7. job'.pc = "done" /\ job'.want = job.want
    BY <1>2, <1>3, <1>9 DEF Ends, JobShape, JobFields
  <2>8. PassMeansCopied'
    BY <2>1, <2>6, <2>7 DEF PassMeansCopied
  <2>9. FiniteFiles'
    BY <1>1, <1>2 DEF FiniteFiles
  <2> QED BY <2>7, <2>8, <2>9, CopyPassed
<1> QED BY <1>8, <1>9

(* An export copies nothing to the card; its container stays finite.       *)
LEMMA FiniteStored ==
    ASSUME FiniteFiles, NEW n, NEW c, psu' = Put(psu, n, c), IsFiniteSet(DOMAIN c.files)
    PROVE FiniteFiles'
BY DEF FiniteFiles, Put

LEMMA FiniteAfterList ==
    ASSUME CopyIInv, ListSave
    PROVE FiniteFiles'
<1>1. FiniteFiles
  BY DEF CopyIInv
<1>2. CASE psu' = psu
  BY <1>1, <1>2 DEF FiniteFiles
<1>3. CASE Put1(Container(Exported, NoTree, FALSE))
  <2> DEFINE c == Container(Exported, NoTree, FALSE)
  <2>1. psu' = Put(psu, job.file, c) /\ DOMAIN c.files = {}
    BY <1>3 DEF Put1, Container, NoTree
  <2> HIDE DEF c
  <2> QED BY <1>1, <2>1, FS_EmptySet, FiniteStored
<1> QED BY <1>2, <1>3 DEF ListSave

LEMMA FiniteAfterCopy ==
    ASSUME ImportIInv, CopyIInv, CopyOut
    PROVE FiniteFiles'
<1>1. FiniteFiles /\ job.file \in DOMAIN psu
  BY DEF CopyIInv, ImportIInv, FlatCopy, CopyOut, ExportStep, At
<1>2. CASE psu' = psu
  BY <1>1, <1>2 DEF FiniteFiles
<1>3. ASSUME NEW q, NEW d, ReadThenWrite(q, d)
      PROVE FiniteFiles'
  <2> DEFINE c == Container(Exported, Put(OutFile.files, q, d), FALSE)
  <2>1. psu' = Put(psu, job.file, c) /\ DOMAIN c.files = DOMAIN OutFile.files \cup {q}
    BY <1>3 DEF ReadThenWrite, Put1, Container, Put
  <2>2. IsFiniteSet(DOMAIN OutFile.files)
    BY <1>1 DEF FiniteFiles, OutFile
  <2>3. IsFiniteSet(DOMAIN OutFile.files \cup {q})
    BY <2>2, FS_AddElement
  <2> HIDE DEF c
  <2> QED BY <1>1, <2>1, <2>3, FiniteStored
<1> QED BY <1>2, <1>3 DEF CopyOut

LEMMA FiniteAfterClose ==
    ASSUME ImportIInv, CopyIInv, CloseExport
    PROVE FiniteFiles'
<1>1. FiniteFiles /\ job.file \in DOMAIN psu
  BY DEF CopyIInv, ImportIInv, FlatCopy, CloseExport, ExportStep, At
<1> DEFINE c == Container(Exported, OutFile.files, TRUE)
<1>2. psu' = Put(psu, job.file, c) /\ DOMAIN c.files = DOMAIN OutFile.files
  BY DEF CloseExport, Put1, Container
<1>3. IsFiniteSet(DOMAIN OutFile.files)
  BY <1>1 DEF FiniteFiles, OutFile
<1> HIDE DEF c
<1> QED BY <1>1, <1>2, <1>3, FiniteStored

LEMMA ExportCopiesNothing ==
    ASSUME ImportIInv, CopyIInv,
           \/ PrepareExportPath \/ ListSave \/ CopyOut \/ CloseExport
           \/ VerifyPsuFileAgainstCard \/ RemoveExport
    PROVE CopyIInv'
<1>1. op' = "export"
  BY DEF PrepareExportPath, ListSave, CopyOut, CloseExport, VerifyPsuFileAgainstCard,
         VerifyPsu, RemoveExport, ExportStep, At, Stays, Refuse
<1>2. CASE psu' = psu
  BY <1>1, <1>2, NotImporting DEF CopyIInv, FiniteFiles
<1>3. CASE ListSave
  BY <1>1, <1>3, FiniteAfterList, NotImporting
<1>4. CASE CopyOut
  BY <1>1, <1>4, FiniteAfterCopy, NotImporting
<1>5. CASE CloseExport
  BY <1>1, <1>5, FiniteAfterClose, NotImporting
<1>6. CASE RemoveExport
  <2>1. psu' = psu \/ psu' = Drop(psu, {job.file})
    BY <1>6 DEF RemoveExport, Without
  <2>2. FiniteFiles'
    BY <2>1 DEF CopyIInv, FiniteFiles, Drop
  <2> QED BY <1>1, <2>2, NotImporting
<1>7. CASE PrepareExportPath \/ VerifyPsuFileAgainstCard
  BY <1>2, <1>7 DEF PrepareExportPath, VerifyPsuFileAgainstCard, VerifyPsu
<1> QED BY <1>3, <1>4, <1>5, <1>6, <1>7

LEMMA PsuCopies ==
    ASSUME ImportIInv, CopyIInv, PsuNext
    PROVE CopyIInv'
<1>1. PsuRollback => psu' = psu
  BY DEF PsuRollback
<1> QED BY <1>1, ContainerPicked, PsuTargetChecked, PsuDirectoryMade, PsuFileMade,
           PsuFileWritten, PsuFileCompared, PsuFileStamped, PsuPassed, RolledBack,
           ExportCopiesNothing
        DEF PsuNext

-----------------------------------------------------------------------------
(* The card leaves the slot, or another one is put in while no job runs.   *)

LEMMA CardPulled ==
    ASSUME CopyIInv, PullCard
    PROVE CopyIInv'
<1>1. inserted' = NoCard /\ op' = op /\ job' = job /\ psu' = psu
  BY DEF PullCard
<1>2. PassMeansCopied' /\ FiniteFiles' /\ Marked'
  BY <1>1 DEF PassMeansCopied, CopyIInv, FiniteFiles, Marked
<1>3. WalkInv'
  BY <1>1 DEF CopyIInv, WalkInv, WalkAt, Copied, Wants, Created, Entry, Ahead, InRoot, InFrame,
              NextOf
<1>4. PsuInv'
  BY <1>1 DEF CopyIInv, PsuInv, PsuWants, PsuCopiedSoFar, Created, Source, PsuTree
<1> QED BY <1>2, <1>3, <1>4 DEF CopyIInv

LEMMA CardInserted ==
    ASSUME ImportIInv, CopyIInv, InsertCard
    PROVE CopyIInv'
<1>1. op' = op /\ job' = job /\ psu' = psu /\ (op = "menu" \/ job.pc \in WaitPoints)
  BY DEF InsertCard
<1>2. ~(Importing' /\ job'.pc \in Active)
  BY <1>1, WaitAssumption DEF Importing, Active
<1>3. WalkInv' /\ PsuInv' /\ Marked' /\ FiniteFiles'
  BY <1>1, <1>2 DEF WalkInv, PsuInv, Marked, FiniteFiles, CopyIInv, Importing
<1>4. "done" \notin WaitPoints => PassMeansCopied'
  BY <1>1 DEF PassMeansCopied, ImportIInv, Unfinished, Importing
<1> QED BY <1>3, <1>4 DEF CopyIInv

LEMMA StepCopies ==
    ASSUME ImportIInv, CopyIInv, SaveInv, [Next]_vars
    PROVE CopyIInv'
<1>1. CASE ToolNext
  <2>1. CASE ImportNext /\ UNCHANGED psu
    BY <2>1, ImportCopies
  <2>2. CASE PsuNext
    BY <2>2, PsuCopies
  <2>3. CASE (SaveSettings \/ SettingsStep) /\ UNCHANGED psu
    <3>1. op' \in {"menu", "settings"}
      BY <2>3, SettingsOp
    <3>2. FiniteFiles'
      BY <2>3 DEF CopyIInv, FiniteFiles
    <3> QED BY <3>1, <3>2, NotImporting
  <2>4. CASE KelfNext /\ UNCHANGED psu
    <3>1. op' \in {"menu", "install"}
      BY <2>4, KelfOp DEF KelfRuns
    <3>2. FiniteFiles'
      BY <2>4 DEF CopyIInv, FiniteFiles
    <3> QED BY <3>1, <3>2, NotImporting
  <2> QED BY <1>1, <2>1, <2>2, <2>3, <2>4 DEF ToolNext
<1>2. CASE Dismiss \/ PowerCut \/ Boot
  <2>1. psu' = psu /\ op' \in {"menu", "off"}
    BY <1>2 DEF Dismiss, PowerCut, Boot
  <2>2. FiniteFiles'
    BY <2>1 DEF CopyIInv, FiniteFiles
  <2> QED BY <2>1, <2>2, NotImporting
<1>3. CASE UNCHANGED vars
  <2>1. /\ op' = op /\ card' = card /\ job' = job /\ psu' = psu /\ inserted' = inserted
    BY <1>3 DEF vars, mediaVars
  <2>2. WalkInv' /\ Marked' /\ FiniteFiles'
    BY <2>1 DEF CopyIInv, WalkInv, WalkAt, Copied, Wants, Created, Doing, Here, Marked,
                FiniteFiles
  <2>3. PsuInv'
    BY <2>1 DEF CopyIInv, PsuInv, PsuWants, PsuCopiedSoFar, Created, Source, PsuTree, Here
  <2>4. PassMeansCopied' <=> PassMeansCopied
    BY <2>1 DEF PassMeansCopied, Importing, Here
  <2> QED BY <2>2, <2>3, <2>4 DEF CopyIInv
<1> QED BY <1>1, <1>2, <1>3, CardPulled, CardInserted DEF Next

LEMMA CopyInvariance == Spec => []CopyIInv
<1>1. Init => CopyIInv
  <2> SUFFICES ASSUME Init PROVE CopyIInv
    OBVIOUS
  <2>1. op = "menu" /\ psu = FirstPsu
    BY DEF Init, MediaInit, PsuInit
  <2>2. FiniteFiles
    BY <2>1, FlatAssumption DEF FiniteFiles
  <2> QED BY <2>1, <2>2 DEF CopyIInv, WalkInv, Marked, PsuInv, PassMeansCopied, Importing
<1>2. ImportIInv /\ CopyIInv /\ SettingsIInv /\ [Next]_vars => CopyIInv'
  BY StepCopies DEF SettingsIInv
<1> QED BY <1>1, <1>2, ImportInvariance, SettingsInvariance, PTL DEF Spec

(* An import that reports PASS has left on the card all of the chosen      *)
(* saves as the source has them, files, directories and times, and what    *)
(* the card held before, for every image, container and card, whatever     *)
(* call fails on the way; the user puts no other card in while the result  *)
(* is shown.                                                               *)
THEOREM PassAlwaysCopied ==
    ASSUME "done" \notin WaitPoints
    PROVE Spec => []PassMeansCopied
<1>1. CopyIInv => PassMeansCopied
  BY DEF CopyIInv
<1> QED BY <1>1, CopyInvariance, PTL

-----------------------------------------------------------------------------
(* The type invariant.  A card command answers with what keeps the types,  *)
(* or does not answer; the steps of each tool follow.                      *)

Steps == {"none", "browse", "selected", "confirm", "walk", "write", "verify", "stamp",
          "rollback", "list", "copy", "remove", "done"}
Times == {"fresh", "source"}
Timed(c) == \A k \in Cards : \A p \in DOMAIN c[k] : c[k][p].meta \in Times
Budget == faults \in 0..MaxFaults
Answers(o) == o.faults \in 0..MaxFaults /\ Timed(o.card)
Medium == Trees /\ Timed(card) /\ Budget /\ inserted \in Cards \cup {NoCard}

LEMMA NoAnswer ==
    ASSUME Medium, NEW S, inserted = NoCard, NEW o \in Command(S)
    PROVE Answers(o)
BY DEF Command, Answers, Medium, Budget

LEMMA OutcomeTyped ==
    ASSUME Medium, inserted \in Cards, NEW tree, \A p \in DOMAIN tree : tree[p].meta \in Times,
           NEW rc, NEW n \in {0, 1}, NEW o, o = Outcome(rc, tree, n), o.faults <= MaxFaults
    PROVE Answers(o)
<1>1. o.faults \in 0..MaxFaults
  <2>1. o.faults = faults + n BY DEF Outcome
  <2> QED BY <2>1, FaultAssumption DEF Medium, Budget
<1>2. o.card = [card EXCEPT ![inserted] = tree] BY DEF Outcome
<1>3. Timed(o.card) BY <1>2 DEF Timed, Medium, Trees
<1> QED BY <1>1, <1>3 DEF Answers

LEMMA TreesTyped ==
    ASSUME Medium, inserted \in Cards
    PROVE /\ \A p \in DOMAIN Here : Here[p].meta \in Times
          /\ \A q, d, m : m \in Times =>
                \A p \in DOMAIN Put(Here, q, Object(d, m)) : Put(Here, q, Object(d, m))[p].meta \in Times
          /\ \A P : \A p \in DOMAIN Drop(Here, P) : Drop(Here, P)[p].meta \in Times
<1>1. \A p \in DOMAIN Here : Here[p].meta \in Times BY DEF Medium, Timed, Here
<1> QED BY <1>1 DEF Put, Drop, Object

LEMMA MkDirTyped ==
    ASSUME Medium, NEW p, NEW o \in McMkDir(p)
    PROVE Answers(o)
<1>1. CASE inserted = NoCard BY <1>1, NoAnswer DEF McMkDir
<1>2. CASE inserted # NoCard
  <2>1. inserted \in Cards /\ o.faults <= MaxFaults BY <1>2 DEF Medium, McMkDir, Command
  <2>2. \/ \E rc \in {Ok, Failed}, n \in {0, 1} : o = Outcome(rc, Here, n)
        \/ o = Outcome(Ok, Put(Here, p, Object("dir", "fresh")), 0)
    BY <1>2 DEF McMkDir, Command, Folder
  <2> QED BY <2>1, <2>2, TreesTyped, OutcomeTyped DEF Times
<1> QED BY <1>1, <1>2

LEMMA CreateTyped ==
    ASSUME Medium, NEW p, NEW o \in McCreate(p)
    PROVE Answers(o)
<1>1. CASE inserted = NoCard BY <1>1, NoAnswer DEF McCreate
<1>2. CASE inserted # NoCard
  <2>1. inserted \in Cards /\ o.faults <= MaxFaults BY <1>2 DEF Medium, McCreate, Command
  <2>2. \/ o = Outcome(Failed, Here, 1)
        \/ o = Outcome(Ok, Put(Here, p, Object("empty", "fresh")), 0)
    BY <1>2 DEF McCreate, Command
  <2> QED BY <2>1, <2>2, TreesTyped, OutcomeTyped DEF Times
<1> QED BY <1>1, <1>2

LEMMA WriteTyped ==
    ASSUME Medium, NEW p, NEW d, NEW o \in McWrite(p, d)
    PROVE Answers(o)
<1>1. CASE inserted = NoCard BY <1>1, NoAnswer DEF McWrite
<1>2. CASE inserted # NoCard
  <2>1. inserted \in Cards /\ o.faults <= MaxFaults BY <1>2 DEF Medium, McWrite, Command
  <2>2. \E rc, x, n : n \in {0, 1} /\ o = Outcome(rc, Put(Here, p, Object(x, "fresh")), n)
    BY <1>2 DEF McWrite, Command
  <2>3. PICK rc, x, n : n \in {0, 1} /\ o = Outcome(rc, Put(Here, p, Object(x, "fresh")), n)
    BY <2>2
  <2> QED BY <2>1, <2>3, TreesTyped, OutcomeTyped DEF Times
<1> QED BY <1>1, <1>2

LEMMA SameTyped ==
    ASSUME Medium, NEW p, NEW d, NEW o \in McSame(p, d)
    PROVE Answers(o)
<1>1. CASE inserted = NoCard BY <1>1, NoAnswer DEF McSame
<1>2. CASE inserted # NoCard
  <2>1. inserted \in Cards /\ o.faults <= MaxFaults BY <1>2 DEF Medium, McSame, Command
  <2>2. \E rc \in {Ok, Failed}, n \in {0, 1} : o = Outcome(rc, Here, n)
    BY <1>2 DEF McSame, Command
  <2> QED BY <2>1, <2>2, TreesTyped, OutcomeTyped
<1> QED BY <1>1, <1>2

LEMMA SetInfoTyped ==
    ASSUME Medium, NEW p, NEW o \in McSetInfo(p)
    PROVE Answers(o)
<1>1. CASE inserted = NoCard BY <1>1, NoAnswer DEF McSetInfo
<1>2. CASE inserted # NoCard
  <2>1. inserted \in Cards /\ o.faults <= MaxFaults BY <1>2 DEF Medium, McSetInfo, Command
  <2>2. \/ o = Outcome(Failed, Here, 1)
        \/ o = Outcome(Ok, Put(Here, p, Object(Here[p].data, "source")), 0)
    BY <1>2 DEF McSetInfo, Command
  <2> QED BY <2>1, <2>2, TreesTyped, OutcomeTyped DEF Times
<1> QED BY <1>1, <1>2

LEMMA DeleteTyped ==
    ASSUME Medium, NEW p, NEW o \in McDelete(p)
    PROVE Answers(o)
<1>1. CASE inserted = NoCard BY <1>1, NoAnswer DEF McDelete
<1>2. CASE inserted # NoCard
  <2>1. inserted \in Cards /\ o.faults <= MaxFaults BY <1>2 DEF Medium, McDelete, Command
  <2>2. \/ \E rc \in {Ok, Failed}, n \in {0, 1} : o = Outcome(rc, Here, n)
        \/ o = Outcome(Ok, Drop(Here, {p}), 0)
    BY <1>2 DEF McDelete, Command
  <2> QED BY <2>1, <2>2, TreesTyped, OutcomeTyped
<1> QED BY <1>1, <1>2

LEMMA ReadTyped ==
    ASSUME Medium, Reads \/ ReadFails
    PROVE faults' \in 0..MaxFaults /\ card' = card
BY FaultAssumption DEF Medium, Budget, Reads, ReadFails, FaultSpent

LEMMA SpentTyped ==
    ASSUME Medium, FaultSpent \/ faults' = faults
    PROVE faults' \in 0..MaxFaults
BY FaultAssumption DEF Medium, Budget, FaultSpent

Moved == faults' \in 0..MaxFaults /\ Timed(card') /\ job'.pc \in Steps
Handled == Medium /\ JobShape /\ job.pc \in Steps

LEMMA AnswerTyped ==
    ASSUME NEW o, Answers(o), card' = o.card, faults' = o.faults, job'.pc \in Steps
    PROVE Moved
BY DEF Answers, Moved

LEMMA PcSet ==
    ASSUME JobShape, NEW pc
    PROVE /\ [job EXCEPT !.pc = pc].pc = pc /\ Fails(job).pc = "rollback"
          /\ \A res : Ends(job, res).pc = "done"
BY DEF JobShape, JobFields, Fails, Ends

LEMMA RecordPc ==
    ASSUME NEW j, DOMAIN j = JobFields, IsFcn(j), NEW p
    PROVE Record(j, p).pc \in {j.pc, "rollback"}
BY DEF Record, Fails, JobFields, IsFcn

LEMMA MakeDirectoryTyped ==
    ASSUME Handled, NEW p, MakeDirectory(p)
    PROVE Moved
<1>1. PICK o \in McMkDir(p) :
         /\ card' = o.card /\ faults' = o.faults
         /\ job' = IF o.rc # Ok THEN Fails(job) ELSE Record(Entered(job, p), p)
  BY DEF MakeDirectory, Runs
<1>2. /\ DOMAIN Entered(job, p) = JobFields /\ IsFcn(Entered(job, p))
      /\ Entered(job, p).pc = job.pc
  BY DEF Handled, JobShape, JobFields, IsFcn, Entered
<1>3. Record(Entered(job, p), p).pc \in Steps
  BY <1>2, RecordPc DEF Handled, Steps
<1>4. job'.pc \in Steps
  BY <1>1, <1>3, PcSet DEF Handled, Steps
<1> QED BY <1>1, <1>4, MkDirTyped, AnswerTyped DEF Handled

LEMMA ImportTyped ==
    ASSUME Handled, ImportNext
    PROVE Moved
<1> USE DEF Handled
<1>f. Fails(job).pc \in Steps /\ \A res : Ends(job, res).pc \in Steps
  BY PcSet DEF Steps
<1>1. CASE OpenBrowser
  <2>1. job'.pc \in Steps BY <1>1 DEF OpenBrowser, Viewed, NoJob, Steps
  <2>2. Reads \/ ReadFails BY <1>1 DEF OpenBrowser
  <2> QED BY <2>1, <2>2, ReadTyped DEF Moved, Medium, Timed
<1>2. CASE RefreshDestination
  <2>1. job'.pc \in Steps
    BY <1>2 DEF RefreshDestination, Viewed, Steps, JobShape, JobFields
  <2>2. Reads \/ ReadFails BY <1>2 DEF RefreshDestination
  <2> QED BY <2>1, <2>2, ReadTyped DEF Moved, Medium, Timed
<1>3. CASE Select
  <2>1. job'.pc \in Steps BY <1>3 DEF Select, Steps, JobShape, JobFields
  <2> QED BY <1>3, <2>1 DEF Select, Moved, Medium, Timed, Budget
<1>4. CASE CheckTarget
  <2>1. job'.pc \in Steps
    BY <1>f, <1>4 DEF CheckTarget, Refuse, Starting, Steps, JobShape, JobFields
  <2>2. Reads \/ ReadFails BY <1>4 DEF CheckTarget
  <2> QED BY <2>1, <2>2, ReadTyped DEF Moved, Medium, Timed
<1>5. CASE EnterSave \/ EnterDirectory
  BY <1>5, MakeDirectoryTyped DEF EnterSave, EnterDirectory
<1>6. CASE CreateFile
  <2> DEFINE j == [job EXCEPT !.pc = "write", !.path = NextEntry]
  <2>1. PICK o \in McCreate(NextEntry) :
           /\ card' = o.card /\ faults' = o.faults
           /\ job' = IF o.rc # Ok THEN Fails(job) ELSE Record(j, NextEntry)
    BY <1>6 DEF CreateFile, Runs
  <2>2. DOMAIN j = JobFields /\ IsFcn(j) /\ j.pc = "write"
    BY DEF JobShape, JobFields, IsFcn
  <2> HIDE DEF j
  <2>3. job'.pc \in Steps BY <1>f, <2>1, <2>2, RecordPc DEF Steps
  <2> QED BY <2>1, <2>3, CreateTyped, AnswerTyped
<1>7. CASE WriteFile
  <2>1. PICK o \in McWrite(job.path, ImageData[job.path]) :
           /\ card' = o.card /\ faults' = o.faults
           /\ job' \in {[job EXCEPT !.pc = "verify"], Fails(job)}
    BY <1>7 DEF WriteFile, Runs
  <2>2. job'.pc \in Steps BY <1>f, <2>1 DEF Steps, JobShape, JobFields
  <2>3. Answers(o) BY <2>1, WriteTyped
  <2> QED BY <2>1, <2>2, <2>3, AnswerTyped
<1>8. CASE VerifyImportedFile
  <2>1. PICK o \in McSame(job.path, ImageData[job.path]) :
           /\ card' = o.card /\ faults' = o.faults
           /\ job' \in {[job EXCEPT !.pc = "stamp"], Fails(job)}
    BY <1>8 DEF VerifyImportedFile, Runs
  <2>2. job'.pc \in Steps BY <1>f, <2>1 DEF Steps, JobShape, JobFields
  <2>3. Answers(o) BY <2>1, SameTyped
  <2> QED BY <2>1, <2>2, <2>3, AnswerTyped
<1>9. CASE StampFile
  <2>1. PICK o \in McSetInfo(job.path) :
           /\ card' = o.card /\ faults' = o.faults
           /\ job' \in {[job EXCEPT !.pc = "walk", !.stack = Advance(@)], Fails(job)}
    BY <1>9 DEF StampFile, Runs
  <2>2. job'.pc \in Steps BY <1>f, <2>1 DEF Steps, JobShape, JobFields
  <2> QED BY <2>1, <2>2, SetInfoTyped, AnswerTyped
<1>10. CASE LeaveDirectory
  <2>1. PICK o \in McSetInfo(Frame.dir) :
           /\ card' = o.card /\ faults' = o.faults
           /\ job' \in {Left(job), Fails(job)}
    BY <1>10 DEF LeaveDirectory, Runs
  <2>2. Left(job).pc = job.pc BY DEF Left, JobShape, JobFields
  <2>3. job'.pc \in Steps BY <1>f, <2>1, <2>2
  <2> QED BY <2>1, <2>3, SetInfoTyped, AnswerTyped
<1>11. CASE ImportDone
  <2>1. job'.pc \in Steps BY <1>f, <1>11 DEF ImportDone, Refuse
  <2> QED BY <1>11, <2>1 DEF ImportDone, Moved, Medium, Timed, Budget
<1>12. CASE RollbackCreated
  <2>1. CASE job.created = <<>>
    <3>1. job'.pc \in Steps BY <1>f, <1>12, <2>1 DEF RollbackCreated, Refuse
    <3> QED BY <1>12, <2>1, <3>1 DEF RollbackCreated, Moved, Medium, Timed, Budget
  <2>2. CASE job.created # <<>>
    <3>1. PICK o \in McDelete(Last(job.created)) :
             /\ card' = o.card /\ faults' = o.faults
             /\ job' = [job EXCEPT !.created = Front(@), !.rb = IF @ = Ok THEN o.rc ELSE @]
      BY <1>12, <2>2 DEF RollbackCreated, Runs
    <3>2. job'.pc \in Steps BY <3>1 DEF JobShape, JobFields
    <3> QED BY <3>1, <3>2, DeleteTyped, AnswerTyped
  <2> QED BY <2>1, <2>2
<1> QED BY <1>1, <1>2, <1>3, <1>4, <1>5, <1>6, <1>7, <1>8, <1>9, <1>10, <1>11, <1>12
        DEF ImportNext

LEMMA PsuCopyTyped ==
    ASSUME Handled, PsuMakeDirectory \/ PsuCreateFile \/ PsuWriteFile \/ PsuVerifyFile
                    \/ PsuStampFile \/ PsuFinish \/ PsuRollback
    PROVE Moved
<1> USE DEF Handled
<1>f. Fails(job).pc \in Steps /\ \A res : Ends(job, res).pc \in Steps
  BY PcSet DEF Steps
<1>1. CASE PsuMakeDirectory
  <2>1. PICK o \in McMkDir(<<Source.save>>) :
           /\ card' = o.card /\ faults' = o.faults
           /\ job' \in {PsuRecord(job, <<Source.save>>), Fails(job)}
    BY <1>1 DEF PsuMakeDirectory, PsuCommand, Runs
  <2>2. job'.pc \in Steps BY <1>f, <2>1 DEF PsuRecord, JobShape, JobFields
  <2>3. Answers(o) BY <2>1, MkDirTyped
  <2> QED BY <2>1, <2>2, <2>3, AnswerTyped
<1>2. CASE PsuCreateFile
  <2>1. PICK p \in DOMAIN Source.files \ ToSet(job.created) :
           PsuCommand("walk", McCreate(p),
                      LAMBDA j : PsuRecord([j EXCEPT !.pc = "write", !.path = p], p))
    BY <1>2 DEF PsuCreateFile
  <2>2. PICK o \in McCreate(p) :
           /\ card' = o.card /\ faults' = o.faults
           /\ job' \in {PsuRecord([job EXCEPT !.pc = "write", !.path = p], p), Fails(job)}
    BY <2>1 DEF PsuCommand, Runs
  <2>3. job'.pc \in Steps BY <1>f, <2>2 DEF PsuRecord, Steps, JobShape, JobFields
  <2>4. Answers(o) BY <2>2, CreateTyped
  <2> QED BY <2>2, <2>3, <2>4, AnswerTyped
<1>3. CASE PsuWriteFile
  <2>1. PICK o \in McWrite(job.path, Source.files[job.path]) :
           /\ card' = o.card /\ faults' = o.faults
           /\ job' \in {[job EXCEPT !.pc = "verify"], Fails(job)}
    BY <1>3 DEF PsuWriteFile, PsuCommand, Runs
  <2>2. job'.pc \in Steps BY <1>f, <2>1 DEF Steps, JobShape, JobFields
  <2>3. Answers(o) BY <2>1, WriteTyped
  <2> QED BY <2>1, <2>2, <2>3, AnswerTyped
<1>4. CASE PsuVerifyFile
  <2>1. PICK o \in McSame(job.path, Source.files[job.path]) :
           /\ card' = o.card /\ faults' = o.faults
           /\ job' \in {[job EXCEPT !.pc = "stamp"], Fails(job)}
    BY <1>4 DEF PsuVerifyFile, PsuCommand, Runs
  <2>2. job'.pc \in Steps BY <1>f, <2>1 DEF Steps, JobShape, JobFields
  <2>3. Answers(o) BY <2>1, SameTyped
  <2> QED BY <2>1, <2>2, <2>3, AnswerTyped
<1>5. CASE PsuStampFile
  <2>1. PICK o \in McSetInfo(job.path) :
           /\ card' = o.card /\ faults' = o.faults
           /\ job' \in {[job EXCEPT !.pc = "walk"], Fails(job)}
    BY <1>5 DEF PsuStampFile, PsuCommand, Runs
  <2>2. job'.pc \in Steps BY <1>f, <2>1 DEF Steps, JobShape, JobFields
  <2>3. Answers(o) BY <2>1, SetInfoTyped
  <2> QED BY <2>1, <2>2, <2>3, AnswerTyped
<1>6. CASE PsuFinish
  <2>1. PICK o \in McSetInfo(<<Source.save>>) :
           /\ card' = o.card /\ faults' = o.faults
           /\ job' \in {Ends(job, "ok"), Fails(job)}
    BY <1>6 DEF PsuFinish, PsuCommand, Runs
  <2>2. job'.pc \in Steps BY <1>f, <2>1
  <2>3. Answers(o) BY <2>1, SetInfoTyped
  <2> QED BY <2>1, <2>2, <2>3, AnswerTyped
<1>7. CASE PsuRollback
  <2>1. CASE job.created = <<>>
    <3>1. job'.pc \in Steps BY <1>f, <1>7, <2>1 DEF PsuRollback, Refuse
    <3> QED BY <1>7, <2>1, <3>1 DEF PsuRollback, Moved, Medium, Timed, Budget
  <2>2. CASE job.created # <<>>
    <3>1. PICK o \in McDelete(Last(job.created)) :
             card' = o.card /\ faults' = o.faults /\ job' = Deleted(job, o.rc)
      BY <1>7, <2>2 DEF PsuRollback, Runs
    <3>2. job'.pc \in Steps BY <3>1 DEF Deleted, JobShape, JobFields
    <3>3. Answers(o) BY <3>1, DeleteTyped
    <3> QED BY <3>1, <3>2, <3>3, AnswerTyped
  <2> QED BY <2>1, <2>2
<1> QED BY <1>1, <1>2, <1>3, <1>4, <1>5, <1>6, <1>7

LEMMA QuietMove ==
    ASSUME Handled, card' = card, faults' \in 0..MaxFaults, job'.pc \in Steps
    PROVE Moved
BY DEF Handled, Medium, Moved, Timed

(* The steps of an export, and those of an import that copy nothing.       *)
LEMMA PsuQuietTyped ==
    ASSUME Handled, PickContainer \/ PsuCheckTarget \/ PrepareExportPath \/ ListSave
                    \/ CopyOut \/ CloseExport \/ VerifyPsuFileAgainstCard \/ RemoveExport
    PROVE Moved
<1>m. Medium /\ JobShape /\ job.pc \in Steps
  BY DEF Handled
<1>f. faults \in 0..MaxFaults /\ \A res : Ends(job, res).pc \in Steps
  BY <1>m, PcSet DEF Steps, Medium, Budget
<1>g. \A pc \in Steps : [job EXCEPT !.pc = pc].pc \in Steps
  BY <1>m, PcSet
<1>1. CASE PickContainer
  <2>1. job'.pc \in Steps BY <1>1 DEF PickContainer, NoJob, Steps
  <2> QED BY <1>1, <1>f, <2>1, QuietMove DEF PickContainer
<1>2. CASE PsuCheckTarget
  <2>1. job'.pc \in Steps
    BY <1>m, <1>f, <1>2 DEF PsuCheckTarget, Refuse, Starting, Steps, JobShape, JobFields
  <2>2. Reads \/ ReadFails BY <1>2 DEF PsuCheckTarget
  <2> QED BY <1>m, <2>1, <2>2, ReadTyped, QuietMove
<1>3. CASE PrepareExportPath
  <2>1. job'.pc \in Steps BY <1>3 DEF PrepareExportPath, NoJob, Steps
  <2>2. card' = card /\ (FaultSpent \/ faults' = faults) BY <1>3 DEF PrepareExportPath
  <2> QED BY <1>m, <2>1, <2>2, SpentTyped, QuietMove
<1>4. CASE ListSave
  <2>1. job'.pc \in Steps
    BY <1>m, <1>f, <1>4 DEF ListSave, Refuse, Steps, JobShape, JobFields
  <2>2. Reads \/ ReadFails BY <1>4 DEF ListSave
  <2> QED BY <1>m, <2>1, <2>2, ReadTyped, QuietMove
<1>5. CASE CopyOut
  <2>1. job'.pc \in Steps
    BY <1>m, <1>g, <1>5 DEF CopyOut, ExportFails, Steps
  <2>2. card' = card /\ (Reads \/ ReadFails \/ FaultSpent) BY <1>5 DEF CopyOut, ExportStep
  <2> QED BY <1>m, <2>1, <2>2, ReadTyped, SpentTyped, QuietMove
<1>6. CASE CloseExport
  <2>1. job'.pc \in Steps
    BY <1>g, <1>6 DEF CloseExport, ExportFails, Steps
  <2>2. card' = card /\ (FaultSpent \/ faults' = faults) BY <1>6 DEF CloseExport, ExportStep
  <2> QED BY <1>m, <2>1, <2>2, SpentTyped, QuietMove
<1>7. CASE VerifyPsuFileAgainstCard
  <2>1. job'.pc \in Steps
    BY <1>f, <1>g, <1>7 DEF VerifyPsuFileAgainstCard, VerifyPsu, ExportFails, Steps
  <2>2. Reads \/ ReadFails BY <1>7 DEF VerifyPsuFileAgainstCard, VerifyPsu
  <2> QED BY <1>m, <2>1, <2>2, ReadTyped, QuietMove
<1>8. CASE RemoveExport
  <2>1. job'.pc \in Steps BY <1>f, <1>8 DEF RemoveExport
  <2>2. card' = card /\ (FaultSpent \/ faults' = faults) BY <1>8 DEF RemoveExport, ExportStep
  <2> QED BY <1>m, <2>1, <2>2, SpentTyped, QuietMove
<1> QED BY <1>1, <1>2, <1>3, <1>4, <1>5, <1>6, <1>7, <1>8

LEMMA PsuTyped == ASSUME Handled, PsuNext PROVE Moved
BY PsuCopyTyped, PsuQuietTyped DEF PsuNext

LEMMA SettingsTyped ==
    ASSUME Handled, SaveSettings \/ SettingsStep
    PROVE faults' \in 0..MaxFaults
<1>1. FaultSpent \/ faults' = faults
  BY DEF SaveSettings, SettingsStep, LocateConfig, RemoveTemp, WriteTemp, SyncTemp, ReadBack,
         RemoveOld, Rename, SyncFile, GiveUp, NoFault
<1> QED BY <1>1, SpentTyped DEF Handled

LEMMA KelfTyped ==
    ASSUME Handled, KelfNext
    PROVE faults' \in 0..MaxFaults
<1>1. Reads \/ ReadFails \/ faults' = faults
  BY DEF KelfNext, ProbeMagicGate, StartInstall, PreflightSource, Reject, PreflightDone,
         WriteBound, WriteDone, LeaveInstall, RewritePackage, mediaVars
<1> QED BY <1>1, ReadTyped DEF Handled, Medium, Budget

-----------------------------------------------------------------------------
(* The tables: what an import has created and what the preflight has bound.*)

Room == Cardinality(DOMAIN Source.files)
Table ==
    /\ op = "image" => Len(job.created) <= CreatedMax
    /\ op = "import" => Room \in Nat /\ Len(job.created) <= Room + 1
Wholes == \A n \in DOMAIN psu : psu[n].whole \in BOOLEAN
(* While a container is copied, every object in the list is one of its own.*)
CopyFits == op = "import" /\ job.pc \in Active => Room \in Nat /\ Len(job.created) <= Room + 1

LEMMA CopyFitsNow == ImportIInv /\ CopyIInv => CopyFits
<1> SUFFICES ASSUME ImportIInv, CopyIInv, op = "import", job.pc \in Active
             PROVE Room \in Nat /\ Len(job.created) <= Room + 1
  BY DEF CopyFits
<1>1. PsuWants /\ FiniteFiles /\ job.file \in DOMAIN psu
  BY DEF CopyIInv, PsuInv, ImportIInv, Placed, Importing
<1> DEFINE F == DOMAIN Source.files
           p == <<Source.save>>
<1>2. IsFiniteSet(F) BY <1>1 DEF FiniteFiles, Source
<1>3. Created \subseteq F \cup {p} /\ Cardinality(Created) = Len(job.created)
  BY <1>1 DEF PsuWants, PsuTree
<1> HIDE DEF F, p
<1>4. Cardinality(F) \in Nat /\ IsFiniteSet(F \cup {p})
  BY <1>2, FS_CardinalityType, FS_AddElement
<1>5. Cardinality(F \cup {p}) \in {Cardinality(F), Cardinality(F) + 1}
  BY <1>2, FS_AddElement
<1>6. Cardinality(Created) <= Cardinality(F \cup {p}) /\ Cardinality(Created) \in Nat
  BY <1>3, <1>4, FS_Subset, FS_CardinalityType
<1>7. Len(job.created) <= Cardinality(F) + 1
  BY <1>3, <1>4, <1>5, <1>6
<1> QED BY <1>4, <1>7 DEF F, Room

LEMMA FrontLen ==
    ASSUME NEW S, NEW s \in Seq(S), s # <<>>
    PROVE Len(Front(s)) \in Nat /\ Len(Front(s)) < Len(s) /\ Len(s) \in Nat
BY DEF Front

LEMMA RecordLen ==
    ASSUME NEW S, NEW j, DOMAIN j = JobFields, IsFcn(j), j.created \in Seq(S), NEW p,
           Len(j.created) <= CreatedMax
    PROVE Len(Record(j, p).created) <= CreatedMax
<1>1. CASE Len(j.created) = CreatedMax
  BY <1>1 DEF Record, Fails, JobFields, IsFcn
<1>2. CASE Len(j.created) # CreatedMax
  <2>1. Record(j, p).created = Append(j.created, p)
    BY <1>2 DEF Record, JobFields, IsFcn
  <2>2. Len(Append(j.created, p)) = Len(j.created) + 1 /\ Len(j.created) \in Nat
    OBVIOUS
  <2> QED BY <1>2, <2>1, <2>2, TableAssumption
<1> QED BY <1>1, <1>2

LEMMA ImageTable ==
    ASSUME ImportIInv, Table, ImportNext, op' = "image"
    PROVE Len(job'.created) <= CreatedMax
<1>1. JobShape BY DEF ImportIInv
<1>s. ASSUME op = "image", job'.created = job.created
      PROVE Len(job'.created) <= CreatedMax
  BY <1>s DEF Table
<1>2. CASE OpenBrowser
  <2>1. job' = Viewed(NoJob) BY <1>2 DEF OpenBrowser
  <2>2. job'.created = <<>> BY <2>1 DEF Viewed, NoJob
  <2> QED BY <2>2, TableAssumption
<1>3. CASE RefreshDestination \/ Select \/ CheckTarget
  <2>1. op = "image" /\ job'.created = job.created
    BY <1>1, <1>3 DEF RefreshDestination, Select, CheckTarget, Viewed, Refuse, Ends, Starting,
                      At, JobShape, JobFields
  <2> QED BY <2>1, <1>s
<1>4. ASSUME NEW p, At("image", "walk"), MakeDirectory(p)
      PROVE Len(job'.created) <= CreatedMax
  <2> DEFINE j == Entered(job, p)
  <2>1. op = "image" /\ job.created \in Seq(Created) /\ job' \in {Fails(job), Record(j, p)}
    BY <1>4 DEF At, MakeDirectory, Runs, ImportIInv, Listed, InJob, Importing, Active
  <2>2. DOMAIN j = JobFields /\ IsFcn(j) /\ j.created = job.created
    BY <1>1 DEF Entered, JobShape, JobFields, IsFcn
  <2> HIDE DEF j
  <2>3. CASE job' = Fails(job)
    BY <1>1, <2>1, <2>3, <1>s DEF Fails, JobShape, JobFields
  <2>4. CASE job' = Record(j, p)
    BY <2>1, <2>2, <2>4, RecordLen DEF Table
  <2> QED BY <2>1, <2>3, <2>4
<1>5. CASE EnterSave \/ EnterDirectory
  BY <1>4, <1>5 DEF EnterSave, EnterDirectory, InDirectory
<1>6. CASE CreateFile
  <2> DEFINE p == NextEntry
             j == [job EXCEPT !.pc = "write", !.path = p]
  <2>1. op = "image" /\ job.created \in Seq(Created) /\ job' \in {Fails(job), Record(j, p)}
    BY <1>6 DEF CreateFile, InDirectory, At, Runs, ImportIInv, Listed, InJob, Importing, Active
  <2>2. DOMAIN j = JobFields /\ IsFcn(j) /\ j.created = job.created
    BY <1>1 DEF JobShape, JobFields, IsFcn
  <2> HIDE DEF j, p
  <2>3. CASE job' = Fails(job)
    BY <1>1, <2>1, <2>3, <1>s DEF Fails, JobShape, JobFields
  <2>4. CASE job' = Record(j, p)
    BY <2>1, <2>2, <2>4, RecordLen DEF Table
  <2> QED BY <2>1, <2>3, <2>4
<1>7. CASE WriteFile \/ VerifyImportedFile \/ StampFile \/ LeaveDirectory \/ ImportDone
  <2>1. op = "image" /\ job'.created = job.created
    BY <1>1, <1>7 DEF WriteFile, VerifyImportedFile, StampFile, LeaveDirectory, InDirectory,
                      ImportDone, Runs, Refuse, Ends, Fails, Left, At, JobShape, JobFields
  <2> QED BY <2>1, <1>s
<1>8. CASE RollbackCreated
  <2>1. op = "image" /\ job.created \in Seq(Created)
    BY <1>8 DEF RollbackCreated, At, ImportIInv, Listed, InJob, Importing
  <2>2. CASE job.created = <<>>
    <3>1. job'.created = job.created
      BY <1>1, <1>8, <2>2 DEF RollbackCreated, Refuse, Ends, JobShape, JobFields
    <3> QED BY <2>1, <3>1, <1>s
  <2>3. CASE job.created # <<>>
    <3>1. job'.created = Front(job.created)
      BY <1>1, <1>8, <2>3 DEF RollbackCreated, Runs, JobShape, JobFields
    <3>2. Len(Front(job.created)) \in Nat /\ Len(Front(job.created)) < Len(job.created)
          /\ Len(job.created) \in Nat
      BY <2>1, <2>3, FrontLen
    <3>3. Len(job.created) <= CreatedMax BY <2>1 DEF Table
    <3> QED BY <3>1, <3>2, <3>3, TableAssumption
  <2> QED BY <2>2, <2>3
<1> QED BY <1>2, <1>3, <1>5, <1>6, <1>7, <1>8 DEF ImportNext

LEMMA PsuTable ==
    ASSUME ImportIInv, CopyIInv, Table, CopyFits', PsuNext, op' = "import"
    PROVE (Room \in Nat /\ Len(job.created) <= Room + 1)'
<1>1. JobShape /\ FiniteFiles BY DEF ImportIInv, CopyIInv
<1>s. ASSUME op = "import", job'.created = job.created, job'.file = job.file, psu' = psu
      PROVE (Room \in Nat /\ Len(job.created) <= Room + 1)'
  BY <1>s DEF Table, Room, Source
<1>2. CASE PickContainer
  <2>1. PICK n \in DOMAIN psu : job' = [NoJob EXCEPT !.pc = "confirm", !.file = n]
    BY <1>2 DEF PickContainer
  <2>2. psu' = psu /\ job'.file = n /\ job'.created = <<>>
    BY <1>2, <2>1 DEF PickContainer, NoJob
  <2>3. Cardinality(DOMAIN psu[n].files) \in Nat
    BY <1>1, FS_CardinalityType DEF FiniteFiles
  <2>4. Room' = Cardinality(DOMAIN psu[n].files) BY <2>2 DEF Room, Source
  <2> QED BY <2>2, <2>3, <2>4
<1>3. CASE PsuCheckTarget
  <2>1. op = "import" /\ job'.created = job.created /\ job'.file = job.file /\ psu' = psu
    BY <1>1, <1>3 DEF PsuCheckTarget, Refuse, Ends, Starting, At, JobShape, JobFields
  <2> QED BY <2>1, <1>s
<1>4. CASE PsuMakeDirectory \/ PsuCreateFile
  <2>1. /\ op = "import" /\ psu' = psu
        /\ job' = Fails(job) \/ job'.pc \in Active
    <3>1. CASE PsuMakeDirectory
      BY <1>1, <3>1 DEF PsuMakeDirectory, PsuCommand, Runs, At, PsuRecord, Active, JobShape,
                        JobFields
    <3>2. CASE PsuCreateFile
      BY <1>1, <3>2 DEF PsuCreateFile, PsuCommand, Runs, At, PsuRecord, Active, JobShape,
                        JobFields
    <3> QED BY <1>4, <3>1, <3>2
  <2>2. CASE job' = Fails(job)
    BY <1>1, <2>1, <2>2, <1>s DEF Fails, JobShape, JobFields
  <2>3. CASE job'.pc \in Active
    BY <2>3 DEF CopyFits
  <2> QED BY <2>1, <2>2, <2>3
<1>5. CASE PsuWriteFile \/ PsuVerifyFile \/ PsuStampFile \/ PsuFinish
  <2>1. op = "import" /\ job'.created = job.created /\ job'.file = job.file /\ psu' = psu
    BY <1>1, <1>5 DEF PsuWriteFile, PsuVerifyFile, PsuStampFile, PsuFinish, PsuCommand, Runs,
                      Ends, Fails, At, JobShape, JobFields
  <2> QED BY <2>1, <1>s
<1>6. CASE PsuRollback
  <2>1. op = "import" /\ job.created \in Seq(Created) /\ psu' = psu
    BY <1>6 DEF PsuRollback, At, ImportIInv, Listed, InJob, Importing
  <2>2. CASE job.created = <<>>
    <3>1. job'.created = job.created /\ job'.file = job.file
      BY <1>1, <1>6, <2>2 DEF PsuRollback, Refuse, Ends, JobShape, JobFields
    <3> QED BY <2>1, <3>1, <1>s
  <2>3. CASE job.created # <<>>
    <3>1. job'.created = Front(job.created) /\ job'.file = job.file
      BY <1>1, <1>6, <2>3 DEF PsuRollback, Runs, Deleted, JobShape, JobFields
    <3>2. Len(Front(job.created)) \in Nat /\ Len(Front(job.created)) < Len(job.created)
          /\ Len(job.created) \in Nat
      BY <2>1, <2>3, FrontLen
    <3>3. Room' = Room /\ Room \in Nat /\ Len(job.created) <= Room + 1
      BY <2>1, <3>1 DEF Table, Room, Source
    <3> QED BY <3>1, <3>2, <3>3
  <2> QED BY <2>2, <2>3
<1>7. CASE PrepareExportPath \/ ListSave \/ CopyOut \/ CloseExport
           \/ VerifyPsuFileAgainstCard \/ RemoveExport
  <2>1. op' = "export"
    BY <1>7 DEF PrepareExportPath, ListSave, CopyOut, CloseExport, VerifyPsuFileAgainstCard,
                VerifyPsu, RemoveExport, ExportStep, At, Stays, Refuse
  <2> QED BY <2>1
<1> QED BY <1>2, <1>3, <1>4, <1>5, <1>6, <1>7 DEF PsuNext

LEMMA PsuWhole == ASSUME Wholes, PsuNext PROVE Wholes'
<1>1. ASSUME NEW n, NEW s, NEW files, NEW w \in BOOLEAN, psu' = Put(psu, n, Container(s, files, w))
      PROVE Wholes'
  BY <1>1 DEF Wholes, Put, Container
<1>2. ASSUME psu' = Drop(psu, {job.file}) PROVE Wholes'
  BY <1>2 DEF Wholes, Drop
<1>3. CASE psu' = psu BY <1>3 DEF Wholes
<1>4. CASE ListSave BY <1>1, <1>3, <1>4 DEF ListSave, Put1
<1>5. CASE CopyOut BY <1>1, <1>3, <1>5 DEF CopyOut, ReadThenWrite, Put1
<1>6. CASE CloseExport BY <1>1, <1>6 DEF CloseExport, Put1
<1>7. CASE RemoveExport BY <1>2, <1>3, <1>7 DEF RemoveExport, Without
<1>8. \/ psu' = psu \/ ListSave \/ CopyOut \/ CloseExport \/ RemoveExport
  BY DEF PsuNext, PickContainer, PsuCheckTarget, PsuMakeDirectory, PsuCreateFile, PsuWriteFile,
         PsuVerifyFile, PsuStampFile, PsuFinish, PsuCommand, PsuRollback, PrepareExportPath,
         VerifyPsuFileAgainstCard, VerifyPsu
<1> QED BY <1>3, <1>4, <1>5, <1>6, <1>7, <1>8

-----------------------------------------------------------------------------
(* What the preflight has bound, one entry for each source before the      *)
(* current one.                                                            *)
Counted ==
    /\ Len(pre) <= Len(Kelfs)
    /\ kpc[1] = "preflight" => kpc[2] = Len(pre) + 1

LEMMA KelfsLen == Len(Kelfs) \in Nat /\ DOMAIN Kelfs = 1..Len(Kelfs) /\ Len(<<>>) = 0
BY PackagesAssumption, LenProperties

LEMMA CountedEmpty == ASSUME pre' = <<>>, kpc'[1] # "preflight" PROVE Counted'
BY KelfsLen DEF Counted

LEMMA CountedKept == Counted /\ UNCHANGED <<pre, kpc>> => Counted'
BY DEF Counted

LEMMA KelfCounts == KelfTypes /\ Counted /\ KelfNext => Counted'
<1> SUFFICES ASSUME KelfTypes, Counted, KelfNext PROVE Counted'
  OBVIOUS
<1>1. CASE ProbeMagicGate BY <1>1, CountedKept DEF ProbeMagicGate
<1>2. CASE StartInstall
  <2>1. kpc' = <<"preflight", 1>> /\ pre' = <<>> BY <1>2 DEF StartInstall
  <2>2. kpc'[1] = "preflight" /\ kpc'[2] = 1 BY <2>1
  <2> QED BY <2>1, <2>2, KelfsLen DEF Counted
<1>3. CASE PreflightSource
  <2>1. PICK i \in DOMAIN Kelfs :
          /\ kpc = <<"preflight", i>>
          /\ \/ /\ pre' = Append(pre, Kept(Kelfs[i], cache'.raw))
                /\ kpc' = <<"preflight", i + 1>>
             \/ kpc' = <<"rejected", 0>> /\ pre' = <<>>
    BY <1>3 DEF PreflightSource, Reject, EndInstall, KelfAt
  <2>2. CASE kpc' = <<"rejected", 0>> /\ pre' = <<>> BY <2>2, CountedEmpty
  <2>3. CASE /\ pre' = Append(pre, Kept(Kelfs[i], cache'.raw))
             /\ kpc' = <<"preflight", i + 1>>
    <3>1. Len(pre) \in Nat /\ Len(pre') = Len(pre) + 1 BY <2>3 DEF KelfTypes
    <3>2. i = Len(pre) + 1 BY <2>1 DEF Counted
    <3>3. i <= Len(Kelfs) BY KelfsLen
    <3>4. kpc'[2] = i + 1 BY <2>3
    <3> QED BY <3>1, <3>2, <3>3, <3>4 DEF Counted
  <2> QED BY <2>1, <2>2, <2>3
<1>4. CASE PreflightDone
  <2>1. kpc' = <<"write", 1>> /\ pre' = pre BY <1>4 DEF PreflightDone
  <2> QED BY <2>1 DEF Counted
<1>5. CASE WriteBound
  <2>1. PICK i \in DOMAIN Targets :
          \/ pre' = pre /\ kpc' = <<"missed", 0>>
          \/ pre' = pre /\ kpc' = <<"write", i + 1>>
          \/ pre' = <<>> /\ kpc' = <<"failed", 0>>
    BY <1>5 DEF WriteBound, EndInstall, KelfAt, KeptAfter
  <2>2. kpc'[1] # "preflight" /\ (pre' = pre \/ pre' = <<>>) BY <2>1
  <2> QED BY <2>2, CountedEmpty DEF Counted
<1>6. CASE WriteDone BY <1>6, CountedEmpty DEF WriteDone, EndInstall
<1>7. CASE LeaveInstall BY <1>7, CountedEmpty DEF LeaveInstall, Idle
<1>8. CASE RewritePackage BY <1>8, CountedKept DEF RewritePackage
<1> QED BY <1>1, <1>2, <1>3, <1>4, <1>5, <1>6, <1>7, <1>8 DEF KelfNext

LEMMA CountedAlways == KelfTypes /\ Counted /\ [Next]_vars => Counted'
<1> SUFFICES ASSUME KelfTypes, Counted, [Next]_vars PROVE Counted'
  OBVIOUS
<1>1. CASE UNCHANGED kelfVars BY <1>1, CountedKept DEF kelfVars
<1>2. CASE KelfNext BY <1>2, KelfCounts
<1>3. CASE KelfCut BY <1>3, CountedEmpty DEF KelfCut, Idle
<1>4. KelfNext \/ KelfCut \/ UNCHANGED kelfVars
  BY DEF Next, ToolNext, PullCard, InsertCard, Dismiss, PowerCut, Boot, vars
<1> QED BY <1>1, <1>2, <1>3, <1>4

-----------------------------------------------------------------------------
(* The type invariant                                                      *)

Ops == {"menu", "off", "image", "import", "export", "settings", "install"}
TypedIInv ==
    /\ op \in Ops /\ Timed(card) /\ Budget /\ job.pc \in Steps
    /\ Wholes /\ Table /\ Counted

(* A step of any tool, but for the tables.                                 *)
LEMMA ToolTyped ==
    ASSUME TypedIInv, ImportIInv, SaveInv, ToolNext
    PROVE (op \in Ops /\ Timed(card) /\ Budget /\ job.pc \in Steps /\ Wholes)'
<1>1. Handled BY DEF TypedIInv, ImportIInv, Handled, Medium
<1>2. ASSUME Moved PROVE (Timed(card) /\ Budget /\ job.pc \in Steps)'
  BY <1>2 DEF Moved, Timed, Budget
<1>3. CASE ImportNext /\ UNCHANGED <<psu, settingsVars, kelfVars>>
  <2>1. op' \in Ops BY <1>3, ImportOp DEF ImportRuns, Ops
  <2>2. Wholes' BY <1>3 DEF TypedIInv, Wholes
  <2> QED BY <1>1, <1>2, <1>3, <2>1, <2>2, ImportTyped
<1>4. CASE PsuNext
  <2>1. op' \in Ops BY <1>4, PsuOp DEF PsuRuns, Ops
  <2>2. Wholes' BY <1>4, PsuWhole DEF TypedIInv
  <2> QED BY <1>1, <1>2, <1>4, <2>1, <2>2, PsuTyped
<1>5. CASE (SaveSettings \/ SettingsStep) /\ UNCHANGED <<card, inserted, job, psu, kelfVars>>
  <2>1. op' \in Ops BY <1>5, SettingsOp DEF Ops
  <2>2. Wholes' BY <1>5 DEF TypedIInv, Wholes
  <2>3. faults' \in 0..MaxFaults BY <1>1, <1>5, SettingsTyped
  <2> QED BY <1>5, <2>1, <2>2, <2>3 DEF TypedIInv, Timed, Budget
<1>6. CASE KelfNext /\ UNCHANGED <<psu, settingsVars>>
  <2>1. op' \in Ops /\ job' = job /\ card' = card
    BY <1>6, KelfOp, KelfCard DEF KelfRuns, Ops
  <2>2. Wholes' BY <1>6 DEF TypedIInv, Wholes
  <2>3. faults' \in 0..MaxFaults BY <1>1, <1>6, KelfTyped
  <2> QED BY <2>1, <2>2, <2>3 DEF TypedIInv, Timed, Budget
<1> QED BY <1>3, <1>4, <1>5, <1>6 DEF ToolNext

LEMMA TableKept ==
    ASSUME Table, UNCHANGED <<op, job, psu>>
    PROVE Table'
BY DEF Table, Room, Source

LEMMA ToolTable ==
    ASSUME ImportIInv, CopyIInv, Table, CopyFits', SaveInv, ToolNext
    PROVE Table'
<1>1. CASE ImportNext
  <2>1. op' \in {"menu", "image"} BY <1>1, ImportOp DEF ImportRuns
  <2> QED BY <1>1, <2>1, ImageTable DEF Table
<1>2. CASE PsuNext
  <2>1. op' \in {"menu", "import", "export"} BY <1>2, PsuOp DEF PsuRuns
  <2>2. op' = "import" => (Room \in Nat /\ Len(job.created) <= Room + 1)' BY <1>2, PsuTable
  <2> QED BY <2>1, <2>2 DEF Table
<1>3. CASE SaveSettings \/ SettingsStep
  BY <1>3, SettingsOp DEF Table
<1>4. CASE KelfNext
  <2>1. op' \in {"menu", "install"} BY <1>4, KelfOp DEF KelfRuns
  <2> QED BY <2>1 DEF Table
<1> QED BY <1>1, <1>2, <1>3, <1>4 DEF ToolNext

LEMMA TypedStep ==
    ASSUME TypedIInv, ImportIInv, CopyIInv, SaveInv, KelfTypes, CopyFits', [Next]_vars
    PROVE TypedIInv'
<1>1. Counted' BY CountedAlways DEF TypedIInv
<1>2. CASE ToolNext
  <2>1. Table' BY <1>2, ToolTable DEF TypedIInv
  <2> QED BY <1>1, <1>2, <2>1, ToolTyped DEF TypedIInv
<1>3. CASE PullCard \/ InsertCard \/ UNCHANGED vars
  <2>1. UNCHANGED <<op, card, faults, job, psu>>
    BY <1>3 DEF PullCard, InsertCard, vars, mediaVars
  <2>2. Table' BY <2>1, TableKept DEF TypedIInv
  <2> QED BY <1>1, <2>1, <2>2 DEF TypedIInv, Timed, Budget, Wholes
<1>4. CASE Dismiss \/ PowerCut \/ Boot
  <2>1. /\ op' \in {"menu", "off"} /\ job' \in {job, NoJob}
        /\ UNCHANGED <<card, faults, psu>>
    BY <1>4 DEF Dismiss, PowerCut, Boot
  <2>2. Table' /\ op' \in Ops BY <2>1 DEF Table, Ops
  <2>3. job'.pc \in Steps BY <2>1 DEF TypedIInv, NoJob, Steps
  <2> QED BY <1>1, <2>1, <2>2, <2>3 DEF TypedIInv, Timed, Budget, Wholes
<1> QED BY <1>2, <1>3, <1>4 DEF Next

LEMMA TypedInvariance == Spec => []TypedIInv
<1>1. Init => TypedIInv
  <2> SUFFICES ASSUME Init PROVE TypedIInv
    OBVIOUS
  <2>1. op \in Ops /\ job.pc \in Steps /\ Table
    BY DEF Init, MediaInit, NoJob, Ops, Steps, Table
  <2>2. Timed(card) /\ Budget
    BY MetaAssumption, FaultAssumption DEF Init, MediaInit, Timed, Times, Budget
  <2>3. Wholes BY WholeAssumption DEF Init, PsuInit, Wholes
  <2>4. Counted
    <3>1. pre = <<>> /\ kpc[1] = "idle" BY DEF Init, KelfInit, Idle
    <3> QED BY <3>1, KelfsLen DEF Counted
  <2> QED BY <2>1, <2>2, <2>3, <2>4 DEF TypedIInv
<1>2. TypedIInv /\ ImportIInv /\ CopyIInv /\ SettingsIInv /\ KelfIInv /\ CopyFits' /\ [Next]_vars
      => TypedIInv'
  BY TypedStep DEF SettingsIInv, KelfIInv
<1> QED BY <1>1, <1>2, CopyFitsNow, ImportInvariance, CopyInvariance, SettingsInvariance,
           KelfInvariance, PTL DEF Spec

(* The tools stay within their types: the operations, the steps of a job,  *)
(* the faults and the times of objects; the table of created objects of an *)
(* image import within FS_IMPORT_CREATED_MAX, that of a container within   *)
(* what the container lists, the bound sources within the package.         *)
THEOREM ToolsAlwaysTyped == Spec => []ToolsTypeOK
<1>1. TypedIInv /\ KelfIInv => ToolsTypeOK
  BY DEF TypedIInv, KelfIInv, KelfTypes, ToolsTypeOK, Ops, Timed, Times, Budget, Steps, Wholes,
         Table, Room, Counted
<1> QED BY <1>1, TypedInvariance, KelfInvariance, PTL

-----------------------------------------------------------------------------
(* The exports once more: with the type of the fault count.                *)
LEMMA ExportInvariance == Spec => []ExportIInv
<1>1. Init => ExportIInv
  BY StickAssumption
  DEF Init, MediaInit, PsuInit, ExportIInv, IsFcn, ExportKeepsFiles, ExportedEqualsCard
<1>2. ExportIInv /\ SettingsIInv /\ ToolsTypeOK /\ [Next]_vars => ExportIInv'
  <2> SUFFICES ASSUME ExportIInv, SettingsIInv, ToolsTypeOK, [Next]_vars PROVE ExportIInv'
    OBVIOUS
  <2>0. faults \in Nat BY FaultAssumption DEF ToolsTypeOK
  <2>1. CASE ToolNext
    <3>1. CASE ImportNext /\ UNCHANGED <<psu, settingsVars, kelfVars>>
      BY <3>1, ImportOp, NoExport DEF ImportRuns
    <3>2. CASE PsuNext
      <4>1. CASE ImportOfPsu BY <4>1, ImportLeavesStick, NoExport
      <4> QED BY <2>0, <3>2, <4>1, PreparePath, ListKeeps, CopyKeeps, CloseKeeps,
                 VerifyKeeps, RemoveKeeps DEF PsuNext, ImportOfPsu
    <3>3. CASE /\ SaveSettings \/ SettingsStep
               /\ UNCHANGED <<card, inserted, job, psu, kelfVars>>
      BY <3>3, SettingsOp, NoExport DEF SettingsIInv
    <3>4. CASE KelfNext /\ UNCHANGED <<psu, settingsVars>>
      BY <3>4, KelfOp, NoExport DEF KelfRuns
    <3> QED BY <2>1, <3>1, <3>2, <3>3, <3>4 DEF ToolNext
  <2>2. CASE UNCHANGED vars
    <3>1. UNCHANGED <<op, card, inserted, faults, job, psu>> BY <2>2 DEF vars, mediaVars
    <3>2. ExportKeepsFiles' /\ ExportedEqualsCard'
      BY <3>1 DEF ExportIInv, ExportKeepsFiles, ExportedEqualsCard, Exported
    <3>3. Copying => Copying'
      BY <3>1 DEF Copying, OutFile, Exported, Here, IsFcn
    <3>4. Since => Since' BY <3>1 DEF Since
    <3> QED BY <3>1, <3>2, <3>3, <3>4 DEF ExportIInv, ExportStages, IsFcn
  <2>3. CASE PullCard \/ InsertCard
    <3>1. UNCHANGED <<op, card, faults, job, psu>> BY <2>3 DEF PullCard, InsertCard
    <3>5. Since => Since' BY <3>1 DEF Since
    <3>2. op = "export" /\ job.pc \in {"copy", "verify"} => inserted' = NoCard
      BY <2>3, WaitAssumption DEF PullCard, InsertCard
    <3>3. ExportKeepsFiles' /\ ExportedEqualsCard'
      BY <3>1 DEF ExportIInv, ExportKeepsFiles, ExportedEqualsCard, Exported
    <3>4. op = "export" /\ job.pc \in {"copy", "verify"} /\ Copying => Copying'
      BY <3>1, <3>2 DEF Copying, OutFile, Exported, IsFcn
    <3> QED BY <3>1, <3>3, <3>4, <3>5 DEF ExportIInv, ExportStages, IsFcn
  <2>4. CASE Dismiss BY <2>4, NoExport DEF Dismiss
  <2>5. CASE PowerCut BY <2>5, NoExport DEF PowerCut
  <2>6. CASE Boot BY <2>6, NoExport DEF Boot
  <2> QED BY <2>1, <2>2, <2>3, <2>4, <2>5, <2>6 DEF Next
<1> QED BY <1>1, <1>2, SettingsInvariance, ToolsAlwaysTyped, PTL DEF Spec

(* An export neither changes, removes nor adds a container but the one     *)
(* whose name it chose, whatever call fails and whenever the card is       *)
(* pulled; as long as no device failed, that name was free, and an export  *)
(* without success leaves the stick as it found it                         *)
(* (app_main_v2.c:194-210, save_transfer_psu.c:757-838).                   *)
THEOREM ExportAlwaysKeepsFiles == Spec => []ExportKeepsFiles
BY ExportInvariance, PTL DEF ExportIInv

(* An export reported PASS left a complete container with every file as    *)
(* the card has it (save_transfer_psu.c:843-855).                          *)
THEOREM ExportAlwaysEqualsCard == Spec => []ExportedEqualsCard
BY ExportInvariance, PTL DEF ExportIInv
=============================================================================
