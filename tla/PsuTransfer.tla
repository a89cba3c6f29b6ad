----------------------------- MODULE PsuTransfer -----------------------------
(***************************************************************************)
(* save_transfer_psu.c: a .psu container on the stick is imported into the *)
(* card, and a save of the card is exported into a new container.  A       *)
(* container is flat: one directory and its files.                         *)
(***************************************************************************)
EXTENDS SaveMedia

CONSTANTS PsuNames,      \* names an export tries for a save, in order
          FirstPsu       \* the containers on the stick at first

ASSUME StickAssumption == FirstPsu = [n \in DOMAIN FirstPsu |-> FirstPsu[n]]
ASSUME WholeAssumption == \A n \in DOMAIN FirstPsu : FirstPsu[n].whole \in BOOLEAN
ASSUME FlatAssumption ==
    \A n \in DOMAIN FirstPsu :
        /\ IsFiniteSet(DOMAIN FirstPsu[n].files)
        /\ \A p \in DOMAIN FirstPsu[n].files : p = <<FirstPsu[n].save, p[2]>>

VARIABLES psu            \* file name -> container

Container(save, files, whole) == [save |-> save, files |-> files, whole |-> whole]
FilesOf(tree, s) == Subtree(tree, s) \ {<<s>>}
ContentOf(tree, s) == [p \in FilesOf(tree, s) |-> tree[p].data]
PsuTree(c) == [p \in {<<c.save>>} \cup DOMAIN c.files |->
                IF p = <<c.save>> THEN Folder("source") ELSE Object(c.files[p], "source")]
Without(name) == Drop(psu, {name})
PsuInit == psu = FirstPsu

-----------------------------------------------------------------------------
(* ------------------------------- import -------------------------------- *)
(* RunSaveImportV2(): the file is picked and probed, the user confirms.    *)
PickContainer ==
    /\ op = "menu"
    /\ \E n \in DOMAIN psu :
          job' = [NoJob EXCEPT !.pc = "confirm", !.file = n]
    /\ op' = "import" /\ UNCHANGED <<card, inserted, faults, psu>>

Source == psu[job.file]

(* The card is probed, the container scanned to its end, the destination   *)
(* checked; a refusal has written nothing.                                 *)
ScanPsu(c) == c.whole
PsuFits == Cardinality(DOMAIN PsuTree(Source)) <= Free
PsuCheckTarget ==
    /\ At("import", "confirm")
    /\ \/ /\ Reads
          /\ IF ~ScanPsu(Source) THEN Refuse("invalid")
             ELSE IF <<Source.save>> \in DOMAIN Here THEN Refuse("conflict")
             ELSE IF ~PsuFits THEN Refuse("full")
             ELSE job' = Starting(job, PsuTree(Source)) /\ Stays
       \/ ReadFails /\ Refuse("unavailable")
    /\ UNCHANGED psu

PsuCopied == Len(job.created) - 1
PsuRecord(j, p) == [j EXCEPT !.created = Append(@, p)]
PsuCommand(pc, outcomes, j(_)) ==
    /\ At("import", pc)
    /\ Runs(outcomes, LAMBDA o : IF o.rc = Ok THEN j(job) ELSE Fails(job))
    /\ Stays /\ UNCHANGED psu

PsuMakeDirectory ==
    /\ job.created = <<>>
    /\ PsuCommand("walk", McMkDir(<<Source.save>>),
                  LAMBDA j : PsuRecord(j, <<Source.save>>))
(* WriteCardFileFromPsu(): create and record, write, verify, set the times.*)
PsuCreateFile ==
    /\ At("import", "walk") /\ job.created # <<>>
    /\ \E p \in DOMAIN Source.files \ ToSet(job.created) :
          PsuCommand("walk", McCreate(p),
                     LAMBDA j : PsuRecord([j EXCEPT !.pc = "write", !.path = p], p))
PsuWriteFile ==
    PsuCommand("write", McWrite(job.path, Source.files[job.path]),
               LAMBDA j : [j EXCEPT !.pc = "verify"])
PsuVerifyFile ==
    PsuCommand("verify", McSame(job.path, Source.files[job.path]),
               LAMBDA j : [j EXCEPT !.pc = "stamp"])
PsuStampFile ==
    PsuCommand("stamp", McSetInfo(job.path), LAMBDA j : [j EXCEPT !.pc = "walk"])
PsuFinish ==
    /\ At("import", "walk") /\ job.created # <<>>
    /\ PsuCopied = Cardinality(DOMAIN Source.files)
    /\ PsuCommand("walk", McSetInfo(<<Source.save>>), LAMBDA j : Ends(j, "ok"))

(* Rollback(): as in card_image_fs.c; the directory goes last.             *)
DeletedUntilGone(j, rc) == IF rc = Ok THEN [j EXCEPT !.created = Front(@)] ELSE j
Deleted(j, rc) == [j EXCEPT !.created = Front(@), !.rb = IF @ = Ok THEN rc ELSE @]
PsuRollback ==
    /\ At("import", "rollback")
    /\ IF job.created = <<>>
       THEN /\ Refuse(IF job.rb = Ok THEN "failed" ELSE "rollbackFailed")
            /\ UNCHANGED <<card, faults>>
       ELSE Runs(McDelete(Last(job.created)), LAMBDA o : Deleted(job, o.rc)) /\ Stays
    /\ UNCHANGED psu

-----------------------------------------------------------------------------
(* ------------------------------- export -------------------------------- *)
Flat(tree, s) == \A p \in Subtree(tree, s) : Len(p) <= 2 /\ (Len(p) = 2 => tree[p].data # "dir")
Saves(tree) == {p[1] : p \in DOMAIN tree}

(* MciCardSavePickerChoose() lists the card; PreparePsuExportPathV2()      *)
(* takes the first name whose stat fails, for whatever reason.             *)
NamesTaken(s, k) == \A j \in 1..k : PsuNames[s][j] \in DOMAIN psu
PrepareExportPath ==
    /\ op = "menu" /\ inserted # NoCard
    /\ \E s \in Saves(Here) : \E i \in DOMAIN PsuNames[s] :
          /\ NamesTaken(s, i - 1)
          /\ \/ PsuNames[s][i] \notin DOMAIN psu /\ UNCHANGED faults
             \/ PsuNames[s][i] \in DOMAIN psu /\ FaultSpent
          /\ job' = [NoJob EXCEPT !.pc = "list", !.todo = <<s>>, !.kept = psu,
                                  !.file = PsuNames[s][i], !.begun = faults]
    /\ op' = "export" /\ UNCHANGED <<card, inserted, psu>>

Exported == Head(job.todo)
OutFile == psu[job.file]
Put1(c) == psu' = Put(psu, job.file, c)

(* The directory is listed before the file is made; a nested directory is  *)
(* refused.  The open truncates.                                           *)
ListSave ==
    /\ At("export", "list")
    /\ \/ /\ Reads
          /\ IF <<Exported>> \in DOMAIN Here /\ Flat(Here, Exported)
             THEN /\ Put1(Container(Exported, NoTree, FALSE))
                  /\ job' = [job EXCEPT !.pc = "copy",
                                        !.want = ContentOf(Here, Exported)] /\ Stays
             ELSE Refuse("unsupported") /\ UNCHANGED psu
       \/ ReadFails /\ Refuse("unavailable") /\ UNCHANGED psu

(* A failed export closes the file and removes it.                         *)
ExportStep(pc) == At("export", pc) /\ UNCHANGED card /\ Stays
ExportFails == job' = [job EXCEPT !.pc = "remove"]
ReadThenWrite(file, d) ==
    Put1(Container(Exported, Put(OutFile.files, file, d), FALSE))
CopyOut ==
    /\ ExportStep("copy")
    /\ \E p \in DOMAIN job.want \ DOMAIN OutFile.files :
          \/ Reads /\ ReadThenWrite(p, Here[p].data) /\ UNCHANGED job
          \/ inserted # NoCard /\ FaultSpent /\ ReadThenWrite(p, "wrong") /\ UNCHANGED job
          \/ ReadFails /\ ExportFails /\ UNCHANGED psu

(* Close and sync; the close itself is not checked.                        *)
CloseExport ==
    /\ ExportStep("copy") /\ DOMAIN OutFile.files = DOMAIN job.want
    /\ Put1(Container(Exported, OutFile.files, TRUE))
    /\ \/ job' = [job EXCEPT !.pc = "verify"] /\ UNCHANGED faults
       \/ ExportFails /\ FaultSpent

(* VerifyPsuFileAgainstCard(): the file and the card are read again.       *)
SameAsCard == ScanPsu(OutFile)
              /\ \A p \in DOMAIN OutFile.files : OutFile.files[p] = Here[p].data
NotChecked == TRUE
VerifyPsu(same) ==
    /\ ExportStep("verify") /\ UNCHANGED psu
    /\ \/ /\ Reads
          /\ job' = IF same THEN Ends(job, "ok") ELSE [job EXCEPT !.pc = "remove"]
       \/ ReadFails /\ ExportFails
VerifyUnread == VerifyPsu(NotChecked)
VerifyPsuFileAgainstCard == VerifyPsu(SameAsCard)

RemoveExportSkipped ==
    /\ ExportStep("remove") /\ UNCHANGED <<faults, psu>>
    /\ job' = Ends(job, "failed")
RemoveExport ==        \* nobody looks at what the removal returns
    /\ ExportStep("remove")
    /\ \/ psu' = Without(job.file) /\ UNCHANGED faults
       \/ FaultSpent /\ UNCHANGED psu
    /\ job' = Ends(job, "failed")

PsuNext ==
    \/ PickContainer \/ PsuCheckTarget \/ PsuMakeDirectory \/ PsuCreateFile
    \/ PsuWriteFile \/ PsuVerifyFile \/ PsuStampFile \/ PsuFinish \/ PsuRollback
    \/ PrepareExportPath \/ ListSave \/ CopyOut \/ CloseExport
    \/ VerifyPsuFileAgainstCard \/ RemoveExport
=============================================================================
