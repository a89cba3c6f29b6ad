---------------------------- MODULE FmcbRecovery ----------------------------
(***************************************************************************)
(* Persistent FMCB recovery: fmcb_recovery.c (the USB journal and the      *)
(* rollback) under the linker wrappers of fmcb_recovery_marker.c (the      *)
(* transaction token on the USB stick and its copy on the memory card).    *)
(*                                                                         *)
(* One step of the model changes at most one durable object (a journal     *)
(* slot, a backup, the token, a card file, a card directory, the card      *)
(* marker), so that a power cut can fall between any two of them.          *)
(* Functions called from several places (SaveJournal, RemoveRecoveryFiles, *)
(* FmcbRecoveryClearCardMarker, TryDiscardUnarmedEmptyJournal) are run by  *)
(* their own actions; "k" names where the first three continue, "by" who   *)
(* called the last one, "goal" what the user asked for.                    *)
(***************************************************************************)
EXTENDS FmcbJournal, FiniteSets

CONSTANTS
  Cards,       \* memory cards the user owns (one slot is modelled)
  DirOf,       \* the directory each destination lives in
  FaultKinds,  \* which faults the environment may inject
  MaxFaults    \* bound on the injected faults of one behaviour

ASSUME DirOfAssumption == DirOf \in [Files -> Dirs]
ASSUME MaxFaultsAssumption == MaxFaults \in Nat

VARIABLES
  slot, backup, token,             \* USB: journal0/1.bin, bNN.bin, card-token.bin
  file, dir, marker, inserted,     \* memory cards, and the one in the slot
  pc, goal, by, k,                 \* where the program is
  status,                          \* FmcbRecoveryStatus RecoveryStatus
  jr, i, err,                      \* locals: journal in RAM, loop index, first_error
  inv, opt,                        \* locals of the installer: inventory, options
  rc,                              \* class of FmcbRecoveryRun's last return code
  faults, drawn,                   \* bounds: faults injected, tokens drawn
  hist                             \* history of the armed transaction

usb  == <<slot, backup, token>>
card == <<file, dir, marker>>
ctl  == <<pc, goal, by, k, status, jr, i, err, inv, opt, rc>>
vars == <<usb, card, inserted, ctl, faults, drawn, hist>>

(* Tokens come from the system timer; they are taken to be distinct.  A    *)
(* card may carry the marker of a transaction begun on another USB stick.  *)
NoToken   == -2
TornToken == -1
Foreign   == 0

NoStatus      == [state |-> "none", prepared |-> FALSE, seq |-> 0]
CorruptStatus == [NoStatus EXCEPT !.state = "corrupt"]
(* FillStatus(): ACTIVE and ROLLING_BACK are both present and valid. *)
FillStatusActive(j) ==
  IF j.state = "ACTIVE"
    THEN [state |-> "valid", prepared |-> Prepared(j), seq |-> j.seq]
    ELSE NoStatus
FillStatus(j) == [state |-> "valid", prepared |-> Prepared(j), seq |-> j.seq]

NoOptions == [preserve |-> FALSE, verify |-> "enforced"]

Latest == LatestOf(slot)

(* FmcbRecoveryCheckCard(): both tokens read, valid and equal. *)
CardMatchesSlotOnly == token >= Foreign
CardMatches == token >= Foreign /\ marker[inserted] = token

-----------------------------------------------------------------------------
(* Faults *)

Fault(kinds) ==
  /\ kinds \cap FaultKinds # {}
  /\ faults < MaxFaults
  /\ faults' = faults + 1

NoFault == UNCHANGED faults

(* LoadLatestJournal() yields j.  Fault "read": one slot cannot be read    *)
(* this time, and ReadJournalSlot() rejects it like an invalid one.        *)
Loads == {Latest} \cup {LatestOf([slot EXCEPT ![s] = TornSlot]) : s \in Slots}
Loaded(j) ==
  \/ j = Latest /\ NoFault
  \/ /\ Fault({"read"})
     /\ \E s \in Slots : JournalValid(slot[s])
                         /\ j = LatestOf([slot EXCEPT ![s] = TornSlot])

-----------------------------------------------------------------------------
(* Control: every action ends in exactly one of these. *)

Step(p) == pc' = p /\ UNCHANGED <<goal, by, k, status, jr, i, err, inv, opt, rc>>

Loop(p, n) ==
  pc' = p /\ i' = n /\ UNCHANGED <<goal, by, k, status, jr, err, inv, opt, rc>>

DropLocals == by' = "-" /\ k' = "-" /\ jr' = AbsentSlot /\ i' = 0 /\ err' = "ok"
DropInstall == inv' = {} /\ opt' = NoOptions

(* __wrap_FmcbRecoveryProbe() returns with status s to whoever called      *)
(* RefreshRecoveryStatus(): the dashboard, RevalidateInstallerPreconditions *)
(* or RunPendingRecovery().                                                *)
ProbeReturns(s) ==
  LET next == CASE goal = "install" /\ s.state = "none"  -> "inventory"
                [] goal = "recover" /\ s.state = "valid" -> "run"
                [] OTHER -> "idle"
  IN /\ pc' = next
     /\ goal' = IF next = "idle" THEN "idle" ELSE goal
     /\ status' = s
     /\ DropLocals
     /\ UNCHANGED <<inv, opt, rc>>

(* The installer gives up without rollback: RunVerifiedInstaller() then    *)
(* calls RefreshRecoveryStatus() once more.                                *)
InstallReturns(s) ==
  /\ pc' = "probe" /\ goal' = "idle" /\ status' = s
  /\ DropLocals /\ DropInstall /\ UNCHANGED rc

(* __wrap_FmcbRecoveryRun() returns, to the failing installer or to        *)
(* RunPendingRecovery().                                                   *)
RunReturns(r, s) ==
  /\ pc' = IF goal = "install" THEN "probe" ELSE "idle"
  /\ goal' = "idle" /\ status' = s /\ rc' = r
  /\ DropLocals /\ DropInstall

(* The failure label of the installer: RollbackPersistent(). *)
StartRollback ==
  /\ pc' = "run"
  /\ DropLocals
  /\ UNCHANGED <<goal, status, inv, opt, rc>>

StartSave(j, cont) ==
  /\ pc' = "save" /\ k' = cont
  /\ jr' = [j EXCEPT !.seq = @ + 1]
  /\ UNCHANGED <<goal, by, status, i, err, inv, opt, rc>>

StartRemove(j, cont) ==
  /\ pc' = "rmBackup" /\ k' = cont /\ jr' = j /\ i' = 1
  /\ status' = NoStatus
  /\ UNCHANGED <<goal, by, err, inv, opt, rc>>

StartClear(cont) ==
  /\ pc' = "clear" /\ k' = cont /\ jr' = AbsentSlot /\ i' = 0
  /\ UNCHANGED <<goal, by, status, err, inv, opt, rc>>

StartDiscard(caller, s) ==
  /\ pc' = "tryDiscard" /\ by' = caller /\ status' = s
  /\ UNCHANGED <<goal, k, jr, i, err, inv, opt, rc>>

(* TryDiscardUnarmedEmptyJournal() returns 1 ("discarded"), 0 ("kept") or  *)
(* an error to one of the three wrappers; the probe and the begin wrapper   *)
(* then repeat the wrapped call, and do not discard a second time.          *)
DiscardReturns(r, s) ==
  \/ /\ by \in {"probe", "begin"} /\ r = "discarded"
     /\ pc' = by /\ status' = s
     /\ k' = "-" /\ jr' = AbsentSlot /\ i' = 0
     /\ UNCHANGED <<goal, by, err, inv, opt, rc>>
  \/ /\ by = "probe" /\ r # "discarded"
     /\ ProbeReturns(s)
  \/ /\ by = "begin" /\ r # "discarded"
     /\ InstallReturns(s)
  \/ /\ by = "run" /\ r = "discarded"
     /\ RunReturns("ok", s)
  \/ /\ by = "run" /\ r = "kept"
     /\ pc' = "runCheck" /\ status' = s /\ DropLocals
     /\ UNCHANGED <<goal, inv, opt, rc>>
  \/ /\ by = "run" /\ r \notin {"discarded", "kept"}
     /\ RunReturns(r, s)

-----------------------------------------------------------------------------
(* SaveJournal() *)

(* WriteExactFile(): remove, open and write; until the file is complete    *)
(* the slot is absent or torn.                                             *)
SaveOpen ==
  /\ pc = "save"
  /\ \E s \in {AbsentSlot, TornSlot} :
       slot' = [slot EXCEPT ![SlotOf(jr.seq)] = s]
  /\ NoFault
  /\ Step("saveWrite")
  /\ UNCHANGED <<backup, token, card, inserted, drawn, hist>>

SavedJournal == slot' = [slot EXCEPT ![SlotOf(jr.seq)] = jr]

Committed(h) == [h EXCEPT !.open = FALSE, !.committed = TRUE]
HistAfterSave ==
  hist' = IF jr.state = "COMMITTED" THEN Committed(hist) ELSE hist

(* The journal is complete and reads back; the caller continues. *)
SaveWrite ==
  /\ pc = "saveWrite"
  /\ SavedJournal
  /\ HistAfterSave
  /\ NoFault
  /\ \/ /\ k = "arm"
        /\ pc' = "arm" /\ status' = FillStatus(jr) /\ DropLocals
        /\ UNCHANGED <<goal, inv, opt, rc>>
     \/ /\ k = "nextDir"
        /\ pc' = "dirs" /\ i' = i + 1
        /\ status' = [status EXCEPT !.seq = jr.seq]
        /\ jr' = AbsentSlot /\ k' = "-"
        /\ UNCHANGED <<goal, by, err, inv, opt, rc>>
     \/ /\ k = "source"
        /\ pc' = "source" /\ status' = FillStatus(jr)
        /\ k' = "-"
        /\ UNCHANGED <<goal, by, jr, i, err, inv, opt, rc>>
     \/ /\ k = "restore"
        /\ pc' = "restore" /\ i' = NFiles
        /\ status' = [status EXCEPT !.seq = jr.seq]
        /\ k' = "-"
        /\ UNCHANGED <<goal, by, jr, err, inv, opt, rc>>
     \/ /\ k \in {"undoKeep", "undoDrop", "finish"}
        /\ StartRemove(jr, k)
  /\ UNCHANGED <<backup, token, card, inserted, drawn>>

(* The write fails, or the file is complete and its read-back fails. *)
SaveFails ==
  /\ pc = "saveWrite"
  /\ Fault({"usb"})
  /\ \/ UNCHANGED <<slot, hist>>
     \/ SavedJournal /\ HistAfterSave
  /\ \/ k \in {"arm", "finish"} /\ InstallReturns(status)
     \/ k \in {"nextDir", "source"} /\ StartRollback
     \/ k = "restore" /\ RunReturns("io", status)
     \/ k = "undoKeep" /\ InstallReturns(status)
     \/ k = "undoDrop" /\ Step("dropMarker")
  /\ UNCHANGED <<backup, token, card, inserted, drawn>>

-----------------------------------------------------------------------------
(* RemoveRecoveryFiles(): backups in entry order, journal0.bin, then       *)
(* journal1.bin.  A failing remove (fault "remove") is ignored.            *)

Removed(f, x, none) ==
  \/ f' = [f EXCEPT ![x] = none] /\ NoFault
  \/ f' = f /\ Fault({"remove"})

RemoveBackup ==
  /\ pc = "rmBackup" /\ i <= NFiles
  /\ IF jr.entry[i] = "none"
       THEN NoFault /\ UNCHANGED backup
       ELSE Removed(backup, i, "none")
  /\ Loop("rmBackup", i + 1)
  /\ UNCHANGED <<slot, token, card, inserted, drawn, hist>>

RemoveJournal0 ==
  /\ pc = "rmBackup" /\ i > NFiles
  /\ Removed(slot, 0, AbsentSlot)
  /\ Step("rmJournal1")
  /\ UNCHANGED <<backup, token, card, inserted, drawn, hist>>

RemoveJournal1 ==
  /\ pc = "rmJournal1"
  /\ Removed(slot, 1, AbsentSlot)
  /\ \/ k = "reconcile"  /\ Loop("reconcile", 0)
     \/ k = "discarded"  /\ DiscardReturns("discarded", NoStatus)
     \/ k = "dropToken"  /\ Loop("dropToken", 0)
     \/ k = "undoKeep"   /\ InstallReturns(NoStatus)
     \/ k = "undoDrop"   /\ Loop("dropMarker", 0)
     \/ k \in {"clearDiscard", "run", "finish"} /\ StartClear(k)
  /\ UNCHANGED <<backup, token, card, inserted, drawn, hist>>

-----------------------------------------------------------------------------
(* FmcbRecoveryClearCardMarker(): the marker on the card, then the token   *)
(* on the USB stick, and only after both were read and found equal.        *)

ClearReturns(r) ==
  \/ /\ k = "clearDiscard"
     /\ DiscardReturns(IF r = "ok" THEN "discarded" ELSE r, NoStatus)
  \/ k = "run" /\ RunReturns(r, NoStatus)
  \/ /\ k = "finish" /\ r = "ok"
     /\ pc' = "idle" /\ goal' = "idle" /\ status' = NoStatus
     /\ DropLocals /\ DropInstall /\ UNCHANGED rc
  \/ k = "finish" /\ r # "ok" /\ InstallReturns(NoStatus)
  \/ k = "reconcile" /\ ProbeReturns(IF r = "ok" THEN NoStatus ELSE CorruptStatus)

ClearMarker ==
  /\ pc = "clear" /\ CardMatches
  /\ marker' = [marker EXCEPT ![inserted] = NoToken]
  /\ NoFault
  /\ Step("clearToken")
  /\ UNCHANGED <<usb, file, dir, inserted, drawn, hist>>

ClearRefused ==
  /\ pc = "clear"
  /\ \/ ~CardMatches /\ NoFault /\ ClearReturns("E5169")
     \/ Fault({"card", "usb"}) /\ ClearReturns("io")
  /\ UNCHANGED <<usb, card, inserted, drawn, hist>>

ClearToken ==
  /\ pc = "clearToken"
  /\ \/ token' = NoToken /\ NoFault /\ ClearReturns("ok")
     \/ UNCHANGED token /\ Fault({"usb"}) /\ ClearReturns("io")
  /\ UNCHANGED <<slot, backup, card, inserted, drawn, hist>>

-----------------------------------------------------------------------------
(* TryDiscardUnarmedEmptyJournal(), for a valid journal without captures   *)

Discardable(j) == j.state = "ACTIVE" /\ ~Prepared(j) /\ j.dirs = {}

(* FmcbRecoveryDiscardEmptyJournal() *)
DiscardEmptyJournal(cont) ==
  \E j \in Loads :
    /\ Loaded(j)
    /\ \/ Discardable(j) /\ StartRemove(j, cont)
       \/ /\ ~Discardable(j)
          /\ DiscardReturns(IF JournalValid(j) THEN "E5144" ELSE "io", status)

TryDiscard ==
  /\ pc = "tryDiscard"
  /\ LET onUsb == token # NoToken
         onCard == marker[inserted] # NoToken
     IN \/ Fault({"card", "usb"}) /\ DiscardReturns("io", status)
        \/ ~onUsb /\ ~onCard /\ DiscardEmptyJournal("discarded")
        \/ onUsb /\ ~onCard /\ DiscardEmptyJournal("dropToken")
        \/ CardMatches /\ DiscardEmptyJournal("clearDiscard")
        \/ onCard /\ ~CardMatches /\ NoFault /\ DiscardReturns("kept", status)
        \/ onUsb /\ onCard /\ Fault({"card", "usb"}) /\ DiscardReturns("kept", status)
  /\ UNCHANGED <<usb, card, inserted, drawn, hist>>

(* The token on the USB stick only: removed after the empty journal. *)
DiscardToken ==
  /\ pc = "dropToken" /\ k = "dropToken"
  /\ \/ token' = NoToken /\ NoFault /\ DiscardReturns("discarded", NoStatus)
     \/ UNCHANGED token /\ Fault({"usb"}) /\ DiscardReturns("io", NoStatus)
  /\ UNCHANGED <<slot, backup, card, inserted, drawn, hist>>

-----------------------------------------------------------------------------
(* __wrap_FmcbRecoveryProbe() *)

Probe ==
  /\ pc = "probe"
  /\ \E j \in Loads :
       /\ Loaded(j)
       /\ \/ /\ j.state = "absent"
             /\ pc' = "reconcile" /\ status' = NoStatus
             /\ UNCHANGED <<goal, by, k, jr, i, err, inv, opt, rc>>
          \/ j.state = "torn" /\ ProbeReturns(CorruptStatus)
          \/ j.state = "COMMITTED" /\ StartRemove(j, "reconcile")
          \/ /\ j.state \in {"ACTIVE", "ROLLING_BACK"}
             /\ Prepared(j) \/ by = "probe"
             /\ ProbeReturns(FillStatus(j))
          \/ /\ j.state \in {"ACTIVE", "ROLLING_BACK"}
             /\ ~Prepared(j) /\ by # "probe"
             /\ StartDiscard("probe", FillStatus(j))
  /\ UNCHANGED <<usb, card, inserted, drawn, hist>>

(* ReconcileResidualMarkers(): a token without a journal is cleared with   *)
(* its card, and otherwise blocks further installs.                        *)
Reconcile ==
  /\ pc = "reconcile"
  /\ \/ token < Foreign /\ NoFault /\ ProbeReturns(NoStatus)
     \/ CardMatches /\ NoFault /\ StartClear("reconcile")
     \/ token >= Foreign /\ ~CardMatches /\ NoFault /\ ProbeReturns(CorruptStatus)
     \/ token >= Foreign /\ Fault({"usb"}) /\ ProbeReturns(NoStatus)
     \/ token >= Foreign /\ Fault({"card"}) /\ ProbeReturns(CorruptStatus)
  /\ UNCHANGED <<usb, card, inserted, drawn, hist>>

-----------------------------------------------------------------------------
(* __wrap_FmcbRecoveryBegin() and FmcbRecoveryArmCard() *)

Begin ==
  /\ pc = "begin"
  /\ \/ \E j \in Loads :
          /\ Loaded(j)
          /\ \/ /\ JournalValid(j) /\ ~Prepared(j) /\ by # "begin"
                /\ StartDiscard("begin", FillStatus(j))
             \/ /\ JournalValid(j)
                /\ Prepared(j) \/ by = "begin"
                /\ InstallReturns(FillStatus(j))
             \/ j.state = "torn" /\ InstallReturns(CorruptStatus)
             \/ j.state = "absent" /\ StartSave(EmptyJournal, "arm")
     \/ Fault({"usb"}) /\ InstallReturns(status)
  /\ UNCHANGED <<usb, card, inserted, drawn, hist>>

(* MarkerAlreadyExists(): -5168 keeps whatever is there, every other       *)
(* failure of the arming is undone by DiscardFailedArmArtifacts().         *)
ArmFails(cont) ==
  pc' = "undo" /\ k' = cont /\ UNCHANGED <<goal, by, status, jr, i, err, inv, opt, rc>>

ArmCheck ==
  /\ pc = "arm"
  /\ \/ marker[inserted] = NoToken /\ NoFault /\ Step("armToken")
     \/ marker[inserted] # NoToken /\ NoFault /\ ArmFails("undoKeep")
     \/ Fault({"card"}) /\ ArmFails("undoDrop")
  /\ UNCHANGED <<usb, card, inserted, drawn, hist>>

(* WriteMassMarker(): a new token, torn until it is complete. *)
ArmTokenOpen ==
  /\ pc = "armToken"
  /\ token' = TornToken /\ NoFault /\ Step("armTokenWrite")
  /\ UNCHANGED <<slot, backup, card, inserted, drawn, hist>>

ArmTokenWrite ==
  /\ pc = "armTokenWrite"
  /\ drawn' = drawn + 1
  /\ \/ token' = drawn' /\ NoFault /\ Step("armMarker")
     \/ token' \in {TornToken, drawn'} /\ Fault({"usb"}) /\ ArmFails("undoDrop")
  /\ UNCHANGED <<slot, backup, card, inserted, hist>>

(* WriteCardMarker(); once it is complete the transaction is armed. *)
ArmMarkerOpen ==
  /\ pc = "armMarker"
  /\ marker' = [marker EXCEPT ![inserted] = TornToken]
  /\ NoFault /\ Step("armMarkerWrite")
  /\ UNCHANGED <<usb, file, dir, inserted, drawn, hist>>

Armed == [open |-> TRUE, committed |-> FALSE, card |-> inserted,
          file |-> file[inserted], dir |-> dir[inserted]]

ArmMarkerWrite ==
  /\ pc = "armMarkerWrite"
  /\ \/ /\ marker' = [marker EXCEPT ![inserted] = token]
        /\ NoFault /\ Loop("dirs", 1)
     \/ /\ \E m \in {TornToken, token} : marker' = [marker EXCEPT ![inserted] = m]
        /\ Fault({"card"}) /\ ArmFails("undoDrop")
  /\ hist' = IF marker'[inserted] = token THEN Armed ELSE hist
  /\ UNCHANGED <<usb, file, dir, inserted, drawn>>

(* A failed arming calls the unwrapped FmcbRecoveryRun() on the journal    *)
(* just created: nothing to restore, but ROLLING_BACK is saved first.      *)
ArmUndo ==
  /\ pc = "undo"
  /\ \E j \in Loads :
       /\ Loaded(j)
       /\ \/ JournalValid(j) /\ StartSave([j EXCEPT !.state = "ROLLING_BACK"], k)
          \/ ~JournalValid(j) /\ k = "undoKeep" /\ InstallReturns(status)
          \/ ~JournalValid(j) /\ k = "undoDrop" /\ Step("dropMarker")
  /\ UNCHANGED <<usb, card, inserted, drawn, hist>>

(* DiscardFailedArmArtifacts(): both removes are best effort. *)
ArmDropMarker ==
  /\ pc = "dropMarker"
  /\ \/ marker' = [marker EXCEPT ![inserted] = NoToken] /\ NoFault
     \/ UNCHANGED marker /\ Fault({"card"})
  /\ Loop("dropToken", 0)
  /\ UNCHANGED <<usb, file, dir, inserted, drawn, hist>>

ArmDropToken ==
  /\ pc = "dropToken" /\ k = "undoDrop"
  /\ \/ token' = NoToken /\ NoFault
     \/ UNCHANGED token /\ Fault({"usb"})
  /\ InstallReturns(status)
  /\ UNCHANGED <<slot, backup, card, inserted, drawn, hist>>

-----------------------------------------------------------------------------
(* __wrap_FmcbRecoveryFinish() *)

Finish ==
  /\ pc = "finish"
  /\ \/ /\ CardMatches
        /\ \E j \in Loads :
             /\ Loaded(j)
             /\ \/ JournalValid(j) /\ StartSave([j EXCEPT !.state = "COMMITTED"], "finish")
                \/ ~JournalValid(j) /\ InstallReturns(status)
     \/ ~CardMatches /\ NoFault /\ InstallReturns(status)
     \/ Fault({"card", "usb"}) /\ InstallReturns(status)
  /\ UNCHANGED <<usb, card, inserted, drawn, hist>>

-----------------------------------------------------------------------------
(* __wrap_FmcbRecoveryRun() *)

Run ==
  /\ pc = "run" /\ NoFault
  /\ \/ status.prepared /\ Step("runCheck")
     \/ ~status.prepared /\ StartDiscard("run", status)
  /\ UNCHANGED <<usb, card, inserted, drawn, hist>>

RunCheck ==
  /\ pc = "runCheck"
  /\ \/ /\ CardMatches
        /\ \E j \in Loads :
             /\ Loaded(j)
             /\ \/ ~JournalValid(j) /\ RunReturns("io", status)
                \/ j.state = "COMMITTED" /\ StartRemove(j, "run")
                \/ /\ j.state \in {"ACTIVE", "ROLLING_BACK"}
                   /\ StartSave([j EXCEPT !.state = "ROLLING_BACK"], "restore")
     \/ ~CardMatches /\ NoFault /\ RunReturns("E5169", status)
     \/ Fault({"card", "usb"}) /\ RunReturns("io", status)
  /\ UNCHANGED <<usb, card, inserted, drawn, hist>>

PutFile(content) == file' = [file EXCEPT ![inserted][i] = content]

(* first_error is kept and the loop goes on with the next entry. *)
RestoreNextLastError(e) ==
  /\ pc' = "restore" /\ i' = i - 1
  /\ err' = e
  /\ UNCHANGED <<goal, by, k, status, jr, inv, opt, rc>>
RestoreNext(e) ==
  /\ pc' = "restore" /\ i' = i - 1
  /\ err' = IF err = "ok" THEN e ELSE err
  /\ UNCHANGED <<goal, by, k, status, jr, inv, opt, rc>>

HasBackup(e) == e \notin {"none", "absent", "empty"}

(* One journal entry, from the last captured to the first. *)
Restore ==
  /\ pc = "restore" /\ i > 0
  /\ LET e == jr.entry[i] IN
     \/ /\ e = "none"
        /\ NoFault /\ RestoreNext("ok") /\ UNCHANGED file
     \/ /\ e = "absent"
        /\ PutFile("absent") /\ NoFault /\ RestoreNext("ok")
     \/ /\ HasBackup(e) /\ backup[i] # e
        /\ NoFault /\ RestoreNext("badBackup") /\ UNCHANGED file
     \/ /\ e = "empty" \/ (HasBackup(e) /\ backup[i] = e)
        /\ PutFile("absent") /\ NoFault /\ Step("restoreWrite")
     \/ /\ e # "none"
        /\ Fault({"card", "usb"}) /\ RestoreNext("io") /\ UNCHANGED file
  /\ UNCHANGED <<usb, dir, marker, inserted, drawn, hist>>

RestoreWrite ==
  /\ pc = "restoreWrite"
  /\ \/ /\ DirOf[i] \in dir[inserted]
        /\ \/ /\ jr.entry[i] = "empty"
              /\ PutFile("empty") /\ NoFault /\ RestoreNext("ok")
           \/ /\ jr.entry[i] # "empty"
              /\ PutFile("bad") /\ NoFault /\ Step("restoreVerify")
     \/ /\ DirOf[i] \notin dir[inserted]
        /\ UNCHANGED file /\ NoFault /\ RestoreNext("io")
     \/ UNCHANGED file /\ Fault({"card", "usb"}) /\ RestoreNext("io")
  /\ UNCHANGED <<usb, dir, marker, inserted, drawn, hist>>

(* The rest of the data, then the byte-for-byte comparison. *)
RestoreVerify ==
  /\ pc = "restoreVerify"
  /\ \/ PutFile(backup[i]) /\ NoFault /\ RestoreNext("ok")
     \/ /\ UNCHANGED file \/ PutFile(backup[i])
        /\ Fault({"card", "usb"}) /\ RestoreNext("io")
  /\ UNCHANGED <<usb, dir, marker, inserted, drawn, hist>>

RestoreDone ==
  /\ pc = "restore" /\ i = 0 /\ NoFault
  /\ \/ err = "ok" /\ Loop("rmDirs", NDirs)
     \/ err # "ok" /\ RunReturns(err, status)
  /\ UNCHANGED <<usb, card, inserted, drawn, hist>>

DirEmpty(c, d) == \A f \in Files : DirOf[f] = d => file[c][f] = "absent"

(* SYS-CONF and then the system directories in reverse: only those the     *)
(* journal says this transaction created; NoEntry and NotEmpty are fine.   *)
RemoveDirectory ==
  /\ pc = "rmDirs" /\ i > 0
  /\ \/ /\ i \in jr.dirs /\ DirEmpty(inserted, i)
        /\ dir' = [dir EXCEPT ![inserted] = @ \ {i}]
        /\ NoFault /\ Loop("rmDirs", i - 1)
     \/ /\ i \notin jr.dirs \/ ~DirEmpty(inserted, i)
        /\ UNCHANGED dir
        /\ NoFault /\ Loop("rmDirs", i - 1)
     \/ /\ i \in jr.dirs
        /\ UNCHANGED dir
        /\ Fault({"card"}) /\ RunReturns("io", status)
  /\ UNCHANGED <<usb, file, marker, inserted, drawn, hist>>

RollbackDone ==
  /\ pc = "rmDirs" /\ i = 0 /\ NoFault
  /\ StartRemove(jr, "run")
  /\ hist' = [hist EXCEPT !.open = FALSE]
  /\ UNCHANGED <<usb, card, inserted, drawn>>
=============================================================================
