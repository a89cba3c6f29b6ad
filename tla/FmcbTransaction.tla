--------------------------- MODULE FmcbTransaction ---------------------------
(***************************************************************************)
(* The transactional installer FmcbInstallCrossRegionTransactional() of    *)
(* fmcb_transaction.c running on FmcbRecovery, the dashboard operations    *)
(* that start it (app_main.c), and the environment: power cuts, reboots    *)
(* and memory cards changed by the user.                                   *)
(***************************************************************************)
EXTENDS FmcbRecovery

CONSTANTS
  Cnf,              \* destinations that are FREEMCB.CNF files
  Required,         \* destinations with FMCB_FILE_REQUIRED
  VerifyModes,      \* verify_mode settings the user may have chosen
  InitialContents,  \* what a destination may hold before the first install
  InitialMarkers,   \* markers a card may carry before the first install
  SwapPoints,       \* where, besides a console that is off, a card is changed
  MaxTokens,           \* bound on the transaction tokens drawn in one behaviour
  MaxSeq            \* bound on the sequence number recovery may continue from

ASSUME PlanAssumption == Cnf \subseteq Files /\ Required \subseteq Files
ASSUME VerifyAssumption == VerifyModes \subseteq {"off", "required", "enforced"}
ASSUME InitialContentsAssumption == InitialContents \subseteq {"absent", "empty", "old"}
ASSUME InitialMarkersAssumption == InitialMarkers \subseteq {NoToken, Foreign}
ASSUME BoundsAssumption == MaxTokens \in Nat /\ MaxSeq \in Nat

-----------------------------------------------------------------------------
(* InventoryTarget(): exact directory entry, parent listing or open.       *)
Existing == {f \in Files : file[inserted][f] # "absent"}

(* CheckSpace() simulates the replacements against the free clusters. *)
NoSpace == NoFault /\ InstallReturns(status)

(* PrepareInventory() and CheckSpace(): read-only, and both may reject.    *)
Inventory ==
  /\ pc = "inventory"
  /\ \/ /\ opt' \in [preserve : BOOLEAN, verify : VerifyModes]
        /\ inv' = Existing
        /\ NoFault
        /\ pc' = "begin"
        /\ UNCHANGED <<goal, by, k, status, jr, i, err, rc>>
     \/ NoSpace
     \/ Fault({"card"}) /\ InstallReturns(status)
  /\ UNCHANGED <<usb, card, inserted, drawn, hist>>

(* EnsureDirectory() and FmcbRecoveryRecordSystemDirectory() or            *)
(* FmcbRecoveryRecordSysconfDirectory(): the directory is made first and   *)
(* journaled afterwards, as created or as found.                           *)
RecordedOffByOne(j, d, created) ==
  [j EXCEPT !.dirs = IF created THEN @ \cup {d + 1} ELSE @ \ {d}]
RecordedAlways(j, d, created) ==
  [j EXCEPT !.dirs = @ \cup {d}]
Recorded(j, d, created) ==
  [j EXCEPT !.dirs = IF created THEN @ \cup {d} ELSE @ \ {d}]

MakeDir == dir' = [dir EXCEPT ![inserted] = @ \cup {i}]

MakeDirectory ==
  /\ pc = "dirs" /\ i <= NDirs
  /\ \/ /\ MakeDir
        /\ \E j \in Loads :
             /\ Loaded(j)
             /\ \/ /\ j.state = "ACTIVE"
                   /\ StartSave(Recorded(j, i, i \notin dir[inserted]), "nextDir")
                \/ j.state # "ACTIVE" /\ StartRollback
     \/ /\ MakeDir \/ UNCHANGED dir
        /\ Fault({"card"}) /\ StartRollback
  /\ UNCHANGED <<usb, file, marker, inserted, drawn, hist>>

DirectoriesDone ==
  /\ pc = "dirs" /\ i > NDirs
  /\ NoFault /\ Loop("files", 1)
  /\ UNCHANGED <<usb, card, inserted, drawn, hist>>

-----------------------------------------------------------------------------
(* One destination: backup, journal, source, delete, write, verify.        *)

(* preserve_existing_cnfs, decided at inventory time *)
Skipped(f) == opt.preserve /\ f \in Cnf /\ f \in inv

SkipFile ==
  /\ pc = "files" /\ i <= NFiles /\ Skipped(i)
  /\ NoFault /\ Loop("files", i + 1)
  /\ UNCHANGED <<usb, card, inserted, drawn, hist>>

(* CaptureCardFileToMass(): the temporary file replaces bNN.bin only after *)
(* it was read back; zero-byte and missing destinations have no backup.    *)
BackedUp(c) == backup' = IF HasBackup(c) THEN [backup EXCEPT ![i] = c] ELSE backup

(* FmcbRecoveryCaptureTarget() *)
CapturedWithoutBackup(c) == UNCHANGED backup
Captured(c) == BackedUp(c)

Capture ==
  /\ pc = "files" /\ i <= NFiles /\ ~Skipped(i)
  /\ LET c == file[inserted][i] IN
     \/ \E j \in Loads :
          /\ Loaded(j)
          /\ \/ /\ j.state = "ACTIVE" /\ Captured(c)
                /\ StartSave([j EXCEPT !.entry[i] = c], "source")
             \/ j.state # "ACTIVE" /\ StartRollback /\ UNCHANGED backup
     \/ /\ Fault({"card", "usb"})
        /\ BackedUp(c) \/ backup' = [backup EXCEPT ![i] = "none"]
        /\ StartRollback
  /\ UNCHANGED <<slot, token, card, inserted, drawn, hist>>

FilesDone ==
  /\ pc = "files" /\ i > NFiles
  /\ NoFault /\ Loop("finish", 0)
  /\ UNCHANGED <<usb, card, inserted, drawn, hist>>

(* The inventory is compared with what was captured (-4620); then the      *)
(* source is read and, for a KELF, bound to the card.                      *)
Source ==
  /\ pc = "source"
  /\ LET same == (jr.entry[i] # "absent") <=> (i \in inv) IN
     \/ /\ same /\ NoFault
        /\ pc' = "wipe" /\ jr' = AbsentSlot
        /\ UNCHANGED <<goal, by, k, status, i, err, inv, opt, rc>>
     \/ ~same /\ NoFault /\ StartRollback
     \/ Fault({"usb", "card"}) /\ StartRollback
  /\ UNCHANGED <<usb, card, inserted, drawn, hist>>

(* WriteCardFile(): delete, create, write, flush and close. *)
Wipe ==
  /\ pc = "wipe"
  /\ \/ PutFile("absent") /\ NoFault /\ Step("write")
     \/ UNCHANGED file /\ Fault({"card"}) /\ StartRollback
  /\ UNCHANGED <<usb, dir, marker, inserted, drawn, hist>>

WriteOpen ==
  /\ pc = "write"
  /\ \/ /\ DirOf[i] \in dir[inserted]
        /\ PutFile("bad") /\ NoFault /\ Step("writeData")
     \/ /\ DirOf[i] \notin dir[inserted]
        /\ UNCHANGED file /\ NoFault /\ StartRollback
     \/ UNCHANGED file /\ Fault({"card"}) /\ StartRollback
  /\ UNCHANGED <<usb, dir, marker, inserted, drawn, hist>>

(* Fault "silent": every call succeeds and the card holds something else.  *)
WriteData ==
  /\ pc = "writeData"
  /\ \/ PutFile("new") /\ NoFault /\ Step("verify")
     \/ UNCHANGED file /\ Fault({"silent"}) /\ Step("verify")
     \/ /\ UNCHANGED file \/ PutFile("new")
        /\ Fault({"card"}) /\ StartRollback
  /\ UNCHANGED <<usb, dir, marker, inserted, drawn, hist>>

MustVerifyRequired(f) == opt.verify # "off" /\ f \in Required
MustVerify(f) ==
  opt.verify = "enforced" \/ (opt.verify = "required" /\ f \in Required)

(* VerifyCardFile(), or its omission under the chosen policy. *)
Verify ==
  /\ pc = "verify"
  /\ \/ /\ MustVerify(i) => file[inserted][i] = "new"
        /\ NoFault /\ Loop("files", i + 1)
     \/ /\ MustVerify(i) /\ file[inserted][i] # "new"
        /\ NoFault /\ StartRollback
     \/ MustVerify(i) /\ Fault({"card"}) /\ StartRollback
  /\ UNCHANGED <<usb, card, inserted, drawn, hist>>

-----------------------------------------------------------------------------
(* The dashboard and the environment *)

Starts(g) ==
  /\ pc = "idle"
  /\ pc' = "probe" /\ goal' = g
  /\ NoFault
  /\ UNCHANGED <<by, k, status, jr, i, err, inv, opt>>
  /\ UNCHANGED <<usb, card, inserted, hist>>

(* RunVerifiedInstaller(), RunPendingRecovery(): both refresh the recovery *)
(* status first.                                                           *)
UiInstall ==
  Starts("install") /\ drawn < MaxTokens /\ rc' = "none" /\ UNCHANGED drawn
UiRecover ==
  Starts("recover") /\ Latest.seq < MaxSeq /\ rc' = "none" /\ UNCHANGED drawn
UiRefresh ==
  Starts("idle") /\ UNCHANGED <<drawn, rc>>

(* Everything in RAM is lost; USB stick and cards keep what they hold. *)
PowerCut ==
  /\ pc # "off"
  /\ Fault({"power"})
  /\ pc' = "off" /\ goal' = "idle" /\ status' = NoStatus /\ rc' = "none"
  /\ DropLocals /\ DropInstall
  /\ UNCHANGED <<usb, card, inserted, drawn, hist>>

(* main() refreshes the recovery status before the dashboard is shown. *)
Boot ==
  /\ pc = "off"
  /\ NoFault /\ Step("probe")
  /\ UNCHANGED <<usb, card, inserted, drawn, hist>>

SwapCard ==
  /\ pc \in SwapPoints \cup {"off"}
  /\ inserted' \in Cards \ {inserted}
  /\ NoFault
  /\ UNCHANGED <<usb, card, ctl, drawn, hist>>

-----------------------------------------------------------------------------
Init ==
  /\ slot = [s \in Slots |-> AbsentSlot]
  /\ backup = NoEntries
  /\ token = NoToken
  /\ file \in [Cards -> [Files -> InitialContents]]
  /\ dir \in [Cards -> SUBSET Dirs]
  /\ \A c \in Cards, f \in Files : file[c][f] # "absent" => DirOf[f] \in dir[c]
  /\ marker \in [Cards -> InitialMarkers]
  /\ inserted \in Cards
  /\ pc = "idle" /\ goal = "idle" /\ by = "-" /\ k = "-"
  /\ status = NoStatus
  /\ jr = AbsentSlot /\ i = 0 /\ err = "ok"
  /\ inv = {} /\ opt = NoOptions
  /\ rc = "none"
  /\ faults = 0 /\ drawn = 0
  /\ hist = [open |-> FALSE, committed |-> FALSE, card |-> inserted,
             file |-> file[inserted], dir |-> dir[inserted]]

SaveNext == SaveOpen \/ SaveWrite \/ SaveFails
RemoveNext == RemoveBackup \/ RemoveJournal0 \/ RemoveJournal1
ClearNext == ClearMarker \/ ClearRefused \/ ClearToken
ProbeNext == Probe \/ Reconcile \/ TryDiscard \/ DiscardToken
ArmNext ==
  \/ Begin \/ ArmCheck \/ ArmTokenOpen \/ ArmTokenWrite
  \/ ArmMarkerOpen \/ ArmMarkerWrite \/ ArmUndo \/ ArmDropMarker \/ ArmDropToken
InstallNext ==
  \/ Inventory \/ MakeDirectory \/ DirectoriesDone \/ SkipFile \/ Capture
  \/ FilesDone \/ Source \/ Wipe \/ WriteOpen \/ WriteData \/ Verify \/ Finish
RunNext ==
  \/ Run \/ RunCheck \/ Restore \/ RestoreWrite \/ RestoreVerify
  \/ RestoreDone \/ RemoveDirectory \/ RollbackDone

Program ==
  \/ SaveNext \/ RemoveNext \/ ClearNext \/ ProbeNext
  \/ ArmNext \/ InstallNext \/ RunNext

Next ==
  \/ Program
  \/ UiInstall \/ UiRecover \/ UiRefresh
  \/ PowerCut \/ Boot \/ SwapCard

Spec == Init /\ [][Next]_vars

(* The program runs to the next dashboard, and the user switches the       *)
(* console on again.                                                       *)
Fairness == WF_vars(Program) /\ WF_vars(Boot)
FairSpec == Spec /\ Fairness
=============================================================================
