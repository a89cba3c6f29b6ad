--------------------------- MODULE FmcbTypeProofs ---------------------------
(***************************************************************************)
(* Type correctness of FmcbTransaction, for every plan, set of cards and   *)
(* set of fault kinds.  TypeOK is not inductive by itself: an action that  *)
(* uses the loop index needs to know that it is one of a destination or of *)
(* a directory, which IndexOK adds.                                        *)
(***************************************************************************)
EXTENDS FmcbSafety, TLAPS

(* Where the loop index i stands, by program counter. *)
FilePcs == {"source", "wipe", "write", "writeData", "verify", "restoreWrite", "restoreVerify"}
UpPcs   == {"dirs", "files", "rmBackup"}
SavePcs == {"save", "saveWrite"}

IndexOK ==
  /\ pc \in FilePcs => i \in Files
  /\ pc \in UpPcs => i >= 1
  /\ pc = "restore" => i \in 0 .. NFiles
  /\ pc = "rmDirs" => i \in 0 .. NDirs
  /\ pc \in SavePcs /\ k = "source" => i \in Files
  /\ pc \in SavePcs /\ k = "nextDir" => i \in Dirs
  /\ pc = "undo" => k \in {"undoKeep", "undoDrop"}
  /\ pc = "restoreWrite" =>
       jr.entry[i] = "empty" \/ (HasBackup(jr.entry[i]) /\ backup[i] = jr.entry[i])
  /\ pc = "restoreVerify" => HasBackup(jr.entry[i]) /\ backup[i] = jr.entry[i]

TypeInv == TypeOK /\ IndexOK

USE NFilesAssumption, NDirsAssumption

-----------------------------------------------------------------------------
(* What the pure definitions of FmcbJournal and the helpers return. *)

LEMMA JournalConstants ==
  /\ AbsentSlot \in Journal
  /\ TornSlot \in Journal
  /\ EmptyJournal \in Journal
  /\ NoEntries \in [Files -> Entry]
BY DEF AbsentSlot, TornSlot, EmptyJournal, NoEntries, Journal, Entry, Content, JournalStates

LEMMA LatestOfType ==
  ASSUME NEW s \in [Slots -> Journal]
  PROVE  LatestOf(s) \in Journal
BY JournalConstants DEF LatestOf, Slots

LEMMA LoadsType ==
  ASSUME UsbOK
  PROVE  Loads \subseteq Journal
<1>1. Latest \in Journal
  BY LatestOfType DEF UsbOK, Latest
<1>2. ASSUME NEW s \in Slots
      PROVE  LatestOf([slot EXCEPT ![s] = TornSlot]) \in Journal
  BY LatestOfType, JournalConstants DEF UsbOK
<1> QED
  BY <1>1, <1>2 DEF Loads

LEMMA SequenceType ==
  ASSUME NEW j \in Journal
  PROVE  [j EXCEPT !.seq = @ + 1] \in Journal
BY DEF Journal

LEMMA StatusType ==
  /\ NoStatus \in Status
  /\ CorruptStatus \in Status
  /\ \A j \in Journal : FillStatus(j) \in Status
BY DEF NoStatus, CorruptStatus, FillStatus, Status, Journal, Prepared

LEMMA OptionsType == NoOptions \in Options
BY DEF NoOptions, Options

-----------------------------------------------------------------------------
(* The control helpers: each leaves the control state well typed. *)

LEMMA StepType ==
  ASSUME CtlOK, NEW p \in Pcs, Step(p)
  PROVE  CtlOK'
BY DEF CtlOK, Step

LEMMA LoopType ==
  ASSUME CtlOK, NEW p \in Pcs, NEW n \in Nat, Loop(p, n)
  PROVE  CtlOK'
BY DEF CtlOK, Loop

LEMMA DropType ==
  ASSUME DropLocals
  PROVE  /\ by' \in {"-", "probe", "begin", "run"}
         /\ k' \in Continuations
         /\ jr' \in Journal
         /\ i' \in Nat
         /\ err' \in Errors
BY JournalConstants DEF DropLocals, Continuations, Errors

LEMMA ProbeReturnsType ==
  ASSUME CtlOK, NEW s \in Status, ProbeReturns(s)
  PROVE  CtlOK' /\ IndexOK'
<1>1. pc' \in {"inventory", "run", "idle"}
  BY DEF ProbeReturns
<1>2. goal' \in {"idle", "install", "recover"}
  BY DEF ProbeReturns, CtlOK
<1>3. DropLocals /\ status' = s /\ UNCHANGED <<inv, opt, rc>>
  BY DEF ProbeReturns
<1>4. CtlOK'
  BY <1>1, <1>2, <1>3, DropType DEF CtlOK, Pcs
<1>5. IndexOK'
  BY <1>1 DEF IndexOK, FilePcs, UpPcs, SavePcs
<1> QED
  BY <1>4, <1>5

LEMMA DropInstallType ==
  ASSUME DropInstall
  PROVE  inv' \in SUBSET Files /\ opt' \in Options
BY OptionsType DEF DropInstall

LEMMA InstallReturnsType ==
  ASSUME CtlOK, NEW s \in Status, InstallReturns(s)
  PROVE  CtlOK' /\ IndexOK'
<1>1. pc' = "probe" /\ goal' = "idle" /\ status' = s /\ rc' = rc
  BY DEF InstallReturns
<1>2. DropLocals /\ DropInstall
  BY DEF InstallReturns
<1>3. CtlOK'
  BY <1>1, <1>2, DropType, DropInstallType DEF CtlOK, Pcs
<1>4. IndexOK'
  BY <1>1 DEF IndexOK, FilePcs, UpPcs, SavePcs
<1> QED
  BY <1>3, <1>4

LEMMA RunReturnsType ==
  ASSUME CtlOK, NEW s \in Status, NEW r \in Errors, RunReturns(r, s)
  PROVE  CtlOK' /\ IndexOK'
<1>1. pc' \in {"probe", "idle"} /\ goal' = "idle" /\ status' = s /\ rc' = r
  BY DEF RunReturns
<1>2. DropLocals /\ DropInstall
  BY DEF RunReturns
<1>3. CtlOK'
  BY <1>1, <1>2, DropType, DropInstallType DEF CtlOK, Pcs
<1>4. IndexOK'
  BY <1>1 DEF IndexOK, FilePcs, UpPcs, SavePcs
<1> QED
  BY <1>3, <1>4

LEMMA StartRollbackType ==
  ASSUME CtlOK, StartRollback
  PROVE  CtlOK' /\ IndexOK'
<1>1. pc' = "run" /\ DropLocals /\ UNCHANGED <<goal, status, inv, opt, rc>>
  BY DEF StartRollback
<1>2. CtlOK'
  BY <1>1, DropType DEF CtlOK, Pcs
<1>3. IndexOK'
  BY <1>1 DEF IndexOK, FilePcs, UpPcs, SavePcs
<1> QED
  BY <1>2, <1>3

LEMMA StartSaveType ==
  ASSUME CtlOK, NEW j \in Journal, NEW cont \in Continuations,
         StartSave(j, cont),
         cont = "source" => i \in Files,
         cont = "nextDir" => i \in Dirs
  PROVE  CtlOK' /\ IndexOK'
<1>1. /\ pc' = "save" /\ k' = cont
      /\ jr' = [j EXCEPT !.seq = @ + 1]
      /\ UNCHANGED <<goal, by, status, i, err, inv, opt, rc>>
  BY DEF StartSave
<1>2. CtlOK'
  BY <1>1, SequenceType DEF CtlOK, Pcs
<1>3. IndexOK'
  BY <1>1 DEF IndexOK, FilePcs, UpPcs, SavePcs
<1> QED
  BY <1>2, <1>3

LEMMA StartRemoveType ==
  ASSUME CtlOK, NEW j \in Journal, NEW cont \in Continuations, StartRemove(j, cont)
  PROVE  CtlOK' /\ IndexOK'
<1>1. /\ pc' = "rmBackup" /\ k' = cont /\ jr' = j /\ i' = 1 /\ status' = NoStatus
      /\ UNCHANGED <<goal, by, err, inv, opt, rc>>
  BY DEF StartRemove
<1>2. CtlOK'
  BY <1>1, StatusType DEF CtlOK, Pcs
<1>3. IndexOK'
  BY <1>1 DEF IndexOK, FilePcs, UpPcs, SavePcs
<1> QED
  BY <1>2, <1>3

LEMMA StartClearType ==
  ASSUME CtlOK, NEW cont \in Continuations, StartClear(cont)
  PROVE  CtlOK' /\ IndexOK'
<1>1. /\ pc' = "clear" /\ k' = cont /\ jr' = AbsentSlot /\ i' = 0
      /\ UNCHANGED <<goal, by, status, err, inv, opt, rc>>
  BY DEF StartClear
<1>2. CtlOK'
  BY <1>1, JournalConstants DEF CtlOK, Pcs
<1>3. IndexOK'
  BY <1>1 DEF IndexOK, FilePcs, UpPcs, SavePcs
<1> QED
  BY <1>2, <1>3

LEMMA StartDiscardType ==
  ASSUME CtlOK, NEW caller \in {"probe", "begin", "run"}, NEW s \in Status,
         StartDiscard(caller, s)
  PROVE  CtlOK' /\ IndexOK'
<1>1. /\ pc' = "tryDiscard" /\ by' = caller /\ status' = s
      /\ UNCHANGED <<goal, k, jr, i, err, inv, opt, rc>>
  BY DEF StartDiscard
<1>2. CtlOK'
  BY <1>1 DEF CtlOK, Pcs
<1>3. IndexOK'
  BY <1>1 DEF IndexOK, FilePcs, UpPcs, SavePcs
<1> QED
  BY <1>2, <1>3

LEMMA DiscardReturnsType ==
  ASSUME CtlOK, NEW r \in Errors \cup {"discarded", "kept"}, NEW s \in Status,
         DiscardReturns(r, s)
  PROVE  CtlOK' /\ IndexOK'
<1>1. CASE by \in {"probe", "begin"} /\ r = "discarded"
  <2>1. /\ pc' = by /\ status' = s /\ k' = "-" /\ jr' = AbsentSlot /\ i' = 0
        /\ UNCHANGED <<goal, by, err, inv, opt, rc>>
    BY <1>1 DEF DiscardReturns
  <2>2. CtlOK'
    BY <1>1, <2>1, JournalConstants DEF CtlOK, Pcs, Continuations
  <2>3. IndexOK'
    BY <1>1, <2>1 DEF IndexOK, FilePcs, UpPcs, SavePcs
  <2> QED
    BY <2>2, <2>3
<1>2. CASE by = "probe" /\ r # "discarded"
  BY <1>2, ProbeReturnsType DEF DiscardReturns
<1>3. CASE by = "begin" /\ r # "discarded"
  BY <1>3, InstallReturnsType DEF DiscardReturns
<1>4. CASE by = "run" /\ r = "discarded"
  BY <1>4, RunReturnsType DEF DiscardReturns, Errors
<1>5. CASE by = "run" /\ r = "kept"
  <2>1. /\ pc' = "runCheck" /\ status' = s /\ DropLocals
        /\ UNCHANGED <<goal, inv, opt, rc>>
    BY <1>5 DEF DiscardReturns
  <2>2. CtlOK'
    BY <2>1, DropType DEF CtlOK, Pcs
  <2>3. IndexOK'
    BY <2>1 DEF IndexOK, FilePcs, UpPcs, SavePcs
  <2> QED
    BY <2>2, <2>3
<1>6. CASE by = "run" /\ r \notin {"discarded", "kept"}
  BY <1>6, RunReturnsType DEF DiscardReturns
<1> QED
  BY <1>1, <1>2, <1>3, <1>4, <1>5, <1>6 DEF DiscardReturns

LEMMA ClearReturnsType ==
  ASSUME CtlOK, NEW r \in Errors, ClearReturns(r)
  PROVE  CtlOK' /\ IndexOK'
<1>1. CASE k = "clearDiscard"
  <2>1. DiscardReturns(IF r = "ok" THEN "discarded" ELSE r, NoStatus)
    BY <1>1 DEF ClearReturns
  <2> QED
    BY <2>1, DiscardReturnsType, StatusType
<1>2. CASE k = "run"
  BY <1>2, RunReturnsType, StatusType DEF ClearReturns
<1>3. CASE k = "finish" /\ r = "ok"
  <2>1. /\ pc' = "idle" /\ goal' = "idle" /\ status' = NoStatus
        /\ DropLocals /\ DropInstall /\ rc' = rc
    BY <1>3 DEF ClearReturns
  <2>2. CtlOK'
    BY <2>1, DropType, DropInstallType, StatusType DEF CtlOK, Pcs
  <2>3. IndexOK'
    BY <2>1 DEF IndexOK, FilePcs, UpPcs, SavePcs
  <2> QED
    BY <2>2, <2>3
<1>4. CASE k = "finish" /\ r # "ok"
  BY <1>4, InstallReturnsType, StatusType DEF ClearReturns
<1>5. CASE k = "reconcile"
  <2>1. ProbeReturns(IF r = "ok" THEN NoStatus ELSE CorruptStatus)
    BY <1>5 DEF ClearReturns
  <2> QED
    BY <2>1, ProbeReturnsType, StatusType
<1> QED
  BY <1>1, <1>2, <1>3, <1>4, <1>5 DEF ClearReturns

LEMMA RestoreNextType ==
  ASSUME CtlOK, NEW e \in Errors, RestoreNext(e), i - 1 \in 0 .. NFiles
  PROVE  CtlOK' /\ IndexOK'
<1>1. /\ pc' = "restore" /\ i' = i - 1
      /\ err' = IF err = "ok" THEN e ELSE err
      /\ UNCHANGED <<goal, by, k, status, jr, inv, opt, rc>>
  BY DEF RestoreNext
<1>2. CtlOK'
  BY <1>1 DEF CtlOK, Pcs
<1>3. IndexOK'
  BY <1>1 DEF IndexOK, FilePcs, UpPcs, SavePcs
<1> QED
  BY <1>2, <1>3

-----------------------------------------------------------------------------
(* What single writes preserve. *)

LEMMA SavedType ==
  ASSUME UsbOK, CtlOK, SavedJournal
  PROVE  slot' \in [Slots -> Journal]
BY DEF UsbOK, CtlOK, SavedJournal

LEMMA SavedHistoryType ==
  ASSUME HistoryOK, HistAfterSave
  PROVE  hist' \in History
BY DEF HistoryOK, HistAfterSave, Committed, History

LEMMA LoadedFaults ==
  ASSUME NEW j, Loaded(j)
  PROVE  faults' \in {faults, faults + 1}
BY DEF Loaded, Fault, NoFault

LEMMA PutFileType ==
  ASSUME CardsOK, NEW c \in Content, PutFile(c)
  PROVE  file' \in [Cards -> [Files -> Content]]
BY DEF CardsOK, PutFile

-----------------------------------------------------------------------------
(* One lemma per group of actions of Next, one step per action. *)

(* SaveJournal() *)
LEMMA SaveType ==
  ASSUME TypeInv, SaveNext
  PROVE  TypeInv'
<1>0. UsbOK /\ CardsOK /\ CtlOK /\ HistoryOK /\ IndexOK
  BY DEF TypeInv, TypeOK
<1>1. CASE SaveOpen
  <2>1. UsbOK' /\ CardsOK' /\ HistoryOK'
    <3>1. UsbOK'
      <4>1. PICK s \in Journal : slot' = [slot EXCEPT ![SlotOf(jr.seq)] = s]
        BY <1>1, JournalConstants DEF SaveOpen
      <4> QED
        BY <1>1, <1>0, <4>1 DEF SaveOpen, UsbOK
    <3>2. CardsOK'
      BY <1>1, <1>0 DEF SaveOpen, CardsOK, card, usb, card
    <3>3. HistoryOK'
      BY <1>1, <1>0 DEF SaveOpen, NoFault, HistoryOK, usb, card
    <3> QED
      BY <3>1, <3>2, <3>3
  <2>2. CtlOK' /\ IndexOK'
    <3>1. CtlOK'
      BY <1>1, <1>0, StepType DEF SaveOpen, Pcs
    <3>2. IndexOK'
      BY <1>1, <1>0 DEF SaveOpen, Step, IndexOK, FilePcs, UpPcs, SavePcs
    <3> QED
      BY <3>1, <3>2
  <2> QED
    BY <2>1, <2>2 DEF TypeInv, TypeOK
<1>2. CASE SaveWrite
  <2>1. UsbOK' /\ CardsOK' /\ HistoryOK'
    BY <1>2, <1>0
    DEF SaveWrite, SavedJournal, HistAfterSave, Committed, History, Slots, NoFault, CtlOK, UsbOK, CardsOK, HistoryOK, usb, card
  <2>2. CtlOK' /\ IndexOK'
    <3>1. jr \in Journal /\ FillStatus(jr) \in Status /\ i \in Nat /\ jr.seq \in Nat
      BY <1>0, StatusType DEF CtlOK, Journal
    <3>2. CASE k = "arm"
      BY <1>2, <1>0, <3>1, <3>2, DropType DEF SaveWrite, CtlOK, Pcs, IndexOK, FilePcs, UpPcs, SavePcs
    <3>3. CASE k = "nextDir"
      <4>1. /\ pc' = "dirs" /\ i' = i + 1 /\ status' = [status EXCEPT !.seq = jr.seq]
            /\ jr' = AbsentSlot /\ k' = "-"
            /\ UNCHANGED <<goal, by, err, inv, opt, rc>>
        BY <1>2, <3>3 DEF SaveWrite
      <4>2. status' \in Status
        BY <1>0, <3>1, <4>1 DEF CtlOK, Status
      <4> QED
        BY <1>0, <3>1, <4>1, <4>2, JournalConstants DEF CtlOK, Pcs, Continuations, IndexOK, FilePcs, UpPcs, SavePcs
    <3>4. CASE k = "source"
      BY <1>2, <1>0, <3>1, <3>4 DEF SaveWrite, CtlOK, Pcs, Continuations, IndexOK, FilePcs, UpPcs, SavePcs
    <3>5. CASE k = "restore"
      <4>1. /\ pc' = "restore" /\ i' = NFiles /\ status' = [status EXCEPT !.seq = jr.seq]
            /\ k' = "-" /\ UNCHANGED <<goal, by, jr, err, inv, opt, rc>>
        BY <1>2, <3>5 DEF SaveWrite
      <4>2. status' \in Status
        BY <1>0, <3>1, <4>1 DEF CtlOK, Status
      <4> QED
        BY <1>0, <4>1, <4>2 DEF CtlOK, Pcs, Continuations, IndexOK, FilePcs, UpPcs, SavePcs
    <3>6. CASE k \in {"undoKeep", "undoDrop", "finish"}
      BY <1>2, <1>0, <3>1, <3>6, StartRemoveType DEF SaveWrite, CtlOK
    <3> QED
      BY <1>2, <3>2, <3>3, <3>4, <3>5, <3>6 DEF SaveWrite
  <2> QED
    BY <2>1, <2>2 DEF TypeInv, TypeOK
<1>3. CASE SaveFails
  <2>1. UsbOK' /\ CardsOK' /\ HistoryOK'
    <3>1. UsbOK'
      BY <1>3, <1>0, SavedType DEF SaveFails, UsbOK, usb, usb, card
    <3>2. CardsOK'
      BY <1>3, <1>0 DEF SaveFails, CardsOK, card, usb, card
    <3>3. HistoryOK'
      BY <1>3, <1>0, SavedHistoryType DEF SaveFails, Fault, HistoryOK, usb, card
    <3> QED
      BY <3>1, <3>2, <3>3
  <2>2. CtlOK' /\ IndexOK'
    <3>1. status \in Status /\ "io" \in Errors
      BY <1>0 DEF CtlOK, Errors
    <3>2. CASE InstallReturns(status) \/ StartRollback \/ RunReturns("io", status)
      BY <1>0, <3>1, <3>2, InstallReturnsType, StartRollbackType, RunReturnsType
    <3>3. CASE k = "undoDrop" /\ Step("dropMarker")
      <4>1. CtlOK'
        BY <1>0, <3>3, StepType DEF Pcs
      <4>2. IndexOK'
        BY <3>3 DEF Step, IndexOK, FilePcs, UpPcs, SavePcs
      <4> QED
        BY <4>1, <4>2
    <3> QED
      BY <1>3, <3>2, <3>3 DEF SaveFails
  <2> QED
    BY <2>1, <2>2 DEF TypeInv, TypeOK
<1> QED
  BY <1>1, <1>2, <1>3 DEF SaveNext

(* RemoveRecoveryFiles() *)
LEMMA RemoveType ==
  ASSUME TypeInv, RemoveNext
  PROVE  TypeInv'
<1>0. UsbOK /\ CardsOK /\ CtlOK /\ HistoryOK /\ IndexOK
  BY DEF TypeInv, TypeOK
<1>1. CASE RemoveBackup
  <2>1. UsbOK' /\ CardsOK' /\ HistoryOK'
    <3>1. UsbOK'
      BY <1>1, <1>0 DEF RemoveBackup, Removed, Entry, UsbOK, usb, usb, card
    <3>2. CardsOK'
      BY <1>1, <1>0 DEF RemoveBackup, CardsOK, card, usb, card
    <3>3. HistoryOK'
      BY <1>1, <1>0 DEF RemoveBackup, Removed, Fault, NoFault, HistoryOK, usb, card
    <3> QED
      BY <3>1, <3>2, <3>3
  <2>2. CtlOK' /\ IndexOK'
    <3>1. CtlOK'
      BY <1>1, <1>0, LoopType DEF RemoveBackup, CtlOK, Pcs
    <3>2. IndexOK'
      BY <1>1, <1>0 DEF RemoveBackup, Loop, CtlOK, IndexOK, FilePcs, UpPcs, SavePcs
    <3> QED
      BY <3>1, <3>2
  <2> QED
    BY <2>1, <2>2 DEF TypeInv, TypeOK
<1>2. CASE RemoveJournal0
  <2>1. UsbOK' /\ CardsOK' /\ HistoryOK'
    BY <1>2, <1>0, JournalConstants
    DEF RemoveJournal0, Removed, Fault, NoFault, Slots, UsbOK, CardsOK, HistoryOK, usb, card
  <2>2. CtlOK' /\ IndexOK'
    <3>1. CtlOK'
      BY <1>2, <1>0, StepType DEF RemoveJournal0, Pcs
    <3>2. IndexOK'
      BY <1>2, <1>0 DEF RemoveJournal0, Step, IndexOK, FilePcs, UpPcs, SavePcs
    <3> QED
      BY <3>1, <3>2
  <2> QED
    BY <2>1, <2>2 DEF TypeInv, TypeOK
<1>3. CASE RemoveJournal1
  <2>1. UsbOK' /\ CardsOK' /\ HistoryOK'
    BY <1>3, <1>0, JournalConstants
    DEF RemoveJournal1, Removed, Fault, NoFault, Slots, UsbOK, CardsOK, HistoryOK, usb, card
  <2>2. CtlOK' /\ IndexOK'
    <3>1. CASE k \in {"reconcile", "dropToken", "undoDrop"}
      <4>1. \E p \in {"reconcile", "dropToken", "dropMarker"} : Loop(p, 0)
        BY <1>3, <3>1 DEF RemoveJournal1
      <4>2. CtlOK'
        BY <1>0, <4>1, LoopType DEF Pcs
      <4>3. IndexOK'
        BY <4>1 DEF Loop, IndexOK, FilePcs, UpPcs, SavePcs
      <4> QED
        BY <4>2, <4>3
    <3>2. CASE k = "discarded"
      BY <1>3, <1>0, <3>2, DiscardReturnsType, StatusType DEF RemoveJournal1
    <3>3. CASE k = "undoKeep"
      BY <1>3, <1>0, <3>3, InstallReturnsType, StatusType DEF RemoveJournal1
    <3>4. CASE k \in {"clearDiscard", "run", "finish"}
      BY <1>3, <1>0, <3>4, StartClearType DEF RemoveJournal1, Continuations
    <3> QED
      BY <1>3, <3>1, <3>2, <3>3, <3>4 DEF RemoveJournal1
  <2> QED
    BY <2>1, <2>2 DEF TypeInv, TypeOK
<1> QED
  BY <1>1, <1>2, <1>3 DEF RemoveNext

(* FmcbRecoveryClearCardMarker() *)
LEMMA ClearType ==
  ASSUME TypeInv, ClearNext
  PROVE  TypeInv'
<1>0. UsbOK /\ CardsOK /\ CtlOK /\ HistoryOK /\ IndexOK
  BY DEF TypeInv, TypeOK
<1>1. CASE ClearMarker
  <2>1. UsbOK' /\ CardsOK' /\ HistoryOK'
    BY <1>1, <1>0
    DEF ClearMarker, NoFault, Tokens, NoToken, UsbOK, CardsOK, HistoryOK, usb, card
  <2>2. CtlOK' /\ IndexOK'
    <3>1. CtlOK'
      BY <1>1, <1>0, StepType DEF ClearMarker, Pcs
    <3>2. IndexOK'
      BY <1>1, <1>0 DEF ClearMarker, Step, IndexOK, FilePcs, UpPcs, SavePcs
    <3> QED
      BY <3>1, <3>2
  <2> QED
    BY <2>1, <2>2 DEF TypeInv, TypeOK
<1>2. CASE ClearRefused
  <2>1. UsbOK' /\ CardsOK' /\ HistoryOK'
    BY <1>2, <1>0
    DEF ClearRefused, Fault, NoFault, UsbOK, CardsOK, HistoryOK, usb, card
  <2>2. CtlOK' /\ IndexOK'
    BY <1>2, <1>0, ClearReturnsType DEF ClearRefused, Errors
  <2> QED
    BY <2>1, <2>2 DEF TypeInv, TypeOK
<1>3. CASE ClearToken
  <2>1. UsbOK' /\ CardsOK' /\ HistoryOK'
    BY <1>3, <1>0
    DEF ClearToken, Fault, NoFault, Tokens, NoToken, UsbOK, CardsOK, HistoryOK, usb, card
  <2>2. CtlOK' /\ IndexOK'
    BY <1>3, <1>0, ClearReturnsType DEF ClearToken, Errors
  <2> QED
    BY <2>1, <2>2 DEF TypeInv, TypeOK
<1> QED
  BY <1>1, <1>2, <1>3 DEF ClearNext

(* The probe, the discard of an empty journal and the residual token *)
LEMMA ProbeType ==
  ASSUME TypeInv, ProbeNext
  PROVE  TypeInv'
<1>0. UsbOK /\ CardsOK /\ CtlOK /\ HistoryOK /\ IndexOK
  BY DEF TypeInv, TypeOK
<1>1. CASE Probe
  <2>1. UsbOK' /\ CardsOK' /\ HistoryOK'
    BY <1>1, <1>0
    DEF Probe, Loaded, Fault, NoFault, UsbOK, CardsOK, HistoryOK, usb, card
  <2>2. CtlOK' /\ IndexOK'
    <3>1. PICK j \in Loads : \/ /\ j.state = "absent"
                              /\ pc' = "reconcile" /\ status' = NoStatus
                              /\ UNCHANGED <<goal, by, k, jr, i, err, inv, opt, rc>>
                           \/ ProbeReturns(CorruptStatus)
                           \/ StartRemove(j, "reconcile")
                           \/ ProbeReturns(FillStatus(j))
                           \/ StartDiscard("probe", FillStatus(j))
      BY <1>1 DEF Probe
    <3>2. j \in Journal /\ FillStatus(j) \in Status
      BY <1>0, <3>1, LoadsType, StatusType
    <3>3. CASE pc' = "reconcile" /\ status' = NoStatus
               /\ UNCHANGED <<goal, by, k, jr, i, err, inv, opt, rc>>
      BY <1>0, <3>3, StatusType DEF CtlOK, Pcs, IndexOK, FilePcs, UpPcs, SavePcs
    <3> QED
      BY <1>0, <3>1, <3>2, <3>3, StatusType, ProbeReturnsType, StartRemoveType,
         StartDiscardType DEF Continuations
  <2> QED
    BY <2>1, <2>2 DEF TypeInv, TypeOK
<1>2. CASE Reconcile
  <2>1. UsbOK' /\ CardsOK' /\ HistoryOK'
    BY <1>2, <1>0
    DEF Reconcile, Fault, NoFault, UsbOK, CardsOK, HistoryOK, usb, card
  <2>2. CtlOK' /\ IndexOK'
    BY <1>2, <1>0, ProbeReturnsType, StartClearType, StatusType DEF Reconcile, Continuations
  <2> QED
    BY <2>1, <2>2 DEF TypeInv, TypeOK
<1>3. CASE TryDiscard
  <2>1. UsbOK' /\ CardsOK' /\ HistoryOK'
    BY <1>3, <1>0
    DEF TryDiscard, DiscardEmptyJournal, Loaded, Fault, NoFault, UsbOK, CardsOK, HistoryOK, usb, card
  <2>2. CtlOK' /\ IndexOK'
    <3>1. status \in Status
      BY <1>0 DEF CtlOK
    <3>2. CASE \E r \in {"io", "kept"} : DiscardReturns(r, status)
      BY <1>0, <3>1, <3>2, DiscardReturnsType DEF Errors
    <3>3. CASE \E c \in {"discarded", "dropToken", "clearDiscard"} : DiscardEmptyJournal(c)
      <4>1. PICK c \in {"discarded", "dropToken", "clearDiscard"}, j \in Loads :
               StartRemove(j, c) \/ \E r \in {"E5144", "io"} : DiscardReturns(r, status)
        BY <3>3 DEF DiscardEmptyJournal
      <4>2. j \in Journal
        BY <1>0, <4>1, LoadsType
      <4> QED
        BY <1>0, <3>1, <4>1, <4>2, StartRemoveType, DiscardReturnsType DEF Continuations, Errors
    <3> QED
      BY <1>3, <3>2, <3>3 DEF TryDiscard
  <2> QED
    BY <2>1, <2>2 DEF TypeInv, TypeOK
<1>4. CASE DiscardToken
  <2>1. UsbOK' /\ CardsOK' /\ HistoryOK'
    BY <1>4, <1>0
    DEF DiscardToken, Fault, NoFault, Tokens, NoToken, UsbOK, CardsOK, HistoryOK, usb, card
  <2>2. CtlOK' /\ IndexOK'
    BY <1>4, <1>0, DiscardReturnsType, StatusType DEF DiscardToken, Errors
  <2> QED
    BY <2>1, <2>2 DEF TypeInv, TypeOK
<1> QED
  BY <1>1, <1>2, <1>3, <1>4 DEF ProbeNext

(* __wrap_FmcbRecoveryBegin() and FmcbRecoveryArmCard() *)
LEMMA ArmType ==
  ASSUME TypeInv, ArmNext
  PROVE  TypeInv'
<1>0. UsbOK /\ CardsOK /\ CtlOK /\ HistoryOK /\ IndexOK
  BY DEF TypeInv, TypeOK
<1>1. CASE Begin
  <2>1. UsbOK' /\ CardsOK' /\ HistoryOK'
    BY <1>1, <1>0
    DEF Begin, Loaded, Fault, NoFault, UsbOK, CardsOK, HistoryOK, usb, card
  <2>2. CtlOK' /\ IndexOK'
    <3>1. status \in Status
      BY <1>0 DEF CtlOK
    <3>2. CASE InstallReturns(status)
      BY <1>0, <3>1, <3>2, InstallReturnsType
    <3>3. CASE \E j \in Loads : \/ StartDiscard("begin", FillStatus(j))
                                \/ InstallReturns(FillStatus(j))
                                \/ InstallReturns(CorruptStatus)
                                \/ StartSave(EmptyJournal, "arm")
      <4>1. \A j \in Loads : j \in Journal /\ FillStatus(j) \in Status
        BY <1>0, LoadsType, StatusType
      <4> QED
        BY <1>0, <3>3, <4>1, StartDiscardType, InstallReturnsType, StartSaveType,
           StatusType, JournalConstants DEF Continuations
    <3> QED
      BY <1>1, <3>2, <3>3 DEF Begin
  <2> QED
    BY <2>1, <2>2 DEF TypeInv, TypeOK
<1>2. CASE ArmCheck
  <2>1. UsbOK' /\ CardsOK' /\ HistoryOK'
    BY <1>2, <1>0
    DEF ArmCheck, Fault, NoFault, UsbOK, CardsOK, HistoryOK, usb, card
  <2>2. CtlOK' /\ IndexOK'
    <3>1. CASE Step("armToken")
      <4>1. CtlOK'
        BY <1>0, <3>1, StepType, LoopType DEF Pcs
      <4>2. IndexOK'
        BY <3>1 DEF Step, Loop, IndexOK, FilePcs, UpPcs, SavePcs
      <4> QED
        BY <4>1, <4>2
    <3>2. CASE \E c \in {"undoKeep", "undoDrop"} : ArmFails(c)
      BY <1>0, <3>2 DEF ArmFails, CtlOK, Pcs, Continuations, IndexOK, FilePcs, UpPcs, SavePcs
    <3> QED
      BY <1>2, <3>1, <3>2 DEF ArmCheck
  <2> QED
    BY <2>1, <2>2 DEF TypeInv, TypeOK
<1>3. CASE ArmTokenOpen
  <2>1. UsbOK' /\ CardsOK' /\ HistoryOK'
    BY <1>3, <1>0
    DEF ArmTokenOpen, NoFault, Tokens, NoToken, TornToken, UsbOK, CardsOK, HistoryOK, usb, card
  <2>2. CtlOK' /\ IndexOK'
    <3>1. CtlOK'
      BY <1>3, <1>0, StepType DEF ArmTokenOpen, Pcs
    <3>2. IndexOK'
      BY <1>3, <1>0 DEF ArmTokenOpen, Step, IndexOK, FilePcs, UpPcs, SavePcs
    <3> QED
      BY <3>1, <3>2
  <2> QED
    BY <2>1, <2>2 DEF TypeInv, TypeOK
<1>4. CASE ArmTokenWrite
  <2>1. UsbOK' /\ CardsOK' /\ HistoryOK'
    BY <1>4, <1>0
    DEF ArmTokenWrite, Fault, NoFault, Tokens, NoToken, TornToken, UsbOK, CardsOK, HistoryOK, usb, card
  <2>2. CtlOK' /\ IndexOK'
    <3>1. CASE Step("armMarker")
      <4>1. CtlOK'
        BY <1>0, <3>1, StepType, LoopType DEF Pcs
      <4>2. IndexOK'
        BY <3>1 DEF Step, Loop, IndexOK, FilePcs, UpPcs, SavePcs
      <4> QED
        BY <4>1, <4>2
    <3>2. CASE \E c \in {"undoKeep", "undoDrop"} : ArmFails(c)
      BY <1>0, <3>2 DEF ArmFails, CtlOK, Pcs, Continuations, IndexOK, FilePcs, UpPcs, SavePcs
    <3> QED
      BY <1>4, <3>1, <3>2 DEF ArmTokenWrite
  <2> QED
    BY <2>1, <2>2 DEF TypeInv, TypeOK
<1>5. CASE ArmMarkerOpen
  <2>1. UsbOK' /\ CardsOK' /\ HistoryOK'
    BY <1>5, <1>0
    DEF ArmMarkerOpen, NoFault, Tokens, NoToken, TornToken, UsbOK, CardsOK, HistoryOK, usb, card
  <2>2. CtlOK' /\ IndexOK'
    <3>1. CtlOK'
      BY <1>5, <1>0, StepType DEF ArmMarkerOpen, Pcs
    <3>2. IndexOK'
      BY <1>5, <1>0 DEF ArmMarkerOpen, Step, IndexOK, FilePcs, UpPcs, SavePcs
    <3> QED
      BY <3>1, <3>2
  <2> QED
    BY <2>1, <2>2 DEF TypeInv, TypeOK
<1>6. CASE ArmMarkerWrite
  <2>1. UsbOK' /\ CardsOK' /\ HistoryOK'
    BY <1>6, <1>0
    DEF ArmMarkerWrite, Fault, NoFault, Tokens, NoToken, TornToken, Armed, History, UsbOK, CardsOK, HistoryOK, usb, card
  <2>2. CtlOK' /\ IndexOK'
    <3>1. CASE Loop("dirs", 1)
      <4>1. CtlOK'
        BY <1>0, <3>1, StepType, LoopType DEF Pcs
      <4>2. IndexOK'
        BY <3>1 DEF Step, Loop, IndexOK, FilePcs, UpPcs, SavePcs
      <4> QED
        BY <4>1, <4>2
    <3>2. CASE \E c \in {"undoKeep", "undoDrop"} : ArmFails(c)
      BY <1>0, <3>2 DEF ArmFails, CtlOK, Pcs, Continuations, IndexOK, FilePcs, UpPcs, SavePcs
    <3> QED
      BY <1>6, <3>1, <3>2 DEF ArmMarkerWrite
  <2> QED
    BY <2>1, <2>2 DEF TypeInv, TypeOK
<1>7. CASE ArmUndo
  <2>1. UsbOK' /\ CardsOK' /\ HistoryOK'
    BY <1>7, <1>0
    DEF ArmUndo, Loaded, Fault, NoFault, UsbOK, CardsOK, HistoryOK, usb, card
  <2>2. CtlOK' /\ IndexOK'
    <3>1. status \in Status
      BY <1>0 DEF CtlOK
    <3>2. CASE InstallReturns(status)
      BY <1>0, <3>1, <3>2, InstallReturnsType
    <3>3. CASE Step("dropMarker")
      <4>1. CtlOK'
        BY <1>0, <3>3, StepType DEF Pcs
      <4>2. IndexOK'
        BY <3>3 DEF Step, IndexOK, FilePcs, UpPcs, SavePcs
      <4> QED
        BY <4>1, <4>2
    <3>4. CASE \E j \in Loads : JournalValid(j) /\ StartSave([j EXCEPT !.state = "ROLLING_BACK"], k)
      <4>1. PICK j \in Loads : StartSave([j EXCEPT !.state = "ROLLING_BACK"], k)
        BY <3>4
      <4>2. [j EXCEPT !.state = "ROLLING_BACK"] \in Journal
        BY <1>0, <4>1, LoadsType DEF Journal, JournalStates
      <4>3. k \in Continuations /\ k \notin {"source", "nextDir"}
        BY <1>7, <1>0 DEF ArmUndo, CtlOK, IndexOK
      <4> QED
        BY <1>0, <4>1, <4>2, <4>3, StartSaveType
    <3> QED
      BY <1>7, <3>2, <3>3, <3>4 DEF ArmUndo
  <2> QED
    BY <2>1, <2>2 DEF TypeInv, TypeOK
<1>8. CASE ArmDropMarker
  <2>1. UsbOK' /\ CardsOK' /\ HistoryOK'
    BY <1>8, <1>0
    DEF ArmDropMarker, Fault, NoFault, Tokens, NoToken, UsbOK, CardsOK, HistoryOK, usb, card
  <2>2. CtlOK' /\ IndexOK'
    <3>1. CtlOK'
      BY <1>8, <1>0, LoopType DEF ArmDropMarker, Pcs
    <3>2. IndexOK'
      BY <1>8, <1>0 DEF ArmDropMarker, Loop, IndexOK, FilePcs, UpPcs, SavePcs
    <3> QED
      BY <3>1, <3>2
  <2> QED
    BY <2>1, <2>2 DEF TypeInv, TypeOK
<1>9. CASE ArmDropToken
  <2>1. UsbOK' /\ CardsOK' /\ HistoryOK'
    BY <1>9, <1>0
    DEF ArmDropToken, Fault, NoFault, Tokens, NoToken, UsbOK, CardsOK, HistoryOK, usb, card
  <2>2. CtlOK' /\ IndexOK'
    BY <1>9, <1>0, InstallReturnsType DEF ArmDropToken, CtlOK
  <2> QED
    BY <2>1, <2>2 DEF TypeInv, TypeOK
<1> QED
  BY <1>1, <1>2, <1>3, <1>4, <1>5, <1>6, <1>7, <1>8, <1>9 DEF ArmNext

(* The installer *)
LEMMA InstallType ==
  ASSUME TypeInv, InstallNext
  PROVE  TypeInv'
<1>0. UsbOK /\ CardsOK /\ CtlOK /\ HistoryOK /\ IndexOK
  BY DEF TypeInv, TypeOK
<1>1. CASE Inventory
  <2>1. UsbOK' /\ CardsOK' /\ HistoryOK'
    BY <1>1, <1>0
    DEF Inventory, NoSpace, Fault, NoFault, UsbOK, CardsOK, HistoryOK, usb, card
  <2>2. CtlOK' /\ IndexOK'
    <3>1. status \in Status
      BY <1>0 DEF CtlOK
    <3>2. CASE InstallReturns(status)
      BY <1>0, <3>1, <3>2, InstallReturnsType
    <3>3. CASE /\ opt' \in [preserve : BOOLEAN, verify : VerifyModes] /\ inv' = Existing
               /\ pc' = "begin" /\ UNCHANGED <<goal, by, k, status, jr, i, err, rc>>
      <4>1. opt' \in Options /\ inv' \in SUBSET Files
        BY <3>3, VerifyAssumption DEF Options, Existing
      <4> QED
        BY <1>0, <3>3, <4>1 DEF CtlOK, Pcs, IndexOK, FilePcs, UpPcs, SavePcs
    <3> QED
      BY <1>1, <3>2, <3>3 DEF Inventory, NoSpace
  <2> QED
    BY <2>1, <2>2 DEF TypeInv, TypeOK
<1>2. CASE MakeDirectory
  <2>1. UsbOK' /\ CardsOK' /\ HistoryOK'
    BY <1>2, <1>0
    DEF MakeDirectory, MakeDir, Loaded, Dirs, CtlOK, UpPcs, IndexOK, Fault, NoFault, UsbOK, CardsOK, HistoryOK, usb, card
  <2>2. CtlOK' /\ IndexOK'
    <3>1. CASE StartRollback
      BY <1>0, <3>1, StartRollbackType
    <3>2. CASE \E j \in Loads : StartSave(Recorded(j, i, i \notin dir[inserted]), "nextDir")
      <4>1. PICK j \in Loads : StartSave(Recorded(j, i, i \notin dir[inserted]), "nextDir")
        BY <3>2
      <4>2. i \in Dirs
        BY <1>2, <1>0 DEF MakeDirectory, CtlOK, Dirs, Files, IndexOK, FilePcs, UpPcs, SavePcs
      <4>3. Recorded(j, i, i \notin dir[inserted]) \in Journal
        <5>1. j \in Journal
          BY <1>0, <4>1, LoadsType
        <5>2. file[inserted][i] \in Entry \/ i \in Dirs
          BY <1>0, <4>2 DEF CardsOK, Entry
        <5> QED
          BY <4>2, <5>1, <5>2 DEF Recorded, Journal
      <4> QED
        BY <1>0, <4>1, <4>2, <4>3, StartSaveType DEF Continuations
    <3> QED
      BY <1>2, <3>1, <3>2 DEF MakeDirectory
  <2> QED
    BY <2>1, <2>2 DEF TypeInv, TypeOK
<1>3. CASE DirectoriesDone
  <2>1. UsbOK' /\ CardsOK' /\ HistoryOK'
    BY <1>3, <1>0
    DEF DirectoriesDone, NoFault, UsbOK, CardsOK, HistoryOK, usb, card
  <2>2. CtlOK' /\ IndexOK'
    <3>1. CtlOK'
      BY <1>3, <1>0, LoopType DEF DirectoriesDone, Pcs
    <3>2. IndexOK'
      BY <1>3, <1>0 DEF DirectoriesDone, Loop, IndexOK, FilePcs, UpPcs, SavePcs
    <3> QED
      BY <3>1, <3>2
  <2> QED
    BY <2>1, <2>2 DEF TypeInv, TypeOK
<1>4. CASE SkipFile
  <2>1. UsbOK' /\ CardsOK' /\ HistoryOK'
    BY <1>4, <1>0
    DEF SkipFile, NoFault, UsbOK, CardsOK, HistoryOK, usb, card
  <2>2. CtlOK' /\ IndexOK'
    <3>1. CtlOK'
      BY <1>4, <1>0, LoopType DEF SkipFile, CtlOK, Pcs
    <3>2. IndexOK'
      BY <1>4, <1>0 DEF SkipFile, Loop, CtlOK, IndexOK, FilePcs, UpPcs, SavePcs
    <3> QED
      BY <3>1, <3>2
  <2> QED
    BY <2>1, <2>2 DEF TypeInv, TypeOK
<1>5. CASE Capture
  <2>1. UsbOK' /\ CardsOK' /\ HistoryOK'
    <3>1. UsbOK'
      <4>1. \/ backup' = backup
            \/ \E e \in {file[inserted][i], "none"} : backup' = [backup EXCEPT ![i] = e]
        BY <1>5 DEF Capture, Captured, BackedUp
      <4>2. i \in Files
        BY <1>5, <1>0 DEF Capture, CtlOK, Files, UpPcs, IndexOK
      <4>3. file[inserted][i] \in Entry /\ "none" \in Entry
        BY <1>0, <4>2 DEF CardsOK, Entry
      <4> QED
        BY <1>5, <1>0, <4>1, <4>3 DEF Capture, UsbOK
    <3>2. CardsOK'
      BY <1>5, <1>0 DEF Capture, CardsOK, card, usb, card
    <3>3. HistoryOK'
      <4>1. faults' \in {faults, faults + 1}
        BY <1>5, LoadedFaults DEF Capture, Fault, NoFault
      <4>2. drawn' = drawn /\ hist' = hist
        BY <1>5 DEF Capture
      <4> QED
        BY <1>0, <4>1, <4>2 DEF HistoryOK
    <3> QED
      BY <3>1, <3>2, <3>3
  <2>2. CtlOK' /\ IndexOK'
    <3>1. CASE StartRollback
      BY <1>0, <3>1, StartRollbackType
    <3>2. CASE \E j \in Loads : StartSave([j EXCEPT !.entry[i] = file[inserted][i]], "source")
      <4>1. PICK j \in Loads : StartSave([j EXCEPT !.entry[i] = file[inserted][i]], "source")
        BY <3>2
      <4>2. i \in Files
        BY <1>5, <1>0 DEF Capture, CtlOK, Dirs, Files, IndexOK, FilePcs, UpPcs, SavePcs
      <4>3. [j EXCEPT !.entry[i] = file[inserted][i]] \in Journal
        <5>1. j \in Journal
          BY <1>0, <4>1, LoadsType
        <5>2. file[inserted][i] \in Entry
          BY <1>0, <4>2 DEF CardsOK, Entry
        <5> QED
          BY <4>2, <5>1, <5>2 DEF Recorded, Journal
      <4> QED
        BY <1>0, <4>1, <4>2, <4>3, StartSaveType DEF Continuations
    <3> QED
      BY <1>5, <3>1, <3>2 DEF Capture
  <2> QED
    BY <2>1, <2>2 DEF TypeInv, TypeOK
<1>6. CASE FilesDone
  <2>1. UsbOK' /\ CardsOK' /\ HistoryOK'
    BY <1>6, <1>0
    DEF FilesDone, NoFault, UsbOK, CardsOK, HistoryOK, usb, card
  <2>2. CtlOK' /\ IndexOK'
    <3>1. CtlOK'
      BY <1>6, <1>0, LoopType DEF FilesDone, Pcs
    <3>2. IndexOK'
      BY <1>6, <1>0 DEF FilesDone, Loop, IndexOK, FilePcs, UpPcs, SavePcs
    <3> QED
      BY <3>1, <3>2
  <2> QED
    BY <2>1, <2>2 DEF TypeInv, TypeOK
<1>7. CASE Source
  <2>1. UsbOK' /\ CardsOK' /\ HistoryOK'
    BY <1>7, <1>0
    DEF Source, Fault, NoFault, UsbOK, CardsOK, HistoryOK, usb, card
  <2>2. CtlOK' /\ IndexOK'
    <3>1. CASE StartRollback
      BY <1>0, <3>1, StartRollbackType
    <3>2. CASE /\ pc' = "wipe" /\ jr' = AbsentSlot
               /\ UNCHANGED <<goal, by, k, status, i, err, inv, opt, rc>>
      BY <1>7, <1>0, <3>2, JournalConstants DEF Source, CtlOK, Pcs, IndexOK, FilePcs, UpPcs, SavePcs
    <3> QED
      BY <1>7, <3>1, <3>2 DEF Source
  <2> QED
    BY <2>1, <2>2 DEF TypeInv, TypeOK
<1>8. CASE Wipe
  <2>1. UsbOK' /\ CardsOK' /\ HistoryOK'
    BY <1>8, <1>0
    DEF Wipe, PutFile, Content, FilePcs, IndexOK, Fault, NoFault, UsbOK, CardsOK, HistoryOK, usb, card
  <2>2. CtlOK' /\ IndexOK'
    <3>1. CASE StartRollback
      BY <1>0, <3>1, StartRollbackType
    <3>2. CASE Step("write")
      <4>1. CtlOK'
        BY <1>8, <1>0, <3>2, StepType, LoopType DEF Wipe, CtlOK, Pcs
      <4>2. IndexOK'
        BY <1>8, <1>0, <3>2 DEF Wipe, Step, Loop, CtlOK, Files, IndexOK, FilePcs, UpPcs, SavePcs
      <4> QED
        BY <4>1, <4>2
    <3> QED
      BY <1>8, <3>1, <3>2 DEF Wipe
  <2> QED
    BY <2>1, <2>2 DEF TypeInv, TypeOK
<1>9. CASE WriteOpen
  <2>1. UsbOK' /\ CardsOK' /\ HistoryOK'
    <3>1. UsbOK'
      BY <1>9, <1>0 DEF WriteOpen, UsbOK, usb, usb, card
    <3>2. CardsOK'
      BY <1>9, <1>0, PutFileType DEF WriteOpen, Content, CardsOK, card, usb, card
    <3>3. HistoryOK'
      BY <1>9, <1>0 DEF WriteOpen, Fault, NoFault, HistoryOK, usb, card
    <3> QED
      BY <3>1, <3>2, <3>3
  <2>2. CtlOK' /\ IndexOK'
    <3>1. CASE StartRollback
      BY <1>0, <3>1, StartRollbackType
    <3>2. CASE Step("writeData")
      <4>1. CtlOK'
        BY <1>9, <1>0, <3>2, StepType, LoopType DEF WriteOpen, CtlOK, Pcs
      <4>2. IndexOK'
        BY <1>9, <1>0, <3>2 DEF WriteOpen, Step, Loop, CtlOK, Files, IndexOK, FilePcs, UpPcs, SavePcs
      <4> QED
        BY <4>1, <4>2
    <3> QED
      BY <1>9, <3>1, <3>2 DEF WriteOpen
  <2> QED
    BY <2>1, <2>2 DEF TypeInv, TypeOK
<1>10. CASE WriteData
  <2>1. UsbOK' /\ CardsOK' /\ HistoryOK'
    <3>1. UsbOK'
      BY <1>10, <1>0 DEF WriteData, UsbOK, usb, usb, card
    <3>2. CardsOK'
      BY <1>10, <1>0, PutFileType DEF WriteData, Content, CardsOK, card, usb, card
    <3>3. HistoryOK'
      BY <1>10, <1>0 DEF WriteData, Fault, NoFault, HistoryOK, usb, card
    <3> QED
      BY <3>1, <3>2, <3>3
  <2>2. CtlOK' /\ IndexOK'
    <3>1. CASE StartRollback
      BY <1>0, <3>1, StartRollbackType
    <3>2. CASE Step("verify")
      <4>1. CtlOK'
        BY <1>10, <1>0, <3>2, StepType, LoopType DEF WriteData, CtlOK, Pcs
      <4>2. IndexOK'
        BY <1>10, <1>0, <3>2 DEF WriteData, Step, Loop, CtlOK, Files, IndexOK, FilePcs, UpPcs, SavePcs
      <4> QED
        BY <4>1, <4>2
    <3> QED
      BY <1>10, <3>1, <3>2 DEF WriteData
  <2> QED
    BY <2>1, <2>2 DEF TypeInv, TypeOK
<1>11. CASE Verify
  <2>1. UsbOK' /\ CardsOK' /\ HistoryOK'
    BY <1>11, <1>0
    DEF Verify, Fault, NoFault, UsbOK, CardsOK, HistoryOK, usb, card
  <2>2. CtlOK' /\ IndexOK'
    <3>1. CASE StartRollback
      BY <1>0, <3>1, StartRollbackType
    <3>2. CASE Loop("files", i + 1)
      <4>1. CtlOK'
        BY <1>11, <1>0, <3>2, StepType, LoopType DEF Verify, CtlOK, Pcs
      <4>2. IndexOK'
        BY <1>11, <1>0, <3>2 DEF Verify, Step, Loop, CtlOK, Files, IndexOK, FilePcs, UpPcs, SavePcs
      <4> QED
        BY <4>1, <4>2
    <3> QED
      BY <1>11, <3>1, <3>2 DEF Verify
  <2> QED
    BY <2>1, <2>2 DEF TypeInv, TypeOK
<1>12. CASE Finish
  <2>1. UsbOK' /\ CardsOK' /\ HistoryOK'
    <3>1. UsbOK'
      BY <1>12, <1>0 DEF Finish, UsbOK, usb, usb, card
    <3>2. CardsOK'
      BY <1>12, <1>0 DEF Finish, CardsOK, card, usb, card
    <3>3. HistoryOK'
      <4>1. faults' \in {faults, faults + 1}
        BY <1>12, LoadedFaults DEF Finish, Fault, NoFault
      <4>2. drawn' = drawn /\ hist' = hist
        BY <1>12 DEF Finish
      <4> QED
        BY <1>0, <4>1, <4>2 DEF HistoryOK
    <3> QED
      BY <3>1, <3>2, <3>3
  <2>2. CtlOK' /\ IndexOK'
    <3>1. status \in Status
      BY <1>0 DEF CtlOK
    <3>2. CASE InstallReturns(status)
      BY <1>0, <3>1, <3>2, InstallReturnsType
    <3>3. CASE \E j \in Loads : StartSave([j EXCEPT !.state = "COMMITTED"], "finish")
      <4>1. PICK j \in Loads : StartSave([j EXCEPT !.state = "COMMITTED"], "finish")
        BY <3>3
      <4>2. [j EXCEPT !.state = "COMMITTED"] \in Journal
        BY <1>0, <4>1, LoadsType DEF Journal, JournalStates
      <4> QED
        BY <1>0, <4>1, <4>2, StartSaveType DEF Continuations
    <3> QED
      BY <1>12, <3>2, <3>3 DEF Finish
  <2> QED
    BY <2>1, <2>2 DEF TypeInv, TypeOK
<1> QED
  BY <1>1, <1>2, <1>3, <1>4, <1>5, <1>6, <1>7, <1>8, <1>9, <1>10, <1>11, <1>12 DEF InstallNext

(* __wrap_FmcbRecoveryRun() *)
LEMMA RunType ==
  ASSUME TypeInv, RunNext
  PROVE  TypeInv'
<1>0. UsbOK /\ CardsOK /\ CtlOK /\ HistoryOK /\ IndexOK
  BY DEF TypeInv, TypeOK
<1>1. CASE Run
  <2>1. UsbOK' /\ CardsOK' /\ HistoryOK'
    BY <1>1, <1>0
    DEF Run, NoFault, UsbOK, CardsOK, HistoryOK, usb, card
  <2>2. CtlOK' /\ IndexOK'
    <3>1. CASE Step("runCheck")
      <4>1. CtlOK'
        BY <1>0, <3>1, StepType DEF Pcs
      <4>2. IndexOK'
        BY <3>1 DEF Step, IndexOK, FilePcs, UpPcs, SavePcs
      <4> QED
        BY <4>1, <4>2
    <3>2. CASE StartDiscard("run", status)
      BY <1>0, <3>2, StartDiscardType DEF CtlOK
    <3> QED
      BY <1>1, <3>1, <3>2 DEF Run
  <2> QED
    BY <2>1, <2>2 DEF TypeInv, TypeOK
<1>2. CASE RunCheck
  <2>1. UsbOK' /\ CardsOK' /\ HistoryOK'
    <3>1. UsbOK'
      BY <1>2, <1>0 DEF RunCheck, UsbOK, usb, usb, card
    <3>2. CardsOK'
      BY <1>2, <1>0 DEF RunCheck, CardsOK, card, usb, card
    <3>3. HistoryOK'
      <4>1. faults' \in {faults, faults + 1}
        BY <1>2, LoadedFaults DEF RunCheck, Fault, NoFault
      <4>2. drawn' = drawn /\ hist' = hist
        BY <1>2 DEF RunCheck
      <4> QED
        BY <1>0, <4>1, <4>2 DEF HistoryOK
    <3> QED
      BY <3>1, <3>2, <3>3
  <2>2. CtlOK' /\ IndexOK'
    <3>1. status \in Status
      BY <1>0 DEF CtlOK
    <3>2. CASE \E r \in {"io", "E5169"} : RunReturns(r, status)
      BY <1>0, <3>1, <3>2, RunReturnsType DEF Errors
    <3>3. CASE \E j \in Loads : \/ StartRemove(j, "run")
                                \/ StartSave([j EXCEPT !.state = "ROLLING_BACK"], "restore")
      <4>1. \A j \in Loads : j \in Journal /\ [j EXCEPT !.state = "ROLLING_BACK"] \in Journal
        BY <1>0, LoadsType DEF Journal, JournalStates
      <4> QED
        BY <1>0, <3>3, <4>1, StartRemoveType, StartSaveType DEF Continuations
    <3> QED
      BY <1>2, <3>2, <3>3 DEF RunCheck
  <2> QED
    BY <2>1, <2>2 DEF TypeInv, TypeOK
<1>3. CASE Restore
  <2>1. UsbOK' /\ CardsOK' /\ HistoryOK'
    <3>1. UsbOK'
      BY <1>3, <1>0 DEF Restore, UsbOK, usb, usb, card
    <3>2. CardsOK'
      BY <1>3, <1>0, PutFileType DEF Restore, Content, CardsOK, card, usb, card
    <3>3. HistoryOK'
      BY <1>3, <1>0 DEF Restore, Fault, NoFault, HistoryOK, usb, card
    <3> QED
      BY <3>1, <3>2, <3>3
  <2>2. CtlOK' /\ IndexOK'
    <3>0. i \in Files /\ i - 1 \in 0 .. NFiles
      BY <1>3, <1>0 DEF Restore, IndexOK, Files
    <3>1. CASE \E e \in {"ok", "io", "badBackup"} : RestoreNext(e)
      BY <1>0, <3>0, <3>1, RestoreNextType DEF Errors
    <3>2. CASE /\ Step("restoreWrite") /\ backup' = backup
               /\ jr.entry[i] = "empty" \/ (HasBackup(jr.entry[i]) /\ backup[i] = jr.entry[i])
      <4>1. CtlOK'
        BY <1>0, <3>2, StepType DEF Pcs
      <4>2. IndexOK'
        BY <1>0, <3>0, <3>2 DEF Step, HasBackup, IndexOK, FilePcs, UpPcs, SavePcs
      <4> QED
        BY <4>1, <4>2
    <3> QED
      BY <1>3, <3>1, <3>2 DEF Restore, usb
  <2> QED
    BY <2>1, <2>2 DEF TypeInv, TypeOK
<1>4. CASE RestoreWrite
  <2>1. UsbOK' /\ CardsOK' /\ HistoryOK'
    <3>1. UsbOK'
      BY <1>4, <1>0 DEF RestoreWrite, UsbOK, usb, usb, card
    <3>2. CardsOK'
      BY <1>4, <1>0, PutFileType DEF RestoreWrite, Content, CardsOK, card, usb, card
    <3>3. HistoryOK'
      BY <1>4, <1>0 DEF RestoreWrite, Fault, NoFault, HistoryOK, usb, card
    <3> QED
      BY <3>1, <3>2, <3>3
  <2>2. CtlOK' /\ IndexOK'
    <3>0. i \in Files /\ i - 1 \in 0 .. NFiles
      BY <1>4, <1>0 DEF RestoreWrite, IndexOK, FilePcs, Files
    <3>1. CASE \E e \in {"ok", "io"} : RestoreNext(e)
      BY <1>0, <3>0, <3>1, RestoreNextType DEF Errors
    <3>2. CASE Step("restoreVerify") /\ HasBackup(jr.entry[i]) /\ backup' = backup /\ backup[i] = jr.entry[i]
      <4>1. CtlOK'
        BY <1>0, <3>2, StepType DEF Pcs
      <4>2. IndexOK'
        BY <1>0, <3>0, <3>2 DEF Step, IndexOK, FilePcs, UpPcs, SavePcs
      <4> QED
        BY <4>1, <4>2
    <3>3. jr.entry[i] # "empty" => HasBackup(jr.entry[i]) /\ backup[i] = jr.entry[i]
      BY <1>4, <1>0 DEF RestoreWrite, IndexOK
    <3> QED
      BY <1>4, <3>1, <3>2, <3>3 DEF RestoreWrite, usb
  <2> QED
    BY <2>1, <2>2 DEF TypeInv, TypeOK
<1>5. CASE RestoreVerify
  <2>1. UsbOK' /\ CardsOK' /\ HistoryOK'
    <3>1. i \in Files /\ backup[i] \in Content
      BY <1>5, <1>0 DEF RestoreVerify, UsbOK, Entry, HasBackup, IndexOK, FilePcs
    <3>2. UsbOK'
      BY <1>5, <1>0 DEF RestoreVerify, UsbOK, usb
    <3>3. CardsOK'
      <4>1. file' = file \/ PutFile(backup[i])
        BY <1>5 DEF RestoreVerify
      <4> QED
        BY <1>5, <1>0, <3>1, <4>1, PutFileType DEF RestoreVerify, CardsOK
    <3>4. HistoryOK'
      BY <1>5, <1>0 DEF RestoreVerify, Fault, NoFault, HistoryOK
    <3> QED
      BY <3>2, <3>3, <3>4
  <2>2. CtlOK' /\ IndexOK'
    <3>0. i \in Files /\ i - 1 \in 0 .. NFiles
      BY <1>5, <1>0 DEF RestoreVerify, IndexOK, FilePcs, Files
    <3> QED
      BY <1>5, <1>0, <3>0, RestoreNextType DEF RestoreVerify, Errors
  <2> QED
    BY <2>1, <2>2 DEF TypeInv, TypeOK
<1>6. CASE RestoreDone
  <2>1. UsbOK' /\ CardsOK' /\ HistoryOK'
    BY <1>6, <1>0
    DEF RestoreDone, NoFault, UsbOK, CardsOK, HistoryOK, usb, card
  <2>2. CtlOK' /\ IndexOK'
    <3>1. CASE Loop("rmDirs", NDirs)
      <4>1. CtlOK'
        BY <1>0, <3>1, LoopType DEF Pcs
      <4>2. IndexOK'
        BY <3>1 DEF Loop, IndexOK, FilePcs, UpPcs, SavePcs
      <4> QED
        BY <4>1, <4>2
    <3>2. CASE RunReturns(err, status)
      BY <1>0, <3>2, RunReturnsType DEF CtlOK
    <3> QED
      BY <1>6, <3>1, <3>2 DEF RestoreDone
  <2> QED
    BY <2>1, <2>2 DEF TypeInv, TypeOK
<1>7. CASE RemoveDirectory
  <2>1. UsbOK' /\ CardsOK' /\ HistoryOK'
    BY <1>7, <1>0
    DEF RemoveDirectory, Fault, NoFault, UsbOK, CardsOK, HistoryOK, usb, card
  <2>2. CtlOK' /\ IndexOK'
    <3>1. CASE Loop("rmDirs", i - 1)
      <4>1. i - 1 \in 0 .. NDirs /\ i - 1 \in Nat
        BY <1>7, <1>0 DEF RemoveDirectory, IndexOK, CtlOK
      <4>2. CtlOK'
        BY <1>0, <3>1, <4>1, LoopType DEF Pcs
      <4>3. IndexOK'
        BY <3>1, <4>1 DEF Loop, IndexOK, FilePcs, UpPcs, SavePcs
      <4> QED
        BY <4>2, <4>3
    <3>2. CASE RunReturns("io", status)
      BY <1>0, <3>2, RunReturnsType DEF CtlOK, Errors
    <3> QED
      BY <1>7, <3>1, <3>2 DEF RemoveDirectory
  <2> QED
    BY <2>1, <2>2 DEF TypeInv, TypeOK
<1>8. CASE RollbackDone
  <2>1. UsbOK' /\ CardsOK' /\ HistoryOK'
    BY <1>8, <1>0
    DEF RollbackDone, NoFault, History, UsbOK, CardsOK, HistoryOK, usb, card
  <2>2. CtlOK' /\ IndexOK'
    BY <1>8, <1>0, StartRemoveType DEF RollbackDone, CtlOK, Continuations
  <2> QED
    BY <2>1, <2>2 DEF TypeInv, TypeOK
<1> QED
  BY <1>1, <1>2, <1>3, <1>4, <1>5, <1>6, <1>7, <1>8 DEF RunNext

(* The dashboard and the environment *)
LEMMA EnvironmentType ==
  ASSUME TypeInv, UiInstall \/ UiRecover \/ UiRefresh \/ PowerCut \/ Boot \/ SwapCard
  PROVE  TypeInv'
<1>0. UsbOK /\ CardsOK /\ CtlOK /\ HistoryOK /\ IndexOK
  BY DEF TypeInv, TypeOK
<1>1. CASE \E g \in {"install", "recover", "idle"} :
             Starts(g) /\ drawn' = drawn /\ rc' \in {rc, "none"}
  <2>1. UsbOK' /\ CardsOK' /\ HistoryOK'
    BY <1>0, <1>1 DEF Starts, NoFault, UsbOK, CardsOK, HistoryOK, usb, card
  <2>2. CtlOK'
    BY <1>0, <1>1 DEF Starts, CtlOK, Pcs, Errors
  <2>3. IndexOK'
    BY <1>1 DEF Starts, IndexOK, FilePcs, UpPcs, SavePcs
  <2> QED
    BY <2>1, <2>2, <2>3 DEF TypeInv, TypeOK
<1>2. CASE PowerCut
  <2>1. UsbOK' /\ CardsOK' /\ HistoryOK'
    BY <1>0, <1>2 DEF PowerCut, Fault, UsbOK, CardsOK, HistoryOK, usb, card
  <2>2. CtlOK'
    BY <1>0, <1>2, DropType, DropInstallType, StatusType DEF PowerCut, CtlOK, Pcs, Errors
  <2>3. IndexOK'
    BY <1>2 DEF PowerCut, IndexOK, FilePcs, UpPcs, SavePcs
  <2> QED
    BY <2>1, <2>2, <2>3 DEF TypeInv, TypeOK
<1>3. CASE Boot
  <2>1. UsbOK' /\ CardsOK' /\ HistoryOK'
    BY <1>0, <1>3 DEF Boot, NoFault, UsbOK, CardsOK, HistoryOK, usb, card
  <2>2. CtlOK'
    BY <1>0, <1>3, StepType DEF Boot, Pcs
  <2>3. IndexOK'
    BY <1>3 DEF Boot, Step, IndexOK, FilePcs, UpPcs, SavePcs
  <2> QED
    BY <2>1, <2>2, <2>3 DEF TypeInv, TypeOK
<1>4. CASE SwapCard
  BY <1>0, <1>4 DEF SwapCard, NoFault, TypeInv, TypeOK, UsbOK, CardsOK, CtlOK, HistoryOK,
     IndexOK, usb, card, ctl
<1> QED
  BY <1>1, <1>2, <1>3, <1>4 DEF UiInstall, UiRecover, UiRefresh

LEMMA TypeInit == Init => TypeInv
<1> SUFFICES ASSUME Init PROVE TypeInv
  OBVIOUS
<1>1. UsbOK
  BY JournalConstants DEF Init, UsbOK, NoEntries, Entry, Tokens, NoToken, Slots
<1>2. CardsOK
  <2>1. InitialContents \subseteq Content
    BY InitialContentsAssumption DEF Content
  <2>2. InitialMarkers \subseteq Tokens
    BY InitialMarkersAssumption DEF Tokens, NoToken, Foreign
  <2> QED
    BY <2>1, <2>2 DEF Init, CardsOK
<1>3. CtlOK
  BY JournalConstants, StatusType, OptionsType DEF Init, CtlOK, Pcs, Continuations, Errors
<1>4. HistoryOK
  BY <1>2 DEF Init, HistoryOK, History, CardsOK
<1>5. IndexOK
  BY DEF Init, IndexOK, FilePcs, UpPcs, SavePcs
<1> QED
  BY <1>1, <1>2, <1>3, <1>4, <1>5 DEF TypeInv, TypeOK

LEMMA TypeStutter == TypeInv /\ UNCHANGED vars => TypeInv'
BY DEF TypeInv, TypeOK, UsbOK, CardsOK, CtlOK, HistoryOK, IndexOK, HasBackup,
   vars, usb, card, ctl

(* TypeInv is inductive. *)
THEOREM TypeInvariance == Spec => []TypeInv
<1>1. TypeInv /\ [Next]_vars => TypeInv'
  <2> SUFFICES ASSUME TypeInv, [Next]_vars PROVE TypeInv'
    OBVIOUS
  <2>1. CASE SaveNext       BY <2>1, SaveType
  <2>2. CASE RemoveNext     BY <2>2, RemoveType
  <2>3. CASE ClearNext      BY <2>3, ClearType
  <2>4. CASE ProbeNext      BY <2>4, ProbeType
  <2>5. CASE ArmNext        BY <2>5, ArmType
  <2>6. CASE InstallNext    BY <2>6, InstallType
  <2>7. CASE RunNext        BY <2>7, RunType
  <2>8. CASE UiInstall \/ UiRecover \/ UiRefresh \/ PowerCut \/ Boot \/ SwapCard
    BY <2>8, EnvironmentType
  <2>9. CASE UNCHANGED vars
    BY <2>9, TypeStutter
  <2> QED
    BY <2>1, <2>2, <2>3, <2>4, <2>5, <2>6, <2>7, <2>8, <2>9 DEF Next, Program
<1> QED
  BY <1>1, TypeInit, PTL DEF Spec

(* Every variable of the installer and its recovery keeps its type, for    *)
(* every plan, every set of cards and every kind of fault.                 *)
THEOREM TypeCorrect == Spec => []TypeOK
BY TypeInvariance, PTL DEF TypeInv
=============================================================================
