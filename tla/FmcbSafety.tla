----------------------------- MODULE FmcbSafety -----------------------------
(***************************************************************************)
(* What must be true of the FMCB installer and its recovery: the           *)
(* invariants, action properties, liveness and the refinement of           *)
(* AtomicInstall.                                                          *)
(***************************************************************************)
EXTENDS FmcbTransaction

Pcs ==
  {"idle", "off", "probe", "reconcile", "tryDiscard", "dropToken", "inventory",
   "begin", "save", "saveWrite", "arm", "armToken", "armTokenWrite",
   "armMarker", "armMarkerWrite", "undo", "dropMarker", "dirs", "files",
   "source", "wipe", "write", "writeData", "verify", "finish", "run",
   "runCheck", "restore", "restoreWrite", "restoreVerify", "rmDirs",
   "rmBackup", "rmJournal1", "clear", "clearToken"}

Continuations ==
  {"-", "arm", "nextDir", "source", "restore", "undoKeep", "undoDrop", "finish",
   "reconcile", "discarded", "dropToken", "clearDiscard", "run"}

Errors == {"none", "ok", "io", "E5144", "E5169", "badBackup"}

Tokens == {n \in Int : n >= NoToken}

Status ==
  [state : {"none", "corrupt", "valid"}, prepared : BOOLEAN, seq : Nat]

Options == [preserve : BOOLEAN, verify : {"off", "required", "enforced"}]

History ==
  [open : BOOLEAN, committed : BOOLEAN, card : Cards,
   file : [Files -> Content], dir : SUBSET Dirs]

(* Every variable has its type, in every reachable state. *)
UsbOK ==
  /\ slot \in [Slots -> Journal]
  /\ backup \in [Files -> Entry]
  /\ token \in Tokens
CardsOK ==
  /\ file \in [Cards -> [Files -> Content]]
  /\ dir \in [Cards -> SUBSET Dirs]
  /\ marker \in [Cards -> Tokens]
  /\ inserted \in Cards
CtlOK ==
  /\ pc \in Pcs
  /\ goal \in {"idle", "install", "recover"}
  /\ by \in {"-", "probe", "begin", "run"}
  /\ k \in Continuations
  /\ status \in Status
  /\ jr \in Journal
  /\ i \in Nat
  /\ err \in Errors
  /\ inv \in SUBSET Files
  /\ opt \in Options
  /\ rc \in Errors
HistoryOK ==
  /\ faults \in Nat
  /\ drawn \in Nat
  /\ hist \in History
TypeOK == UsbOK /\ CardsOK /\ CtlOK /\ HistoryOK

-----------------------------------------------------------------------------
(* Safety *)

(* FmcbRecoveryCheckCard(), the order of FmcbRecoveryArmCard() and the     *)
(* order of the cleanup: a destination is only ever written, by the        *)
(* installer or by a rollback, on the card that carries the token of this  *)
(* transaction, and that card is the one the journal was captured from,    *)
(* whatever was cut off, rebooted, swapped or failed before.               *)
WritesArmedCard ==
  /\ token >= Foreign /\ marker[inserted] = token
  /\ inserted = hist.card
  /\ \A c \in Cards \ {inserted} : file'[c] = file[c]
OnlyArmedCardWritten == [][file' # file => WritesArmedCard]_vars

(* FmcbRecoveryCaptureTarget() before WriteCardFile(): whenever an armed   *)
(* transaction has not ended, every destination that differs from what the *)
(* card held before it is in the newest valid journal with that content,   *)
(* and its backup is intact.                                               *)
Recoverable ==
  hist.open =>
    \A f \in Files :
      file[hist.card][f] # hist.file[f] =>
        /\ JournalValid(Latest)
        /\ Latest.entry[f] = hist.file[f]
        /\ HasBackup(hist.file[f]) => backup[f] = hist.file[f]

(* slot = sequence & 1 in SaveJournal(): whatever happens while a journal  *)
(* is being written, the one it replaces stays readable in the other slot. *)
SaveKeepsNewest ==
  pc \in {"save", "saveWrite"} /\ k # "arm" =>
    JournalValid(Latest) /\ Latest.seq \in {jr.seq - 1, jr.seq}

(* FmcbInstallCrossRegionTransactional() calls FmcbRecoveryFinish() only   *)
(* when every destination it had to verify holds the new bytes and every   *)
(* preserved FREEMCB.CNF is untouched.                                     *)
CommitMeansInstalled ==
  pc = "finish" \/ (pc \in {"save", "saveWrite"} /\ k = "finish") =>
    \A f \in Files :
      IF Skipped(f)
        THEN file[inserted][f] = hist.file[f]
        ELSE opt.verify = "enforced" \/ (opt.verify = "required" /\ f \in Required) =>
               file[inserted][f] = "new"

(* "Every prepared destination was restored to its captured pre-install    *)
(* state and the USB recovery journal was removed" (RunPendingRecovery):   *)
(* when FmcbRecoveryRun() returns 0 and nothing was committed, that is so. *)
ReportedRestored ==
  rc = "ok" /\ ~hist.committed =>
    /\ file[hist.card] = hist.file
    /\ token = NoToken
    /\ pc \in {"probe", "idle"} => ~JournalValid(Latest)

(* RefreshRecoveryStatus() after every failure and at every start: while a *)
(* card holds part of an installation, the dashboard never says that       *)
(* nothing is pending.                                                     *)
PendingShown ==
  pc = "idle" /\ hist.open /\ file[hist.card] # hist.file =>
    status.state # "none"

(* A directory that was there before the transaction is never removed, and *)
(* a rollback removes none that still holds something.                     *)
DirectoriesKept ==
  /\ hist.open => hist.dir \subseteq dir[hist.card]
  /\ \A c \in Cards, f \in Files : file[c][f] # "absent" => DirOf[f] \in dir[c]

(* "A power cut during cleanup must not turn a good installation into an   *)
(* apparent rollback request" (ProbeRecoverySourceRoot): once an install   *)
(* was committed, the dashboard offers no recovery of it.                  *)
CommittedNotResurrected ==
  pc = "idle" /\ hist.committed => ~status.prepared

(* "Interrupted or failed FMCB transactions are recoverable from a         *)
(* persistent journal" (README.md): a requested recovery is not refused    *)
(* with -5144 because the transaction captured nothing yet.                *)
NoRecoveryRefused == rc # "E5144"

(* "The operation is idempotent and can be re-run after another            *)
(* interruption" (FmcbRecoveryRun): a rollback never finds a journal whose *)
(* backup is gone.                                                         *)
RecoveryIsIdempotent == rc # "badBackup"

-----------------------------------------------------------------------------
(* Refinement of AtomicInstall: while a journal stands, a card with its    *)
(* token counts as holding what the journal would restore.                 *)

Undoing(c) ==
  /\ Latest.state \in {"ACTIVE", "ROLLING_BACK"}
  /\ token >= Foreign /\ marker[c] = token

Logical ==
  [c \in Cards |-> [f \in Files |->
     IF Undoing(c) /\ Latest.entry[f] # "none" THEN Latest.entry[f] ELSE file[c][f]]]

Atomic == INSTANCE AtomicInstall WITH contents <- Logical

(* With power cuts at any point, an installation is all or nothing for     *)
(* whoever runs the recovery: the card's logical contents change in one    *)
(* step, the one that makes the COMMITTED journal complete.                *)
InstallIsAtomic == Atomic!AtomicSpec

-----------------------------------------------------------------------------
(* Liveness *)

(* The user who finds a pending transaction keeps asking for its recovery. *)
RecoveringUser == FairSpec /\ SF_vars(UiRecover)

(* Every captured transaction ends, committed or rolled back, once the     *)
(* faults stop and its card stays in the slot.                             *)
RecoveryCompletes == hist.open /\ Prepared(Latest) ~> ~hist.open

=============================================================================
